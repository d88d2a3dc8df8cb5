CONSTANTS
    i1 = i1
    i2 = i2
    Item = {i1, i2}
    Alt = Alt
    Nil = Nil
    Limits = {1}
    MaxFew = 1
    FanoutChunk = 2
    MaxCalls = 1
SPECIFICATION FairSpec
PROPERTIES WatchReturns NoGoroutineLeaks
CHECK_DEADLOCK FALSE
