--------------------------- MODULE WatchSetProofs ---------------------------
(* Theorems about WatchSet, for any channels, limits, thresholds and number  *)
(* of calls.                                                                 *)
EXTENDS WatchSet, TLAPS

\* A goroutine of the call will report, or has: the wait is about to end.
Reported(c) ==
    \/ c \in trigger
    \/ \E g \in workers : g.call = c /\ g.at = "send"

\* Every channel of the set has a goroutine, or is still to be given to one.
Spread(c) ==
    \A ch \in set : ch \in rest[c] \/ \E g \in workers : g.call = c /\ ch \in g.chunk

\* The fan-out loses no channel on its way from the set to the goroutines.
FanOut ==
    \A c \in Call :
        /\ pc[c] = "check" => rest[c] = set
        /\ pc[c] \in {"spawn", "wait"} => Reported(c) \/ Spread(c)
        /\ pc[c] = "wait" => rest[c] = {}
        /\ c \in stopped => pc[c] = "returned"
        /\ rest[c] \subseteq set

\* Whoever reports has seen a channel of the set closed.
Witnessed ==
    /\ \A g \in workers : g.chunk \subseteq set /\ (g.at = "send" => Fired(g.chunk))
    /\ \A c \in trigger : Fired(set)

\* A call without a result is one that has not returned.
Results ==
    /\ \A c \in Call : result[c] # "none" => pc[c] = "returned"
    /\ ResultIsReal

IInv == TypeOK /\ FanOut /\ Witnessed /\ Results

LEMMA InitIInv == Init => IInv
  BY DEF Init, IInv, TypeOK, FanOut, Witnessed, Results, ResultIsReal, Reported, Spread,
         Worker, Fired

\* What is closed stays closed, and what is in the set stays in it.
LEMMA FiredStays ==
    ASSUME NEW S, NEW T, S \subseteq T, closed \subseteq closed', S \cap closed # {}
    PROVE  T \cap closed' # {}
  OBVIOUS

----------------------------------------------------------------------------
(* The set changes only while no call reads it.                              *)

LEMMA GrowKeepsIInv ==
    ASSUME IInv, Unread, NEW ch \in Chan, NEW x \in Chan,
           set' = set \cup {x}, wanted' = wanted \cup {ch},
           UNCHANGED <<world, mine, team>>
    PROVE  IInv'
<1> USE DEF world, mine, team
<1>1. TypeOK'
  BY DEF IInv, TypeOK
<1>2. FanOut'
  BY DEF IInv, FanOut, Unread
<1>3. Witnessed'
  BY DEF IInv, Witnessed, Fired
<1>4. Results'
  BY DEF IInv, Results, ResultIsReal, Fired
<1> QED BY <1>1, <1>2, <1>3, <1>4 DEF IInv

LEMMA SetSteps ==
    ASSUME IInv, NEW ch \in Chan,
           Add(ch) \/ \E limit \in Limits : ch \in Item /\ AddWithLimit(limit, ch)
    PROVE  IInv'
<1>1. CASE Add(ch)
  BY <1>1, GrowKeepsIInv DEF Add
<1>2. ASSUME NEW limit \in Limits, AddWithLimit(limit, ch) PROVE IInv'
  <2> DEFINE x == IF Cardinality(set) < limit THEN ch ELSE Alt
  <2>1. x \in Chan
    BY DEF Chan
  <2>2. set' = set \cup {x}
    BY <1>2 DEF AddWithLimit
  <2> HIDE DEF x
  <2> QED BY <1>2, <2>1, <2>2, GrowKeepsIInv DEF AddWithLimit
<1> QED BY <1>1, <1>2

----------------------------------------------------------------------------
(* The outside world.                                                        *)

LEMMA WorldSteps ==
    ASSUME IInv, (\E ch \in Chan : Close(ch)) \/ Cancel \/ Expire
    PROVE  IInv'
<1> USE DEF Close, Cancel, Expire, mine, team
<1>1. TypeOK'
  BY DEF IInv, TypeOK
<1>2. FanOut'
  <2>1. UNCHANGED <<set, pc, rest, workers, trigger, stopped>>
    OBVIOUS
  <2> QED BY <2>1 DEF IInv, FanOut, Reported, Spread
<1>3. closed \subseteq closed' /\ UNCHANGED <<set, workers, trigger>>
  OBVIOUS
<1>4. Witnessed'
  BY <1>3 DEF IInv, Witnessed, Fired
<1>5. Results'
  BY <1>3 DEF IInv, Results, ResultIsReal, Fired
<1> QED BY <1>1, <1>2, <1>4, <1>5 DEF IInv

----------------------------------------------------------------------------
(* A call.                                                                   *)

\* A call that returns leaves the invariant to the others, whose part of the
\* state it does not touch.
LEMMA ReturnKeepsIInv ==
    ASSUME IInv, NEW c \in Call, pc[c] \notin {"new", "returned"},
           (Fired(set) /\ ReturnFired(c)) \/ ReturnOver(c),
           UNCHANGED <<closed, cancelled, set, wanted, workers>>,
           trigger' = trigger \/ trigger' = trigger \ {c},
           stopped' = stopped \/ stopped' = stopped \cup {c}
    PROVE  IInv'
<1> USE DEF ReturnFired, ReturnOver, Over
<1>1. TypeOK'
  BY DEF IInv, TypeOK
<1>2. pc' = [pc EXCEPT ![c] = "returned"] /\ rest' = rest
  OBVIOUS
<1>3. FanOut'
  BY <1>2 DEF IInv, TypeOK, FanOut, Reported, Spread
<1>4. Witnessed'
  BY DEF IInv, Witnessed, Fired
<1>5. result[c] = "none"
  BY DEF IInv, TypeOK, Results
<1>6. Results'
  <2>1. CASE Fired(set) /\ ReturnFired(c)
    BY <1>2, <2>1 DEF IInv, TypeOK, Results, ResultIsReal, Fired
  <2>2. CASE ReturnOver(c)
    BY <1>2, <1>5, <2>2 DEF IInv, TypeOK, Results, ResultIsReal, Fired
  <2> QED BY <2>1, <2>2
<1> QED BY <1>1, <1>3, <1>4, <1>6 DEF IInv

\* A call that goes on without a result.
LEMMA GoOnKeepsResults ==
    ASSUME IInv, NEW c \in Call, pc[c] # "returned", NEW p,
           pc' = [pc EXCEPT ![c] = p],
           UNCHANGED <<world, set, result>>
    PROVE  Results'
  BY DEF IInv, TypeOK, Results, ResultIsReal, Fired, world

LEMMA WatchKeepsIInv ==
    ASSUME IInv, NEW c \in Call, NEW k \in {"timer", "ctx"}, Watch(c, k)
    PROVE  IInv'
<1> USE DEF Watch, world, team
<1>1. TypeOK'
  BY DEF IInv, TypeOK
<1>2. FanOut'
  BY DEF IInv, TypeOK, FanOut, Reported, Spread
<1>3. Witnessed'
  BY DEF IInv, Witnessed, Fired
<1>4. Results'
  BY GoOnKeepsResults
<1> QED BY <1>1, <1>2, <1>3, <1>4 DEF IInv

LEMMA CheckKeepsIInv ==
    ASSUME IInv, NEW c \in Call, Check(c)
    PROVE  IInv'
<1>1. CASE ReturnOver(c)
  BY <1>1, ReturnKeepsIInv DEF Check, team
<1>2. CASE pc' = [pc EXCEPT ![c] = "spawn"] /\ UNCHANGED <<timer, kind, rest, result>>
  <2> USE <1>2 DEF Check, team
  <2>1. TypeOK'
    BY DEF IInv, TypeOK
  <2>2. FanOut'
    BY DEF IInv, TypeOK, FanOut, Reported, Spread
  <2>3. Witnessed'
    BY DEF IInv, Witnessed, Fired
  <2>4. Results'
    BY GoOnKeepsResults DEF world
  <2> QED BY <2>1, <2>2, <2>3, <2>4 DEF IInv
<1> QED BY <1>1, <1>2 DEF Check

\* What a chunk takes from the rest, its goroutine has.
LEMMA SpawnKeepsIInv ==
    ASSUME IInv, NEW c \in Call, Spawn(c)
    PROVE  IInv'
<1>1. PICK chunk \in SUBSET rest[c] :
          /\ workers' = workers \cup {[call |-> c, chunk |-> chunk, at |-> "select"]}
          /\ rest' = [rest EXCEPT ![c] = @ \ chunk]
  BY DEF Spawn
<1>2. /\ pc[c] = "spawn"
      /\ pc' = [pc EXCEPT ![c] = IF rest'[c] = {} THEN "wait" ELSE "spawn"]
      /\ UNCHANGED <<world, set, wanted, kind, result, trigger, stopped>>
  BY DEF Spawn
<1> DEFINE g0 == [call |-> c, chunk |-> chunk, at |-> "select"]
<1>3. g0.call = c /\ g0.chunk = chunk /\ g0.at = "select"
  OBVIOUS
<1>4. g0 \in Worker
  BY DEF IInv, TypeOK, Worker
<1>5. workers' = workers \cup {g0}
  BY <1>1
<1> HIDE DEF g0
<1>6. TypeOK'
  BY <1>1, <1>2, <1>4, <1>5 DEF IInv, TypeOK, world
<1>7. FanOut'
  <2> SUFFICES ASSUME NEW d \in Call
               PROVE  /\ pc'[d] = "check" => rest'[d] = set'
                      /\ pc'[d] \in {"spawn", "wait"} => Reported(d)' \/ Spread(d)'
                      /\ pc'[d] = "wait" => rest'[d] = {}
                      /\ d \in stopped' => pc'[d] = "returned"
                      /\ rest'[d] \subseteq set'
    BY DEF FanOut
  <2>1. CASE d # c
    <3>1. pc'[d] = pc[d] /\ rest'[d] = rest[d] /\ set' = set
      BY <1>1, <1>2, <2>1 DEF IInv, TypeOK
    <3>2. Reported(d) => Reported(d)'
      BY <1>2, <1>5 DEF Reported
    <3>3. Spread(d) => Spread(d)'
      BY <1>5, <3>1 DEF Spread
    <3> QED BY <1>2, <3>1, <3>2, <3>3 DEF IInv, FanOut
  <2>2. CASE d = c
    <3>1. rest'[c] = rest[c] \ chunk /\ set' = set
      BY <1>1, <1>2 DEF IInv, TypeOK
    <3>2. pc'[c] = IF rest'[c] = {} THEN "wait" ELSE "spawn"
      BY <1>2 DEF IInv, TypeOK
    <3>3. Reported(c) => Reported(c)'
      BY <1>2, <1>5 DEF Reported
    <3>4. Spread(c) => Spread(c)'
      BY <1>3, <1>5, <3>1 DEF Spread
    <3> QED BY <1>2, <2>2, <3>1, <3>2, <3>3, <3>4 DEF IInv, FanOut
  <2> QED BY <2>1, <2>2
<1>8. Witnessed'
  BY <1>1, <1>2, <1>3, <1>5 DEF IInv, Witnessed, Fired, FanOut, world
<1>9. Results'
  BY <1>2, GoOnKeepsResults
<1> QED BY <1>6, <1>7, <1>8, <1>9 DEF IInv

LEMMA CallSteps ==
    ASSUME IInv, NEW c \in Call, CallStep(c)
    PROVE  IInv'
<1>1. CASE Few(c)
  BY <1>1, ReturnKeepsIInv DEF Few, team
<1>2. CASE Wait(c)
  <2>1. c \in trigger => Fired(set)
    BY DEF IInv, Witnessed
  <2> QED BY <1>2, <2>1, ReturnKeepsIInv DEF Wait
<1> QED BY <1>1, <1>2, CheckKeepsIInv, SpawnKeepsIInv DEF CallStep

----------------------------------------------------------------------------
(* A goroutine.                                                              *)

\* It leaves the results alone.
LEMMA WorkerKeepsResults ==
    ASSUME IInv, UNCHANGED <<world, set, wanted, mine>>
    PROVE  Results'
  BY DEF IInv, Results, ResultIsReal, Fired, world, mine

\* Firing turns a goroutine that covers its chunk into one that will report.
LEMMA FiresKeepsIInv ==
    ASSUME IInv, NEW g \in workers, WorkerFires(g)
    PROVE  IInv'
<1> DEFINE g1 == [g EXCEPT !.at = "send"]
<1>1. g \in Worker
  BY DEF IInv, TypeOK
<1>2. /\ g1 \in Worker /\ g1.call = g.call /\ g1.chunk = g.chunk /\ g1.at = "send"
  BY <1>1 DEF Worker
<1>3. /\ Fired(g.chunk)
      /\ workers' = (workers \ {g}) \cup {g1}
      /\ UNCHANGED <<world, set, wanted, mine, trigger, stopped>>
  BY DEF WorkerFires
<1> HIDE DEF g1
<1>4. TypeOK'
  BY <1>2, <1>3 DEF IInv, TypeOK, world, mine
<1>5. FanOut'
  <2>1. ASSUME NEW c \in Call PROVE Reported(c) => Reported(c)'
    BY <1>2, <1>3 DEF Reported
  <2>2. ASSUME NEW c \in Call PROVE Spread(c) => Spread(c)'
    BY <1>2, <1>3 DEF Spread, mine
  <2> QED BY <1>3, <2>1, <2>2 DEF IInv, FanOut, mine
<1>6. Witnessed'
  BY <1>2, <1>3 DEF IInv, Witnessed, Fired, world
<1> QED BY <1>3, <1>4, <1>5, <1>6, WorkerKeepsResults DEF IInv

\* A goroutine stops only when its call has returned.
LEMMA StopsKeepsIInv ==
    ASSUME IInv, NEW g \in workers, WorkerStops(g)
    PROVE  IInv'
<1>1. g \in Worker
  BY DEF IInv, TypeOK
<1>2. /\ g.call \in stopped
      /\ workers' = workers \ {g}
      /\ UNCHANGED <<world, set, wanted, mine, trigger, stopped>>
  BY DEF WorkerStops
<1>3. TypeOK'
  BY <1>2 DEF IInv, TypeOK, world, mine
<1>4. FanOut'
  <2>1. pc[g.call] = "returned"
    BY <1>1, <1>2 DEF IInv, FanOut, Worker
  <2>2. ASSUME NEW c \in Call, c # g.call
        PROVE  (Reported(c) => Reported(c)') /\ (Spread(c) => Spread(c)')
    BY <1>2, <2>2 DEF Reported, Spread, mine
  <2> QED BY <1>2, <2>1, <2>2 DEF IInv, FanOut, mine
<1>5. Witnessed'
  BY <1>2 DEF IInv, Witnessed, Fired, world
<1> QED BY <1>2, <1>3, <1>4, <1>5, WorkerKeepsResults DEF IInv

\* A send that finds the buffer full is dropped, and a value is there all the same.
LEMMA SendsKeepsIInv ==
    ASSUME IInv, NEW g \in workers, WorkerSends(g)
    PROVE  IInv'
<1>1. g \in Worker
  BY DEF IInv, TypeOK
<1>2. /\ g.at = "send"
      /\ trigger' = trigger \cup {g.call}
      /\ workers' = workers \ {g}
      /\ UNCHANGED <<world, set, wanted, mine, stopped>>
  BY DEF WorkerSends
<1>3. TypeOK'
  BY <1>1, <1>2 DEF IInv, TypeOK, Worker, world, mine
<1>4. FanOut'
  <2>1. Reported(g.call)'
    BY <1>2 DEF Reported
  <2>2. ASSUME NEW c \in Call, c # g.call
        PROVE  (Reported(c) => Reported(c)') /\ (Spread(c) => Spread(c)')
    BY <1>2, <2>2 DEF Reported, Spread, mine
  <2> QED BY <1>2, <2>1, <2>2 DEF IInv, FanOut, mine
<1>5. Witnessed'
  <2>1. Fired(g.chunk) /\ g.chunk \subseteq set
    BY <1>2 DEF IInv, Witnessed
  <2>2. Fired(set)
    BY <2>1 DEF Fired
  <2> QED BY <1>2, <2>2 DEF IInv, Witnessed, Fired, world
<1> QED BY <1>2, <1>3, <1>4, <1>5, WorkerKeepsResults DEF IInv

----------------------------------------------------------------------------
LEMMA StutterKeepsIInv ==
    ASSUME IInv, UNCHANGED vars
    PROVE  IInv'
  BY DEF IInv, TypeOK, FanOut, Witnessed, Results, ResultIsReal, Reported, Spread, Fired,
         vars

\* The fan-out, its reports and the results, in every reachable state.
THEOREM Inductive == Spec => []IInv
<1>1. IInv /\ [Next]_vars => IInv'
  <2> SUFFICES ASSUME IInv, [Next]_vars PROVE IInv'
    OBVIOUS
  <2>1. ASSUME NEW limit \in Limits, NEW ch \in Item, AddWithLimit(limit, ch) PROVE IInv'
    BY <2>1, SetSteps DEF Chan
  <2>2. ASSUME NEW c \in Call, NEW k \in {"timer", "ctx"}, Watch(c, k) PROVE IInv'
    BY <2>2, WatchKeepsIInv
  <2>3. ASSUME NEW g \in workers, WorkerStep(g) PROVE IInv'
    BY <2>3, FiresKeepsIInv, StopsKeepsIInv, SendsKeepsIInv DEF WorkerStep
  <2> QED BY <2>1, <2>2, <2>3, SetSteps, WorldSteps, CallSteps, StutterKeepsIInv DEF Next
<1> QED BY <1>1, InitIInv, PTL DEF Spec

\* The set, the calls and the goroutines are of their types.
THEOREM TypeCorrect == Spec => []TypeOK
<1>1. IInv => TypeOK
  BY DEF IInv
<1> QED BY <1>1, Inductive, PTL

\* However calls on one set, their goroutines, the closing of channels and the
\* context interleave, what a call returns is why it returned, and one value of
\* the timer ends one call (watch.go:55-80, 98-188).
THEOREM ResultsAreReal == Spec => []ResultIsReal
<1>1. IInv => ResultIsReal
  BY DEF IInv, Results
<1> QED BY <1>1, Inductive, PTL

\* A set of any size, cut into chunks of any size, has all its channels watched
\* while a call waits, or the call is about to end (watch.go:147-182).
THEOREM NoneForgotten == Spec => []NoChannelForgotten
<1>1. IInv => NoChannelForgotten
  BY DEF IInv, FanOut, Reported, Spread, NoChannelForgotten
<1> QED BY <1>1, Inductive, PTL
============================================================================
