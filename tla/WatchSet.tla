------------------------------ MODULE WatchSet ------------------------------
(***************************************************************************)
(* Waiting for watch channels (watch.go, watch_few.go): a set of channels  *)
(* and calls of Watch, WatchCtx and WatchCh on it, which may overlap.  A   *)
(* small set is one select.  A big one is spread over goroutines, a chunk  *)
(* of channels each, which report to the caller on a channel of capacity   *)
(* one and are stopped by closing another.                                 *)
(*                                                                         *)
(* The map order in which channels go into chunks is arbitrary, and so is  *)
(* the choice of a select among its ready arms.  All timer calls share one *)
(* timer, all others one context.                                          *)
(* Bounds: MaxCalls calls; MaxFew and FanoutChunk are 128 and 32 in the    *)
(* code.                                                                   *)
(***************************************************************************)
EXTENDS Naturals, FiniteSets

CONSTANTS Item,       \* channels of single rows
          Alt,        \* the channel of a node above them
          Nil,        \* a nil channel, which is what LowerBound hands out
          Limits,     \* the soft limits AddWithLimit is called with
          MaxFew, FanoutChunk, MaxCalls

Chan == Item \cup {Alt, Nil}
Call == 1..MaxCalls

ASSUME ChanAssumption == Alt \notin Item /\ Nil \notin Item /\ Alt # Nil
ASSUME SizeAssumption ==
    MaxFew \in Nat /\ FanoutChunk \in Nat \ {0} /\ MaxCalls \in Nat /\ Limits \subseteq Nat

VARIABLES
    set,       \* the WatchSet
    wanted,    \* ghost: the channels the caller asked for
    closed,    \* the channels that are closed
    cancelled, \* whether the context is done
    timer,     \* whether the timer's value is to come, "ready" or "taken"
    pc,        \* where each call is
    kind,      \* what else it waits for: the "timer" or the "ctx"
    rest,      \* the channels it has not yet given to a goroutine
    result,    \* what it returned
    workers,   \* the goroutines: the call, the chunk, and where they are
    trigger,   \* the calls with a value in triggerCh
    stopped    \* the calls that have closed stopCh

vars == <<set, wanted, closed, cancelled, timer, pc, kind, rest, result,
          workers, trigger, stopped>>

world == <<closed, cancelled, timer>>
mine  == <<pc, kind, rest, result>>
team  == <<workers, trigger, stopped>>

Init ==
    /\ set = {}
    /\ wanted = {}
    /\ closed = {}
    /\ cancelled = FALSE
    /\ timer = "set"
    /\ pc = [c \in Call |-> "new"]
    /\ kind = [c \in Call |-> "ctx"]
    /\ rest = [c \in Call |-> {}]
    /\ result = [c \in Call |-> "none"]
    /\ workers = {}
    /\ trigger = {}
    /\ stopped = {}

----------------------------------------------------------------------------
(* The set.  A map must not be written while a call reads it. *)

Unread == \A c \in Call : pc[c] \in {"new", "returned"}

Add(ch) ==
    /\ Unread
    /\ set' = set \cup {ch}
    /\ wanted' = wanted \cup {ch}
    /\ UNCHANGED <<world, mine, team>>

\* Mutant of AddWithLimit: what is beyond the limit is not watched at all.
AddUpToLimit(limit, ch) ==
    /\ Unread
    /\ set' = IF Cardinality(set) < limit THEN set \cup {ch} ELSE set
    /\ wanted' = wanted \cup {ch}
    /\ UNCHANGED <<world, mine, team>>

AddWithLimit(limit, ch) ==
    /\ Unread
    /\ set' = set \cup {IF Cardinality(set) < limit THEN ch ELSE Alt}
    /\ wanted' = wanted \cup {ch}
    /\ UNCHANGED <<world, mine, team>>

----------------------------------------------------------------------------
(* The outside world. *)

Close(ch) ==
    /\ ch \in Chan \ (closed \cup {Nil})
    /\ closed' = closed \cup {ch}
    /\ UNCHANGED <<cancelled, timer, set, wanted, mine, team>>

\* A commit that replaces a row replaces the nodes above it.
CloseAlt == Item \cap closed # {} /\ Close(Alt)

Cancel ==
    /\ cancelled' = TRUE
    /\ UNCHANGED <<closed, timer, set, wanted, mine, team>>

Expire ==
    /\ timer = "set"
    /\ timer' = "ready"
    /\ UNCHANGED <<closed, cancelled, set, wanted, mine, team>>

----------------------------------------------------------------------------
(* A call. *)

Fired(S) == S \cap closed # {}

Over(c) == IF kind[c] = "ctx" THEN cancelled ELSE timer = "ready"

\* Watch (k = "timer"), WatchCtx and the goroutine of WatchCh (k = "ctx").
Watch(c, k) ==
    /\ pc[c] = "new"
    /\ kind' = [kind EXCEPT ![c] = k]
    /\ rest' = [rest EXCEPT ![c] = set]
    /\ pc' = [pc EXCEPT ![c] = IF Cardinality(set) <= MaxFew THEN "few" ELSE "check"]
    /\ UNCHANGED <<world, set, wanted, result, team>>

ReturnFired(c) ==
    /\ pc' = [pc EXCEPT ![c] = "returned"]
    /\ result' = [result EXCEPT ![c] = "fired"]
    /\ UNCHANGED <<timer, kind, rest>>

\* The receive takes the timer's value; a context stays done.
ReturnOver(c) ==
    /\ Over(c)
    /\ pc' = [pc EXCEPT ![c] = "returned"]
    /\ result' = [result EXCEPT ![c] = kind[c]]
    /\ timer' = IF kind[c] = "timer" THEN "taken" ELSE timer
    /\ UNCHANGED <<kind, rest>>

\* Mutant of Few: a done context and an expired timer are taken for a channel.
FewConfused(c) ==
    /\ pc[c] = "few"
    /\ (Fired(set) \/ Over(c)) /\ ReturnFired(c)
    /\ UNCHANGED <<closed, cancelled, set, wanted, team>>

\* watchFew: one select on everything.
Few(c) ==
    /\ pc[c] = "few"
    /\ (Fired(set) /\ ReturnFired(c)) \/ ReturnOver(c)
    /\ UNCHANGED <<closed, cancelled, set, wanted, team>>

\* watchMany returns at once if the context or the timer is already over.
Check(c) ==
    /\ pc[c] = "check"
    /\ \/ ReturnOver(c)
       \/ /\ ~Over(c)
          /\ pc' = [pc EXCEPT ![c] = "spawn"]
          /\ UNCHANGED <<timer, kind, rest, result>>
    /\ UNCHANGED <<closed, cancelled, set, wanted, team>>

\* Mutant of Spawn: a last chunk that is not full gets no goroutine.
SpawnFullChunks(c) ==
    /\ pc[c] = "spawn"
    /\ \E chunk \in SUBSET rest[c] :
          /\ Cardinality(chunk) = FanoutChunk \/ chunk = rest[c]
          /\ Cardinality(chunk) <= FanoutChunk
          /\ workers' = IF Cardinality(chunk) < FanoutChunk THEN workers
                        ELSE workers \cup {[call |-> c, chunk |-> chunk, at |-> "select"]}
          /\ rest' = [rest EXCEPT ![c] = @ \ chunk]
    /\ pc' = [pc EXCEPT ![c] = IF rest'[c] = {} THEN "wait" ELSE "spawn"]
    /\ UNCHANGED <<world, set, wanted, kind, result, trigger, stopped>>

\* A goroutine for the next FanoutChunk channels, or for the fewer that are left.
Spawn(c) ==
    /\ pc[c] = "spawn"
    /\ \E chunk \in SUBSET rest[c] :
          /\ Cardinality(chunk) = FanoutChunk \/ chunk = rest[c]
          /\ Cardinality(chunk) <= FanoutChunk
          /\ workers' = workers \cup {[call |-> c, chunk |-> chunk, at |-> "select"]}
          /\ rest' = [rest EXCEPT ![c] = @ \ chunk]
    /\ pc' = [pc EXCEPT ![c] = IF rest'[c] = {} THEN "wait" ELSE "spawn"]
    /\ UNCHANGED <<world, set, wanted, kind, result, trigger, stopped>>

\* Mutant of Wait: only a wait that ends on a channel closes stopCh.
WaitStopsIfFired(c) ==
    /\ pc[c] = "wait"
    /\ \/ c \in trigger /\ trigger' = trigger \ {c} /\ stopped' = stopped \cup {c}
                        /\ ReturnFired(c)
       \/ ReturnOver(c) /\ UNCHANGED <<trigger, stopped>>
    /\ UNCHANGED <<closed, cancelled, set, wanted, workers>>

\* The caller's own select; stopCh is closed on return, however it ends.
Wait(c) ==
    /\ pc[c] = "wait"
    /\ \/ c \in trigger /\ trigger' = trigger \ {c} /\ ReturnFired(c)
       \/ ReturnOver(c) /\ UNCHANGED trigger
    /\ stopped' = stopped \cup {c}
    /\ UNCHANGED <<closed, cancelled, set, wanted, workers>>

----------------------------------------------------------------------------
(* A goroutine. *)

\* watchChunk: the select on the chunk and stopCh.
WorkerFires(g) ==
    /\ g.at = "select"
    /\ Fired(g.chunk)
    /\ workers' = (workers \ {g}) \cup {[g EXCEPT !.at = "send"]}
    /\ UNCHANGED <<world, set, wanted, mine, trigger, stopped>>

WorkerStops(g) ==
    /\ g.at = "select"
    /\ g.call \in stopped
    /\ workers' = workers \ {g}
    /\ UNCHANGED <<world, set, wanted, mine, trigger, stopped>>

\* Mutant of WorkerSends: triggerCh has no buffer, so that the value is lost
\* unless the caller is waiting for it.
WorkerSendsUnbuffered(g) ==
    /\ g.at = "send"
    /\ trigger' = IF pc[g.call] = "wait" THEN trigger \cup {g.call} ELSE trigger
    /\ workers' = workers \ {g}
    /\ UNCHANGED <<world, set, wanted, mine, stopped>>

\* Mutant of WorkerSends: the goroutine stays after its send.
WorkerSendsAndStays(g) ==
    /\ g.at = "send"
    /\ trigger' = trigger \cup {g.call}
    /\ workers' = (workers \ {g}) \cup {[g EXCEPT !.at = "sent"]}
    /\ UNCHANGED <<world, set, wanted, mine, stopped>>

\* The send does not block: if the buffer is full the value is dropped.
WorkerSends(g) ==
    /\ g.at = "send"
    /\ trigger' = trigger \cup {g.call}
    /\ workers' = workers \ {g}
    /\ UNCHANGED <<world, set, wanted, mine, stopped>>

----------------------------------------------------------------------------
CallStep(c)   == Few(c) \/ Check(c) \/ Spawn(c) \/ Wait(c)
WorkerStep(g) == WorkerFires(g) \/ WorkerStops(g) \/ WorkerSends(g)

Next ==
    \/ \E ch \in Chan : Add(ch) \/ Close(ch)
    \/ \E limit \in Limits, ch \in Item : AddWithLimit(limit, ch)
    \/ Cancel \/ Expire
    \/ \E c \in Call, k \in {"timer", "ctx"} : Watch(c, k)
    \/ \E c \in Call : CallStep(c)
    \/ \E g \in workers : WorkerStep(g)

Spec == Init /\ [][Next]_vars

Worker == [call : Call, chunk : SUBSET Chan, at : {"select", "send"}]

\* Goroutines run on, and so does the commit that closes the channels of a path.
Fairness ==
    /\ \A c \in Call : WF_vars(CallStep(c))
    /\ \A g \in Worker : WF_vars(g \in workers /\ WorkerStep(g))
    /\ WF_vars(CloseAlt)

FairSpec == Spec /\ Fairness

----------------------------------------------------------------------------
TypeOK ==
    /\ set \subseteq Chan
    /\ wanted \subseteq Chan
    /\ closed \subseteq Chan
    /\ cancelled \in BOOLEAN
    /\ timer \in {"set", "ready", "taken"}
    /\ pc \in [Call -> {"new", "few", "check", "spawn", "wait", "returned"}]
    /\ kind \in [Call -> {"timer", "ctx"}]
    /\ rest \in [Call -> SUBSET Chan]
    /\ result \in [Call -> {"none", "fired", "timer", "ctx"}]
    /\ workers \subseteq Worker
    /\ trigger \subseteq Call
    /\ stopped \subseteq Call

\* What a call returns is why it returned (watch.go:55-80, 98-188): a channel of
\* the set is closed, the context is done, or the timer's value was received, by
\* this call and by no other.  A value that was received is not lost: a call
\* that ends for another reason leaves it to the next.
ResultIsReal ==
    /\ \A c \in Call :
          /\ result[c] = "fired" => Fired(set)
          /\ result[c] = "ctx" => cancelled
          /\ result[c] = "timer" => timer = "taken"
    /\ \A c, d \in Call : result[c] = "timer" /\ result[d] = "timer" => c = d
    /\ timer = "taken" => \E c \in Call : result[c] = "timer"

\* No channel is forgotten (watch.go:147-182): while a call on a big set waits, a
\* goroutine selects on each of its channels, unless one is about to report or
\* has reported.  That holds although goroutines fire before the others start.
NoChannelForgotten ==
    \A c \in Call : pc[c] = "wait" =>
        \/ c \in trigger
        \/ \E g \in workers : g.call = c /\ g.at = "send"
        \/ \A ch \in set : \E g \in workers : g.call = c /\ ch \in g.chunk

Waiting(c) == pc[c] \notin {"new", "returned"}

\* A call returns once a channel the caller asked for is closed, whether it was
\* added or the one above it in its place (watch.go:37-53), and once the
\* context is done.
WatchReturns ==
    /\ \A c \in Call : Waiting(c) /\ Fired(wanted) ~> pc[c] = "returned"
    /\ \A c \in Call : Waiting(c) /\ kind[c] = "ctx" /\ cancelled ~> pc[c] = "returned"

\* No goroutine outlives the call it was started for by more than its next step
\* (watch.go:147-149), however the call ended.
NoGoroutineLeaks ==
    \A c \in Call : pc[c] = "returned" ~> \A g \in workers : g.call # c
============================================================================
