------------------------------- MODULE Store -------------------------------
(***************************************************************************)
(* What the database promises (txn.go, memdb.go): snapshot isolation with  *)
(* one writer per database.  A version is a content per slot, and nothing  *)
(* is said of trees, ownership, locks or notification.                     *)
(*   - a write transaction works on a copy of the version current when it  *)
(*     begins, and no other one of the same database overlaps it;          *)
(*   - a commit replaces the version in one step by that copy;             *)
(*   - what a reader sees is a version, or the state of an open            *)
(*     transaction at one moment, and it never changes.                    *)
(***************************************************************************)
EXTENDS Naturals

CONSTANTS Proc, Primary, Clone, Slot, Table, slotsOf

DB   == {Primary, Clone}
None == [db |-> Primary, open |-> FALSE, tree |-> [s \in {} |-> 0]]

VARIABLES store,   \* [DB -> [Slot -> Nat]]
          pending, \* [Proc -> the open write transaction, or None]
          seen     \* the contents readers hold

avars == <<store, pending, seen>>

Init ==
    /\ store   = [d \in DB |-> [s \in Slot |-> 0]]
    /\ pending = [p \in Proc |-> None]
    /\ seen    = {}

Begin(p, d) ==
    /\ ~pending[p].open
    /\ \A q \in Proc : ~(pending[q].open /\ pending[q].db = d)
    /\ pending' = [pending EXCEPT ![p] = [db |-> d, open |-> TRUE, tree |-> store[d]]]
    /\ UNCHANGED <<store, seen>>

\* A write changes rows of one table, in the transaction's copy only.
Change(p, t) ==
    /\ pending[p].open
    /\ LET tree == pending'[p].tree
       IN  /\ tree \in [Slot -> Nat]
           /\ \A s \in Slot \ slotsOf[t] : tree[s] = pending[p].tree[s]
           /\ pending' = [pending EXCEPT ![p] = [@ EXCEPT !.tree = tree]]
    /\ UNCHANGED <<store, seen>>

\* A reader obtains the whole of tree, or one index of it.
Read(tree) ==
    /\ \E S \in {Slot} \cup {{s} : s \in Slot} :
          seen' = seen \cup {[s \in S |-> tree[s]]}
    /\ UNCHANGED <<store, pending>>

Commit(p) ==
    /\ pending[p].open
    /\ store'   = [store EXCEPT ![pending[p].db] = pending[p].tree]
    /\ pending' = [pending EXCEPT ![p] = None]
    /\ UNCHANGED seen

Abort(p) ==
    /\ pending[p].open
    /\ pending' = [pending EXCEPT ![p] = None]
    /\ UNCHANGED <<store, seen>>

\* A database snapshot starts from the primary's version.
Snapshot ==
    /\ store' = [store EXCEPT ![Clone] = store[Primary]]
    /\ UNCHANGED <<pending, seen>>

Next ==
    \/ \E p \in Proc :
          \/ \E d \in DB : Begin(p, d)
          \/ \E t \in Table : Change(p, t)
          \/ pending[p].open /\ Read(pending[p].tree)
          \/ Commit(p)
          \/ Abort(p)
    \/ \E d \in DB : Read(store[d])
    \/ Snapshot

Spec == Init /\ [][Next]_avars
============================================================================
