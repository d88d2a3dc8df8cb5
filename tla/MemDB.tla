------------------------------- MODULE MemDB -------------------------------
(***************************************************************************)
(* The concurrent core of the database: goroutines that run transactions   *)
(* against a database and a writable snapshot of it (memdb.go, txn.go).    *)
(*                                                                         *)
(* A database version is a tree per index slot.  A tree is abstracted to   *)
(* its root node: a heap cell whose content is the number of the write     *)
(* that produced it.  What the code does inside a tree, path copying       *)
(* included, belongs to the external go-juuri; what this repository decides*)
(* is WHEN a node may be changed in place, and that is kept: a node carries*)
(* the write transaction that created it and the epoch of that transaction *)
(* on the slot, and only the transaction's current epoch is its own.       *)
(* Tree.Freeze starts a new epoch.  A node is also the watch channel of the*)
(* readers that saw it.                                                    *)
(*                                                                         *)
(* Bounds: MaxTxns write transactions, MaxWrites writes, MaxReads reads,   *)
(* MaxDefers deferred functions, MaxClones database snapshots, all named in *)
(* the guards.                                                             *)
(***************************************************************************)
EXTENDS Naturals, FiniteSets

CONSTANTS Proc,        \* goroutines
          Primary,     \* the database NewMemDB made
          Clone,       \* a database MemDB.Snapshot made from it
          Slot,        \* index slots of a database version
          Table,       \* tables
          slotsOf,     \* Table -> the slots of its indexes
          idSlot,      \* Table -> the slot of its primary index
          NoProc,
          MaxTxns, MaxWrites, MaxReads, MaxDefers, MaxClones

DB == {Primary, Clone}

ASSUME DBAssumption == Primary # Clone
ASSUME ProcAssumption == NoProc \notin Proc
ASSUME SlotAssumption ==
    /\ slotsOf \in [Table -> SUBSET Slot]
    /\ idSlot \in [Table -> Slot]
    /\ \A t \in Table : idSlot[t] \in slotsOf[t]
    /\ \A t, u \in Table : t # u => slotsOf[t] \cap slotsOf[u] = {}
ASSUME BoundAssumption ==
    /\ MaxTxns \in Nat
    /\ MaxWrites \in Nat
    /\ MaxReads \in Nat
    /\ MaxDefers \in Nat
    /\ MaxClones \in 0..1

Node == [txn : Nat, slot : Slot, epoch : Nat]

VARIABLES
    root,      \* [DB -> [Slot -> Node]]  MemDB.root, the published version
    cloned,    \* whether MemDB.Snapshot has been called
    lock,      \* [DB -> Proc \cup {NoProc}]  MemDB.writer
    heap,      \* node -> content, for the nodes made so far
    pc,        \* where each goroutine is
    dbOf,      \* the database of a goroutine's write transaction
    serial,    \* its number
    base,      \* Txn.root: the version it started from
    cur,       \* its trees: base until started, then its own
    started,   \* the slots whose tree transaction is Started()
    wrote,     \* whether writeState is allocated
    epoch,     \* the epoch of its tree transaction on each slot
    nf,        \* writeState.nf: the replaced nodes to notify
    after,     \* how many deferred functions are registered and not run
    closed,    \* nodes whose watch channel is closed
    views,     \* what readers hold: read transactions, iterators, snapshots
    watched,   \* nodes whose watch channel a reader holds
    published, \* ghost: write transactions stored into the primary's root
    txns, writes, reads \* counters, for fresh names and for the bounds

shared   == <<root, cloned, lock, heap, closed, published>>
private  == <<dbOf, serial, base, cur, started, wrote, epoch, nf, after>>
readers  == <<views, watched, reads>>
counters == <<txns, writes>>
vars     == <<shared, pc, private, readers, counters>>

PC == {"idle", "lock", "load", "open", "notify", "deferred"}

----------------------------------------------------------------------------
\* The content a version or a view shows.
Content(h, trees) == [s \in DOMAIN trees |-> h[trees[s]]]

\* The trees of NewMemDB.
FirstNode(s) == [txn |-> 0, slot |-> s, epoch |-> 0]
FirstRoot    == [s \in Slot |-> FirstNode(s)]

\* The node transaction p may change in place in slot s: the one it made in
\* its current epoch.
OwnNode(p, s) == [txn |-> serial[p], slot |-> s, epoch |-> epoch[p][s]]

\* The slots of S where a write of p must copy, because what its tree holds
\* is not its own.
Copied(p, S) == {s \in S : cur[p][s] # OwnNode(p, s)}

\* The heap after p writes content v[s] into every slot s of S: a copied slot
\* gets a new node, an owned one is changed in place.
Written(p, S, v) ==
    LET own == {OwnNode(p, s) : s \in S}
    IN  [n \in DOMAIN heap \cup own |-> IF n \in own THEN v[n.slot] ELSE heap[n]]

\* Mutant: a tree transaction forgets its notifier when it is frozen.
PutTreesTrackedOnce(p, S, v) ==
    /\ heap'    = Written(p, S, v)
    /\ started' = [started EXCEPT ![p] = @ \cup S]
    /\ nf'      = IF dbOf[p] = Primary
                  THEN [nf EXCEPT ![p] = @ \cup {cur[p][s] : s \in Copied(p, S) \ started[p]}]
                  ELSE nf
    /\ cur'     = [cur EXCEPT ![p] =
                      [s \in Slot |-> IF s \in S THEN OwnNode(p, s) ELSE @[s]]]
    /\ wrote'   = [wrote EXCEPT ![p] = TRUE]

\* What a write of p into the slots S does to its trees and its notifier.
\* Only the primary database tracks mutations.
PutTrees(p, S, v) ==
    /\ heap'    = Written(p, S, v)
    /\ started' = [started EXCEPT ![p] = @ \cup S]
    /\ nf'      = IF dbOf[p] = Primary
                  THEN [nf EXCEPT ![p] = @ \cup {cur[p][s] : s \in Copied(p, S)}]
                  ELSE nf
    /\ cur'     = [cur EXCEPT ![p] =
                      [s \in Slot |-> IF s \in S THEN OwnNode(p, s) ELSE @[s]]]
    /\ wrote'   = [wrote EXCEPT ![p] = TRUE]

\* Commit and Abort set Txn.root to nil and give the writeState back, cleared.
Release(p) ==
    /\ dbOf'    = [dbOf EXCEPT ![p] = Primary]
    /\ serial'  = [serial EXCEPT ![p] = 0]
    /\ base'    = [base EXCEPT ![p] = FirstRoot]
    /\ cur'     = [cur EXCEPT ![p] = FirstRoot]
    /\ started' = [started EXCEPT ![p] = {}]
    /\ wrote'   = [wrote EXCEPT ![p] = FALSE]
    /\ epoch'   = [epoch EXCEPT ![p] = [s \in Slot |-> 0]]
    /\ nf'      = [nf EXCEPT ![p] = {}]

\* Mutant: what escapes is not frozen.
NotFrozen(p, S) == epoch

\* Freezing the started trees of S starts a new epoch on each of them.
Frozen(p, S) ==
    [epoch EXCEPT ![p] =
        [s \in Slot |-> IF s \in S \cap started[p] THEN @[s] + 1 ELSE @[s]]]

----------------------------------------------------------------------------
Init ==
    /\ root      = [d \in DB |-> FirstRoot]
    /\ cloned    = FALSE
    /\ lock      = [d \in DB |-> NoProc]
    /\ heap      = [n \in {FirstNode(s) : s \in Slot} |-> 0]
    /\ pc        = [p \in Proc |-> "idle"]
    /\ dbOf      = [p \in Proc |-> Primary]
    /\ serial    = [p \in Proc |-> 0]
    /\ base      = [p \in Proc |-> FirstRoot]
    /\ cur       = [p \in Proc |-> FirstRoot]
    /\ started   = [p \in Proc |-> {}]
    /\ wrote     = [p \in Proc |-> FALSE]
    /\ epoch     = [p \in Proc |-> [s \in Slot |-> 0]]
    /\ nf        = [p \in Proc |-> {}]
    /\ after     = [p \in Proc |-> 0]
    /\ closed    = {}
    /\ views     = {}
    /\ watched   = {}
    /\ published = {0}
    /\ txns      = 0
    /\ writes    = 0
    /\ reads     = 0

----------------------------------------------------------------------------
(* Write transactions. *)

\* MemDB.Txn(true) is called; the writer lock comes first.
BeginWrite(p, d) ==
    /\ pc[p] = "idle"
    /\ txns < MaxTxns
    /\ d = Primary \/ cloned
    /\ pc'     = [pc EXCEPT ![p] = "lock"]
    /\ dbOf'   = [dbOf EXCEPT ![p] = d]
    /\ serial' = [serial EXCEPT ![p] = txns + 1]
    /\ txns'   = txns + 1
    /\ UNCHANGED <<shared, base, cur, started, wrote, epoch, nf, after, readers, writes>>

Lock(p) ==
    /\ pc[p] = "lock"
    /\ lock[dbOf[p]] = NoProc
    /\ lock' = [lock EXCEPT ![dbOf[p]] = p]
    /\ pc'   = [pc EXCEPT ![p] = "load"]
    /\ UNCHANGED <<root, cloned, heap, closed, published, private, readers, counters>>

\* Mutant: the root is loaded while the goroutine waits for the lock.
LoadRootEarly(p) ==
    /\ pc[p] \in {"lock", "load"}
    /\ pc'   = [pc EXCEPT ![p] = IF @ = "load" THEN "open" ELSE @]
    /\ base' = IF pc[p] = "lock" THEN [base EXCEPT ![p] = root[dbOf[p]]] ELSE base
    /\ cur'  = IF pc[p] = "lock" THEN [cur EXCEPT ![p] = root[dbOf[p]]] ELSE cur
    /\ UNCHANGED <<shared, dbOf, serial, started, wrote, epoch, nf, after, readers, counters>>

\* The current root is loaded only once the lock is held.
LoadRoot(p) ==
    /\ pc[p] = "load"
    /\ pc'      = [pc EXCEPT ![p] = "open"]
    /\ base'    = [base EXCEPT ![p] = root[dbOf[p]]]
    /\ cur'     = [cur EXCEPT ![p] = root[dbOf[p]]]
    /\ UNCHANGED <<shared, dbOf, serial, started, wrote, epoch, nf, after, readers, counters>>

\* Insert, Delete, DeletePrefix and DeleteAll of table t that change rows: the
\* primary index and those of the others the row moves in.
Write(p, t, S) ==
    /\ pc[p] = "open"
    /\ writes < MaxWrites
    /\ idSlot[t] \in S
    /\ PutTrees(p, S, [s \in S |-> writes + 1])
    /\ writes' = writes + 1
    /\ UNCHANGED <<root, cloned, lock, closed, published, pc, dbOf, serial, base,
                   epoch, after, readers, txns>>

\* An Insert whose secondary indexer fails: the primary index has been written
\* and is written back, so the content is the old one in a new node.
InsertFails(p, t) ==
    /\ pc[p] = "open"
    /\ PutTrees(p, {idSlot[t]}, [s \in {idSlot[t]} |-> heap[cur[p][s]]])
    /\ UNCHANGED <<root, cloned, lock, closed, published, pc, dbOf, serial, base,
                   epoch, after, readers, counters>>

\* A Delete that finds no row: the tree transaction is started and unchanged.
DeleteMisses(p, t) ==
    /\ pc[p] = "open"
    /\ started' = [started EXCEPT ![p] = @ \cup {idSlot[t]}]
    /\ wrote'   = [wrote EXCEPT ![p] = TRUE]
    /\ UNCHANGED <<shared, pc, dbOf, serial, base, cur, epoch, nf, after, readers, counters>>

\* Defer: the functions run when the transaction commits.
Defer(p) ==
    /\ pc[p] = "open"
    /\ after[p] < MaxDefers
    /\ after' = [after EXCEPT ![p] = @ + 1]
    /\ UNCHANGED <<shared, pc, dbOf, serial, base, cur, started, wrote, epoch, nf,
                   readers, counters>>

\* Get, LowerBound and their like inside the write transaction: an iterator
\* escapes, and with it (watch) the channel of the node.
TxnGet(p, s, watch) ==
    /\ pc[p] = "open"
    /\ reads < MaxReads
    /\ epoch'   = Frozen(p, {s})
    /\ views'   = views \cup {[trees |-> [r \in {s} |-> cur[p][r]],
                               seen  |-> [r \in {s} |-> heap[cur[p][r]]]]}
    /\ watched' = IF watch THEN watched \cup {cur[p][s]} ELSE watched
    /\ reads'   = reads + 1
    /\ UNCHANGED <<shared, pc, dbOf, serial, base, cur, started, wrote, nf, after, counters>>

\* Txn.Snapshot: every started tree is frozen into the snapshot.
TxnSnapshot(p) ==
    /\ pc[p] = "open"
    /\ reads < MaxReads
    /\ epoch' = Frozen(p, Slot)
    /\ views' = views \cup {[trees |-> cur[p], seen |-> Content(heap, cur[p])]}
    /\ reads' = reads + 1
    /\ UNCHANGED <<shared, pc, dbOf, serial, base, cur, started, wrote, nf, after,
                   watched, counters>>

\* Mutant: the trees a transaction has not started are published empty.
PublishStartedOnly(p) ==
    /\ pc[p] = "open"
    /\ wrote[p]
    /\ root' = [root EXCEPT ![dbOf[p]] =
                   [s \in Slot |-> IF s \in started[p] THEN cur[p][s] ELSE FirstNode(s)]]
    /\ published' = IF dbOf[p] = Primary THEN published \cup {serial[p]} ELSE published
    /\ pc'   = [pc EXCEPT ![p] = "notify"]
    /\ UNCHANGED <<cloned, lock, heap, closed, private, readers, counters>>

\* Commit, up to the store of the root: the version readers load changes, the
\* channels are still open.
Publish(p) ==
    /\ pc[p] = "open"
    /\ wrote[p]
    /\ root' = [root EXCEPT ![dbOf[p]] =
                   [s \in Slot |-> IF s \in started[p] THEN cur[p][s] ELSE base[p][s]]]
    /\ published' = IF dbOf[p] = Primary THEN published \cup {serial[p]} ELSE published
    /\ pc'   = [pc EXCEPT ![p] = "notify"]
    /\ UNCHANGED <<cloned, lock, heap, closed, private, readers, counters>>

\* Commit of a transaction that wrote nothing stores nothing.
CommitEmpty(p) ==
    /\ pc[p] = "open"
    /\ ~wrote[p]
    /\ pc' = [pc EXCEPT ![p] = "notify"]
    /\ UNCHANGED <<shared, private, readers, counters>>

\* Mutant: the channels are closed while the transaction is still open.
NotifyEarly(p) ==
    /\ pc[p] \in {"open", "notify"}
    /\ \E n \in nf[p] :
          /\ closed' = closed \cup {n}
          /\ nf'     = [nf EXCEPT ![p] = @ \ {n}]
    /\ UNCHANGED <<root, cloned, lock, heap, published, pc, dbOf, serial, base, cur,
                   started, wrote, epoch, after, readers, counters>>

\* Notifier.Notify closes one channel after the other.
NotifyOne(p) ==
    /\ pc[p] = "notify"
    /\ \E n \in nf[p] :
          /\ closed' = closed \cup {n}
          /\ nf'     = [nf EXCEPT ![p] = @ \ {n}]
    /\ UNCHANGED <<root, cloned, lock, heap, published, pc, dbOf, serial, base, cur,
                   started, wrote, epoch, after, readers, counters>>

\* Mutant: only a transaction that wrote something releases the lock.
UnlockIfWritten(p) ==
    /\ pc[p] = "notify"
    /\ nf[p] = {}
    /\ wrote[p]
    /\ lock' = [lock EXCEPT ![dbOf[p]] = NoProc]
    /\ pc'   = [pc EXCEPT ![p] = "deferred"]
    /\ Release(p)
    /\ UNCHANGED <<root, cloned, heap, closed, published, after, readers, counters>>

\* Mutant: the write state is given back before its channels are closed.
UnlockBeforeNotify(p) ==
    /\ pc[p] = "notify"
    /\ lock' = [lock EXCEPT ![dbOf[p]] = NoProc]
    /\ pc'   = [pc EXCEPT ![p] = "deferred"]
    /\ Release(p)
    /\ UNCHANGED <<root, cloned, heap, closed, published, after, readers, counters>>

\* Commit releases the writer lock before it runs the deferred functions.
Unlock(p) ==
    /\ pc[p] = "notify"
    /\ nf[p] = {}
    /\ lock' = [lock EXCEPT ![dbOf[p]] = NoProc]
    /\ pc'   = [pc EXCEPT ![p] = "deferred"]
    /\ Release(p)
    /\ UNCHANGED <<root, cloned, heap, closed, published, after, readers, counters>>

\* Mutant: the first deferred function is called whether there is one or not.
RunDeferredAlways(p) ==
    /\ pc[p] = "deferred"
    /\ after' = [after EXCEPT ![p] = @ - 1]
    /\ UNCHANGED <<shared, pc, dbOf, serial, base, cur, started, wrote, epoch, nf,
                   readers, counters>>

RunDeferred(p) ==
    /\ pc[p] = "deferred"
    /\ after[p] > 0
    /\ after' = [after EXCEPT ![p] = @ - 1]
    /\ UNCHANGED <<shared, pc, dbOf, serial, base, cur, started, wrote, epoch, nf,
                   readers, counters>>

CommitReturns(p) ==
    /\ pc[p] = "deferred"
    /\ after[p] = 0
    /\ pc' = [pc EXCEPT ![p] = "idle"]
    /\ UNCHANGED <<shared, private, readers, counters>>

\* Mutant: Abort keeps the writer lock.
AbortKeepsLock(p) ==
    /\ pc[p] = "open"
    /\ after' = [after EXCEPT ![p] = 0]
    /\ pc'    = [pc EXCEPT ![p] = "idle"]
    /\ Release(p)
    /\ UNCHANGED <<root, cloned, lock, heap, closed, published, readers, counters>>

\* Abort drops the trees and the notifier; the deferred functions never run.
Abort(p) ==
    /\ pc[p] = "open"
    /\ lock'  = [lock EXCEPT ![dbOf[p]] = NoProc]
    /\ after' = [after EXCEPT ![p] = 0]
    /\ pc'    = [pc EXCEPT ![p] = "idle"]
    /\ Release(p)
    /\ UNCHANGED <<root, cloned, heap, closed, published, readers, counters>>

----------------------------------------------------------------------------
(* Read transactions and database snapshots, of any goroutine at any time. *)

\* MemDB.Txn(false): the version published now, without a lock.
ReadTxn(d) ==
    /\ d = Primary \/ cloned
    /\ reads < MaxReads
    /\ views' = views \cup {[trees |-> root[d], seen |-> Content(heap, root[d])]}
    /\ reads' = reads + 1
    /\ UNCHANGED <<shared, pc, private, watched, counters>>

\* FirstWatch, or WatchCh of an iterator, on a version a reader holds.
Watch(v, s) ==
    /\ reads < MaxReads
    /\ watched' = watched \cup {v.trees[s]}
    /\ reads'   = reads + 1
    /\ UNCHANGED <<shared, pc, private, views, counters>>

\* MemDB.Snapshot: a database of its own that starts from the current version.
Snapshot ==
    /\ ~cloned
    /\ MaxClones = 1
    /\ cloned' = TRUE
    /\ root'   = [root EXCEPT ![Clone] = root[Primary]]
    /\ UNCHANGED <<lock, heap, closed, published, pc, private, readers, counters>>

----------------------------------------------------------------------------
\* What goes on inside Txn, Commit and Notify once they are called.
Running(p) ==
    \/ LoadRoot(p)
    \/ NotifyOne(p)
    \/ Unlock(p)
    \/ RunDeferred(p)
    \/ CommitReturns(p)

\* What ends a transaction.
Finish(p) == Publish(p) \/ CommitEmpty(p) \/ Abort(p)

WriteTxn(p) ==
    \/ \E d \in DB : BeginWrite(p, d)
    \/ Lock(p)
    \/ \E t \in Table : \E S \in SUBSET slotsOf[t] : Write(p, t, S)
    \/ \E t \in Table : InsertFails(p, t)
    \/ \E t \in Table : DeleteMisses(p, t)
    \/ Defer(p)
    \/ \E s \in Slot, watch \in BOOLEAN : TxnGet(p, s, watch)
    \/ TxnSnapshot(p)

\* Every goroutine has returned and the bound is reached.
Done ==
    /\ txns = MaxTxns
    /\ \A p \in Proc : pc[p] = "idle"
    /\ UNCHANGED vars

Next ==
    \/ \E p \in Proc : WriteTxn(p) \/ Running(p) \/ Finish(p)
    \/ \E d \in DB : ReadTxn(d)
    \/ \E v \in views : \E s \in DOMAIN v.trees : Watch(v, s)
    \/ Snapshot
    \/ Done

Spec == Init /\ [][Next]_vars

\* A goroutine inside Txn or Commit keeps running, and a waiter for the writer
\* mutex is not starved: sync.Mutex hands a lock over to who has waited 1ms.
\* Callers finish the transactions they open, as the API requires.
Fairness ==
    \A p \in Proc :
        /\ WF_vars(Running(p))
        /\ SF_vars(Lock(p))
        /\ WF_vars(Finish(p))

FairSpec == Spec /\ Fairness

----------------------------------------------------------------------------
Tree == [Slot -> Node]

TypeOK ==
    /\ root \in [DB -> Tree]
    /\ cloned \in BOOLEAN
    /\ lock \in [DB -> Proc \cup {NoProc}]
    /\ heap \in [DOMAIN heap -> Nat] /\ DOMAIN heap \subseteq Node
    /\ pc \in [Proc -> PC]
    /\ dbOf \in [Proc -> DB]
    /\ serial \in [Proc -> Nat]
    /\ base \in [Proc -> Tree]
    /\ cur \in [Proc -> Tree]
    /\ started \in [Proc -> SUBSET Slot]
    /\ wrote \in [Proc -> BOOLEAN]
    /\ epoch \in [Proc -> [Slot -> Nat]]
    /\ nf \in [Proc -> SUBSET Node]
    /\ after \in [Proc -> Nat]
    /\ closed \subseteq Node
    /\ \A v \in views : \E S \in SUBSET Slot :
          v \in [trees : [S -> Node], seen : [S -> Nat]]
    /\ watched \subseteq Node
    /\ published \subseteq Nat
    /\ txns \in Nat
    /\ writes \in Nat
    /\ reads \in Nat

\* What a reader holds never changes, whatever writers do afterwards: a write
\* transaction changes a node in place only while nobody else can see it.  This
\* is what readableIndex and Snapshot freeze for (txn.go:205-227, 1138-1151).
ViewsStable == \A v \in views : Content(heap, v.trees) = v.seen

\* The channels a committing transaction has still to close.
Pending(n) == \E p \in Proc : pc[p] = "notify" /\ n \in nf[p]

\* Watched nodes a commit has replaced whose channel is not closed yet.
Stale ==
    {n \in watched \ closed :
        n.txn \in published /\ root[Primary][n.slot] # n}

\* No wakeup is lost: once a commit has replaced a watched node of the primary
\* its channel is closed, or the committing goroutine is about to close it.
\* That holds for a channel obtained before, during or after the replacement,
\* and for one obtained in the middle of the writing transaction itself.
NoLostWakeup == \A n \in Stale : Pending(n)

\* Who is woken and starts a new read transaction sees another version: the
\* channels are closed after the root is stored, and writes to a database
\* snapshot close none (txn.go:195-200, 285-291).
WokenSeesNew == \A s \in Slot : root[Primary][s] \notin closed

\* Nobody has replaced the version an open write transaction started from, so
\* its commit cannot undo another one (memdb.go:108-116, the root is loaded
\* under the writer lock and stored before it is released).
NoLostUpdate ==
    \A p \in Proc : pc[p] = "open" => base[p] = root[dbOf[p]]

\* Every call of Commit returns: notification ends, the lock is released and the
\* deferred functions have run.
CommitCompletes == \A p \in Proc : pc[p] = "notify" ~> pc[p] = "idle"

\* Every goroutine that waits for the writer lock gets it.
WriterArrives == \A p \in Proc : pc[p] = "lock" ~> pc[p] = "open"

\* Channels of replaced nodes are closed in the end.
StaleWatchesFire == Stale # {} ~> Stale = {}

----------------------------------------------------------------------------
(* The abstract store: versions are the contents of the published roots.   *)

AbsNone == [db |-> Primary, open |-> FALSE, tree |-> [s \in {} |-> 0]]

AbsStore == [d \in DB |-> Content(heap, root[d])]

AbsPending ==
    [p \in Proc |-> IF pc[p] = "open"
                   THEN [db |-> dbOf[p], open |-> TRUE, tree |-> Content(heap, cur[p])]
                   ELSE AbsNone]

AbsSeen == {Content(heap, v.trees) : v \in views}

Abs == INSTANCE Store WITH store <- AbsStore, pending <- AbsPending, seen <- AbsSeen

\* The implementation is snapshot isolation with one writer per database.
RefinesStore == Abs!Spec
============================================================================
