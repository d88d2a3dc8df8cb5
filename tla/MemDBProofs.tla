---------------------------- MODULE MemDBProofs ----------------------------
(***************************************************************************)
(* Theorems about MemDB, for every set of goroutines, slots and tables and *)
(* every bound: type correctness and isolation; that no update and no      *)
(* wakeup is lost and that who is woken sees another version; and that the *)
(* database is the abstract store, every step of MemDB a step of Store or  *)
(* nothing of it.                                                          *)
(***************************************************************************)
EXTENDS MemDB, TLAPS

\* Every tree anybody holds, the empty ones included, is made of nodes that exist, each in its slot.
FirstNodesExist == \A s \in Slot : FirstNode(s) \in DOMAIN heap

HeapOK ==
    /\ FirstNodesExist
    /\ \A d \in DB, s \in Slot : root[d][s] \in DOMAIN heap /\ root[d][s].slot = s
    /\ \A p \in Proc, s \in Slot :
          /\ base[p][s] \in DOMAIN heap /\ base[p][s].slot = s
          /\ cur[p][s] \in DOMAIN heap /\ cur[p][s].slot = s
    /\ \A v \in views : \A s \in DOMAIN v.trees :
          v.trees[s] \in DOMAIN heap /\ v.trees[s].slot = s

\* The states in which a goroutine has a write transaction.
InTxn(p) == pc[p] \in {"lock", "load", "open", "notify"}

\* Transaction numbers are never shared or reused, and a transaction has made
\* no node before it is open.
SerialsFresh ==
    /\ \A n \in DOMAIN heap : n.txn <= txns
    /\ \A p \in Proc : InTxn(p) => serial[p] \in 1..txns
    /\ \A p, q \in Proc : p # q /\ InTxn(p) /\ InTxn(q) => serial[p] # serial[q]
    /\ \A p \in Proc : pc[p] \in {"lock", "load"} =>
          \A n \in DOMAIN heap : n.txn # serial[p]
    /\ \A p \in Proc : pc[p] \in {"idle", "lock", "load", "deferred"} =>
          /\ started[p] = {}
          /\ epoch[p] = [s \in Slot |-> 0]

\* Transaction p will not change node n in place any more.
Safe(p, n) == n.txn = serial[p] => n.epoch < epoch[p][n.slot]

\* What an open write transaction may change in place is in no version, in no
\* reader's hands and in no other transaction: only in its own trees.
OwnedIsPrivate ==
    \A p \in Proc : pc[p] = "open" =>
        /\ \A d \in DB, s \in Slot : Safe(p, root[d][s])
        /\ \A v \in views : \A s \in DOMAIN v.trees : Safe(p, v.trees[s])
        /\ \A q \in Proc, s \in Slot :
              /\ Safe(p, base[q][s])
              /\ q # p => Safe(p, cur[q][s])
        /\ \A s \in Slot : cur[p][s].txn = serial[p] =>
              /\ s \in started[p]
              /\ cur[p][s].epoch <= epoch[p][s]

IInv ==
    /\ TypeOK
    /\ HeapOK
    /\ SerialsFresh
    /\ OwnedIsPrivate
    /\ ViewsStable

-----------------------------------------------------------------------------

\* The initial state is well typed.
LEMMA TypeInit == Init => TypeOK
<1> SUFFICES ASSUME Init PROVE TypeOK
  OBVIOUS
<1>1. FirstRoot \in Tree /\ \A s \in Slot : FirstNode(s) \in Node
  BY DEF FirstRoot, FirstNode, Tree, Node
<1>2. heap \in [DOMAIN heap -> Nat] /\ DOMAIN heap \subseteq Node
  BY <1>1 DEF Init
<1>3. /\ root \in [DB -> Tree] /\ base \in [Proc -> Tree] /\ cur \in [Proc -> Tree]
      /\ epoch \in [Proc -> [Slot -> Nat]]
  BY <1>1 DEF Init
<1>4. /\ lock \in [DB -> Proc \cup {NoProc}] /\ dbOf \in [Proc -> DB]
      /\ pc \in [Proc -> PC]
  BY DEF Init, DB, PC
<1>5. /\ serial \in [Proc -> Nat] /\ started \in [Proc -> SUBSET Slot]
      /\ wrote \in [Proc -> BOOLEAN] /\ nf \in [Proc -> SUBSET Node]
      /\ after \in [Proc -> Nat]
  BY DEF Init
<1>6. /\ cloned = FALSE /\ closed = {} /\ watched = {} /\ published = {0}
      /\ txns = 0 /\ writes = 0 /\ reads = 0
  BY Zenon DEF Init
<1>7. \A v \in views : \E S \in SUBSET Slot :
        v \in [trees : [S -> Node], seen : [S -> Nat]]
  BY DEF Init
<1>8. cloned \in BOOLEAN /\ closed \subseteq Node /\ watched \subseteq Node
  BY <1>6, Zenon
<1>9. published \subseteq Nat /\ txns \in Nat /\ writes \in Nat /\ reads \in Nat
  <2>1. published = {0} /\ txns = 0 /\ writes = 0 /\ reads = 0
    BY <1>6
  <2> QED BY <2>1
<1> QED BY <1>2, <1>3, <1>4, <1>5, <1>7, <1>8, <1>9, Zenon DEF TypeOK

\* Storing into the trees of one slot set keeps every variable it touches in
\* its type.
LEMMA PutTreesType ==
  ASSUME TypeOK, NEW p \in Proc, NEW S \in SUBSET Slot, NEW v \in [S -> Nat],
         PutTrees(p, S, v)
  PROVE  /\ heap' \in [DOMAIN heap' -> Nat]
         /\ DOMAIN heap' \subseteq Node
         /\ cur' \in [Proc -> Tree]
         /\ started' \in [Proc -> SUBSET Slot]
         /\ wrote' \in [Proc -> BOOLEAN]
         /\ nf' \in [Proc -> SUBSET Node]
<1>1. \A s \in Slot : OwnNode(p, s) \in Node /\ OwnNode(p, s).slot = s
  BY DEF TypeOK, OwnNode, Node
<1>2. heap' \in [DOMAIN heap' -> Nat] /\ DOMAIN heap' \subseteq Node
  BY <1>1 DEF TypeOK, PutTrees, Written
<1>3. cur' \in [Proc -> Tree]
  BY <1>1 DEF TypeOK, PutTrees, Tree
<1>4. nf' \in [Proc -> SUBSET Node]
  <2>1. {cur[p][s] : s \in Copied(p, S)} \subseteq Node
    BY DEF TypeOK, Tree, Copied
  <2> QED BY <2>1 DEF TypeOK, PutTrees
<1>5. started' \in [Proc -> SUBSET Slot] /\ wrote' \in [Proc -> BOOLEAN]
  BY DEF TypeOK, PutTrees
<1> QED BY <1>2, <1>3, <1>4, <1>5

\* A committed or aborted transaction is cleared within the types.
LEMMA ReleaseType ==
  ASSUME TypeOK, NEW p \in Proc, Release(p)
  PROVE  /\ dbOf' \in [Proc -> DB]
         /\ serial' \in [Proc -> Nat]
         /\ base' \in [Proc -> Tree]
         /\ cur' \in [Proc -> Tree]
         /\ started' \in [Proc -> SUBSET Slot]
         /\ wrote' \in [Proc -> BOOLEAN]
         /\ epoch' \in [Proc -> [Slot -> Nat]]
         /\ nf' \in [Proc -> SUBSET Node]
<1>1. FirstRoot \in Tree
  BY DEF FirstRoot, FirstNode, Tree, Node
<1> QED BY <1>1 DEF Release, TypeOK, DB

\* Freezing keeps epochs numbers.
LEMMA FrozenType ==
  ASSUME TypeOK, NEW p \in Proc, NEW S
  PROVE  Frozen(p, S) \in [Proc -> [Slot -> Nat]]
BY DEF TypeOK, Frozen

\* Every step keeps every variable in its type.
LEMMA TypeStep == TypeOK /\ HeapOK /\ [Next]_vars => TypeOK'
<1> SUFFICES ASSUME TypeOK, HeapOK, [Next]_vars PROVE TypeOK'
  OBVIOUS
<1> USE DEF shared, private, readers, counters
<1>1. ASSUME NEW p \in Proc, NEW d \in DB, BeginWrite(p, d) PROVE TypeOK'
  BY <1>1 DEF BeginWrite, TypeOK, PC
<1>2. ASSUME NEW p \in Proc, Lock(p) PROVE TypeOK'
  BY <1>2 DEF Lock, TypeOK, PC
<1>3. ASSUME NEW p \in Proc, LoadRoot(p) PROVE TypeOK'
  BY <1>3 DEF LoadRoot, TypeOK, PC
<1>4. ASSUME NEW p \in Proc, NEW t \in Table, NEW S \in SUBSET slotsOf[t], Write(p, t, S)
      PROVE  TypeOK'
  <2>1. S \in SUBSET Slot /\ [s \in S |-> writes + 1] \in [S -> Nat]
    BY SlotAssumption DEF TypeOK
  <2> QED BY <1>4, <2>1, PutTreesType DEF Write, TypeOK
<1>5. ASSUME NEW p \in Proc, NEW t \in Table, InsertFails(p, t) PROVE TypeOK'
  <2>1. {idSlot[t]} \in SUBSET Slot
    BY SlotAssumption
  <2>2. [s \in {idSlot[t]} |-> heap[cur[p][s]]] \in [{idSlot[t]} -> Nat]
    BY <2>1 DEF TypeOK, HeapOK
  <2> QED BY <1>5, <2>1, <2>2, PutTreesType DEF InsertFails, TypeOK
<1>6. ASSUME NEW p \in Proc, NEW t \in Table, DeleteMisses(p, t) PROVE TypeOK'
  <2>1. idSlot[t] \in Slot
    BY SlotAssumption
  <2> QED BY <1>6, <2>1 DEF DeleteMisses, TypeOK
<1>7. ASSUME NEW p \in Proc, Defer(p) PROVE TypeOK'
  BY <1>7 DEF Defer, TypeOK
<1>8. ASSUME NEW p \in Proc, NEW s \in Slot, NEW w \in BOOLEAN, TxnGet(p, s, w)
      PROVE TypeOK'
  <2>1. epoch' \in [Proc -> [Slot -> Nat]]
    BY <1>8, FrozenType DEF TxnGet
  <2>2. cur[p][s] \in Node
    BY DEF TypeOK, Tree
  <2>3. [trees |-> [r \in {s} |-> cur[p][r]], seen |-> [r \in {s} |-> heap[cur[p][r]]]]
          \in [trees : [{s} -> Node], seen : [{s} -> Nat]]
    <3>1. heap[cur[p][s]] \in Nat
      BY DEF TypeOK, HeapOK
    <3>2. [r \in {s} |-> cur[p][r]] \in [{s} -> Node]
      BY <2>2
    <3>3. [r \in {s} |-> heap[cur[p][r]]] \in [{s} -> Nat]
      BY <3>1
    <3> QED BY <3>2, <3>3, Zenon
  <2>4. \A v \in views' : \E S \in SUBSET Slot :
          v \in [trees : [S -> Node], seen : [S -> Nat]]
    BY <1>8, <2>3 DEF TxnGet, TypeOK
  <2>5. watched' \subseteq Node
    BY <1>8, <2>2 DEF TxnGet, TypeOK
  <2>6. reads' \in Nat /\ UNCHANGED <<shared, pc, dbOf, serial, base, cur, started,
                                      wrote, nf, after, counters>>
    BY <1>8 DEF TxnGet, TypeOK
  <2> QED BY <2>1, <2>4, <2>5, <2>6 DEF TypeOK
<1>9. ASSUME NEW p \in Proc, TxnSnapshot(p) PROVE TypeOK'
  <2>1. epoch' \in [Proc -> [Slot -> Nat]]
    BY <1>9, FrozenType DEF TxnSnapshot
  <2>2. [trees |-> cur[p], seen |-> Content(heap, cur[p])]
          \in [trees : [Slot -> Node], seen : [Slot -> Nat]]
    BY DEF TypeOK, HeapOK, Tree, Content
  <2>3. \A v \in views' : \E S \in SUBSET Slot :
          v \in [trees : [S -> Node], seen : [S -> Nat]]
    BY <1>9, <2>2 DEF TxnSnapshot, TypeOK
  <2> QED BY <1>9, <2>1, <2>3 DEF TxnSnapshot, TypeOK
<1>10. ASSUME NEW p \in Proc, Publish(p) PROVE TypeOK'
  <2>1. [s \in Slot |-> IF s \in started[p] THEN cur[p][s] ELSE base[p][s]] \in Tree
    BY DEF TypeOK, Tree
  <2> QED BY <1>10, <2>1 DEF Publish, TypeOK, PC
<1>11. ASSUME NEW p \in Proc, CommitEmpty(p) PROVE TypeOK'
  BY <1>11 DEF CommitEmpty, TypeOK, PC
<1>12. ASSUME NEW p \in Proc, NotifyOne(p) PROVE TypeOK'
  BY <1>12 DEF NotifyOne, TypeOK
<1>13. ASSUME NEW p \in Proc, Unlock(p) PROVE TypeOK'
  <2>1. pc' \in [Proc -> PC] /\ lock' \in [DB -> Proc \cup {NoProc}]
    BY <1>13 DEF Unlock, TypeOK, PC
  <2> QED BY <1>13, <2>1, ReleaseType DEF Unlock, TypeOK
<1>14. ASSUME NEW p \in Proc, RunDeferred(p) PROVE TypeOK'
  BY <1>14 DEF RunDeferred, TypeOK
<1>15. ASSUME NEW p \in Proc, CommitReturns(p) PROVE TypeOK'
  BY <1>15 DEF CommitReturns, TypeOK, PC
<1>16. ASSUME NEW p \in Proc, Abort(p) PROVE TypeOK'
  <2>1. /\ pc' \in [Proc -> PC] /\ lock' \in [DB -> Proc \cup {NoProc}]
        /\ after' \in [Proc -> Nat]
    BY <1>16 DEF Abort, TypeOK, PC
  <2> QED BY <1>16, <2>1, ReleaseType DEF Abort, TypeOK
<1>17. ASSUME NEW d \in DB, ReadTxn(d) PROVE TypeOK'
  <2>1. [trees |-> root[d], seen |-> Content(heap, root[d])]
          \in [trees : [Slot -> Node], seen : [Slot -> Nat]]
    BY DEF TypeOK, HeapOK, Tree, Content
  <2>2. \A v \in views' : \E S \in SUBSET Slot :
          v \in [trees : [S -> Node], seen : [S -> Nat]]
    BY <1>17, <2>1 DEF ReadTxn, TypeOK
  <2> QED BY <1>17, <2>2 DEF ReadTxn, TypeOK
<1>18. ASSUME NEW v \in views, NEW s \in DOMAIN v.trees, Watch(v, s) PROVE TypeOK'
  <2>1. v.trees[s] \in Node
    BY DEF TypeOK
  <2> QED BY <1>18, <2>1 DEF Watch, TypeOK
<1>19. CASE Snapshot
  BY <1>19 DEF Snapshot, TypeOK, DB
<1>20. CASE UNCHANGED vars
  BY <1>20 DEF vars, TypeOK
<1> QED
  BY <1>1, <1>2, <1>3, <1>4, <1>5, <1>6, <1>7, <1>8, <1>9, <1>10, <1>11, <1>12,
     <1>13, <1>14, <1>15, <1>16, <1>17, <1>18, <1>19, <1>20
     DEF Next, WriteTxn, Running, Finish, Done

-----------------------------------------------------------------------------
\* What a write does to the heap and to the trees of all transactions.
LEMMA PutTreesFacts ==
  ASSUME TypeOK, NEW p \in Proc, NEW S \in SUBSET Slot, NEW v, PutTrees(p, S, v)
  PROVE  /\ DOMAIN heap' = DOMAIN heap \cup {OwnNode(p, s) : s \in S}
         /\ \A n \in DOMAIN heap :
               (\A s \in S : n # OwnNode(p, s)) => heap'[n] = heap[n]
         /\ \A s \in Slot : cur'[p][s] = IF s \in S THEN OwnNode(p, s) ELSE cur[p][s]
         /\ \A q \in Proc : q # p => cur'[q] = cur[q]
<1>1. DOMAIN heap' = DOMAIN heap \cup {OwnNode(p, s) : s \in S}
  BY DEF PutTrees, Written
<1>2. \A n \in DOMAIN heap : (\A s \in S : n # OwnNode(p, s)) => heap'[n] = heap[n]
  BY DEF PutTrees, Written
<1>3. /\ \A s \in Slot : cur'[p][s] = IF s \in S THEN OwnNode(p, s) ELSE cur[p][s]
      /\ \A q \in Proc : q # p => cur'[q] = cur[q]
  BY DEF PutTrees, TypeOK, Tree
<1> QED BY <1>1, <1>2, <1>3

\* A write keeps every tree made of existing nodes.
LEMMA PutTreesHeapOK ==
  ASSUME TypeOK, HeapOK, NEW p \in Proc, NEW S \in SUBSET Slot, NEW v,
         PutTrees(p, S, v), UNCHANGED <<root, base, views>>
  PROVE  HeapOK'
<1>f. /\ DOMAIN heap' = DOMAIN heap \cup {OwnNode(p, s) : s \in S}
      /\ \A s \in Slot : cur'[p][s] = IF s \in S THEN OwnNode(p, s) ELSE cur[p][s]
      /\ \A q \in Proc : q # p => cur'[q] = cur[q]
  BY PutTreesFacts
<1>1. DOMAIN heap \subseteq DOMAIN heap'
  BY <1>f
<1>2. ASSUME NEW q \in Proc, NEW s \in Slot
      PROVE  cur'[q][s] \in DOMAIN heap' /\ cur'[q][s].slot = s
  <2>1. CASE q = p /\ s \in S
    <3>1. OwnNode(p, s).slot = s
      BY DEF OwnNode
    <3> QED BY <2>1, <3>1, <1>f
  <2>2. CASE ~(q = p /\ s \in S)
    <3>1. cur'[q][s] = cur[q][s]
      BY <2>2, <1>f
    <3> QED BY <3>1, <1>1 DEF HeapOK
  <2> QED BY <2>1, <2>2
<1> QED BY <1>1, <1>2 DEF HeapOK, FirstNodesExist

\* The heap holds the first nodes for ever, so clearing a transaction is safe.
LEMMA ReleaseHeapOK ==
  ASSUME TypeOK, HeapOK, NEW p \in Proc, Release(p),
         UNCHANGED <<root, heap, views>>
  PROVE  HeapOK'
<1>1. \A s \in Slot : FirstRoot[s] \in DOMAIN heap /\ FirstRoot[s].slot = s
  BY DEF HeapOK, FirstNodesExist, FirstRoot, FirstNode
<1>2. \A q \in Proc, s \in Slot : /\ base'[q][s] = IF q = p THEN FirstRoot[s] ELSE base[q][s]
                                  /\ cur'[q][s] = IF q = p THEN FirstRoot[s] ELSE cur[q][s]
  BY DEF Release, TypeOK
<1> QED BY <1>1, <1>2 DEF HeapOK, FirstNodesExist

\* Every step keeps every tree made of existing nodes.
LEMMA HeapStep == TypeOK /\ HeapOK /\ SerialsFresh /\ [Next]_vars => HeapOK'
<1> SUFFICES ASSUME TypeOK, HeapOK, SerialsFresh, [Next]_vars PROVE HeapOK'
  OBVIOUS
<1> USE DEF shared, private, readers, counters
<1>a. ASSUME UNCHANGED <<root, base, cur, heap, views>> PROVE HeapOK'
  BY <1>a DEF HeapOK, FirstNodesExist
<1>b. ASSUME UNCHANGED <<root, base, cur, heap>>, NEW v,
             views' \subseteq views \cup {v},
             \A s \in DOMAIN v.trees : v.trees[s] \in DOMAIN heap /\ v.trees[s].slot = s
      PROVE  HeapOK'
  BY <1>b DEF HeapOK, FirstNodesExist
<1>3. ASSUME NEW p \in Proc, LoadRoot(p) PROVE HeapOK'
  <2>1. \A q \in Proc, s \in Slot :
          /\ base'[q][s] = IF q = p THEN root[dbOf[p]][s] ELSE base[q][s]
          /\ cur'[q][s] = IF q = p THEN root[dbOf[p]][s] ELSE cur[q][s]
    BY <1>3 DEF LoadRoot, TypeOK
  <2>2. dbOf[p] \in DB
    BY DEF TypeOK
  <2>3. UNCHANGED <<root, heap, views>>
    BY <1>3 DEF LoadRoot
  <2> QED BY <2>1, <2>2, <2>3 DEF HeapOK, FirstNodesExist
<1>4. ASSUME NEW p \in Proc, NEW t \in Table, NEW S \in SUBSET slotsOf[t], Write(p, t, S)
      PROVE  HeapOK'
  <2>1. S \in SUBSET Slot
    BY SlotAssumption
  <2> QED BY <1>4, <2>1, PutTreesHeapOK DEF Write
<1>5. ASSUME NEW p \in Proc, NEW t \in Table, InsertFails(p, t) PROVE HeapOK'
  <2>1. {idSlot[t]} \in SUBSET Slot
    BY SlotAssumption
  <2> QED BY <1>5, <2>1, PutTreesHeapOK DEF InsertFails
<1>8. ASSUME NEW p \in Proc, NEW s \in Slot, NEW w \in BOOLEAN, TxnGet(p, s, w)
      PROVE HeapOK'
  <2> DEFINE v == [trees |-> [r \in {s} |-> cur[p][r]],
                   seen  |-> [r \in {s} |-> heap[cur[p][r]]]]
  <2>1. UNCHANGED <<root, base, cur, heap>> /\ views' = views \cup {v}
    BY <1>8 DEF TxnGet
  <2>2. \A r \in DOMAIN v.trees : v.trees[r] \in DOMAIN heap /\ v.trees[r].slot = r
    BY DEF HeapOK
  <2> QED BY <2>1, <2>2, <1>b
<1>9. ASSUME NEW p \in Proc, TxnSnapshot(p) PROVE HeapOK'
  <2> DEFINE v == [trees |-> cur[p], seen |-> Content(heap, cur[p])]
  <2>1. UNCHANGED <<root, base, cur, heap>> /\ views' = views \cup {v}
    BY <1>9 DEF TxnSnapshot
  <2>2. \A r \in DOMAIN v.trees : v.trees[r] \in DOMAIN heap /\ v.trees[r].slot = r
    BY DEF HeapOK, TypeOK, Tree
  <2> QED BY <2>1, <2>2, <1>b
<1>10. ASSUME NEW p \in Proc, Publish(p) PROVE HeapOK'
  <2>1. \A d \in DB, s \in Slot : \/ root'[d][s] = root[d][s]
                                  \/ root'[d][s] = cur[p][s]
                                  \/ root'[d][s] = base[p][s]
    BY <1>10 DEF Publish, TypeOK
  <2>2. UNCHANGED <<base, cur, heap, views>>
    BY <1>10 DEF Publish
  <2>3. \A d \in DB, s \in Slot : root'[d][s] \in DOMAIN heap /\ root'[d][s].slot = s
    BY <2>1 DEF HeapOK
  <2> QED BY <2>2, <2>3 DEF HeapOK, FirstNodesExist
<1>13. ASSUME NEW p \in Proc, Unlock(p) \/ Abort(p) PROVE HeapOK'
  BY <1>13, ReleaseHeapOK DEF Unlock, Abort
<1>17. ASSUME NEW d \in DB, ReadTxn(d) PROVE HeapOK'
  <2> DEFINE v == [trees |-> root[d], seen |-> Content(heap, root[d])]
  <2>1. UNCHANGED <<root, base, cur, heap>> /\ views' = views \cup {v}
    BY <1>17 DEF ReadTxn
  <2>2. \A r \in DOMAIN v.trees : v.trees[r] \in DOMAIN heap /\ v.trees[r].slot = r
    BY DEF HeapOK, TypeOK, Tree
  <2> QED BY <2>1, <2>2, <1>b
<1>19. CASE Snapshot
  <2>1. \A d \in DB, s \in Slot : \E e \in DB : root'[d][s] = root[e][s]
    BY <1>19 DEF Snapshot, TypeOK, DB
  <2>2. UNCHANGED <<base, cur, heap, views>>
    BY <1>19 DEF Snapshot
  <2> QED BY <2>1, <2>2 DEF HeapOK, FirstNodesExist
<1>20. ASSUME NEW p \in Proc,
              \/ \E d \in DB : BeginWrite(p, d)
              \/ \E t \in Table : DeleteMisses(p, t)
              \/ Lock(p) \/ Defer(p) \/ CommitEmpty(p) \/ NotifyOne(p)
              \/ RunDeferred(p) \/ CommitReturns(p)
       PROVE  HeapOK'
  BY <1>20, <1>a DEF BeginWrite, DeleteMisses, Lock, Defer, CommitEmpty, NotifyOne,
     RunDeferred, CommitReturns
<1>21. CASE UNCHANGED vars
  BY <1>21, <1>a DEF vars
<1>22. ASSUME NEW v \in views, NEW s \in DOMAIN v.trees, Watch(v, s) PROVE HeapOK'
  BY <1>22, <1>a DEF Watch
<1> QED
  BY <1>3, <1>4, <1>5, <1>8, <1>9, <1>10, <1>13, <1>17, <1>19, <1>20, <1>21, <1>22
     DEF Next, WriteTxn, Running, Finish, Done

-----------------------------------------------------------------------------
\* A write of an open transaction makes nodes of its own number only.
LEMMA PutTreesSerials ==
  ASSUME TypeOK, SerialsFresh, NEW p \in Proc, NEW S \in SUBSET Slot, NEW v,
         pc[p] = "open", PutTrees(p, S, v), UNCHANGED <<pc, serial, epoch, txns>>
  PROVE  SerialsFresh'
<1>1. DOMAIN heap' = DOMAIN heap \cup {OwnNode(p, s) : s \in S}
  BY PutTreesFacts
<1>2. \A s \in S : OwnNode(p, s).txn = serial[p]
  BY DEF OwnNode
<1>3. serial[p] \in 1..txns /\ InTxn(p)
  BY DEF SerialsFresh, InTxn
<1>4. \A n \in DOMAIN heap' : n \in DOMAIN heap \/ n.txn = serial[p]
  BY <1>1, <1>2
<1>5. \A n \in DOMAIN heap' : n.txn <= txns'
  BY <1>3, <1>4 DEF SerialsFresh, TypeOK
<1>6. \A q \in Proc : pc'[q] \in {"lock", "load"} =>
          \A n \in DOMAIN heap' : n.txn # serial'[q]
  BY <1>3, <1>4 DEF SerialsFresh, InTxn
<1>7. \A q \in Proc : pc'[q] \in {"idle", "lock", "load", "deferred"} =>
          started'[q] = started[q]
  BY DEF PutTrees, TypeOK
<1>8. /\ \A q \in Proc : InTxn(q)' => serial'[q] \in 1..txns'
      /\ \A q, r \in Proc : q # r /\ InTxn(q)' /\ InTxn(r)' => serial'[q] # serial'[r]
  BY DEF SerialsFresh, InTxn
<1>9. \A q \in Proc : pc'[q] \in {"idle", "lock", "load", "deferred"} =>
          started'[q] = {} /\ epoch'[q] = [s \in Slot |-> 0]
  BY <1>7 DEF SerialsFresh
<1> QED BY <1>5, <1>6, <1>8, <1>9 DEF SerialsFresh

\* A finished transaction is cleared and gives its number up.
LEMMA ReleaseSerials ==
  ASSUME TypeOK, SerialsFresh, NEW p \in Proc, Release(p), NEW st \in {"idle", "deferred"},
         pc' = [pc EXCEPT ![p] = st], UNCHANGED <<heap, txns>>
  PROVE  SerialsFresh'
<1>1. \A q \in Proc :
        /\ pc'[q] = IF q = p THEN st ELSE pc[q]
        /\ q # p => /\ serial'[q] = serial[q]
                    /\ started'[q] = started[q]
                    /\ epoch'[q] = epoch[q]
  BY DEF Release, TypeOK
<1>2. started'[p] = {} /\ epoch'[p] = [s \in Slot |-> 0]
  BY DEF Release, TypeOK
<1> QED BY <1>1, <1>2 DEF SerialsFresh, InTxn

\* A goroutine that only advances, its transaction unchanged.
LEMMA AdvanceSerials ==
  ASSUME TypeOK, SerialsFresh, NEW p \in Proc, NEW st \in PC,
         pc' = [pc EXCEPT ![p] = st],
         \/ pc[p] = "lock" /\ st = "load"
         \/ pc[p] = "load" /\ st = "open"
         \/ pc[p] = "open" /\ st = "notify"
         \/ pc[p] = "deferred" /\ st = "idle",
         UNCHANGED <<heap, txns, serial, started, epoch>>
  PROVE  SerialsFresh'
<1>1. \A q \in Proc : pc'[q] = IF q = p THEN st ELSE pc[q]
  BY DEF TypeOK
<1> QED BY <1>1 DEF SerialsFresh, InTxn

\* Transaction numbers stay fresh.
LEMMA SerialsStep == TypeOK /\ SerialsFresh /\ [Next]_vars => SerialsFresh'
<1> SUFFICES ASSUME TypeOK, SerialsFresh, [Next]_vars PROVE SerialsFresh'
  OBVIOUS
<1> USE DEF shared, private, readers, counters
<1>a. ASSUME UNCHANGED <<pc, heap, txns, serial, started, epoch>> PROVE SerialsFresh'
  BY <1>a DEF SerialsFresh, InTxn
<1>1. ASSUME NEW p \in Proc, NEW d \in DB, BeginWrite(p, d) PROVE SerialsFresh'
  <2>1. \A q \in Proc : /\ pc'[q] = IF q = p THEN "lock" ELSE pc[q]
                        /\ serial'[q] = IF q = p THEN txns + 1 ELSE serial[q]
    BY <1>1 DEF BeginWrite, TypeOK
  <2>2. txns' = txns + 1 /\ txns \in Nat /\ pc[p] = "idle"
        /\ UNCHANGED <<heap, started, epoch>>
    BY <1>1 DEF BeginWrite, TypeOK
  <2>3. \A n \in DOMAIN heap : n.txn \in Nat
    BY DEF TypeOK, Node
  <2>4. \A q \in Proc : InTxn(q)' => serial'[q] \in 1..txns'
    BY <2>1, <2>2 DEF SerialsFresh, InTxn
  <2>5. \A q, r \in Proc : q # r /\ InTxn(q)' /\ InTxn(r)' => serial'[q] # serial'[r]
    BY <2>1, <2>2 DEF SerialsFresh, InTxn
  <2>6. \A n \in DOMAIN heap' : n.txn <= txns'
    BY <2>2, <2>3 DEF SerialsFresh
  <2>7. \A q \in Proc : pc'[q] \in {"lock", "load"} =>
          \A n \in DOMAIN heap' : n.txn # serial'[q]
    BY <2>1, <2>2, <2>3 DEF SerialsFresh
  <2>8. \A q \in Proc : pc'[q] \in {"idle", "lock", "load", "deferred"} =>
          started'[q] = {} /\ epoch'[q] = [s \in Slot |-> 0]
    BY <2>1, <2>2 DEF SerialsFresh
  <2> QED BY <2>4, <2>5, <2>6, <2>7, <2>8 DEF SerialsFresh
<1>2. ASSUME NEW p \in Proc,
             Lock(p) \/ LoadRoot(p) \/ Publish(p) \/ CommitEmpty(p) \/ CommitReturns(p)
      PROVE  SerialsFresh'
  BY <1>2, AdvanceSerials DEF Lock, LoadRoot, Publish, CommitEmpty, CommitReturns, PC
<1>4. ASSUME NEW p \in Proc, NEW t \in Table, NEW S \in SUBSET slotsOf[t], Write(p, t, S)
      PROVE  SerialsFresh'
  <2>1. S \in SUBSET Slot
    BY SlotAssumption
  <2> QED BY <1>4, <2>1, PutTreesSerials DEF Write
<1>5. ASSUME NEW p \in Proc, NEW t \in Table, InsertFails(p, t) PROVE SerialsFresh'
  <2>1. {idSlot[t]} \in SUBSET Slot
    BY SlotAssumption
  <2> QED BY <1>5, <2>1, PutTreesSerials DEF InsertFails
<1>6. ASSUME NEW p \in Proc, NEW t \in Table, DeleteMisses(p, t) PROVE SerialsFresh'
  <2>1. pc[p] = "open" /\ UNCHANGED <<pc, heap, txns, serial, epoch>>
    BY <1>6 DEF DeleteMisses
  <2>2. \A q \in Proc : q # p => started'[q] = started[q]
    BY <1>6 DEF DeleteMisses, TypeOK
  <2> QED BY <2>1, <2>2 DEF SerialsFresh, InTxn
<1>8. ASSUME NEW p \in Proc, pc[p] = "open", NEW S, epoch' = Frozen(p, S),
             UNCHANGED <<pc, heap, txns, serial, started>>
      PROVE  SerialsFresh'
  <2>1. \A q \in Proc : q # p => epoch'[q] = epoch[q]
    BY <1>8 DEF Frozen, TypeOK
  <2> QED BY <1>8, <2>1 DEF SerialsFresh, InTxn
<1>9. ASSUME NEW p \in Proc,
             TxnSnapshot(p) \/ \E s \in Slot, w \in BOOLEAN : TxnGet(p, s, w)
      PROVE  SerialsFresh'
  BY <1>8, <1>9 DEF TxnSnapshot, TxnGet
<1>13. ASSUME NEW p \in Proc, Unlock(p) PROVE SerialsFresh'
  BY <1>13, ReleaseSerials DEF Unlock
<1>14. ASSUME NEW p \in Proc, Abort(p) PROVE SerialsFresh'
  BY <1>14, ReleaseSerials DEF Abort
<1>20. ASSUME NEW p \in Proc, Defer(p) \/ NotifyOne(p) \/ RunDeferred(p)
       PROVE  SerialsFresh'
  BY <1>20, <1>a DEF Defer, NotifyOne, RunDeferred
<1>21. CASE \/ \E d \in DB : ReadTxn(d)
            \/ \E v \in views : \E s \in DOMAIN v.trees : Watch(v, s)
            \/ Snapshot
            \/ UNCHANGED vars
  BY <1>21, <1>a DEF ReadTxn, Watch, Snapshot, vars
<1> QED
  BY <1>1, <1>2, <1>4, <1>5, <1>6, <1>9, <1>13, <1>14, <1>20, <1>21
     DEF Next, WriteTxn, Running, Finish, Done

-----------------------------------------------------------------------------
\* Nodes a write changes in place or makes are not Safe for the writer, so no
\* reader holds them.
LEMMA SafeNotOwned ==
  ASSUME TypeOK, NEW p \in Proc, NEW n \in Node, Safe(p, n)
  PROVE  \A s \in Slot : n # OwnNode(p, s)
<1> SUFFICES ASSUME NEW s \in Slot, n = OwnNode(p, s) PROVE FALSE
  OBVIOUS
<1>1. n.txn = serial[p] /\ n.slot = s /\ n.epoch = epoch[p][s] /\ epoch[p][s] \in Nat
  BY DEF OwnNode, TypeOK
<1> QED BY <1>1 DEF Safe

\* A write adds to the trees of its own transaction only, nodes of its number.
LEMMA PutTreesOwned ==
  ASSUME TypeOK, SerialsFresh, OwnedIsPrivate, NEW p \in Proc, NEW S \in SUBSET Slot,
         NEW v, pc[p] = "open", PutTrees(p, S, v),
         UNCHANGED <<root, base, views, pc, serial, epoch>>
  PROVE  OwnedIsPrivate'
<1>1. /\ \A s \in Slot : cur'[p][s] = IF s \in S THEN OwnNode(p, s) ELSE cur[p][s]
      /\ \A q \in Proc : q # p => cur'[q] = cur[q]
  BY PutTreesFacts
<1>2. started'[p] = started[p] \cup S
  BY DEF PutTrees, TypeOK
<1>3. \A s \in Slot : /\ OwnNode(p, s).txn = serial[p]
                      /\ OwnNode(p, s).epoch = epoch[p][s]
                      /\ epoch[p][s] \in Nat
  BY DEF OwnNode, TypeOK
<1> SUFFICES ASSUME NEW o \in Proc, pc[o] = "open"
             PROVE  /\ \A d \in DB, s \in Slot : Safe(o, root[d][s])'
                    /\ \A w \in views : \A s \in DOMAIN w.trees : Safe(o, w.trees[s])'
                    /\ \A q \in Proc, s \in Slot :
                          /\ Safe(o, base[q][s])'
                          /\ q # o => Safe(o, cur[q][s])'
                    /\ \A s \in Slot : cur'[o][s].txn = serial[o] =>
                          s \in started'[o] /\ cur'[o][s].epoch <= epoch[o][s]
  BY DEF OwnedIsPrivate
<1>4. /\ \A d \in DB, s \in Slot : Safe(o, root[d][s])'
      /\ \A w \in views : \A s \in DOMAIN w.trees : Safe(o, w.trees[s])'
      /\ \A q \in Proc, s \in Slot : Safe(o, base[q][s])'
  BY DEF OwnedIsPrivate, Safe
<1>5. ASSUME NEW q \in Proc, NEW s \in Slot, q # o PROVE Safe(o, cur[q][s])'
  <2>1. CASE q = p /\ s \in S
    <3>1. serial[p] # serial[o]
      BY <1>5, <2>1 DEF SerialsFresh, InTxn
    <3> QED BY <1>1, <1>3, <2>1, <3>1 DEF Safe
  <2>2. CASE ~(q = p /\ s \in S)
    <3>1. cur'[q][s] = cur[q][s]
      BY <1>1, <2>2
    <3> QED BY <1>5, <3>1 DEF OwnedIsPrivate, Safe
  <2> QED BY <2>1, <2>2
<1>6. ASSUME NEW s \in Slot, cur'[o][s].txn = serial[o]
      PROVE  s \in started'[o] /\ cur'[o][s].epoch <= epoch[o][s]
  <2>1. CASE o = p /\ s \in S
    BY <1>1, <1>2, <1>3, <2>1
  <2>2. CASE ~(o = p /\ s \in S)
    <3>1. cur'[o][s] = cur[o][s] /\ started[o] \subseteq started'[o]
      BY <1>1, <2>2 DEF PutTrees, TypeOK
    <3> QED BY <1>6, <3>1 DEF OwnedIsPrivate
  <2> QED BY <2>1, <2>2
<1> QED BY <1>4, <1>5, <1>6

\* What escapes from a transaction is frozen: it starts a new epoch on every
\* started tree of S, and may hand those trees out.
LEMMA FrozenOwned ==
  ASSUME TypeOK, HeapOK, OwnedIsPrivate, SerialsFresh, NEW p \in Proc, pc[p] = "open",
         NEW S \in SUBSET Slot, epoch' = Frozen(p, S), NEW w,
         DOMAIN w.trees = S, \A s \in S : w.trees[s] = cur[p][s],
         views' = views \cup {w},
         UNCHANGED <<root, base, cur, started, pc, serial>>
  PROVE  OwnedIsPrivate'
<1>1. \A q \in Proc, s \in Slot :
        epoch'[q][s] = IF q = p /\ s \in S \cap started[p] THEN epoch[q][s] + 1
                                                           ELSE epoch[q][s]
  BY DEF Frozen, TypeOK
<1>2. ASSUME NEW q \in Proc, NEW s \in Slot
      PROVE  /\ epoch[q][s] \in Nat /\ epoch'[q][s] \in Nat
             /\ epoch[q][s] <= epoch'[q][s]
  <2>1. epoch[q][s] \in Nat
    BY DEF TypeOK
  <2>2. epoch'[q][s] = epoch[q][s] + 1 \/ epoch'[q][s] = epoch[q][s]
    BY <1>1
  <2> QED BY <2>1, <2>2
<1>n. \A n \in Node : n.slot \in Slot /\ n.epoch \in Nat
  BY DEF Node
<1>e. \A q \in Proc, s \in Slot : cur[q][s].epoch \in Nat
  <2> SUFFICES ASSUME NEW q \in Proc, NEW s \in Slot PROVE cur[q][s].epoch \in Nat
    OBVIOUS
  <2>1. cur[q][s] \in Node
    BY DEF TypeOK, Tree
  <2> QED BY <2>1, <1>n
<1>s. ASSUME NEW q \in Proc, NEW n \in Node, Safe(q, n)
      PROVE  n.txn = serial'[q] => n.epoch < epoch'[q][n.slot]
  <2>1. serial'[q] = serial[q] /\ n.slot \in Slot /\ n.epoch \in Nat
    BY <1>n
  <2>2. n.txn = serial[q] => n.epoch < epoch[q][n.slot]
    BY <1>s DEF Safe
  <2>3. /\ epoch[q][n.slot] \in Nat /\ epoch'[q][n.slot] \in Nat
        /\ epoch[q][n.slot] <= epoch'[q][n.slot]
    BY <1>2, <2>1
  <2> QED BY <2>1, <2>2, <2>3
<1> SUFFICES ASSUME NEW o \in Proc, pc[o] = "open"
             PROVE  /\ \A d \in DB, s \in Slot : Safe(o, root[d][s])'
                    /\ \A x \in views' : \A s \in DOMAIN x.trees : Safe(o, x.trees[s])'
                    /\ \A q \in Proc, s \in Slot :
                          /\ Safe(o, base[q][s])'
                          /\ q # o => Safe(o, cur[q][s])'
                    /\ \A s \in Slot : cur[o][s].txn = serial[o] =>
                          s \in started[o] /\ cur[o][s].epoch <= epoch'[o][s]
  BY DEF OwnedIsPrivate
<1>3. /\ \A d \in DB, s \in Slot : root[d][s] \in Node
      /\ \A q \in Proc, s \in Slot : base[q][s] \in Node /\ cur[q][s] \in Node
  BY DEF TypeOK, Tree
<1>4. /\ \A d \in DB, s \in Slot : Safe(o, root[d][s])'
      /\ \A q \in Proc, s \in Slot : /\ Safe(o, base[q][s])'
                                     /\ q # o => Safe(o, cur[q][s])'
  <2>1. /\ \A d \in DB, s \in Slot : Safe(o, root[d][s])
        /\ \A q \in Proc, s \in Slot : /\ Safe(o, base[q][s])
                                       /\ q # o => Safe(o, cur[q][s])
    BY DEF OwnedIsPrivate
  <2>2. ASSUME NEW d \in DB, NEW s \in Slot PROVE Safe(o, root[d][s])'
    <3>1. root[d][s] \in Node /\ Safe(o, root[d][s])
      BY <2>1, <1>3
    <3> QED BY <3>1, <1>s DEF Safe
  <2>3. ASSUME NEW q \in Proc, NEW s \in Slot PROVE Safe(o, base[q][s])'
    <3>1. base[q][s] \in Node
      BY <1>3
    <3>2. Safe(o, base[q][s])
      BY <2>1, Zenon
    <3> QED BY <3>1, <3>2, <1>s DEF Safe
  <2>4. ASSUME NEW q \in Proc, NEW s \in Slot, q # o PROVE Safe(o, cur[q][s])'
    <3>1. cur[q][s] \in Node
      BY <1>3
    <3>2. Safe(o, cur[q][s])
      BY <2>1, <2>4, Zenon
    <3> QED BY <3>1, <3>2, <1>s DEF Safe
  <2> QED BY <2>2, <2>3, <2>4
<1>5. ASSUME NEW x \in views, NEW s \in DOMAIN x.trees PROVE Safe(o, x.trees[s])'
  <2>1. x.trees[s] \in Node /\ Safe(o, x.trees[s])
    BY DEF TypeOK, OwnedIsPrivate
  <2> QED BY <2>1, <1>s DEF Safe
<1>6. ASSUME NEW s \in S PROVE Safe(o, w.trees[s])'
  <2>1. w.trees[s] = cur[p][s] /\ cur[p][s].slot = s
    BY DEF HeapOK
  <2>2. CASE o = p
    <3>1. CASE cur[p][s].txn # serial[p]
      BY <2>1, <2>2, <3>1 DEF Safe
    <3>2. CASE cur[p][s].txn = serial[p]
      <4>1. s \in started[p] /\ cur[p][s].epoch <= epoch[p][s]
        BY <3>2 DEF OwnedIsPrivate
      <4>2. cur[p][s].epoch < epoch'[p][s]
        <5>1. epoch'[p][s] = epoch[p][s] + 1
          BY <4>1, <1>1
        <5>2. cur[p][s].epoch \in Nat /\ epoch[p][s] \in Nat
          BY <1>2, <1>e
        <5> QED BY <4>1, <5>1, <5>2
      <4> QED BY <2>1, <2>2, <4>2 DEF Safe
    <3> QED BY <3>1, <3>2
  <2>3. CASE o # p
    BY <1>4, <2>1, <2>3 DEF Safe
  <2> QED BY <2>2, <2>3
<1>7. \A x \in views' : \A s \in DOMAIN x.trees : Safe(o, x.trees[s])'
  BY <1>5, <1>6 DEF Safe
<1>8. \A s \in Slot : cur[o][s].txn = serial[o] =>
          s \in started[o] /\ cur[o][s].epoch <= epoch'[o][s]
  <2> SUFFICES ASSUME NEW s \in Slot, cur[o][s].txn = serial[o]
               PROVE  s \in started[o] /\ cur[o][s].epoch <= epoch'[o][s]
    OBVIOUS
  <2>1. s \in started[o] /\ cur[o][s].epoch <= epoch[o][s]
    BY DEF OwnedIsPrivate
  <2>2. /\ cur[o][s].epoch \in Nat
        /\ epoch[o][s] \in Nat /\ epoch'[o][s] \in Nat /\ epoch[o][s] <= epoch'[o][s]
    BY <1>2, <1>e
  <2> QED BY <2>1, <2>2
<1> QED BY <1>4, <1>7, <1>8

\* A goroutine that only advances without a version changing hands.
LEMMA UnchangedOwned ==
  ASSUME OwnedIsPrivate, UNCHANGED <<root, base, cur, views, serial, epoch>>,
         \A p \in Proc : pc'[p] = "open" => pc[p] = "open",
         \A p \in Proc : started[p] \subseteq started'[p]
  PROVE  OwnedIsPrivate'
BY DEF OwnedIsPrivate, Safe

\* What nobody owns stays so, and what an open transaction owns stays private.
LEMMA OwnedStep ==
  TypeOK /\ HeapOK /\ SerialsFresh /\ OwnedIsPrivate /\ [Next]_vars => OwnedIsPrivate'
<1> SUFFICES ASSUME TypeOK, HeapOK, SerialsFresh, OwnedIsPrivate, [Next]_vars
             PROVE  OwnedIsPrivate'
  OBVIOUS
<1> USE DEF shared, private, readers, counters
<1>1. ASSUME NEW p \in Proc, NEW d \in DB, BeginWrite(p, d) PROVE OwnedIsPrivate'
  <2>1. /\ UNCHANGED <<root, base, cur, views, epoch, started>>
        /\ \A q \in Proc : pc'[q] = "open" => pc[q] = "open" /\ serial'[q] = serial[q]
    BY <1>1 DEF BeginWrite, TypeOK
  <2> QED BY <2>1 DEF OwnedIsPrivate, Safe
<1>3. ASSUME NEW p \in Proc, LoadRoot(p) PROVE OwnedIsPrivate'
  <2>1. \A q \in Proc, s \in Slot :
          /\ base'[q][s] = IF q = p THEN root[dbOf[p]][s] ELSE base[q][s]
          /\ cur'[q][s] = IF q = p THEN root[dbOf[p]][s] ELSE cur[q][s]
    BY <1>3 DEF LoadRoot, TypeOK
  <2>2. /\ UNCHANGED <<root, views, serial, epoch, started, heap>>
        /\ pc[p] = "load" /\ dbOf[p] \in DB
        /\ \A q \in Proc : pc'[q] = "open" => q = p \/ pc[q] = "open"
    BY <1>3 DEF LoadRoot, TypeOK
  <2>3. \A n \in DOMAIN heap : n.txn # serial[p]
    BY <2>2 DEF SerialsFresh
  <2>4. ASSUME NEW o \in Proc, pc'[o] = "open"
        PROVE  /\ \A d \in DB, s \in Slot : Safe(o, root[d][s])
               /\ \A w \in views : \A s \in DOMAIN w.trees : Safe(o, w.trees[s])
               /\ \A q \in Proc, s \in Slot : q # p =>
                     /\ Safe(o, base[q][s])
                     /\ q # o => Safe(o, cur[q][s])
    <3>1. CASE o = p
      BY <2>3, <3>1 DEF HeapOK, Safe
    <3>2. CASE o # p
      BY <2>2, <2>4, <3>2 DEF OwnedIsPrivate
    <3> QED BY <3>1, <3>2
  <2>5. ASSUME NEW o \in Proc, pc'[o] = "open", NEW s \in Slot,
               cur'[o][s].txn = serial[o]
        PROVE  s \in started[o] /\ cur'[o][s].epoch <= epoch[o][s]
    <3>1. CASE o = p
      BY <2>1, <2>2, <2>3, <2>5, <3>1 DEF HeapOK
    <3>2. CASE o # p
      BY <2>1, <2>2, <2>5, <3>2 DEF OwnedIsPrivate
    <3> QED BY <3>1, <3>2
  <2>6. ASSUME NEW o \in Proc, pc'[o] = "open"
        PROVE  /\ \A d \in DB, s \in Slot : Safe(o, root'[d][s])
               /\ \A w \in views' : \A s \in DOMAIN w.trees : Safe(o, w.trees[s])
               /\ \A q \in Proc, s \in Slot : Safe(o, base'[q][s])
               /\ \A q \in Proc, s \in Slot : q # o => Safe(o, cur'[q][s])
    <3>1. /\ \A d \in DB, s \in Slot : Safe(o, root'[d][s])
          /\ \A w \in views' : \A s \in DOMAIN w.trees : Safe(o, w.trees[s])
      BY <2>2, <2>4, <2>6
    <3>2. \A s \in Slot : Safe(o, root[dbOf[p]][s])
      BY <2>2, <2>4, <2>6
    <3>3. \A q \in Proc, s \in Slot : Safe(o, base'[q][s])
      BY <2>1, <2>4, <2>6, <3>2
    <3>4. \A q \in Proc, s \in Slot : q # o => Safe(o, cur'[q][s])
      BY <2>1, <2>4, <2>6, <3>2
    <3> QED BY <3>1, <3>3, <3>4
  <2> QED BY <2>2, <2>5, <2>6 DEF OwnedIsPrivate, Safe
<1>4. ASSUME NEW p \in Proc, NEW t \in Table, NEW S \in SUBSET slotsOf[t], Write(p, t, S)
      PROVE  OwnedIsPrivate'
  <2>1. S \in SUBSET Slot
    BY SlotAssumption
  <2> QED BY <1>4, <2>1, PutTreesOwned DEF Write
<1>5. ASSUME NEW p \in Proc, NEW t \in Table, InsertFails(p, t) PROVE OwnedIsPrivate'
  <2>1. {idSlot[t]} \in SUBSET Slot
    BY SlotAssumption
  <2> QED BY <1>5, <2>1, PutTreesOwned DEF InsertFails
<1>6. ASSUME NEW p \in Proc, NEW t \in Table, DeleteMisses(p, t) PROVE OwnedIsPrivate'
  <2>1. \A q \in Proc : started[q] \subseteq started'[q]
    BY <1>6 DEF DeleteMisses, TypeOK
  <2> QED BY <1>6, <2>1, UnchangedOwned DEF DeleteMisses
<1>8. ASSUME NEW p \in Proc, NEW s \in Slot, NEW w \in BOOLEAN, TxnGet(p, s, w)
      PROVE OwnedIsPrivate'
  <2> DEFINE v == [trees |-> [r \in {s} |-> cur[p][r]],
                   seen  |-> [r \in {s} |-> heap[cur[p][r]]]]
  <2>1. /\ pc[p] = "open" /\ epoch' = Frozen(p, {s}) /\ views' = views \cup {v}
        /\ UNCHANGED <<root, base, cur, started, pc, serial>>
    BY <1>8 DEF TxnGet
  <2>2. DOMAIN v.trees = {s} /\ \A r \in {s} : v.trees[r] = cur[p][r]
    OBVIOUS
  <2>3. {s} \in SUBSET Slot
    OBVIOUS
  <2> HIDE DEF v
  <2> QED BY <2>1, <2>2, <2>3, FrozenOwned
<1>9. ASSUME NEW p \in Proc, TxnSnapshot(p) PROVE OwnedIsPrivate'
  <2> DEFINE v == [trees |-> cur[p], seen |-> Content(heap, cur[p])]
  <2>1. /\ pc[p] = "open" /\ epoch' = Frozen(p, Slot) /\ views' = views \cup {v}
        /\ UNCHANGED <<root, base, cur, started, pc, serial>>
    BY <1>9 DEF TxnSnapshot
  <2>2. DOMAIN v.trees = Slot /\ \A r \in Slot : v.trees[r] = cur[p][r]
    BY DEF TypeOK, Tree
  <2> HIDE DEF v
  <2> QED BY <2>1, <2>2, FrozenOwned
<1>10. ASSUME NEW p \in Proc, Publish(p) PROVE OwnedIsPrivate'
  <2>1. \A d \in DB, s \in Slot : \/ root'[d][s] = root[d][s]
                                  \/ root'[d][s] = cur[p][s]
                                  \/ root'[d][s] = base[p][s]
    BY <1>10 DEF Publish, TypeOK
  <2>2. /\ UNCHANGED <<base, cur, views, serial, epoch, started>>
        /\ \A q \in Proc : pc'[q] = "open" => q # p /\ pc[q] = "open"
    BY <1>10 DEF Publish, TypeOK
  <2>3. ASSUME NEW o \in Proc, pc'[o] = "open", NEW d \in DB, NEW s \in Slot
        PROVE  Safe(o, root[d][s])'
    <3>1. Safe(o, root[d][s]) /\ Safe(o, cur[p][s]) /\ Safe(o, base[p][s])
      BY <2>2, <2>3 DEF OwnedIsPrivate
    <3> QED BY <2>1, <2>2, <3>1 DEF Safe
  <2> QED BY <2>2, <2>3 DEF OwnedIsPrivate, Safe
<1>13. ASSUME NEW p \in Proc, Unlock(p) \/ Abort(p) PROVE OwnedIsPrivate'
  <2>1. \A q \in Proc, s \in Slot :
          /\ base'[q][s] = IF q = p THEN FirstNode(s) ELSE base[q][s]
          /\ cur'[q][s] = IF q = p THEN FirstNode(s) ELSE cur[q][s]
    BY <1>13 DEF Unlock, Abort, Release, TypeOK, FirstRoot
  <2>2. /\ UNCHANGED <<root, views>>
        /\ \A q \in Proc : pc'[q] = "open" =>
              /\ q # p /\ pc[q] = "open"
              /\ serial'[q] = serial[q] /\ epoch'[q] = epoch[q] /\ started'[q] = started[q]
    BY <1>13 DEF Unlock, Abort, Release, TypeOK
  <2>3. \A q \in Proc, s \in Slot : pc[q] = "open" => FirstNode(s).txn # serial[q]
    BY DEF SerialsFresh, InTxn, FirstNode
  <2> QED BY <2>1, <2>2, <2>3 DEF OwnedIsPrivate, Safe
<1>17. ASSUME NEW d \in DB, ReadTxn(d) PROVE OwnedIsPrivate'
  <2> DEFINE v == [trees |-> root[d], seen |-> Content(heap, root[d])]
  <2>1. views' = views \cup {v} /\ UNCHANGED <<root, base, cur, serial, epoch, started, pc>>
    BY <1>17 DEF ReadTxn
  <2>2. DOMAIN v.trees = Slot /\ \A r \in Slot : v.trees[r] = root[d][r]
    BY DEF TypeOK, Tree
  <2>3. ASSUME NEW o \in Proc, pc[o] = "open", NEW x \in views', NEW s \in DOMAIN x.trees
        PROVE  Safe(o, x.trees[s])
    <3>1. CASE x \in views
      BY <2>3, <3>1 DEF OwnedIsPrivate
    <3>2. CASE x = v
      <4>1. s \in Slot /\ x.trees[s] = root[d][s]
        BY <2>2, <2>3, <3>2
      <4> QED BY <2>3, <4>1 DEF OwnedIsPrivate
    <3> QED BY <2>1, <3>1, <3>2
  <2> HIDE DEF v
  <2> QED BY <2>1, <2>3 DEF OwnedIsPrivate, Safe
<1>19. CASE Snapshot
  <2>1. \A d \in DB, s \in Slot : \E e \in DB : root'[d][s] = root[e][s]
    BY <1>19 DEF Snapshot, TypeOK, DB
  <2>2. UNCHANGED <<base, cur, views, serial, epoch, started, pc>>
    BY <1>19 DEF Snapshot
  <2>3. ASSUME NEW o \in Proc, pc[o] = "open", NEW d \in DB, NEW s \in Slot
        PROVE  Safe(o, root'[d][s])
    <3>1. PICK e \in DB : root'[d][s] = root[e][s]
      BY <2>1
    <3> QED BY <2>3, <3>1 DEF OwnedIsPrivate
  <2> QED BY <2>2, <2>3 DEF OwnedIsPrivate, Safe
<1>20. ASSUME NEW p \in Proc,
              \/ Lock(p) \/ Defer(p) \/ CommitEmpty(p) \/ NotifyOne(p)
              \/ RunDeferred(p) \/ CommitReturns(p)
       PROVE  OwnedIsPrivate'
  <2>1. \A q \in Proc : pc'[q] = "open" => pc[q] = "open"
    BY <1>20 DEF Lock, Defer, CommitEmpty, NotifyOne, RunDeferred, CommitReturns, TypeOK
  <2> QED BY <1>20, <2>1, UnchangedOwned DEF Lock, Defer, CommitEmpty, NotifyOne,
          RunDeferred, CommitReturns
<1>21. CASE \/ UNCHANGED vars
            \/ \E v \in views : \E s \in DOMAIN v.trees : Watch(v, s)
  BY <1>21, UnchangedOwned DEF vars, Watch
<1> QED
  BY <1>1, <1>3, <1>4, <1>5, <1>6, <1>8, <1>9, <1>10, <1>13, <1>17, <1>19, <1>20, <1>21
     DEF Next, WriteTxn, Running, Finish, Done

-----------------------------------------------------------------------------
\* A write changes no node a reader holds.
LEMMA PutTreesViews ==
  ASSUME TypeOK, HeapOK, OwnedIsPrivate, ViewsStable, NEW p \in Proc,
         NEW S \in SUBSET Slot, NEW v, pc[p] = "open", PutTrees(p, S, v),
         UNCHANGED views
  PROVE  ViewsStable'
<1>1. \A n \in DOMAIN heap : (\A s \in S : n # OwnNode(p, s)) => heap'[n] = heap[n]
  BY PutTreesFacts
<1>2. ASSUME NEW w \in views, NEW s \in DOMAIN w.trees
      PROVE  heap'[w.trees[s]] = heap[w.trees[s]]
  <2>1. w.trees[s] \in DOMAIN heap /\ w.trees[s] \in Node /\ Safe(p, w.trees[s])
    BY DEF HeapOK, TypeOK, OwnedIsPrivate
  <2>2. \A r \in S : w.trees[s] # OwnNode(p, r)
    BY <2>1, SafeNotOwned
  <2> QED BY <1>1, <2>1, <2>2
<1>3. \A w \in views : Content(heap', w.trees) = Content(heap, w.trees)
  BY <1>2 DEF Content
<1> QED BY <1>3 DEF ViewsStable, Content

\* No step changes what a reader sees.
LEMMA ViewsStep ==
  TypeOK /\ HeapOK /\ OwnedIsPrivate /\ ViewsStable /\ [Next]_vars => ViewsStable'
<1> SUFFICES ASSUME TypeOK, HeapOK, OwnedIsPrivate, ViewsStable, [Next]_vars
             PROVE  ViewsStable'
  OBVIOUS
<1> USE DEF shared, private, readers, counters
<1>a. ASSUME UNCHANGED heap, NEW v, views' \subseteq views \cup {v},
             Content(heap, v.trees) = v.seen
      PROVE  ViewsStable'
  BY <1>a DEF ViewsStable, Content
<1>b. ASSUME UNCHANGED <<heap, views>> PROVE ViewsStable'
  BY <1>b DEF ViewsStable, Content
<1>4. ASSUME NEW p \in Proc, NEW t \in Table, NEW S \in SUBSET slotsOf[t], Write(p, t, S)
      PROVE  ViewsStable'
  <2>1. S \in SUBSET Slot
    BY SlotAssumption
  <2> QED BY <1>4, <2>1, PutTreesViews DEF Write
<1>5. ASSUME NEW p \in Proc, NEW t \in Table, InsertFails(p, t) PROVE ViewsStable'
  <2>1. {idSlot[t]} \in SUBSET Slot
    BY SlotAssumption
  <2> QED BY <1>5, <2>1, PutTreesViews DEF InsertFails
<1>8. ASSUME NEW p \in Proc, NEW s \in Slot, NEW w \in BOOLEAN, TxnGet(p, s, w)
      PROVE ViewsStable'
  <2> DEFINE v == [trees |-> [r \in {s} |-> cur[p][r]],
                   seen  |-> [r \in {s} |-> heap[cur[p][r]]]]
  <2>1. UNCHANGED heap /\ views' = views \cup {v}
    BY <1>8 DEF TxnGet
  <2>2. Content(heap, v.trees) = v.seen
    BY DEF Content
  <2> QED BY <2>1, <2>2, <1>a
<1>9. ASSUME NEW p \in Proc, TxnSnapshot(p) PROVE ViewsStable'
  <2> DEFINE v == [trees |-> cur[p], seen |-> Content(heap, cur[p])]
  <2>1. UNCHANGED heap /\ views' = views \cup {v} /\ Content(heap, v.trees) = v.seen
    BY <1>9 DEF TxnSnapshot
  <2> QED BY <2>1, <1>a
<1>17. ASSUME NEW d \in DB, ReadTxn(d) PROVE ViewsStable'
  <2> DEFINE v == [trees |-> root[d], seen |-> Content(heap, root[d])]
  <2>1. UNCHANGED heap /\ views' = views \cup {v} /\ Content(heap, v.trees) = v.seen
    BY <1>17 DEF ReadTxn
  <2> QED BY <2>1, <1>a
<1>20. ASSUME NEW p \in Proc,
              \/ \E d \in DB : BeginWrite(p, d)
              \/ \E t \in Table : DeleteMisses(p, t)
              \/ Lock(p) \/ LoadRoot(p) \/ Defer(p) \/ Publish(p) \/ CommitEmpty(p)
              \/ NotifyOne(p) \/ Unlock(p) \/ RunDeferred(p) \/ CommitReturns(p) \/ Abort(p)
       PROVE  ViewsStable'
  BY <1>20, <1>b DEF BeginWrite, DeleteMisses, Lock, LoadRoot, Defer, Publish, CommitEmpty,
     NotifyOne, Unlock, RunDeferred, CommitReturns, Abort
<1>21. CASE \/ UNCHANGED vars
            \/ \E v \in views : \E s \in DOMAIN v.trees : Watch(v, s)
            \/ Snapshot
  BY <1>21, <1>b DEF vars, Watch, Snapshot
<1> QED
  BY <1>4, <1>5, <1>8, <1>9, <1>17, <1>20, <1>21 DEF Next, WriteTxn, Running, Finish, Done

-----------------------------------------------------------------------------
\* The initial state has nothing in anybody's hands.
LEMMA IInvInit == Init => IInv
<1> SUFFICES ASSUME Init PROVE IInv
  OBVIOUS
<1>1. TypeOK
  BY TypeInit
<1>2. HeapOK
  <2>1. \A s \in Slot : FirstNode(s) \in DOMAIN heap /\ FirstNode(s).slot = s
    BY DEF Init, FirstNode
  <2> QED BY <2>1 DEF Init, HeapOK, FirstNodesExist, FirstRoot
<1>3. SerialsFresh
  <2>1. \A n \in DOMAIN heap : n.txn = 0
    BY DEF Init, FirstNode
  <2>2. txns = 0 /\ \A p \in Proc : pc[p] = "idle"
    BY DEF Init
  <2>3. \A p \in Proc : started[p] = {} /\ epoch[p] = [s \in Slot |-> 0]
    BY DEF Init
  <2> QED BY <2>1, <2>2, <2>3 DEF SerialsFresh, InTxn
<1>4. OwnedIsPrivate
  BY DEF Init, OwnedIsPrivate
<1>5. ViewsStable
  BY DEF Init, ViewsStable
<1> QED BY <1>1, <1>2, <1>3, <1>4, <1>5 DEF IInv

LEMMA IInvStep == IInv /\ [Next]_vars => IInv'
  BY TypeStep, HeapStep, SerialsStep, OwnedStep, ViewsStep DEF IInv

\* The inductive invariant holds in every state.
THEOREM Inductive == Spec => []IInv
  BY IInvInit, IInvStep, PTL DEF Spec

\* Every variable keeps its type (memdb.go:32-63, txn.go:34-113).
THEOREM TypeCorrect == Spec => []TypeOK
<1>1. IInv => TypeOK
  BY DEF IInv
<1> QED BY Inductive, <1>1, PTL

\* Whatever the number of goroutines, tables, indexes, databases and writes, what
\* a reader holds never changes (txn.go:205-227, 1119-1153, memdb.go:103-126).
THEOREM Isolation == Spec => []ViewsStable
<1>1. IInv => ViewsStable
  BY DEF IInv
<1> QED BY Inductive, <1>1, PTL

----------------------------------------------------------------------------
(* Updates and wakeups.                                                    *)

\* The states in which a goroutine holds the writer lock of its database.
Writing(p) == pc[p] \in {"load", "open", "notify"}

\* A writer holds the lock, and a snapshot is written only once it exists.
LockHeld ==
    \A p \in Proc :
        /\ Writing(p) => lock[dbOf[p]] = p
        /\ InTxn(p) /\ dbOf[p] = Clone => cloned

\* A tree of an open transaction that is not the one it started from has been
\* written, and its root is the transaction's own.
TreesFromBase ==
    \A p \in Proc, s \in Slot : pc[p] = "open" =>
        /\ s \notin started[p] \/ ~wrote[p] => cur[p][s] = base[p][s]
        /\ cur[p][s] = base[p][s] \/ cur[p][s].txn = serial[p]

\* A transaction is published once, when it commits, and closed channels and
\* current roots are of published transactions.
SerialsUnpublished ==
    /\ \A k \in published : k <= txns
    /\ \A p \in Proc : pc[p] \in {"lock", "load", "open"} => serial[p] \notin published
    /\ \A n \in closed : n.txn \in published
    /\ \A s \in Slot : root[Primary][s].txn \in published

\* A notifier has channels only between the first write and the last Notify of
\* a transaction of the primary.
NotifierIdle ==
    \A p \in Proc :
        pc[p] \notin {"open", "notify"} \/ ~wrote[p] \/ dbOf[p] = Clone => nf[p] = {}

\* A node of a published transaction is current, closed or about to be closed.
PublishedAccounted ==
    \A n \in DOMAIN heap : n.txn \in published =>
        root[Primary][n.slot] = n \/ n \in closed \/ Pending(n)

\* The nodes an open transaction has made or started from are in its trees or
\* in its notifier.
OpenAccounted ==
    \A p \in Proc : pc[p] = "open" /\ dbOf[p] = Primary =>
        /\ \A n \in DOMAIN heap : n.txn = serial[p] => cur[p][n.slot] = n \/ n \in nf[p]
        /\ \A s \in Slot : cur[p][s] = base[p][s] \/ base[p][s] \in nf[p]

\* What a notifier has is not in the trees that are or will be published.
NotifiesReplaced ==
    \A p \in Proc : \A n \in nf[p] :
        /\ pc[p] = "notify" => root[Primary][n.slot] # n /\ n.txn \in published
        /\ pc[p] = "open" =>
              /\ cur[p][n.slot] # n /\ Safe(p, n)
              /\ n.txn \in published \/ n.txn = serial[p]

\* What is watched exists.
WatchedExists == watched \subseteq DOMAIN heap

WInv ==
    /\ IInv
    /\ LockHeld
    /\ NoLostUpdate
    /\ TreesFromBase
    /\ SerialsUnpublished
    /\ NotifierIdle
    /\ PublishedAccounted
    /\ OpenAccounted
    /\ NotifiesReplaced
    /\ WokenSeesNew
    /\ WatchedExists
-----------------------------------------------------------------------------
\* What a write of p into the slots S does, the contents of the nodes aside.
Puts(p, S) ==
    /\ pc[p] = "open"
    /\ DOMAIN heap' = DOMAIN heap \cup {OwnNode(p, s) : s \in S}
    /\ \A s \in Slot : cur'[p][s] = IF s \in S THEN OwnNode(p, s) ELSE cur[p][s]
    /\ nf'[p] = IF dbOf[p] = Primary
               THEN nf[p] \cup {cur[p][s] : s \in Copied(p, S)}
               ELSE nf[p]
    /\ started'[p] = started[p] \cup S
    /\ wrote'[p]
    /\ \A q \in Proc : q # p => /\ cur'[q] = cur[q] /\ nf'[q] = nf[q]
                                /\ started'[q] = started[q] /\ wrote'[q] = wrote[q]
    /\ UNCHANGED <<root, cloned, lock, closed, published, pc, dbOf, serial, base, epoch,
                   views, watched, txns>>

\* An Insert or a Delete is such a write, also when it fails and is undone.
LEMMA WritesPut ==
  ASSUME TypeOK, NEW p \in Proc, NEW t \in Table, NEW S \in SUBSET slotsOf[t],
         Write(p, t, S) \/ (S = {idSlot[t]} /\ InsertFails(p, t))
  PROVE  S \in SUBSET Slot /\ Puts(p, S)
<1>1. S \in SUBSET Slot
  BY SlotAssumption
<1>2. PICK v : PutTrees(p, S, v)
  BY DEF Write, InsertFails
<1>3. /\ DOMAIN heap' = DOMAIN heap \cup {OwnNode(p, s) : s \in S}
      /\ \A s \in Slot : cur'[p][s] = IF s \in S THEN OwnNode(p, s) ELSE cur[p][s]
      /\ \A q \in Proc : q # p => cur'[q] = cur[q]
  BY <1>1, <1>2, PutTreesFacts
<1>4. /\ nf'[p] = IF dbOf[p] = Primary
                 THEN nf[p] \cup {cur[p][s] : s \in Copied(p, S)}
                 ELSE nf[p]
      /\ started'[p] = started[p] \cup S
      /\ \A q \in Proc : q # p => nf'[q] = nf[q] /\ started'[q] = started[q]
  BY <1>2 DEF PutTrees, TypeOK
<1>5. wrote'[p] /\ \A q \in Proc : q # p => wrote'[q] = wrote[q]
  BY <1>2 DEF PutTrees, TypeOK
<1>6. /\ pc[p] = "open"
      /\ UNCHANGED <<root, cloned, lock, closed, published, pc, dbOf, serial, base, epoch,
                     views, watched, txns>>
  BY DEF Write, InsertFails, readers, counters
<1> QED BY <1>1, <1>3, <1>4, <1>5, <1>6 DEF Puts

\* A step that changes no version, no node, no notifier and no goroutine's place:
\* what is read is frozen, nothing else happens to it.
Keeps ==
    /\ UNCHANGED <<root, cloned, lock, heap, closed, published, pc, dbOf, serial, base, cur,
                   nf, txns>>
    /\ \A q \in Proc : started[q] \subseteq started'[q] /\ (wrote[q] => wrote'[q])
    /\ \A q \in Proc, s \in Slot : epoch'[q][s] \in Nat /\ epoch[q][s] <= epoch'[q][s]

\* Every step is of one of these kinds.
LEMMA StepKinds ==
  ASSUME TypeOK, [Next]_vars
  PROVE  \/ Keeps
         \/ Snapshot
         \/ \E p \in Proc :
               \/ \E d \in DB : BeginWrite(p, d)
               \/ \E S \in SUBSET Slot : Puts(p, S)
               \/ Lock(p) \/ LoadRoot(p) \/ Publish(p) \/ CommitEmpty(p) \/ NotifyOne(p)
               \/ Unlock(p) \/ CommitReturns(p) \/ Abort(p)
<1> USE DEF shared, private, readers, counters
<1>e. \A q \in Proc, s \in Slot : epoch[q][s] \in Nat
  BY DEF TypeOK
<1>1. ASSUME NEW p \in Proc, NEW t \in Table, NEW S \in SUBSET slotsOf[t],
             Write(p, t, S) \/ (S = {idSlot[t]} /\ InsertFails(p, t))
      PROVE  \E R \in SUBSET Slot : Puts(p, R)
  BY <1>1, WritesPut
<1>2. ASSUME NEW p \in Proc, NEW t \in Table, InsertFails(p, t)
      PROVE  \E R \in SUBSET Slot : Puts(p, R)
  <2>1. {idSlot[t]} \in SUBSET slotsOf[t]
    BY SlotAssumption
  <2> QED BY <1>1, <1>2, <2>1
<1>3. ASSUME NEW p \in Proc, NEW t \in Table, DeleteMisses(p, t) PROVE Keeps
  <2>1. \A q \in Proc : started[q] \subseteq started'[q]
    BY <1>3 DEF DeleteMisses, TypeOK
  <2>2. \A q \in Proc : wrote[q] => wrote'[q]
    BY <1>3 DEF DeleteMisses, TypeOK
  <2> QED BY <1>3, <1>e, <2>1, <2>2 DEF DeleteMisses, Keeps
<1>4. ASSUME NEW p \in Proc, NEW S,
             epoch' = Frozen(p, S), UNCHANGED <<shared, pc, dbOf, serial, base, cur, started,
                                                wrote, nf, after, counters>>
      PROVE  Keeps
  <2>1. \A q \in Proc, s \in Slot : epoch'[q][s] \in {epoch[q][s], epoch[q][s] + 1}
    BY <1>4 DEF Frozen, TypeOK
  <2> QED BY <1>4, <1>e, <2>1 DEF Keeps
<1>5. ASSUME NEW p \in Proc, TxnSnapshot(p) \/ \E s \in Slot, w \in BOOLEAN : TxnGet(p, s, w)
      PROVE  Keeps
  BY <1>4, <1>5 DEF TxnSnapshot, TxnGet
<1>6. ASSUME NEW p \in Proc, Defer(p) \/ RunDeferred(p) PROVE Keeps
  BY <1>6, <1>e DEF Defer, RunDeferred, Keeps
<1>7. CASE \/ \E d \in DB : ReadTxn(d)
           \/ \E v \in views : \E s \in DOMAIN v.trees : Watch(v, s)
           \/ UNCHANGED vars
  BY <1>7, <1>e DEF ReadTxn, Watch, vars, Keeps
<1> QED
  BY <1>1, <1>2, <1>3, <1>5, <1>6, <1>7 DEF Next, WriteTxn, Running, Finish, Done

\* One goroutine at a time writes to a database.
LEMMA OneWriter ==
  ASSUME LockHeld, NEW p \in Proc, NEW q \in Proc, Writing(p), Writing(q), dbOf[p] = dbOf[q]
  PROVE  p = q
BY DEF LockHeld

\* The writer lock is held from the load of the root to the last Notify.
LEMMA LockStep == TypeOK /\ LockHeld /\ [Next]_vars => LockHeld'
<1> SUFFICES ASSUME TypeOK, LockHeld, [Next]_vars PROVE LockHeld'
  OBVIOUS
<1> USE DEF shared, private, readers, counters
<1>a. ASSUME UNCHANGED <<lock, cloned, dbOf>>,
             \A q \in Proc : /\ Writing(q)' => Writing(q)
                             /\ InTxn(q)' => InTxn(q)
      PROVE  LockHeld'
  BY <1>a DEF LockHeld, Writing, InTxn
<1>1. ASSUME NEW p \in Proc, NEW d \in DB, BeginWrite(p, d) PROVE LockHeld'
  <2>1. \A q \in Proc : /\ pc'[q] = IF q = p THEN "lock" ELSE pc[q]
                        /\ dbOf'[q] = IF q = p THEN d ELSE dbOf[q]
    BY <1>1 DEF BeginWrite, TypeOK
  <2>2. UNCHANGED <<lock, cloned>> /\ (d = Primary \/ cloned)
    BY <1>1, Zenon DEF BeginWrite
  <2> QED BY <2>1, <2>2, DBAssumption DEF LockHeld, Writing, InTxn
<1>2. ASSUME NEW p \in Proc, Lock(p) PROVE LockHeld'
  <2>1. \A q \in Proc : pc'[q] = IF q = p THEN "load" ELSE pc[q]
    BY <1>2 DEF Lock, TypeOK
  <2>2. /\ pc[p] = "lock" /\ lock[dbOf[p]] = NoProc /\ UNCHANGED <<cloned, dbOf>>
        /\ \A d \in DB : lock'[d] = IF d = dbOf[p] THEN p ELSE lock[d]
    BY <1>2 DEF Lock, TypeOK
  <2>3. \A q \in Proc : Writing(q) => dbOf[q] # dbOf[p]
    BY <2>2, ProcAssumption DEF LockHeld
  <2>4. \A q \in Proc : dbOf[q] \in DB
    BY DEF TypeOK
  <2> QED BY <2>1, <2>2, <2>3, <2>4 DEF LockHeld, Writing, InTxn
<1>13. ASSUME NEW p \in Proc, Unlock(p) \/ Abort(p) PROVE LockHeld'
  <2>1. /\ \A q \in Proc : q # p => pc'[q] = pc[q] /\ dbOf'[q] = dbOf[q]
        /\ pc'[p] \in {"idle", "deferred"}
    BY <1>13 DEF Unlock, Abort, Release, TypeOK
  <2>2. /\ Writing(p) /\ UNCHANGED cloned
        /\ \A d \in DB : lock'[d] = IF d = dbOf[p] THEN NoProc ELSE lock[d]
    BY <1>13 DEF Unlock, Abort, TypeOK, Writing
  <2>3. \A q \in Proc : q # p /\ Writing(q) => dbOf[q] # dbOf[p]
    BY <2>2, OneWriter
  <2>4. \A q \in Proc : dbOf[q] \in DB
    BY DEF TypeOK
  <2> QED BY <2>1, <2>2, <2>3, <2>4 DEF LockHeld, Writing, InTxn
<1>19. CASE Snapshot
  BY <1>19 DEF Snapshot, LockHeld, Writing, InTxn
<1>20. ASSUME NEW p \in Proc,
              LoadRoot(p) \/ Publish(p) \/ CommitEmpty(p) \/ CommitReturns(p)
       PROVE  LockHeld'
  BY <1>20, <1>a DEF LoadRoot, Publish, CommitEmpty, CommitReturns, Writing, InTxn, TypeOK
<1>21. CASE Keeps \/ \E p \in Proc : NotifyOne(p) \/ \E S \in SUBSET Slot : Puts(p, S)
  BY <1>21, <1>a DEF Keeps, NotifyOne, Puts, Writing, InTxn
<1> QED BY <1>1, <1>2, <1>13, <1>19, <1>20, <1>21, StepKinds

-----------------------------------------------------------------------------
\* The version an open transaction started from stays published until its own
\* commit, and what it has not written is still that version.
LEMMA BaseStep ==
  TypeOK /\ LockHeld /\ NoLostUpdate /\ TreesFromBase /\ [Next]_vars
    => NoLostUpdate' /\ TreesFromBase'
<1> SUFFICES ASSUME TypeOK, LockHeld, NoLostUpdate, TreesFromBase, [Next]_vars
             PROVE  NoLostUpdate' /\ TreesFromBase'
  OBVIOUS
<1> USE DEF shared, private, readers, counters
<1>a. ASSUME UNCHANGED root,
             \A q \in Proc : pc'[q] = "open" =>
                /\ pc[q] = "open" /\ base'[q] = base[q] /\ cur'[q] = cur[q]
                /\ dbOf'[q] = dbOf[q] /\ serial'[q] = serial[q]
                /\ started[q] \subseteq started'[q] /\ (wrote[q] => wrote'[q])
      PROVE  NoLostUpdate' /\ TreesFromBase'
  BY <1>a DEF NoLostUpdate, TreesFromBase
<1>1. ASSUME NEW p \in Proc, NEW d \in DB, BeginWrite(p, d)
      PROVE  NoLostUpdate' /\ TreesFromBase'
  BY <1>1, <1>a DEF BeginWrite, TypeOK
<1>3. ASSUME NEW p \in Proc, LoadRoot(p) PROVE NoLostUpdate' /\ TreesFromBase'
  <2>1. \A q \in Proc : /\ pc'[q] = IF q = p THEN "open" ELSE pc[q]
                        /\ base'[q] = IF q = p THEN root[dbOf[p]] ELSE base[q]
                        /\ cur'[q] = IF q = p THEN root[dbOf[p]] ELSE cur[q]
    BY <1>3 DEF LoadRoot, TypeOK
  <2>2. UNCHANGED <<root, dbOf, serial, started, wrote>>
    BY <1>3 DEF LoadRoot
  <2> QED BY <2>1, <2>2 DEF NoLostUpdate, TreesFromBase
<1>4. ASSUME NEW p \in Proc, NEW S \in SUBSET Slot, Puts(p, S)
      PROVE  NoLostUpdate' /\ TreesFromBase'
  <2>1. \A s \in Slot : OwnNode(p, s).txn = serial[p]
    BY DEF OwnNode
  <2> QED BY <1>4, <2>1 DEF Puts, NoLostUpdate, TreesFromBase
<1>10. ASSUME NEW p \in Proc, Publish(p) PROVE NoLostUpdate' /\ TreesFromBase'
  <2>1. /\ UNCHANGED <<base, cur, dbOf, serial, started, wrote>> /\ Writing(p)
        /\ \A d \in DB : d # dbOf[p] => root'[d] = root[d]
        /\ \A q \in Proc : pc'[q] = "open" => q # p /\ pc[q] = "open"
    BY <1>10 DEF Publish, TypeOK, Writing, private
  <2>2. \A q \in Proc : pc'[q] = "open" => dbOf[q] # dbOf[p] /\ dbOf[q] \in DB
    BY <2>1, OneWriter DEF Writing, TypeOK
  <2> QED BY <2>1, <2>2 DEF NoLostUpdate, TreesFromBase
<1>13. ASSUME NEW p \in Proc, Unlock(p) \/ Abort(p) PROVE NoLostUpdate' /\ TreesFromBase'
  <2>1. \A q \in Proc : pc'[q] = "open" =>
                /\ pc[q] = "open" /\ base'[q] = base[q] /\ cur'[q] = cur[q]
                /\ dbOf'[q] = dbOf[q] /\ serial'[q] = serial[q]
                /\ started[q] \subseteq started'[q]
    BY <1>13 DEF Unlock, Abort, Release, TypeOK
  <2>2. \A q \in Proc : pc'[q] = "open" => wrote'[q] = wrote[q]
    BY <1>13 DEF Unlock, Abort, Release, TypeOK
  <2>3. UNCHANGED root
    BY <1>13 DEF Unlock, Abort
  <2> QED BY <1>a, <2>1, <2>2, <2>3
<1>19. CASE Snapshot
  <2>1. \A q \in Proc : pc[q] = "open" => dbOf[q] = Primary
    BY <1>19 DEF Snapshot, LockHeld, InTxn, TypeOK, DB
  <2>2. root'[Primary] = root[Primary] /\ UNCHANGED <<pc, base, cur, dbOf, serial, started, wrote>>
    BY <1>19, DBAssumption DEF Snapshot, TypeOK, DB
  <2> QED BY <2>1, <2>2 DEF NoLostUpdate, TreesFromBase
<1>20. ASSUME NEW p \in Proc, Lock(p) \/ CommitEmpty(p) \/ CommitReturns(p) \/ NotifyOne(p)
       PROVE  NoLostUpdate' /\ TreesFromBase'
  BY <1>20, <1>a DEF Lock, CommitEmpty, CommitReturns, NotifyOne, TypeOK
<1>21. CASE Keeps
  BY <1>21, <1>a DEF Keeps
<1> QED BY <1>1, <1>3, <1>4, <1>10, <1>13, <1>19, <1>20, <1>21, StepKinds

\* The notifier of a goroutine is empty outside the transactions of the primary.
LEMMA NotifierStep == TypeOK /\ NotifierIdle /\ [Next]_vars => NotifierIdle'
<1> SUFFICES ASSUME TypeOK, NotifierIdle, [Next]_vars PROVE NotifierIdle'
  OBVIOUS
<1> USE DEF shared, private, readers, counters
<1>a. ASSUME \A q \in Proc :
                \/ nf'[q] = {}
                \/ /\ nf'[q] \subseteq nf[q] /\ dbOf'[q] = dbOf[q]
                   /\ wrote'[q] = wrote[q]
                   /\ pc'[q] = pc[q] \/ pc'[q] \in {"open", "notify"}
      PROVE  NotifierIdle'
  BY <1>a DEF NotifierIdle
<1>1. ASSUME NEW p \in Proc, NEW d \in DB, BeginWrite(p, d) PROVE NotifierIdle'
  <2>1. nf'[p] = {}
    BY <1>1 DEF BeginWrite, NotifierIdle
  <2>2. \A q \in Proc : q # p => dbOf'[q] = dbOf[q] /\ pc'[q] = pc[q]
    BY <1>1 DEF BeginWrite, TypeOK
  <2> QED BY <1>1, <1>a, <2>1, <2>2 DEF BeginWrite
<1>2. ASSUME NEW p \in Proc, Lock(p) PROVE NotifierIdle'
  <2>1. nf'[p] = {}
    BY <1>2 DEF Lock, NotifierIdle
  <2> QED BY <1>2, <1>a, <2>1 DEF Lock, TypeOK
<1>4. ASSUME NEW p \in Proc, NEW S \in SUBSET Slot, Puts(p, S) PROVE NotifierIdle'
  <2>1. dbOf[p] = Clone => nf'[p] = {}
    BY <1>4, DBAssumption DEF Puts, NotifierIdle
  <2> QED BY <1>4, <2>1 DEF Puts, NotifierIdle
<1>13. ASSUME NEW p \in Proc, Unlock(p) \/ Abort(p) PROVE NotifierIdle'
  <2>1. nf'[p] = {} /\ \A q \in Proc : q # p =>
          /\ nf'[q] = nf[q] /\ dbOf'[q] = dbOf[q] /\ wrote'[q] = wrote[q] /\ pc'[q] = pc[q]
    <3>1. nf'[p] = {} /\ \A q \in Proc : q # p =>
             nf'[q] = nf[q] /\ dbOf'[q] = dbOf[q] /\ pc'[q] = pc[q]
      BY <1>13 DEF Unlock, Abort, Release, TypeOK
    <3>2. \A q \in Proc : q # p => wrote'[q] = wrote[q]
      BY <1>13 DEF Unlock, Abort, Release, TypeOK
    <3> QED BY <3>1, <3>2
  <2> QED BY <2>1, <1>a
<1>15. ASSUME NEW p \in Proc, CommitReturns(p) PROVE NotifierIdle'
  <2>1. nf'[p] = {}
    BY <1>15 DEF CommitReturns, NotifierIdle
  <2> QED BY <1>15, <1>a, <2>1 DEF CommitReturns, TypeOK
<1>20. ASSUME NEW p \in Proc, LoadRoot(p) \/ Publish(p) \/ CommitEmpty(p) \/ NotifyOne(p)
       PROVE  NotifierIdle'
  BY <1>20, <1>a DEF LoadRoot, Publish, CommitEmpty, NotifyOne, TypeOK
<1>21. CASE Keeps
  BY <1>21 DEF Keeps, NotifierIdle
<1>22. CASE Snapshot
  BY <1>22, <1>a DEF Snapshot
<1> QED BY <1>1, <1>2, <1>4, <1>13, <1>15, <1>20, <1>21, <1>22, StepKinds

-----------------------------------------------------------------------------
\* What a transaction publishes is what its own trees hold.
LEMMA Published ==
  ASSUME TypeOK, TreesFromBase, NEW p \in Proc, Publish(p)
  PROVE  /\ \A d \in DB, s \in Slot :
               root'[d][s] = IF d = dbOf[p] THEN cur[p][s] ELSE root[d][s]
         /\ \A k : k \in published' <=>
               k \in published \/ (dbOf[p] = Primary /\ k = serial[p])
         /\ \A q \in Proc : pc'[q] = IF q = p THEN "notify" ELSE pc[q]
         /\ pc[p] = "open" /\ Writing(p) /\ InTxn(p) /\ wrote[p]
         /\ UNCHANGED <<cloned, lock, heap, closed, dbOf, serial, base, cur, started, wrote,
                        epoch, nf, views, watched, txns>>
<1>1. \A s \in Slot : (IF s \in started[p] THEN cur[p][s] ELSE base[p][s]) = cur[p][s]
  BY DEF Publish, TreesFromBase
<1>2. \A d \in DB, s \in Slot :
        root'[d][s] = IF d = dbOf[p] THEN cur[p][s] ELSE root[d][s]
  BY <1>1 DEF Publish, TypeOK
<1>3. \A k : k \in published' <=> k \in published \/ (dbOf[p] = Primary /\ k = serial[p])
  BY DEF Publish
<1>4. \A q \in Proc : pc'[q] = IF q = p THEN "notify" ELSE pc[q]
  BY DEF Publish, TypeOK
<1>5. /\ pc[p] = "open" /\ Writing(p) /\ InTxn(p) /\ wrote[p]
      /\ UNCHANGED <<cloned, lock, heap, closed, dbOf, serial, base, cur, started, wrote,
                     epoch, nf, views, watched, txns>>
  BY DEF Publish, Writing, InTxn, private, readers, counters
<1> QED BY <1>2, <1>3, <1>4, <1>5, Zenon

\* What a finished transaction leaves of itself.
LEMMA Released ==
  ASSUME TypeOK, NEW p \in Proc, Unlock(p) \/ Abort(p)
  PROVE  /\ \A q \in Proc : q # p =>
               /\ pc'[q] = pc[q] /\ dbOf'[q] = dbOf[q] /\ serial'[q] = serial[q]
               /\ base'[q] = base[q] /\ cur'[q] = cur[q] /\ epoch'[q] = epoch[q]
               /\ nf'[q] = nf[q]
         /\ pc'[p] \in {"idle", "deferred"} /\ nf'[p] = {}
         /\ pc[p] = "notify" => nf[p] = {}
         /\ pc[p] \in {"open", "notify"}
         /\ UNCHANGED <<root, heap, closed, published, txns, watched>>
BY DEF Unlock, Abort, Release, TypeOK, readers, counters

\* Transactions are published once, and what is current or closed was published.
LEMMA PublishedStep ==
  TypeOK /\ SerialsFresh /\ TreesFromBase /\ NoLostUpdate /\ NotifiesReplaced
    /\ SerialsUnpublished /\ [Next]_vars => SerialsUnpublished'
<1> SUFFICES ASSUME TypeOK, SerialsFresh, TreesFromBase, NoLostUpdate, NotifiesReplaced,
                    SerialsUnpublished, [Next]_vars
             PROVE  SerialsUnpublished'
  OBVIOUS
<1> USE DEF shared, private, readers, counters
<1>a. ASSUME UNCHANGED <<root, closed, published, txns>>,
             \A q \in Proc : pc'[q] \in {"lock", "load", "open"} =>
                pc[q] \in {"lock", "load", "open"} /\ serial'[q] = serial[q]
      PROVE  SerialsUnpublished'
  BY <1>a DEF SerialsUnpublished
<1>1. ASSUME NEW p \in Proc, NEW d \in DB, BeginWrite(p, d) PROVE SerialsUnpublished'
  <2>1. \A q \in Proc : /\ pc'[q] = IF q = p THEN "lock" ELSE pc[q]
                        /\ serial'[q] = IF q = p THEN txns + 1 ELSE serial[q]
    BY <1>1 DEF BeginWrite, TypeOK
  <2>2. txns' = txns + 1 /\ txns \in Nat /\ published \subseteq Nat
        /\ UNCHANGED <<root, closed, published>>
    BY <1>1 DEF BeginWrite, TypeOK
  <2>3. \A k \in published : k \in Nat /\ k <= txns
    BY <2>2 DEF SerialsUnpublished
  <2> QED BY <2>1, <2>2, <2>3 DEF SerialsUnpublished
<1>10. ASSUME NEW p \in Proc, Publish(p) PROVE SerialsUnpublished'
  <2>1. serial[p] <= txns' /\ \A k \in published' : k <= txns'
    BY <1>10, Published DEF SerialsUnpublished, SerialsFresh, TypeOK
  <2>2. \A q \in Proc : pc'[q] \in {"lock", "load", "open"} =>
           q # p /\ serial[q] # serial[p] /\ serial[q] \notin published
    BY <1>10, Published DEF SerialsUnpublished, SerialsFresh, InTxn
  <2>3. \A s \in Slot : root'[Primary][s].txn \in published'
    <3>1. CASE dbOf[p] = Primary
      <4>1. \A s \in Slot : root'[Primary][s] = cur[p][s]
        BY <1>10, <3>1, Published DEF DB
      <4>2. \A s \in Slot : base[p][s].txn \in published
        BY <1>10, <3>1, Published DEF NoLostUpdate, SerialsUnpublished
      <4>3. \A s \in Slot : cur[p][s] = base[p][s] \/ cur[p][s].txn = serial[p]
        BY <1>10, Published DEF TreesFromBase
      <4> QED BY <1>10, <3>1, <4>1, <4>2, <4>3, Published
    <3>2. CASE dbOf[p] # Primary
      BY <1>10, <3>2, Published DEF SerialsUnpublished, DB
    <3> QED BY <3>1, <3>2
  <2>4. \A n \in closed' : n.txn \in published'
    BY <1>10, Published DEF SerialsUnpublished
  <2>5. \A q \in Proc : pc'[q] \in {"lock", "load", "open"} => serial'[q] \notin published'
    BY <1>10, <2>2, Published
  <2> QED BY <2>1, <2>3, <2>4, <2>5 DEF SerialsUnpublished
<1>12. ASSUME NEW p \in Proc, NotifyOne(p) PROVE SerialsUnpublished'
  <2>1. \A n \in closed' : n \in closed \/ n \in nf[p]
    BY <1>12 DEF NotifyOne
  <2>2. \A n \in closed' : n.txn \in published
    BY <1>12, <2>1 DEF NotifyOne, NotifiesReplaced, SerialsUnpublished
  <2> QED BY <1>12, <2>2 DEF NotifyOne, SerialsUnpublished
<1>13. ASSUME NEW p \in Proc, Unlock(p) \/ Abort(p) PROVE SerialsUnpublished'
  <2>1. \A q \in Proc : pc'[q] \in {"lock", "load", "open"} => q # p
    BY <1>13, Released
  <2> QED BY <1>13, <1>a, <2>1, Released
<1>19. CASE Snapshot
  <2>1. root'[Primary] = root[Primary]
    BY <1>19, DBAssumption DEF Snapshot, TypeOK, DB
  <2> QED BY <1>19, <2>1 DEF Snapshot, SerialsUnpublished
<1>20. ASSUME NEW p \in Proc, Lock(p) \/ LoadRoot(p) \/ CommitEmpty(p) \/ CommitReturns(p)
       PROVE  SerialsUnpublished'
  BY <1>20, <1>a DEF Lock, LoadRoot, CommitEmpty, CommitReturns, TypeOK
<1>21. CASE Keeps \/ \E p \in Proc : \E S \in SUBSET Slot : Puts(p, S)
  BY <1>21, <1>a DEF Keeps, Puts
<1> QED BY <1>1, <1>10, <1>12, <1>13, <1>19, <1>20, <1>21, StepKinds

\* No node of a published transaction is forgotten.
LEMMA AccountedStep ==
  TypeOK /\ LockHeld /\ SerialsFresh /\ TreesFromBase /\ NoLostUpdate /\ SerialsUnpublished
    /\ PublishedAccounted /\ OpenAccounted /\ [Next]_vars => PublishedAccounted'
<1> SUFFICES ASSUME TypeOK, LockHeld, SerialsFresh, TreesFromBase, NoLostUpdate,
                    SerialsUnpublished, PublishedAccounted, OpenAccounted, [Next]_vars
             PROVE  PublishedAccounted'
  OBVIOUS
<1> USE DEF shared, private, readers, counters
<1>a. ASSUME UNCHANGED <<heap, closed, published>>, root'[Primary] = root[Primary],
             \A q \in Proc : pc[q] = "notify" /\ nf[q] # {} =>
                pc'[q] = "notify" /\ nf'[q] = nf[q]
      PROVE  PublishedAccounted'
  BY <1>a DEF PublishedAccounted, Pending
<1>4. ASSUME NEW p \in Proc, NEW S \in SUBSET Slot, Puts(p, S) PROVE PublishedAccounted'
  <2>1. \A n \in DOMAIN heap' : n.txn \in published => n \in DOMAIN heap
    BY <1>4 DEF Puts, OwnNode, SerialsUnpublished
  <2>2. \A n : Pending(n) => Pending(n)'
    BY <1>4 DEF Puts, Pending
  <2> QED BY <1>4, <2>1, <2>2 DEF Puts, PublishedAccounted
<1>10. ASSUME NEW p \in Proc, Publish(p) PROVE PublishedAccounted'
  <2>1. \A n : Pending(n) \/ n \in nf[p] => Pending(n)'
    BY <1>10, Published DEF Pending
  <2>2. CASE dbOf[p] = Primary
    <3>1. \A s \in Slot : root'[Primary][s] = cur[p][s] /\ base[p][s] = root[Primary][s]
      BY <1>10, <2>2, Published DEF DB, NoLostUpdate
    <3>2. SUFFICES ASSUME NEW n \in DOMAIN heap, n.txn \in published \/ n.txn = serial[p]
                   PROVE  root'[Primary][n.slot] = n \/ n \in closed \/ Pending(n)'
      BY <1>10, Published DEF PublishedAccounted
    <3>3. n.slot \in Slot
      BY DEF TypeOK, Node
    <3>4. CASE n.txn = serial[p]
      BY <1>10, <2>1, <2>2, <3>1, <3>3, <3>4, Published DEF OpenAccounted
    <3>5. CASE n.txn \in published
      <4>1. CASE root[Primary][n.slot] = n
        BY <1>10, <2>1, <2>2, <3>1, <3>3, <4>1, Published DEF OpenAccounted
      <4>2. CASE n \in closed \/ Pending(n)
        BY <2>1, <4>2
      <4> QED BY <3>5, <4>1, <4>2 DEF PublishedAccounted
    <3> QED BY <3>2, <3>4, <3>5
  <2>3. CASE dbOf[p] # Primary
    <3>1. \A s \in Slot : root'[Primary][s] = root[Primary][s]
      BY <1>10, <2>3, Published DEF DB
    <3>2. \A n \in DOMAIN heap : n.slot \in Slot
      BY DEF TypeOK, Node
    <3> QED BY <1>10, <2>1, <2>3, <3>1, <3>2, Published DEF PublishedAccounted
  <2> QED BY <2>2, <2>3
<1>12. ASSUME NEW p \in Proc, NotifyOne(p) PROVE PublishedAccounted'
  <2>1. PICK m \in nf[p] : closed' = closed \cup {m} /\ nf' = [nf EXCEPT ![p] = @ \ {m}]
    BY <1>12 DEF NotifyOne
  <2>2. \A n : Pending(n) => Pending(n)' \/ n = m
    BY <1>12, <2>1 DEF NotifyOne, Pending, TypeOK
  <2> QED BY <1>12, <2>1, <2>2 DEF NotifyOne, PublishedAccounted
<1>13. ASSUME NEW p \in Proc, Unlock(p) \/ Abort(p) PROVE PublishedAccounted'
  <2>1. \A q \in Proc : pc[q] = "notify" /\ nf[q] # {} => q # p
    BY <1>13, Released
  <2> QED BY <1>13, <1>a, <2>1, Released
<1>19. CASE Snapshot
  <2>1. root'[Primary] = root[Primary]
    BY <1>19, DBAssumption DEF Snapshot, TypeOK, DB
  <2> QED BY <1>19, <1>a, <2>1 DEF Snapshot
<1>20. ASSUME NEW p \in Proc,
              \/ \E d \in DB : BeginWrite(p, d)
              \/ Lock(p) \/ LoadRoot(p) \/ CommitEmpty(p) \/ CommitReturns(p)
       PROVE  PublishedAccounted'
  BY <1>20, <1>a DEF BeginWrite, Lock, LoadRoot, CommitEmpty, CommitReturns, TypeOK
<1>21. CASE Keeps
  BY <1>21, <1>a DEF Keeps
<1> QED BY <1>4, <1>10, <1>12, <1>13, <1>19, <1>20, <1>21, StepKinds

\* What an open transaction made or started from is in its trees or notified.
LEMMA OpenStep ==
  TypeOK /\ SerialsFresh /\ OpenAccounted /\ [Next]_vars => OpenAccounted'
<1> SUFFICES ASSUME TypeOK, SerialsFresh, OpenAccounted, [Next]_vars PROVE OpenAccounted'
  OBVIOUS
<1> USE DEF shared, private, readers, counters
<1>a. ASSUME UNCHANGED heap,
             \A q \in Proc : pc'[q] = "open" =>
                /\ pc[q] = "open" /\ dbOf'[q] = dbOf[q] /\ serial'[q] = serial[q]
                /\ base'[q] = base[q] /\ cur'[q] = cur[q] /\ nf'[q] = nf[q]
      PROVE  OpenAccounted'
  BY <1>a DEF OpenAccounted
<1>3. ASSUME NEW p \in Proc, LoadRoot(p) PROVE OpenAccounted'
  <2>1. \A q \in Proc : /\ pc'[q] = IF q = p THEN "open" ELSE pc[q]
                        /\ base'[q] = IF q = p THEN root[dbOf[p]] ELSE base[q]
                        /\ cur'[q] = IF q = p THEN root[dbOf[p]] ELSE cur[q]
    BY <1>3 DEF LoadRoot, TypeOK
  <2>2. \A n \in DOMAIN heap : n.txn # serial[p]
    BY <1>3 DEF LoadRoot, SerialsFresh
  <2> QED BY <1>3, <2>1, <2>2 DEF LoadRoot, OpenAccounted
<1>4. ASSUME NEW p \in Proc, NEW S \in SUBSET Slot, Puts(p, S) PROVE OpenAccounted'
  <2>1. \A s \in Slot : OwnNode(p, s).txn = serial[p] /\ OwnNode(p, s).slot = s
    BY DEF OwnNode
  <2>2. ASSUME dbOf[p] = Primary
        PROVE  \A s \in Slot : cur'[p][s] = cur[p][s] \/ cur[p][s] \in nf'[p]
    BY <1>4, <2>2 DEF Puts, Copied
  <2>3. dbOf[p] = Primary => nf[p] \subseteq nf'[p]
    BY <1>4 DEF Puts
  <2>4. \A n \in DOMAIN heap : n.slot \in Slot
    BY DEF TypeOK, Node
  <2>5. ASSUME dbOf[p] = Primary, NEW n \in DOMAIN heap', n.txn = serial[p]
        PROVE  cur'[p][n.slot] = n \/ n \in nf'[p]
    <3>1. CASE n \in DOMAIN heap
      BY <1>4, <2>2, <2>3, <2>4, <2>5, <3>1 DEF Puts, OpenAccounted
    <3>2. CASE n \notin DOMAIN heap
      BY <1>4, <2>1, <2>5, <3>2 DEF Puts
    <3> QED BY <3>1, <3>2
  <2>6. ASSUME dbOf[p] = Primary, NEW s \in Slot
        PROVE  cur'[p][s] = base[p][s] \/ base[p][s] \in nf'[p]
    BY <1>4, <2>2, <2>3, <2>6 DEF Puts, OpenAccounted
  <2>7. ASSUME NEW q \in Proc, q # p, pc[q] = "open"
        PROVE  \A n \in DOMAIN heap' : n.txn = serial[q] => n \in DOMAIN heap
    <3>1. serial[q] # serial[p]
      BY <1>4, <2>7 DEF Puts, SerialsFresh, InTxn
    <3> QED BY <1>4, <2>1, <3>1 DEF Puts
  <2> QED BY <1>4, <2>5, <2>6, <2>7 DEF Puts, OpenAccounted
<1>10. ASSUME NEW p \in Proc, Publish(p) \/ CommitEmpty(p) PROVE OpenAccounted'
  BY <1>10, <1>a DEF Publish, CommitEmpty, TypeOK
<1>12. ASSUME NEW p \in Proc, NotifyOne(p) PROVE OpenAccounted'
  <2>1. \A q \in Proc : pc[q] = "open" => nf'[q] = nf[q]
    BY <1>12 DEF NotifyOne, TypeOK
  <2> QED BY <1>12, <1>a, <2>1 DEF NotifyOne
<1>13. ASSUME NEW p \in Proc, Unlock(p) \/ Abort(p) PROVE OpenAccounted'
  <2>1. \A q \in Proc : pc'[q] = "open" => q # p
    BY <1>13, Released
  <2> QED BY <1>13, <1>a, <2>1, Released
<1>20. ASSUME NEW p \in Proc,
              \/ \E d \in DB : BeginWrite(p, d)
              \/ Lock(p) \/ CommitReturns(p)
       PROVE  OpenAccounted'
  BY <1>20, <1>a DEF BeginWrite, Lock, CommitReturns, TypeOK
<1>21. CASE Keeps \/ Snapshot
  BY <1>21, <1>a DEF Keeps, Snapshot
<1> QED BY <1>3, <1>4, <1>10, <1>12, <1>13, <1>20, <1>21, StepKinds

\* What is to be notified is out of the trees for good.
LEMMA ReplacedStep ==
  TypeOK /\ HeapOK /\ OwnedIsPrivate /\ LockHeld /\ TreesFromBase /\ NoLostUpdate
    /\ SerialsUnpublished /\ NotifierIdle /\ NotifiesReplaced /\ [Next]_vars
    => NotifiesReplaced'
<1> SUFFICES ASSUME TypeOK, HeapOK, OwnedIsPrivate, LockHeld, TreesFromBase, NoLostUpdate,
                    SerialsUnpublished, NotifierIdle, NotifiesReplaced, [Next]_vars
             PROVE  NotifiesReplaced'
  OBVIOUS
<1> USE DEF shared, private, readers, counters
<1>n. \A p \in Proc : \A n \in nf[p] : n \in Node /\ n.slot \in Slot
  BY DEF TypeOK, Node
<1>a. ASSUME UNCHANGED published, root'[Primary] = root[Primary],
             \A q \in Proc : \/ nf'[q] = {}
                             \/ /\ nf'[q] \subseteq nf[q] /\ pc'[q] = pc[q]
                                /\ cur'[q] = cur[q] /\ serial'[q] = serial[q]
                                /\ epoch'[q] = epoch[q]
      PROVE  NotifiesReplaced'
  BY <1>a DEF NotifiesReplaced, Safe
<1>3. ASSUME NEW p \in Proc,
             \/ \E d \in DB : BeginWrite(p, d)
             \/ Lock(p) \/ LoadRoot(p) \/ CommitReturns(p)
      PROVE  NotifiesReplaced'
  <2>1. nf'[p] = {}
    BY <1>3 DEF BeginWrite, Lock, LoadRoot, CommitReturns, NotifierIdle
  <2>2. UNCHANGED <<published, root, nf, epoch>>
    BY <1>3 DEF BeginWrite, Lock, LoadRoot, CommitReturns
  <2>3. \A q \in Proc : q # p => pc'[q] = pc[q] /\ cur'[q] = cur[q] /\ serial'[q] = serial[q]
    BY <1>3 DEF BeginWrite, Lock, LoadRoot, CommitReturns, TypeOK
  <2> QED BY <1>a, <2>1, <2>2, <2>3
<1>4. ASSUME NEW p \in Proc, NEW S \in SUBSET Slot, Puts(p, S) PROVE NotifiesReplaced'
  <2>1. ASSUME NEW n \in nf'[p]
        PROVE  cur'[p][n.slot] # n /\ Safe(p, n)' /\ (n.txn \in published \/ n.txn = serial[p])
    <3>1. CASE n \in nf[p]
      <4>1. cur[p][n.slot] # n /\ Safe(p, n) /\ (n.txn \in published \/ n.txn = serial[p])
        BY <1>4, <3>1 DEF Puts, NotifiesReplaced
      <4>2. \A s \in Slot : n # OwnNode(p, s)
        BY <1>n, <3>1, <4>1, SafeNotOwned
      <4> QED BY <1>4, <1>n, <3>1, <4>1, <4>2 DEF Puts, Safe
    <3>2. CASE n \notin nf[p]
      <4>1. dbOf[p] = Primary /\ \E s \in Copied(p, S) : n = cur[p][s]
        BY <1>4, <3>2 DEF Puts
      <4>2. PICK s \in S : n = cur[p][s] /\ n # OwnNode(p, s)
        BY <4>1 DEF Copied
      <4>3. n \in Node /\ n.slot = s /\ s \in Slot
        BY <4>2 DEF HeapOK, TypeOK
      <4>4. cur'[p][s] = OwnNode(p, s)
        BY <1>4 DEF Puts
      <4>5. n.txn \in published \/ n.txn = serial[p]
        BY <1>4, <4>1, <4>2, <4>3 DEF Puts, TreesFromBase, NoLostUpdate, SerialsUnpublished
      <4>6. Safe(p, n)
        <5>1. SUFFICES ASSUME n.txn = serial[p] PROVE n.epoch < epoch[p][s]
          BY <4>3 DEF Safe
        <5>2. n.epoch <= epoch[p][s]
          BY <1>4, <4>2, <4>3, <5>1 DEF Puts, OwnedIsPrivate
        <5>3. n.epoch # epoch[p][s]
          BY <4>2, <4>3, <5>1 DEF OwnNode, Node
        <5>4. n.epoch \in Nat /\ epoch[p][s] \in Nat
          BY <4>3 DEF Node, TypeOK
        <5> QED BY <5>2, <5>3, <5>4
      <4> QED BY <1>4, <4>2, <4>3, <4>4, <4>5, <4>6 DEF Puts, Safe
    <3> QED BY <3>1, <3>2
  <2> QED BY <1>4, <2>1 DEF Puts, NotifiesReplaced, Safe
<1>10. ASSUME NEW p \in Proc, Publish(p) PROVE NotifiesReplaced'
  <2>1. ASSUME NEW n \in nf[p]
        PROVE  root'[Primary][n.slot] # n /\ n.txn \in published'
    <3>1. dbOf[p] = Primary
      BY <1>10, <2>1, Published DEF NotifierIdle, TypeOK, DB
    <3>2. cur[p][n.slot] # n /\ (n.txn \in published \/ n.txn = serial[p])
      BY <1>10, <2>1, Published DEF NotifiesReplaced
    <3> QED BY <1>10, <1>n, <2>1, <3>1, <3>2, Published DEF DB
  <2>2. ASSUME NEW q \in Proc, q # p, NEW n \in nf[q], pc[q] = "notify"
        PROVE  root'[Primary][n.slot] # n /\ n.txn \in published'
    <3>1. dbOf[q] = Primary
      BY <2>2 DEF NotifierIdle, TypeOK, DB
    <3>2. dbOf[p] # Primary
      BY <1>10, <2>2, <3>1, OneWriter, Published DEF Writing
    <3> QED BY <1>10, <1>n, <2>2, <3>2, Published DEF NotifiesReplaced, DB
  <2>3. \A k \in published : k \in published'
    BY <1>10, Published
  <2> QED BY <1>10, <2>1, <2>2, <2>3, Published DEF NotifiesReplaced, Safe
<1>11. ASSUME NEW p \in Proc, CommitEmpty(p) PROVE NotifiesReplaced'
  <2>1. nf'[p] = {}
    BY <1>11, Zenon DEF CommitEmpty, NotifierIdle
  <2>2. /\ UNCHANGED <<published, root, nf, cur, serial, epoch>>
        /\ \A q \in Proc : q # p => pc'[q] = pc[q]
    BY <1>11 DEF CommitEmpty, TypeOK
  <2> QED BY <1>a, <2>1, <2>2
<1>12. ASSUME NEW p \in Proc, NotifyOne(p) PROVE NotifiesReplaced'
  <2>1. \A q \in Proc : nf'[q] \subseteq nf[q]
    BY <1>12 DEF NotifyOne, TypeOK
  <2> QED BY <1>12, <1>a, <2>1 DEF NotifyOne
<1>13. ASSUME NEW p \in Proc, Unlock(p) \/ Abort(p) PROVE NotifiesReplaced'
  BY <1>13, <1>a, Released
<1>19. CASE Snapshot
  <2>1. root'[Primary] = root[Primary]
    BY <1>19, DBAssumption DEF Snapshot, TypeOK, DB
  <2> QED BY <1>19, <1>a, <2>1 DEF Snapshot
<1>21. CASE Keeps
  <2>1. ASSUME NEW q \in Proc, NEW n \in nf[q], Safe(q, n) PROVE Safe(q, n)'
    <3>1. /\ n.epoch \in Nat /\ n.slot \in Slot
          /\ epoch[q][n.slot] \in Nat /\ epoch'[q][n.slot] \in Nat
          /\ epoch[q][n.slot] <= epoch'[q][n.slot]
      BY <1>21, <1>n DEF Keeps, Node, TypeOK
    <3> QED BY <1>21, <2>1, <3>1 DEF Keeps, Safe
  <2> QED BY <1>21, <2>1 DEF Keeps, NotifiesReplaced
<1> QED BY <1>3, <1>4, <1>10, <1>11, <1>12, <1>13, <1>19, <1>21, StepKinds

\* A current node is not closed.
LEMMA WokenStep ==
  TypeOK /\ HeapOK /\ TreesFromBase /\ NoLostUpdate /\ SerialsUnpublished
    /\ NotifiesReplaced /\ WokenSeesNew /\ [Next]_vars => WokenSeesNew'
<1> SUFFICES ASSUME TypeOK, HeapOK, TreesFromBase, NoLostUpdate, SerialsUnpublished,
                    NotifiesReplaced, WokenSeesNew, [Next]_vars
             PROVE  WokenSeesNew'
  OBVIOUS
<1> USE DEF shared, private, readers, counters
<1>a. ASSUME UNCHANGED closed, root'[Primary] = root[Primary] PROVE WokenSeesNew'
  BY <1>a DEF WokenSeesNew
<1>10. ASSUME NEW p \in Proc, Publish(p) PROVE WokenSeesNew'
  <2>1. ASSUME NEW s \in Slot PROVE root'[Primary][s] \notin closed
    <3>1. CASE dbOf[p] = Primary
      <4>1. root'[Primary][s] = cur[p][s]
        BY <1>10, <3>1, Published DEF DB
      <4>2. CASE cur[p][s] = base[p][s]
        BY <1>10, <3>1, <4>1, <4>2, Published DEF NoLostUpdate, WokenSeesNew
      <4>3. CASE cur[p][s].txn = serial[p]
        BY <1>10, <4>1, <4>3, Published DEF SerialsUnpublished
      <4> QED BY <1>10, <4>2, <4>3, Published DEF TreesFromBase
    <3>2. CASE dbOf[p] # Primary
      BY <1>10, <3>2, Published DEF WokenSeesNew, DB
    <3> QED BY <3>1, <3>2
  <2> QED BY <1>10, <2>1, Published DEF WokenSeesNew
<1>12. ASSUME NEW p \in Proc, NotifyOne(p) PROVE WokenSeesNew'
  <2>1. PICK n \in nf[p] : closed' = closed \cup {n} /\ UNCHANGED root /\ pc[p] = "notify"
    BY <1>12 DEF NotifyOne
  <2>2. root[Primary][n.slot] # n
    BY <2>1 DEF NotifiesReplaced
  <2>3. \A s \in Slot : root[Primary][s].slot = s
    BY DEF HeapOK, DB
  <2> QED BY <2>1, <2>2, <2>3 DEF WokenSeesNew
<1>19. CASE Snapshot
  <2>1. root'[Primary] = root[Primary]
    BY <1>19, DBAssumption DEF Snapshot, TypeOK, DB
  <2> QED BY <1>19, <1>a, <2>1 DEF Snapshot
<1>20. ASSUME NEW p \in Proc,
              \/ \E d \in DB : BeginWrite(p, d)
              \/ Lock(p) \/ LoadRoot(p) \/ CommitEmpty(p) \/ CommitReturns(p)
              \/ Unlock(p) \/ Abort(p)
       PROVE  WokenSeesNew'
  BY <1>20, <1>a DEF BeginWrite, Lock, LoadRoot, CommitEmpty, CommitReturns, Unlock, Abort
<1>21. CASE Keeps \/ \E p \in Proc : \E S \in SUBSET Slot : Puts(p, S)
  BY <1>21, <1>a DEF Keeps, Puts
<1> QED BY <1>10, <1>12, <1>19, <1>20, <1>21, StepKinds

\* Readers watch nodes they were given.
LEMMA WatchedStep == HeapOK /\ WatchedExists /\ TypeOK /\ [Next]_vars => WatchedExists'
<1> SUFFICES ASSUME HeapOK, WatchedExists, TypeOK, [Next]_vars PROVE WatchedExists'
  OBVIOUS
<1> USE DEF shared, private, readers, counters
<1>4. ASSUME NEW p \in Proc, NEW t \in Table, NEW S \in SUBSET slotsOf[t],
             Write(p, t, S) \/ (S = {idSlot[t]} /\ InsertFails(p, t))
      PROVE  WatchedExists'
  <2>1. DOMAIN heap \subseteq DOMAIN heap' /\ UNCHANGED watched
    <3>1. Puts(p, S)
      BY <1>4, WritesPut
    <3> QED BY <3>1 DEF Puts
  <2> QED BY <2>1 DEF WatchedExists
<1>5. ASSUME NEW p \in Proc, NEW t \in Table, InsertFails(p, t) PROVE WatchedExists'
  <2>1. {idSlot[t]} \in SUBSET slotsOf[t]
    BY SlotAssumption
  <2> QED BY <1>4, <1>5, <2>1
<1>8. ASSUME NEW p \in Proc, NEW s \in Slot, NEW w \in BOOLEAN, TxnGet(p, s, w)
      PROVE WatchedExists'
  BY <1>8 DEF TxnGet, HeapOK, WatchedExists
<1>18. ASSUME NEW v \in views, NEW s \in DOMAIN v.trees, Watch(v, s) PROVE WatchedExists'
  BY <1>18 DEF Watch, HeapOK, WatchedExists
<1>20. ASSUME NEW p \in Proc,
              \/ \E d \in DB : BeginWrite(p, d)
              \/ \E t \in Table : DeleteMisses(p, t)
              \/ Lock(p) \/ LoadRoot(p) \/ Publish(p) \/ CommitEmpty(p) \/ NotifyOne(p)
              \/ Unlock(p) \/ RunDeferred(p) \/ CommitReturns(p) \/ Abort(p)
              \/ Defer(p) \/ TxnSnapshot(p)
       PROVE  WatchedExists'
  BY <1>20 DEF BeginWrite, DeleteMisses, Lock, LoadRoot, Publish, CommitEmpty, NotifyOne, Unlock,
     RunDeferred, CommitReturns, Abort, Defer, TxnSnapshot, WatchedExists
<1>21. CASE (\E d \in DB : ReadTxn(d)) \/ Snapshot \/ UNCHANGED vars
  BY <1>21 DEF ReadTxn, Snapshot, vars, WatchedExists
<1> QED
  BY <1>4, <1>5, <1>8, <1>18, <1>20, <1>21 DEF Next, WriteTxn, Running, Finish, Done

-----------------------------------------------------------------------------
\* In the initial state nothing is written, published or watched.
LEMMA WInvInit == Init => WInv
<1> SUFFICES ASSUME Init PROVE WInv
  OBVIOUS
<1>1. IInv
  BY IInvInit
<1>2. \A p \in Proc : pc[p] = "idle" /\ nf[p] = {}
  BY DEF Init
<1>3. closed = {} /\ watched = {} /\ published = {0} /\ txns = 0
  BY DEF Init
<1>4. \A s \in Slot : root[Primary][s] = FirstNode(s) /\ FirstNode(s).txn = 0
  BY DEF Init, FirstRoot, FirstNode, DB
<1>5. \A n \in DOMAIN heap : n.slot \in Slot /\ n = FirstNode(n.slot)
  BY DEF Init, FirstNode
<1>6. LockHeld /\ NoLostUpdate /\ TreesFromBase /\ OpenAccounted /\ NotifierIdle
  BY <1>2 DEF LockHeld, NoLostUpdate, TreesFromBase, OpenAccounted, NotifierIdle, Writing, InTxn
<1>7. SerialsUnpublished
  BY <1>2, <1>3, <1>4 DEF SerialsUnpublished
<1>8. PublishedAccounted /\ NotifiesReplaced /\ WokenSeesNew /\ WatchedExists
  BY <1>2, <1>3, <1>4, <1>5 DEF PublishedAccounted, NotifiesReplaced, WokenSeesNew, WatchedExists
<1> QED BY <1>1, <1>6, <1>7, <1>8 DEF WInv

LEMMA WInvStep == WInv /\ [Next]_vars => WInv'
  BY IInvStep, LockStep, BaseStep, PublishedStep, NotifierStep, AccountedStep, OpenStep,
     ReplacedStep, WokenStep, WatchedStep DEF WInv, IInv

\* The inductive invariant holds in every state.
THEOREM WInductive == Spec => []WInv
  BY WInvInit, WInvStep, PTL DEF Spec

\* A commit never undoes another: what a write transaction started from is still
\* published when it commits (memdb.go:108-116, txn.go:240-291).
THEOREM NoUpdateLost == Spec => []NoLostUpdate
<1>1. WInv => NoLostUpdate
  BY DEF WInv
<1> QED BY WInductive, <1>1, PTL

\* Who watches a node that a commit replaces is woken, however the channel was
\* obtained (txn.go:149-202, 285-291).
THEOREM NoWakeupLost == Spec => []NoLostWakeup
<1>1. WInv => NoLostWakeup
  BY DEF WInv, NoLostWakeup, Stale, PublishedAccounted, WatchedExists
<1> QED BY WInductive, <1>1, PTL

\* Who is woken reads another version (txn.go:285-291).
THEOREM WakeupSeesNew == Spec => []WokenSeesNew
<1>1. WInv => WokenSeesNew
  BY DEF WInv
<1> QED BY WInductive, <1>1, PTL

----------------------------------------------------------------------------
(* The refinement of the abstract store.                                   *)

\* A step after which every version, every open transaction and every reader
\* still has the content it had is no step of the store.
LEMMA Stutters ==
  ASSUME TypeOK, HeapOK, UNCHANGED <<heap, root, views>>,
         \A q \in Proc : /\ pc'[q] = "open" <=> pc[q] = "open"
                         /\ pc[q] = "open" => dbOf'[q] = dbOf[q] /\ cur'[q] = cur[q]
  PROVE  UNCHANGED Abs!avars
<1>1. AbsStore' = AbsStore /\ AbsSeen' = AbsSeen
  BY DEF AbsStore, AbsSeen, Content
<1>2. AbsPending' = AbsPending
  BY DEF AbsPending, AbsNone, Content
<1> QED BY <1>1, <1>2 DEF Abs!avars

\* What one goroutine does to its transaction changes that transaction only.
LEMMA PendingOf ==
  ASSUME TypeOK, NEW p \in Proc, NEW x, AbsPending'[p] = x,
         \A q \in Proc : q # p /\ pc'[q] = "open" => Content(heap', cur'[q]) = Content(heap, cur[q]),
         \A q \in Proc : q # p => pc'[q] = pc[q] /\ dbOf'[q] = dbOf[q]
  PROVE  AbsPending' = [AbsPending EXCEPT ![p] = x]
<1>1. \A q \in Proc : q # p => AbsPending'[q] = AbsPending[q]
  BY DEF AbsPending, AbsNone
<1>2. AbsPending' = [q \in Proc |-> AbsPending'[q]]
  BY DEF AbsPending
<1>3. [AbsPending EXCEPT ![p] = x] = [q \in Proc |-> IF q = p THEN x ELSE AbsPending[q]]
  BY DEF AbsPending
<1> QED BY <1>1, <1>2, <1>3

\* The store starts empty.
LEMMA StoreInit == Init => Abs!Init
<1> SUFFICES ASSUME Init PROVE Abs!Init
  OBVIOUS
<1>1. AbsStore = [d \in DB |-> [s \in Slot |-> 0]]
  BY DEF Init, AbsStore, Content, FirstRoot
<1>2. AbsPending = [p \in Proc |-> Abs!None]
  BY DEF Init, AbsPending, AbsNone, Abs!None
<1>3. AbsSeen = {}
  BY DEF Init, AbsSeen
<1> QED BY <1>1, <1>2, <1>3 DEF Abs!Init, Abs!DB, DB

\* A write leaves every version, every reader and every other transaction alone.
LEMMA PutsContent ==
  ASSUME TypeOK, HeapOK, OwnedIsPrivate, NEW p \in Proc, NEW S \in SUBSET Slot, NEW v,
         pc[p] = "open", PutTrees(p, S, v), UNCHANGED <<root, views>>
  PROVE  /\ AbsStore' = AbsStore
         /\ AbsSeen' = AbsSeen
         /\ \A q \in Proc : q # p => Content(heap', cur'[q]) = Content(heap, cur[q])
         /\ \A s \in Slot \ S : heap'[cur'[p][s]] = heap[cur[p][s]]
<1>f. /\ \A n \in DOMAIN heap : (\A s \in S : n # OwnNode(p, s)) => heap'[n] = heap[n]
      /\ \A s \in Slot : cur'[p][s] = IF s \in S THEN OwnNode(p, s) ELSE cur[p][s]
      /\ \A q \in Proc : q # p => cur'[q] = cur[q]
  BY PutTreesFacts
<1>1. ASSUME NEW n \in Node, n \in DOMAIN heap, Safe(p, n) PROVE heap'[n] = heap[n]
  <2>1. \A s \in Slot : n # OwnNode(p, s)
    BY <1>1, SafeNotOwned
  <2> QED BY <1>1, <1>f, <2>1
<1>2. \A d \in DB, s \in Slot : heap'[root[d][s]] = heap[root[d][s]]
  BY <1>1 DEF HeapOK, TypeOK, OwnedIsPrivate
<1>3. \A w \in views : \A s \in DOMAIN w.trees : heap'[w.trees[s]] = heap[w.trees[s]]
  BY <1>1 DEF HeapOK, TypeOK, OwnedIsPrivate
<1>4. \A q \in Proc, s \in Slot : q # p => heap'[cur[q][s]] = heap[cur[q][s]]
  BY <1>1 DEF HeapOK, TypeOK, OwnedIsPrivate
<1>5. AbsStore' = AbsStore
  <2>1. \A d \in DB : DOMAIN root[d] = Slot
    BY DEF TypeOK, Tree
  <2> QED BY <1>2, <2>1 DEF AbsStore, Content
<1>6. \A w \in views : Content(heap', w.trees) = Content(heap, w.trees)
  BY <1>3 DEF Content
<1>7. AbsSeen' = AbsSeen
  BY <1>6 DEF AbsSeen
<1>8. \A q \in Proc : q # p => Content(heap', cur'[q]) = Content(heap, cur[q])
  <2>1. \A q \in Proc : DOMAIN cur[q] = Slot
    BY DEF TypeOK, Tree
  <2>2. \A q \in Proc : q # p => cur'[q] = cur[q]
    BY <1>f
  <2> QED BY <1>4, <2>1, <2>2 DEF Content
<1>9. ASSUME NEW s \in Slot \ S PROVE heap'[cur'[p][s]] = heap[cur[p][s]]
  <2>1. cur'[p][s] = cur[p][s] /\ cur[p][s].slot = s /\ cur[p][s] \in DOMAIN heap
    BY <1>f DEF HeapOK
  <2>2. \A r \in S : cur[p][s] # OwnNode(p, r)
    BY <2>1 DEF OwnNode
  <2> QED BY <1>f, <2>1, <2>2
<1> QED BY <1>5, <1>7, <1>8, <1>9

\* A write of rows is a change of the transaction's copy, in one table.
LEMMA WriteChanges ==
  ASSUME WInv, NEW p \in Proc, NEW t \in Table, NEW S \in SUBSET slotsOf[t],
         NEW v \in [S -> Nat], pc[p] = "open", PutTrees(p, S, v),
         UNCHANGED <<root, views, pc, dbOf>>
  PROVE  Abs!Change(p, t)
<1> DEFINE tree == Content(heap', cur'[p])
<1>i. TypeOK /\ HeapOK /\ OwnedIsPrivate
  BY DEF WInv, IInv
<1>s. S \in SUBSET Slot
  BY SlotAssumption
<1>1. /\ AbsStore' = AbsStore /\ AbsSeen' = AbsSeen
      /\ \A q \in Proc : q # p => Content(heap', cur'[q]) = Content(heap, cur[q])
      /\ \A s \in Slot \ S : heap'[cur'[p][s]] = heap[cur[p][s]]
  BY <1>i, <1>s, PutsContent
<1>2. AbsPending[p] = [db |-> dbOf[p], open |-> TRUE, tree |-> Content(heap, cur[p])]
  BY DEF AbsPending
<1>3. AbsPending'[p] = [db |-> dbOf[p], open |-> TRUE, tree |-> tree]
  BY DEF AbsPending
<1>4. AbsPending' = [AbsPending EXCEPT ![p] = [db |-> dbOf[p], open |-> TRUE, tree |-> tree]]
  BY <1>i, <1>1, <1>3, PendingOf
<1>5. DOMAIN cur'[p] = Slot /\ DOMAIN cur[p] = Slot
  BY <1>i, <1>s, PutTreesType DEF TypeOK, Tree
<1>6. tree \in [Slot -> Nat]
  <2>1. heap' \in [DOMAIN heap' -> Nat]
    BY <1>i, <1>s, PutTreesType
  <2>2. \A s \in Slot : cur'[p][s] \in DOMAIN heap'
    <3>1. /\ DOMAIN heap' = DOMAIN heap \cup {OwnNode(p, s) : s \in S}
          /\ \A s \in Slot : cur'[p][s] = IF s \in S THEN OwnNode(p, s) ELSE cur[p][s]
      BY <1>i, <1>s, PutTreesFacts
    <3> QED BY <1>i, <3>1 DEF HeapOK
  <2> QED BY <1>5, <2>1, <2>2 DEF Content
<1>7. \A s \in Slot \ slotsOf[t] : tree[s] = Content(heap, cur[p])[s]
  BY <1>1, <1>5 DEF Content
<1> HIDE DEF tree
<1>8. AbsPending'[p].tree = tree /\ AbsPending[p].tree = Content(heap, cur[p])
      /\ AbsPending[p].open
  BY <1>2, <1>3
<1>9. AbsPending' = [AbsPending EXCEPT ![p] = [@ EXCEPT !.tree = tree]]
  BY <1>2, <1>4 DEF AbsPending
<1> QED BY <1>1, <1>6, <1>7, <1>8, <1>9 DEF Abs!Change

\* What a reader is given is a version or the copy of an open transaction.
LEMMA ReadsOf ==
  ASSUME TypeOK, HeapOK, NEW S \in {Slot} \cup {{s} : s \in Slot}, NEW v, NEW x \in Tree,
         v.trees = [s \in S |-> x[s]], views' = views \cup {v},
         \/ \E d \in DB : x = root[d]
         \/ \E p \in Proc : pc[p] = "open" /\ x = cur[p],
         UNCHANGED <<heap, root, pc, dbOf, cur>>
  PROVE  Abs!Next
<1>1. AbsStore' = AbsStore /\ AbsPending' = AbsPending
  BY DEF AbsStore, AbsPending, AbsNone, Content
<1>2. Content(heap, v.trees) = [s \in S |-> Content(heap, x)[s]]
  BY DEF Content, Tree
<1>3. AbsSeen' = AbsSeen \cup {[s \in S |-> Content(heap, x)[s]]}
  <2>1. AbsSeen' = {Content(heap, u.trees) : u \in views \cup {v}}
    BY DEF AbsSeen, Content
  <2>2. AbsSeen' = AbsSeen \cup {Content(heap, v.trees)}
    BY <2>1 DEF AbsSeen
  <2> QED BY <1>2, <2>2
<1>4. Abs!Read(Content(heap, x))
  BY <1>1, <1>3 DEF Abs!Read
<1>5. CASE \E d \in DB : x = root[d]
  <2>1. PICK d \in DB : x = root[d]
    BY <1>5
  <2>2. AbsStore[d] = Content(heap, x)
    BY <2>1 DEF AbsStore
  <2> QED BY <1>4, <2>2 DEF Abs!Next, Abs!DB, DB
<1>6. CASE \E p \in Proc : pc[p] = "open" /\ x = cur[p]
  <2>1. PICK p \in Proc : pc[p] = "open" /\ x = cur[p]
    BY <1>6
  <2>2. AbsPending[p].open /\ AbsPending[p].tree = Content(heap, x)
    BY <2>1 DEF AbsPending
  <2> QED BY <1>4, <2>2 DEF Abs!Next
<1> QED BY <1>5, <1>6

\* The end of a transaction leaves no copy.
LEMMA PendingEnds ==
  ASSUME TypeOK, NEW p \in Proc, pc'[p] # "open", UNCHANGED heap,
         \A q \in Proc : q # p => pc'[q] = pc[q] /\ dbOf'[q] = dbOf[q] /\ cur'[q] = cur[q]
  PROVE  AbsPending' = [AbsPending EXCEPT ![p] = Abs!None]
<1>1. AbsPending'[p] = Abs!None
  BY DEF AbsPending, AbsNone, Abs!None
<1> QED BY <1>1, PendingOf

\* Every step of the database is a step of the store or none.
LEMMA StoreStep == WInv /\ [Next]_vars => [Abs!Next]_Abs!avars
<1> SUFFICES ASSUME WInv, [Next]_vars PROVE [Abs!Next]_Abs!avars
  OBVIOUS
<1> USE DEF shared, private, readers, counters
<1>i. TypeOK /\ HeapOK /\ OwnedIsPrivate /\ LockHeld /\ TreesFromBase /\ NoLostUpdate
  BY DEF WInv, IInv
<1>t. \A d \in DB, p \in Proc : root[d] \in Tree /\ cur[p] \in Tree
  BY <1>i DEF TypeOK
<1>3. ASSUME NEW p \in Proc, LoadRoot(p) PROVE Abs!Next
  <2>1. \A q \in Proc : /\ pc'[q] = IF q = p THEN "open" ELSE pc[q]
                        /\ cur'[q] = IF q = p THEN root[dbOf[p]] ELSE cur[q]
    BY <1>3, <1>i DEF LoadRoot, TypeOK
  <2>2. pc[p] = "load" /\ dbOf[p] \in DB /\ UNCHANGED <<root, heap, views, dbOf>>
    BY <1>3, <1>i DEF LoadRoot, TypeOK
  <2>3. \A q \in Proc : pc[q] = "open" => dbOf[q] # dbOf[p]
    BY <1>i, <2>2, OneWriter DEF Writing
  <2>4. AbsPending'[p] = [db |-> dbOf[p], open |-> TRUE, tree |-> AbsStore[dbOf[p]]]
    BY <2>1, <2>2 DEF AbsPending, AbsStore, Content
  <2>5. AbsPending' = [AbsPending EXCEPT ![p] =
                          [db |-> dbOf[p], open |-> TRUE, tree |-> AbsStore[dbOf[p]]]]
    BY <1>i, <2>1, <2>2, <2>4, PendingOf
  <2>6. AbsStore' = AbsStore /\ AbsSeen' = AbsSeen
    BY <2>2 DEF AbsStore, AbsSeen, Content
  <2>7. ~AbsPending[p].open
    BY <2>2 DEF AbsPending, AbsNone
  <2>8. \A q \in Proc : ~(AbsPending[q].open /\ AbsPending[q].db = dbOf[p])
    BY <2>3 DEF AbsPending, AbsNone
  <2>9. Abs!Begin(p, dbOf[p])
    BY <2>5, <2>6, <2>7, <2>8 DEF Abs!Begin
  <2> QED BY <2>2, <2>9 DEF Abs!Next, Abs!DB, DB
<1>4. ASSUME NEW p \in Proc, NEW t \in Table, NEW S \in SUBSET slotsOf[t], Write(p, t, S)
      PROVE  Abs!Next
  <2>1. [s \in S |-> writes + 1] \in [S -> Nat]
    BY <1>i DEF TypeOK
  <2>2. Abs!Change(p, t)
    BY <1>4, <2>1, WriteChanges DEF Write
  <2> QED BY <2>2 DEF Abs!Next
<1>5. ASSUME NEW p \in Proc, NEW t \in Table, InsertFails(p, t) PROVE Abs!Next
  <2>1. {idSlot[t]} \in SUBSET slotsOf[t] /\ idSlot[t] \in Slot
    BY SlotAssumption
  <2>2. [s \in {idSlot[t]} |-> heap[cur[p][s]]] \in [{idSlot[t]} -> Nat]
    BY <1>i, <2>1 DEF TypeOK, HeapOK
  <2>3. Abs!Change(p, t)
    BY <1>5, <2>1, <2>2, WriteChanges DEF InsertFails
  <2> QED BY <2>3 DEF Abs!Next
<1>8. ASSUME NEW p \in Proc, NEW s \in Slot, NEW w \in BOOLEAN, TxnGet(p, s, w) PROVE Abs!Next
  <2> DEFINE v == [trees |-> [r \in {s} |-> cur[p][r]],
                   seen  |-> [r \in {s} |-> heap[cur[p][r]]]]
  <2>1. /\ pc[p] = "open" /\ views' = views \cup {v}
        /\ UNCHANGED <<heap, root, pc, dbOf, cur>>
    BY <1>8 DEF TxnGet
  <2>2. v.trees = [r \in {s} |-> cur[p][r]] /\ {s} \in {Slot} \cup {{r} : r \in Slot}
    OBVIOUS
  <2> HIDE DEF v
  <2>3. cur[p] \in Tree /\ \E q \in Proc : pc[q] = "open" /\ cur[p] = cur[q]
    BY <1>i, <2>1 DEF TypeOK
  <2> QED BY <1>i, <2>1, <2>2, <2>3, ReadsOf
<1>9. ASSUME NEW p \in Proc, TxnSnapshot(p) PROVE Abs!Next
  <2> DEFINE v == [trees |-> cur[p], seen |-> Content(heap, cur[p])]
  <2>1. /\ pc[p] = "open" /\ views' = views \cup {v}
        /\ UNCHANGED <<heap, root, pc, dbOf, cur>>
    BY <1>9 DEF TxnSnapshot
  <2>2. cur[p] = [r \in Slot |-> cur[p][r]]
    BY <1>i DEF TypeOK, Tree
  <2>3. v.trees = [r \in Slot |-> cur[p][r]] /\ Slot \in {Slot} \cup {{r} : r \in Slot}
    BY <2>2
  <2> HIDE DEF v
  <2>4. cur[p] \in Tree /\ \E q \in Proc : pc[q] = "open" /\ cur[p] = cur[q]
    BY <1>i, <2>1 DEF TypeOK
  <2> QED BY <1>i, <2>1, <2>3, <2>4, ReadsOf
<1>10. ASSUME NEW p \in Proc, Publish(p) PROVE Abs!Next
  <2>1. /\ AbsSeen' = AbsSeen
        /\ AbsPending' = [AbsPending EXCEPT ![p] = Abs!None]
    <3>1. /\ UNCHANGED <<heap, views, cur, dbOf>>
          /\ \A q \in Proc : pc'[q] = IF q = p THEN "notify" ELSE pc[q]
      BY <1>10, <1>i DEF Publish, TypeOK
    <3>2. AbsSeen' = AbsSeen
      BY <3>1 DEF AbsSeen, Content
    <3> QED BY <1>i, <3>1, <3>2, PendingEnds
  <2>2. AbsPending[p].open /\ AbsPending[p].db = dbOf[p]
        /\ AbsPending[p].tree = Content(heap, cur[p]) /\ dbOf[p] \in DB
    BY <1>10, <1>i DEF Publish, AbsPending, TypeOK
  <2>3. \A d \in DB : root'[d] = IF d = dbOf[p] THEN cur[p] ELSE root[d]
    <3>1. cur[p] = [s \in Slot |-> cur[p][s]]
      BY <1>i DEF TypeOK, Tree
    <3>2. \A s \in Slot : (IF s \in started[p] THEN cur[p][s] ELSE base[p][s]) = cur[p][s]
      BY <1>10, <1>i DEF Publish, TreesFromBase
    <3>3. [s \in Slot |-> IF s \in started[p] THEN cur[p][s] ELSE base[p][s]] = cur[p]
      BY <3>1, <3>2
    <3>4. root' = [root EXCEPT ![dbOf[p]] = cur[p]]
      BY <1>10, <3>3 DEF Publish
    <3> QED BY <1>i, <3>4 DEF TypeOK
  <2>4. AbsStore' = [AbsStore EXCEPT ![dbOf[p]] = Content(heap, cur[p])]
    <3>1. AbsStore' = [d \in DB |-> Content(heap, root'[d])]
      BY <1>10 DEF Publish, AbsStore
    <3>2. [AbsStore EXCEPT ![dbOf[p]] = Content(heap, cur[p])]
            = [d \in DB |-> IF d = dbOf[p] THEN Content(heap, cur[p]) ELSE Content(heap, root[d])]
      BY DEF AbsStore
    <3> QED BY <2>3, <3>1, <3>2
  <2>5. Abs!Commit(p)
    BY <2>1, <2>2, <2>4 DEF Abs!Commit
  <2> QED BY <2>5 DEF Abs!Next
<1>11. ASSUME NEW p \in Proc, CommitEmpty(p) PROVE Abs!Next
  <2>1. /\ UNCHANGED <<heap, root, views, cur, dbOf>>
        /\ \A q \in Proc : pc'[q] = IF q = p THEN "notify" ELSE pc[q]
    BY <1>11, <1>i DEF CommitEmpty, TypeOK
  <2>2. AbsStore' = AbsStore /\ AbsSeen' = AbsSeen
    BY <2>1 DEF AbsStore, AbsSeen, Content
  <2>3. AbsPending' = [AbsPending EXCEPT ![p] = Abs!None]
    BY <1>i, <2>1, PendingEnds
  <2>4. cur[p] = root[dbOf[p]] /\ dbOf[p] \in DB
    <3>1. \A s \in Slot : cur[p][s] = root[dbOf[p]][s]
      BY <1>11, <1>i DEF CommitEmpty, TreesFromBase, NoLostUpdate
    <3>2. dbOf[p] \in DB
      BY <1>i DEF TypeOK
    <3> QED BY <1>t, <3>1, <3>2 DEF Tree
  <2>5. AbsPending[p].open /\ AbsPending[p].db = dbOf[p] /\ AbsPending[p].tree = AbsStore[dbOf[p]]
    BY <1>11, <2>4 DEF CommitEmpty, AbsPending, AbsStore
  <2>6. AbsStore' = [AbsStore EXCEPT ![dbOf[p]] = AbsStore[dbOf[p]]]
    BY <2>2, <2>4 DEF AbsStore
  <2>7. Abs!Commit(p)
    BY <2>2, <2>3, <2>5, <2>6 DEF Abs!Commit
  <2> QED BY <2>7 DEF Abs!Next
<1>13. ASSUME NEW p \in Proc, Unlock(p) PROVE UNCHANGED Abs!avars
  <2>1. UNCHANGED <<heap, root, views>> /\ pc[p] = "notify"
    BY <1>13 DEF Unlock
  <2>2. /\ pc'[p] = "deferred"
        /\ \A q \in Proc : q # p => pc'[q] = pc[q] /\ dbOf'[q] = dbOf[q] /\ cur'[q] = cur[q]
    BY <1>13, <1>i DEF Unlock, Release, TypeOK
  <2> QED BY <1>i, <2>1, <2>2, Stutters
<1>16. ASSUME NEW p \in Proc, Abort(p) PROVE Abs!Next
  <2>1. UNCHANGED <<heap, root, views>> /\ pc[p] = "open"
    BY <1>16 DEF Abort
  <2>2. /\ pc'[p] = "idle"
        /\ \A q \in Proc : q # p => pc'[q] = pc[q] /\ dbOf'[q] = dbOf[q] /\ cur'[q] = cur[q]
    BY <1>16, <1>i DEF Abort, Release, TypeOK
  <2>3. AbsStore' = AbsStore /\ AbsSeen' = AbsSeen
    BY <2>1 DEF AbsStore, AbsSeen, Content
  <2>4. AbsPending' = [AbsPending EXCEPT ![p] = Abs!None] /\ AbsPending[p].open
    BY <1>i, <2>1, <2>2, PendingEnds DEF AbsPending
  <2>5. Abs!Abort(p)
    BY <2>3, <2>4 DEF Abs!Abort
  <2> QED BY <2>5 DEF Abs!Next
<1>17. ASSUME NEW d \in DB, ReadTxn(d) PROVE Abs!Next
  <2> DEFINE v == [trees |-> root[d], seen |-> Content(heap, root[d])]
  <2>1. views' = views \cup {v} /\ UNCHANGED <<heap, root, pc, dbOf, cur>>
    BY <1>17 DEF ReadTxn
  <2>2. root[d] = [r \in Slot |-> root[d][r]]
    BY <1>i DEF TypeOK, Tree
  <2>3. v.trees = [r \in Slot |-> root[d][r]] /\ Slot \in {Slot} \cup {{r} : r \in Slot}
    BY <2>2
  <2> HIDE DEF v
  <2>4. root[d] \in Tree /\ \E e \in DB : root[d] = root[e]
    BY <1>i DEF TypeOK
  <2> QED BY <1>i, <2>1, <2>3, <2>4, ReadsOf
<1>19. ASSUME Snapshot PROVE Abs!Next
  <2>1. UNCHANGED <<heap, views, pc, dbOf, cur>>
    BY <1>19 DEF Snapshot
  <2>2. AbsPending' = AbsPending /\ AbsSeen' = AbsSeen
    BY <2>1 DEF AbsPending, AbsSeen, AbsNone, Content
  <2>3. \A d \in DB : root'[d] = IF d = Clone THEN root[Primary] ELSE root[d]
    BY <1>19, <1>i DEF Snapshot, TypeOK
  <2>4. AbsStore' = [AbsStore EXCEPT ![Clone] = AbsStore[Primary]]
    BY <2>1, <2>3 DEF AbsStore, DB
  <2>5. Abs!Snapshot
    BY <2>2, <2>4 DEF Abs!Snapshot
  <2> QED BY <2>5 DEF Abs!Next
<1>20. ASSUME NEW p \in Proc,
              \/ \E d \in DB : BeginWrite(p, d)
              \/ Lock(p) \/ CommitReturns(p)
       PROVE  UNCHANGED Abs!avars
  <2>1. UNCHANGED <<heap, root, views, cur>> /\ pc[p] # "open"
    BY <1>20 DEF BeginWrite, Lock, CommitReturns
  <2>2. /\ pc'[p] # "open"
        /\ \A q \in Proc : q # p => pc'[q] = pc[q] /\ dbOf'[q] = dbOf[q]
    BY <1>20, <1>i DEF BeginWrite, Lock, CommitReturns, TypeOK
  <2> QED BY <1>i, <2>1, <2>2, Stutters
<1>21. ASSUME NEW p \in Proc,
              \/ \E t \in Table : DeleteMisses(p, t)
              \/ Defer(p) \/ NotifyOne(p) \/ RunDeferred(p)
       PROVE  UNCHANGED Abs!avars
  <2>1. UNCHANGED <<heap, root, views, cur, pc, dbOf>>
    BY <1>21 DEF DeleteMisses, Defer, NotifyOne, RunDeferred
  <2> QED BY <1>i, <2>1, Stutters
<1>22. CASE (\E v \in views : \E s \in DOMAIN v.trees : Watch(v, s)) \/ UNCHANGED vars
  <2>1. UNCHANGED <<heap, root, views, cur, pc, dbOf>>
    BY <1>22 DEF Watch, vars
  <2> QED BY <1>i, <2>1, Stutters
<1> QED
  BY <1>3, <1>4, <1>5, <1>8, <1>9, <1>10, <1>11, <1>13, <1>16, <1>17, <1>19, <1>20, <1>21, <1>22
     DEF Next, WriteTxn, Running, Finish, Done

\* The database is snapshot isolation with one writer per database, whatever its
\* goroutines do and however many there are (memdb.go:79-126, txn.go:205-312).
THEOREM Implements == Spec => RefinesStore
  BY WInductive, StoreInit, StoreStep, PTL DEF Spec, RefinesStore, Abs!Spec
=============================================================================
