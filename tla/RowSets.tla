------------------------------ MODULE RowSets ------------------------------
(***************************************************************************)
(* Row sets and the persistent structures under them (bitmap_index.go over *)
(* internal/bitmap and internal/pvec): databases that share nodes, write   *)
(* transactions that change in place what their writers own, and readers   *)
(* that keep row sets meanwhile: all rows of a table, or those with one    *)
(* value.  Module RowAlgebra adds queries for several values and the       *)
(* combinations of row sets.                                               *)
(*                                                                         *)
(* A table has the bitmaps of its bookkeeping, "all" and "free", one for   *)
(* each value of a bitmap index, and the row vector.  An object is the set *)
(* of values it has in the index.  Primary keys are left out: a write      *)
(* names its row id, which module RowWrites looks up.  Heap nodes nothing  *)
(* refers to are dropped, as the garbage collector would.                  *)
(*                                                                         *)
(* Bounds: MaxRow, the highest row id; MaxWrites rows written; MaxSets row *)
(* sets made.                                                              *)
(***************************************************************************)
EXTENDS Naturals, Sequences, FiniteSets, SequencesExt

CONSTANTS DB, Value,
          Obj,      \* the objects written
          None,     \* no object
          ChunkSize, Fan, LeafSize, InnerSize,
          MaxRow, MaxWrites, MaxSets,
          Start     \* the objects of the rows the table starts with

ASSUME BoundAssumption ==
    /\ ChunkSize \in Nat \ {0} /\ Fan \in Nat \ {0, 1}
    /\ LeafSize \in Nat \ {0} /\ InnerSize \in Nat \ {0, 1}
    /\ MaxRow \in Nat /\ MaxWrites \in Nat /\ MaxSets \in Nat
    /\ IsFiniteSet(Value) /\ "all" \notin Value /\ "free" \notin Value
    /\ Obj \subseteq SUBSET Value /\ \A obj \in SUBSET Value : obj # None
    /\ Start \in Seq(SUBSET Value) /\ Len(Start) <= MaxRow + 1

B == INSTANCE Bitmap
V == INSTANCE PVec

Row == 0..MaxRow
K   == {"all", "free"} \cup Value
Idle == <<>>            \* no write transaction
Frozen == [bm |-> 0, vec |-> 0]

VARIABLES
    heap, vheap,   \* the nodes of bitmaps and of row vectors
    drawn,         \* the two epochCounters
    writer,        \* bmW and vecW of each database's write transaction: their epochs
    root,          \* the published version of each database
    cur,           \* that of its write transaction, or Idle
    sets,          \* the row sets that readers keep
    writes

vars == <<heap, vheap, drawn, writer, root, cur, sets, writes>>

(***************************************************************************)
(* A version is [bits, rows, next] and, a ghost, table: the row of each id.*)
(* A row set is [rows, bits] and the ghosts ids, the row ids it was made   *)
(* with, and table, the table it was made from.                            *)
(***************************************************************************)
Ids(hp, b) == {i \in Row : B!Has(hp, b, i)}
Written == {d \in DB : cur[d] # Idle}
Versions == {root[d] : d \in DB} \cup {cur[d] : d \in Written}

----------------------------------------------------------------------------
(* Writing a row.                                                          *)

\* What becomes of x in steps 1..n.
Iterated(Step(_, _), x, n) ==
    LET after[k \in 0..n] == IF k = 0 THEN x ELSE Step(after[k - 1], k)
    IN  after[n]

\* Sets or clears one id in one of the bitmaps.
Change(e, st, c) ==
    LET r == IF c.how = "set" THEN B!Set(st.heap, e, st.bits[c.k], c.i)
                              ELSE B!Clear(st.heap, e, st.bits[c.k], c.i)
    IN  [heap |-> r.heap, bits |-> [st.bits EXCEPT ![c.k] = r.node]]

\* The changes of one kind to the bitmaps of S.
Each(how, S, i) ==
    [n \in 1..Cardinality(S) |-> [how |-> how, k |-> SetToSeq(S)[n], i |-> i]]
When(cond, s) == IF cond THEN s ELSE <<>>
ValuesOf(obj) == IF obj = None THEN {} ELSE obj

\* A row takes the next id if no id is free.
IsNext(ver, i) == ver.table[i] = None /\ ver.bits["free"] = B!Nil

\* applyBitmaps: what becomes of the bitmaps when obj takes the place of row i,
\* either of them None.
Changes(ver, i, obj) ==
    LET was == ver.table[i]
    IN  When(obj = None, Each("clear", {"all"}, i) \o Each("set", {"free"}, i))
        \o When(was = None /\ ~IsNext(ver, i), Each("clear", {"free"}, i))
        \o When(was = None, Each("set", {"all"}, i))
        \o Each("clear", ValuesOf(was) \ ValuesOf(obj), i)
        \o Each("set", ValuesOf(obj) \ ValuesOf(was), i)

\* The heap and the bitmaps after some changes.
Changed(hp, e, bits, cs) ==
    Iterated(LAMBDA st, n : Change(e, st, cs[n]), [heap |-> hp, bits |-> bits], Len(cs))

\* applyBitmaps: and the bookkeeping follows.
Applied(hp, vh, e, ver, i, obj) ==
    LET bm == Changed(hp, e.bm, ver.bits, Changes(ver, i, obj))
        r  == V!Set(vh, e.vec, ver.rows, i, obj)
    IN  [heap |-> bm.heap, vheap |-> r.heap,
         ver  |-> [bits |-> bm.bits, rows |-> r.vec,
                   next |-> IF IsNext(ver, i) THEN ver.next + 1 ELSE ver.next,
                   table |-> [ver.table EXCEPT ![i] = obj]]]

\* The row id an insert takes.
NewId(hp, ver) ==
    IF ver.bits["free"] # B!Nil THEN B!Least(hp, ver.bits["free"]) ELSE ver.next

\* Mutant: every writer counts its own epochs.
EpochsOfWriter(d) == [bm |-> 1, vec |-> 1]

\* The epochs the writers of a database have once they have changed something.
Epochs(d) ==
    [bm  |-> IF writer[d].bm = 0 THEN drawn.bm + 1 ELSE writer[d].bm,
     vec |-> IF writer[d].vec = 0 THEN drawn.vec + 1 ELSE writer[d].vec]

\* The nodes that versions and row sets refer to.
Swept(hp, vers, rs) ==
    LET tops == {v.bits[k] : v \in vers, k \in K} \cup {s.bits : s \in rs}
        live == UNION {B!Nodes(hp, b) : b \in tops}
    IN  [n \in live |-> hp[n]]
SweptVec(hp, vers, rs) ==
    LET tops == {v.rows : v \in vers} \cup {s.rows : s \in rs}
        live == UNION {V!Nodes(hp, v.root, v.height) : v \in tops}
    IN  [n \in live |-> hp[n]]

\* The versions there are once x is that of d's transaction.
WithCur(d, x) == {root[e] : e \in DB} \cup {cur[e] : e \in Written \ {d}} \cup {x}

Write(d, i, obj) ==
    /\ writes < MaxWrites
    /\ writes' = writes + 1
    /\ \E r \in {Applied(heap, vheap, Epochs(d), cur[d], i, obj)} :
        LET e == Epochs(d)
            drew == [bm |-> IF r.heap = heap THEN writer[d].bm ELSE e.bm, vec |-> e.vec]
        IN  /\ cur' = [cur EXCEPT ![d] = r.ver]
            /\ writer' = [writer EXCEPT ![d] = drew]
            /\ drawn' = [bm  |-> IF drew.bm > drawn.bm THEN drew.bm ELSE drawn.bm,
                         vec |-> IF drew.vec > drawn.vec THEN drew.vec ELSE drawn.vec]
            /\ heap' = Swept(r.heap, WithCur(d, r.ver), sets)
            /\ vheap' = SweptVec(r.vheap, WithCur(d, r.ver), sets)
            /\ UNCHANGED <<root, sets>>

Insert(d) ==
    /\ cur[d] # Idle
    /\ NewId(heap, cur[d]) \in Row
    /\ \E obj \in Obj : Write(d, NewId(heap, cur[d]), obj)

UpdateOrDelete(d) ==
    /\ cur[d] # Idle
    /\ \E i \in Row, obj \in Obj \cup {None} :
        cur[d].table[i] # None /\ Write(d, i, obj)

----------------------------------------------------------------------------
(* Transactions.                                                           *)

Begin(d) ==
    /\ cur[d] = Idle
    /\ cur' = [cur EXCEPT ![d] = root[d]]
    /\ UNCHANGED <<heap, vheap, drawn, writer, root, sets, writes>>

\* Mutant: the writers go to the pool as they are.
ReleaseUnfrozen(d) == writer' = writer

\* writeState.release, which Commit and Abort end with.
Release(d) == writer' = [writer EXCEPT ![d] = Frozen]

End(d, version) ==
    LET left == {root[e] : e \in DB \ {d}} \cup {cur[e] : e \in Written \ {d}} \cup {version}
    IN  /\ cur' = [cur EXCEPT ![d] = Idle]
        /\ Release(d)
        /\ root' = [root EXCEPT ![d] = version]
        /\ heap' = Swept(heap, left, sets)
        /\ vheap' = SweptVec(vheap, left, sets)
        /\ UNCHANGED <<drawn, sets, writes>>

Commit(d) == cur[d] # Idle /\ End(d, cur[d])
Abort(d)  == cur[d] # Idle /\ End(d, root[d])

\* MemDB.Snapshot: another database that starts with the nodes of this one.
Clone(d, new) ==
    LET left == {root[e] : e \in DB \ {new}} \cup {cur[e] : e \in Written}
    IN  /\ cur[new] = Idle /\ root[new] # root[d]
        /\ root' = [root EXCEPT ![new] = root[d]]
        /\ heap' = Swept(heap, left, sets)
        /\ vheap' = SweptVec(vheap, left, sets)
        /\ UNCHANGED <<drawn, writer, cur, sets, writes>>

----------------------------------------------------------------------------
(* Row sets.                                                               *)

\* The row set of the bitmap b, which has ids, in a version.
RowSet(ver, b, ids) == [rows |-> ver.rows, bits |-> b, ids |-> ids, table |-> ver.table]

\* A reader keeps a row set.
Keep(s) == Cardinality(sets) < MaxSets /\ sets' = sets \cup {s}

\* AllRows, or Where of a value.
Query == {"all"} \cup Value
Found(ver, k) == RowSet(ver, ver.bits[k], Ids(heap, ver.bits[k]))

\* In a read transaction.
Read(d, k) ==
    /\ Keep(Found(root[d], k))
    /\ UNCHANGED <<heap, vheap, drawn, writer, root, cur, writes>>

\* Mutant: the writer of row vectors is forgotten.
FreezeBitmaps(d) == writer' = [writer EXCEPT ![d].bm = 0]

\* freezeRows.
Freeze(d) == writer' = [writer EXCEPT ![d] = Frozen]

\* In a write transaction, and Txn.Snapshot followed by the query.
Take(d, k) ==
    /\ cur[d] # Idle
    /\ Keep(Found(cur[d], k))
    /\ Freeze(d)
    /\ UNCHANGED <<heap, vheap, drawn, root, cur, writes>>

\* RowSet.with: the sets may be combined.
With(s, o) == s.rows.root = o.rows.root

----------------------------------------------------------------------------
\* Row n of Start is inserted.
Loaded(st, n) == Applied(st.heap, st.vheap, [bm |-> 1, vec |-> 1], st.ver, n - 1, Start[n])

\* A database whose first transaction inserted the rows of Start.
Init ==
    LET blank == [bits |-> [k \in K |-> B!Nil], rows |-> V!Empty, next |-> 0,
                  table |-> [i \in Row |-> None]]
        first == [heap |-> << >>, vheap |-> << >>, ver |-> blank]
        load  == Iterated(Loaded, first, Len(Start))
    IN  /\ heap = Swept(load.heap, {load.ver}, {})
        /\ vheap = SweptVec(load.vheap, {load.ver}, {})
        /\ drawn = [bm |-> 1, vec |-> 1]
        /\ writer = [d \in DB |-> Frozen]
        /\ root = [d \in DB |-> load.ver]
        /\ cur = [d \in DB |-> Idle]
        /\ sets = {} /\ writes = 0

Next ==
    \/ \E d \in DB : Begin(d) \/ Insert(d) \/ UpdateOrDelete(d) \/ Commit(d) \/ Abort(d)
    \/ \E d, new \in DB : Clone(d, new)
    \/ \E d \in DB, k \in Query : Read(d, k) \/ Take(d, k)

Spec == Init /\ [][Next]_vars

----------------------------------------------------------------------------
(* Properties.                                                             *)

\* Every version and row set refers to nodes that exist; a writer's epoch has
\* been drawn, no two writers have the same, and a database without a write
\* transaction has writers that own nothing (writeState.release).
TypeOK ==
    /\ \A v \in Versions : /\ v.table \in [Row -> (SUBSET Value) \cup {None}]
                           /\ v.next \in 0..(MaxRow + 1)
                           /\ \A k \in K : v.bits[k] \in DOMAIN heap \cup {B!Nil}
                           /\ v.rows.root \in DOMAIN vheap \cup {V!Nil}
    /\ \A s \in sets : /\ s.bits \in DOMAIN heap \cup {B!Nil}
                       /\ s.rows.root \in DOMAIN vheap \cup {V!Nil}
                       /\ s.ids \subseteq Row
    /\ \A d \in DB : /\ writer[d].bm \in 0..drawn.bm /\ writer[d].vec \in 0..drawn.vec
                     /\ cur[d] = Idle => writer[d] = Frozen
    /\ \A d, e \in DB : d # e /\ writer[d].vec # 0 => writer[d].vec # writer[e].vec
    /\ writes \in 0..MaxWrites

\* A row set keeps the row ids it was made with, and the objects they had then,
\* whatever the transactions do that share nodes with it (bitmap_index.go:352).
RowSetsStable ==
    \A s \in sets :
        /\ Ids(heap, s.bits) = s.ids
        /\ B!Size(heap, s.bits) = Cardinality(s.ids)
        /\ \A i \in s.ids : V!Get(vheap, s.rows, i) = s.table[i]

\* The structures of every version, published or not, say what the table holds:
\* the rows in use, those with the value, the free ids below next, and the
\* objects (the five parts of tableRows and the bitmap in the index).
VersionsExact ==
    \A v \in Versions :
        LET used == {i \in Row : v.table[i] # None} IN
        /\ Ids(heap, v.bits["all"]) = used
        /\ \A k \in Value : Ids(heap, v.bits[k]) = {i \in used : k \in v.table[i]}
        /\ Ids(heap, v.bits["free"]) = 0..(v.next - 1) \ used
        /\ \A i \in Row : V!Get(vheap, v.rows, i) = v.table[i]

\* Every node of a row vector counts the values below it, none is empty, and no node is in two places of a vector.
VectorsWellFormed ==
    \A r \in {v.rows : v \in Versions} \cup {s.rows : s \in sets} : V!IsVec(vheap, r)

\* Row sets that may be combined are of the same state of the table: a vector
\* root is never the root of two states (bitmap_index.go:363).
SameMeansSameState ==
    \A s, o \in sets : With(s, o) => s.table = o.table

----------------------------------------------------------------------------
(* What is changed in place, of bitmaps and of row vectors, as module       *)
(* Epochs has it.                                                           *)

BitNodes(ver) == IF ver = Idle THEN {} ELSE UNION {B!Nodes(heap, ver.bits[k]) : k \in K}
VecNodes(ver) == IF ver = Idle THEN {} ELSE V!Nodes(vheap, ver.rows.root, ver.rows.height)

Bits == INSTANCE Epochs WITH
    node <- heap, drawn <- drawn.bm, open <- Written,
    writer <- [d \in DB |-> writer[d].bm],
    root <- [d \in DB |-> BitNodes(root[d])],
    cur <- [d \in DB |-> BitNodes(cur[d])],
    kept <- {[n \in B!Nodes(heap, s.bits) |-> heap[n]] : s \in sets}

Vecs == INSTANCE Epochs WITH
    node <- vheap, drawn <- drawn.vec, open <- Written,
    writer <- [d \in DB |-> writer[d].vec],
    root <- [d \in DB |-> VecNodes(root[d])],
    cur <- [d \in DB |-> VecNodes(cur[d])],
    kept <- {[n \in VecNodes(s) |-> vheap[n]] : s \in sets}

\* Nodes are changed in place only by the transaction that made them, while
\* nobody else has them, in bitmaps and in row vectors alike, whatever is read,
\* combined, committed and thrown away meanwhile (the ownership rule of
\* bitmap.go:121-124).
KeepsEpochs == Bits!Spec /\ Vecs!Spec
=============================================================================
