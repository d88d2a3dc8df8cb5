----------------------------- MODULE RowAlgebra -----------------------------
(***************************************************************************)
(* The set algebra on row sets (bitmap_index.go over internal/bitmap):     *)
(* queries for several values, which are unions, and combinations of row   *)
(* sets that readers keep, of which others are then made, while the        *)
(* transactions of module RowSets go on.                                   *)
(*                                                                         *)
(* A combination also has, as the ghost of, the first operand it was made  *)
(* from.                                                                   *)
(***************************************************************************)
EXTENDS RowSets

A == INSTANCE BitmapAlgebra
O == INSTANCE BitmapOps

\* Adds the row set s to those that readers keep, in the heap hp its nodes are in.
KeepMade(hp, s) == Keep(s) /\ heap' = Swept(hp, Versions, sets')

\* The rows of a version with one of the values of q: the union of the bitmaps
\* that the scan of a prefix meets.
Union(ver, q) ==
    FoldLeft(LAMBDA r, k : A!Algebra("Or", r.heap, r.node, ver.bits[k]),
             [heap |-> heap, node |-> B!Nil], SetToSeq(q))
KeepUnion(ver, q) ==
    LET r == Union(ver, q)
    IN  KeepMade(r.heap, RowSet(ver, r.node, UNION {Ids(heap, ver.bits[k]) : k \in q}))

\* Where of a prefix, in a read transaction and in a write transaction.
SeveralValues == {q \in SUBSET Value : Cardinality(q) > 1}
ReadPrefix(d, q) ==
    /\ KeepUnion(root[d], q)
    /\ UNCHANGED <<vheap, drawn, writer, root, cur, writes>>
TakePrefix(d, q) ==
    /\ cur[d] # Idle
    /\ KeepUnion(cur[d], q)
    /\ Freeze(d)
    /\ UNCHANGED <<vheap, drawn, root, cur, writes>>

\* RowSet.And, Or and AndNot.
Combine(op, s, o) ==
    LET r == A!Algebra(op, heap, s.bits, o.bits)
        t == RowSet(s, r.node, A!Meet(op, s.ids, o.ids))
    IN  /\ With(s, o) /\ s # o
        /\ KeepMade(r.heap, [f \in DOMAIN t \cup {"of"} |-> IF f = "of" THEN s.bits ELSE t[f]])
        /\ UNCHANGED <<vheap, drawn, writer, root, cur, writes>>

AlgebraNext ==
    \/ Next
    \/ \E d \in DB, q \in SeveralValues : ReadPrefix(d, q) \/ TakePrefix(d, q)
    \/ \E op \in A!Ops : \E s, o \in sets : Combine(op, s, o)

AlgebraSpec == Init /\ [][AlgebraNext]_vars

----------------------------------------------------------------------------
(* Properties.  RowSetsStable also says that a combination starts with      *)
(* exactly the ids that the operation asks for.                             *)

\* The counts that Len reads are exact at every node of everything in reach, no
\* node is empty, and a bitmap is as low as its ids allow.
Under(n) == IF heap[n].height = 0 THEN heap[n].bits
            ELSE DOMAIN heap[n].kids
Tops == {v.bits[k] : v \in Versions, k \in K} \cup {s.bits : s \in sets}
BitmapsWellFormed ==
    /\ \A n \in DOMAIN heap :
        LET x == heap[n]
            below == {x.kids[s] : s \in DOMAIN x.kids}
        IN  /\ Under(n) # {}
            /\ x.height = 0 => x.count = Cardinality(x.bits)
            /\ x.height > 0 =>
                /\ \A c \in below : heap[c].height = x.height - 1
                /\ x.count = FoldFunction(LAMBDA a, b : a + b, 0,
                                          [s \in DOMAIN x.kids |-> heap[x.kids[s]].count])
    /\ \A b \in Tops \ {B!Nil} : heap[b].height > 0 => Under(b) # {0}

\* A combination does not copy what it has: a subtree of it that holds what a
\* subtree of the first operand holds in the same place is that node
\* (bitmap.go:25).  Of the second operand this is not so, where the two have
\* equal children that are not the same node: see the README.
RECURSIVE Places(_, _)
Places(n, base) ==      \* the nodes from n down, each with the first id it covers
    IF n = B!Nil THEN {}
    ELSE {<<n, base>>} \cup
         UNION {Places(heap[n].kids[k], base + k * B!Span(heap[n].height - 1)) :
                    k \in DOMAIN heap[n].kids}
SameSubtree(p, q) ==
    /\ p[2] = q[2] /\ heap[p[1]].height = heap[q[1]].height
    /\ \A i \in 0..(B!Span(heap[p[1]].height) - 1) :
            B!HasBelow(heap, p[1], heap[p[1]].height, i) <=>
                B!HasBelow(heap, q[1], heap[q[1]].height, i)
SharesOperand ==
    \A s \in {t \in sets : "of" \in DOMAIN t} :
        \A p \in Places(s.bits, 0), q \in Places(s.of, 0) :
            SameSubtree(p, q) => p[1] = q[1]

\* An iterator returns the ids of its bitmap once each and in order.
IterationInOrder ==
    \A b \in Tops :
        O!Rest(heap, O!Iterate(heap, b)) = SetToSortSeq(Ids(heap, b), <)

=============================================================================
