---------------------------- MODULE BitmapProofs ----------------------------
(* Theorems about Bitmap and BitmapAlgebra, for any sizes of nodes, ids,     *)
(* heaps and epochs: Set adds an id and Clear takes one away, every node     *)
(* counts the ids below it, a bitmap is as low as its ids allow, and only    *)
(* nodes of the writer's epoch change; And, Or and AndNot have exactly the   *)
(* ids they should and change nothing.                                       *)
(*                                                                           *)
(* A bitmap is a row vector of marks. What its writer does to a heap is, of  *)
(* the nodes that the nodes stand for, what the writer of row vectors does,  *)
(* so that the theorems about PVec say what comes of it.                     *)
EXTENDS BitmapAlgebra, Integers, FiniteSetTheorems, TLAPS

\* What a row vector holds at the ids of a bitmap, and elsewhere.
Yes   == "yes"
No    == "no"
Marks == {Yes, No}

P == INSTANCE PVecProofs WITH LeafSize <- ChunkSize, InnerSize <- Fan, None <- No

----------------------------------------------------------------------------
(* What a node and a heap stand for.                                       *)

\* The places in a chunk, nodes and heaps.
Chunk == 0..(ChunkSize - 1)
BNode == [epoch : Nat, height : Nat, count : Int, bits : SUBSET Chunk, kids : P!Maps(Nat)]
Heaps == {m \in P!Maps(BNode) : P!Finite(m)}

\* The node, and the heap, of PVec that x and m stand for.
Marked(S)  == [i \in S |-> Yes]
AsNode(x) == [epoch |-> x.epoch, used |-> x.count, vals |-> Marked(x.bits), kids |-> x.kids]
AsHeap(m) == [x \in DOMAIN m |-> AsNode(m[x])]

LEMMA MarksAre == Yes \in Marks /\ No \in Marks /\ Yes # No
BY DEF Yes, No, Marks

LEMMA SizesAre == ASSUME Sizes PROVE P!Sizes
BY DEF Sizes, P!Sizes

LEMMA FiniteSetsAre ==
    ASSUME NEW S
    PROVE  (P!IsFiniteSet(S) <=> IsFiniteSet(S)) /\ P!Cardinality(S) = Cardinality(S)
BY DEF P!IsFiniteSet, IsFiniteSet, P!Cardinality, Cardinality

LEMMA NodeIs ==
    ASSUME NEW x, x \in BNode
    PROVE  /\ x.epoch \in Nat /\ x.height \in Nat /\ x.count \in Int
           /\ x.bits \subseteq Chunk /\ x.bits \subseteq Nat /\ x.kids \in P!Maps(Nat)
           /\ AsNode(x) \in P!NodeSet(Marks)
<1>1. /\ x.epoch \in Nat /\ x.height \in Nat /\ x.count \in Int
      /\ x.bits \subseteq Chunk /\ x.bits \subseteq Nat /\ x.kids \in P!Maps(Nat)
  BY DEF BNode, Chunk
<1> DEFINE f == Marked(x.bits)
<1>2. f \in P!Maps(Marks)
  <2>1. f = [i \in DOMAIN f |-> f[i]] /\ DOMAIN f = x.bits /\ \A i \in DOMAIN f : f[i] \in Marks
    BY MarksAre DEF Marked
  <2> HIDE DEF f
  <2> QED BY <1>1, <2>1, P!MapIs
<1> HIDE DEF f
<1>3. AsNode(x) = [epoch |-> x.epoch, used |-> x.count, vals |-> f, kids |-> x.kids]
  BY DEF AsNode, f
<1> QED BY <1>1, <1>2, <1>3 DEF P!NodeSet

LEMMA AsNodeIs ==
    ASSUME NEW x
    PROVE  /\ AsNode(x).epoch = x.epoch /\ AsNode(x).used = x.count /\ AsNode(x).kids = x.kids
           /\ \A s : P!Val(AsNode(x), s) = IF s \in x.bits THEN Yes ELSE No
           /\ \A s : P!Kid(AsNode(x), s) = Kid(x, s)
<1>1. AsNode(x).epoch = x.epoch /\ AsNode(x).used = x.count /\ AsNode(x).kids = x.kids
  BY DEF AsNode
<1>2. DOMAIN AsNode(x).vals = x.bits /\ \A i \in x.bits : AsNode(x).vals[i] = Yes
  BY DEF AsNode, Marked
<1> DEFINE y == AsNode(x)
<1>3. ASSUME NEW s PROVE P!Val(y, s) = IF s \in x.bits THEN Yes ELSE No
  <2>1. DOMAIN y.vals = x.bits /\ \A i \in x.bits : y.vals[i] = Yes
    BY <1>2
  <2> HIDE DEF y
  <2> QED BY <2>1 DEF P!Val
<1>4. ASSUME NEW s PROVE P!Kid(AsNode(x), s) = Kid(x, s)
  BY <1>1 DEF P!Kid, Kid, P!Nil, Nil
<1> QED BY <1>1, <1>3, <1>4

LEMMA HeapIs ==
    ASSUME NEW m, m \in Heaps
    PROVE  /\ DOMAIN m \subseteq Nat \ {Nil}
           /\ IsFiniteSet(DOMAIN m)
           /\ \A x \in DOMAIN m : m[x] \in BNode
           /\ AsHeap(m) \in P!Heap(Marks)
           /\ DOMAIN AsHeap(m) = DOMAIN m
           /\ \A x \in DOMAIN m : AsHeap(m)[x] = AsNode(m[x])
<1>1. m \in P!Maps(BNode) /\ P!Finite(m)
  BY DEF Heaps
<1>2. DOMAIN m \subseteq Nat /\ \A x \in DOMAIN m : m[x] \in BNode
  BY <1>1, P!MapIs
<1>3. IsFiniteSet(DOMAIN m) /\ Nil \notin DOMAIN m
  BY <1>1, FiniteSetsAre DEF P!Finite, P!Nil, Nil
<1> DEFINE A == AsHeap(m)
<1>4. /\ A = [x \in DOMAIN A |-> A[x]] /\ DOMAIN A = DOMAIN m
      /\ \A x \in DOMAIN m : A[x] = AsNode(m[x])
  BY DEF AsHeap
<1> HIDE DEF A
<1>5. A \in P!Maps(P!NodeSet(Marks))
  <2>1. \A x \in DOMAIN A : A[x] \in P!NodeSet(Marks)
    BY <1>2, <1>4, NodeIs
  <2> QED BY <1>2, <1>4, <2>1, P!MapIs
<1>6. A \in P!Heap(Marks)
  BY <1>1, <1>4, <1>5 DEF P!Heap, P!Finite
<1> QED BY <1>2, <1>3, <1>4, <1>6 DEF A

LEMMA ClosedIs ==
    ASSUME NEW m, m \in Heaps, P!Closed(m)
    PROVE  P!Closed(AsHeap(m))
BY HeapIs, AsNodeIs DEF P!Closed

\* A heap with no other nodes than these is the one they stand for.
LEMMA SameHeap ==
    ASSUME NEW m, m \in Heaps, NEW A, A \in P!Heap(Marks), DOMAIN A = DOMAIN m,
           \A x \in DOMAIN m : A[x] = AsNode(m[x])
    PROVE  AsHeap(m) = A
<1>1. A = [x \in DOMAIN A |-> A[x]]
  <2>1. A \in P!Maps(P!NodeSet(Marks))
    BY DEF P!Heap
  <2> QED BY <2>1, P!MapIs
<1> QED BY <1>1 DEF AsHeap

LEMMA BlankIs ==
    ASSUME NEW h, h \in Nat
    PROVE  /\ Blank(h) \in BNode /\ Blank(h).height = h /\ Blank(h).count = 0
           /\ Blank(h).bits = {} /\ Blank(h).kids = << >>
           /\ AsNode(Blank(h)) = P!Blank
<1>1. << >> \in P!Maps(Nat)
  BY P!BlankIs, P!NodeIs
<1>2. /\ Blank(h).epoch = 0 /\ Blank(h).height = h /\ Blank(h).count = 0
      /\ Blank(h).bits = {} /\ Blank(h).kids = << >>
  BY DEF Blank
<1>3. Blank(h) \in BNode
  BY <1>1 DEF Blank, BNode
<1>4. Marked({}) = << >>
  BY DEF Marked
<1>5. AsNode(Blank(h)) = P!Blank
  BY <1>2, <1>4 DEF AsNode, P!Blank
<1> QED BY <1>2, <1>3, <1>5

LEMMA NodeAtIs ==
    ASSUME NEW m, m \in Heaps, NEW n, n \in DOMAIN m \cup {Nil}, NEW h, h \in Nat
    PROVE  /\ n \in Nat /\ NodeAt(m, n, h) \in BNode
           /\ P!NodeAt(AsHeap(m), n) = AsNode(NodeAt(m, n, h))
BY HeapIs, BlankIs DEF NodeAt, P!NodeAt, P!Nil, Nil

LEMMA KidIs ==
    ASSUME NEW m, m \in Heaps, P!Closed(m), NEW n, n \in DOMAIN m \cup {Nil},
           NEW h, h \in Nat, NEW s
    PROVE  Kid(NodeAt(m, n, h), s) \in DOMAIN m \cup {Nil}
<1>1. CASE n = Nil
  BY <1>1, BlankIs DEF NodeAt, Kid
<1>2. CASE n # Nil
  BY <1>2 DEF NodeAt, Kid, P!Closed
<1> QED BY <1>1, <1>2

----------------------------------------------------------------------------
(* One node written.                                                       *)

LEMMA StampedIs ==
    ASSUME NEW x, x \in BNode, NEW e, e \in Nat
    PROVE  /\ P!Stamped(x, e) \in BNode
           /\ P!Stamped(x, e).height = x.height
           /\ P!Stamped(x, e).count = x.count
           /\ P!Stamped(x, e).epoch = e
           /\ P!Stamped(x, e).kids = x.kids
           /\ AsNode(P!Stamped(x, e)) = P!Stamped(AsNode(x), e)
<1> DEFINE y == P!Stamped(x, e)
<1>1. /\ y \in BNode /\ y.epoch = e /\ y.height = x.height /\ y.count = x.count
      /\ y.bits = x.bits /\ y.kids = x.kids
  BY DEF BNode, P!Stamped
<1> HIDE DEF y
<1>2. AsNode(y) = P!Stamped(AsNode(x), e)
  BY <1>1 DEF AsNode, P!Stamped
<1> QED BY <1>1, <1>2 DEF y

LEMMA FreshIs ==
    ASSUME NEW m, m \in Heaps
    PROVE  P!Fresh(AsHeap(m)) = Fresh(m) /\ P!Fresh(m) = Fresh(m)
<1>1. DOMAIN AsHeap(m) = DOMAIN m
  BY HeapIs
<1>2. P!Cardinality(DOMAIN m) = Cardinality(DOMAIN m)
  BY FiniteSetsAre
<1> QED BY <1>1, <1>2 DEF P!Fresh, Fresh, Lowest

LEMMA WithIs == ASSUME NEW f, NEW s, NEW x PROVE With(f, s, x) = P!With(f, s, x)
BY DEF With, P!With

\* The result r, a node of a heap, stands for the result R.
Stands(r, R) == R = [heap |-> AsHeap(r.heap), node |-> r.node]

\* Own does to a heap what it does to the heap it stands for.
LEMMA OwnIs ==
    ASSUME NEW m, m \in Heaps, NEW e, e \in Nat, NEW n, n \in Nat, NEW node, node \in BNode
    PROVE  /\ Own(m, e, n, node).heap \in Heaps
           /\ P!OwnOk(m, e, n, node, Own(m, e, n, node))
           /\ n \in DOMAIN m \cup {Nil} =>
                 Stands(Own(m, e, n, node), P!Own(AsHeap(m), e, n, AsNode(node)))
<1> DEFINE A == AsHeap(m)
           at == IF n # Nil /\ m[n].epoch = e THEN n ELSE Fresh(m)
           new == P!Stamped(node, e)
           o == P!With(m, at, new)
           r == Own(m, e, n, node)
           new2 == P!Stamped(AsNode(node), e)
           O == P!With(A, at, new2)
           R == P!Own(A, e, n, AsNode(node))
<1>1. /\ DOMAIN m \subseteq Nat \ {Nil}
      /\ A \in P!Heap(Marks)
      /\ DOMAIN A = DOMAIN m
      /\ \A x \in DOMAIN m : m[x] \in BNode /\ A[x] = AsNode(m[x])
  BY HeapIs
<1>2. r = [heap |-> o, node |-> at]
  BY WithIs DEF Own, P!Stamped
<1>3. n \in DOMAIN m => A[n].epoch = m[n].epoch
  BY <1>1, AsNodeIs
<1>4. n \in DOMAIN m \cup {Nil} => R = [heap |-> O, node |-> at]
  BY <1>3, FreshIs DEF P!Own, P!Stamped, P!Nil, Nil
<1>5. Fresh(m) \in Nat \ {Nil} /\ Fresh(m) \notin DOMAIN m
  <2>1. P!Finite(m) /\ DOMAIN m \subseteq Nat
    BY <1>1 DEF Heaps
  <2>2. P!Fresh(m) \in Nat \ {P!Nil} /\ P!Fresh(m) \notin DOMAIN m
    BY <2>1, P!FreshIs
  <2> QED BY <2>2, FreshIs DEF P!Nil, Nil
<1>6. at \in Nat \ {Nil} /\ (at \in DOMAIN m => at = n /\ m[n].epoch = e)
  BY <1>1, <1>5
<1>7. new \in BNode /\ AsNode(new) = new2 /\ new2 \in P!NodeSet(Marks)
  BY StampedIs, NodeIs
<1> HIDE DEF at, new, new2, r, R, A
<1>8. o \in P!Maps(BNode) /\ P!IsWith(o, m, at, new)
  <2>1. m \in P!Maps(BNode) /\ at \in Nat
    BY <1>6 DEF Heaps
  <2> QED BY <1>7, <2>1, P!WithIs
<1>9. O \in P!Maps(P!NodeSet(Marks)) /\ P!IsWith(O, A, at, new2)
  <2>1. A \in P!Maps(P!NodeSet(Marks)) /\ at \in Nat
    BY <1>1, <1>6 DEF P!Heap
  <2> QED BY <1>7, <2>1, P!WithIs
<1> HIDE DEF o, O
<1>10. P!Finite(o) /\ P!Finite(O)
  <2>1. IsFiniteSet(DOMAIN m \cup {at})
    BY HeapIs, FS_AddElement
  <2>2. DOMAIN o = DOMAIN m \cup {at} /\ DOMAIN O = DOMAIN m \cup {at}
    BY <1>1, <1>8, <1>9 DEF P!IsWith
  <2>3. P!IsFiniteSet(DOMAIN m \cup {at})
    BY <2>1, FiniteSetsAre
  <2> QED BY <1>1, <1>6, <2>2, <2>3 DEF P!Finite, P!Nil, Nil
<1>11. o \in Heaps /\ O \in P!Heap(Marks)
  BY <1>8, <1>9, <1>10 DEF Heaps, P!Heap
<1>12. AsHeap(o) = O
  <2>1. DOMAIN O = DOMAIN o
    BY <1>1, <1>8, <1>9 DEF P!IsWith
  <2>2. \A x \in DOMAIN o : O[x] = AsNode(o[x])
    BY <1>1, <1>7, <1>8, <1>9 DEF P!IsWith
  <2> QED BY <1>11, <2>1, <2>2, SameHeap
<1>13. P!OwnOk(m, e, n, node, r)
  BY <1>2, <1>6, <1>8 DEF P!OwnOk, P!IsWith, new, P!Nil, Nil
<1>14. r.heap = o /\ r.node = at
  BY <1>2
<1> QED BY <1>4, <1>11, <1>12, <1>13, <1>14 DEF r, R, A, Stands

----------------------------------------------------------------------------
(* The recursive definitions, one level at a time.                         *)

LEMMA NilIs == P!Nil = Nil /\ Nil \in Nat
BY DEF P!Nil, Nil

LEMMA SpanIs ==
    ASSUME Sizes
    PROVE  /\ \A h : P!Span(h) = Span(h)
           /\ \A h \in Nat : Span(h) \in Nat \ {0}
           /\ \A h \in Nat : h # 0 => \A i : P!SlotAt(h, i) = Slot(i, h)
           /\ \A i : P!SlotAt(0, i) = i % ChunkSize
<1>1. \A h : P!Span(h) = Span(h)
  BY DEF P!Span, Span
<1>2. \A h \in Nat : Span(h) \in Nat \ {0}
  BY <1>1, SizesAre, P!SpanIs
<1>3. \A h \in Nat : h # 0 => \A i : P!SlotAt(h, i) = Slot(i, h)
  BY <1>1 DEF P!SlotAt, Slot
<1>4. \A i : P!SlotAt(0, i) = i % ChunkSize
  BY DEF P!SlotAt
<1> QED BY <1>1, <1>2, <1>3, <1>4

\* A bitmap has what the vector it stands for holds.
LEMMA HasIs ==
    ASSUME Sizes, NEW m, m \in Heaps, P!Closed(m), NEW i \in Nat
    PROVE  \A k \in Nat : \A n \in DOMAIN m \cup {Nil} :
              P!GetBelow(AsHeap(m), n, k, i) = IF HasBelow(m, n, k, i) THEN Yes ELSE No
<1> DEFINE D == DOMAIN m \cup {Nil}
           A == AsHeap(m)
           E(f) == [k \in Nat |->
                      [x \in D |-> IF x = Nil THEN FALSE
                                   ELSE IF k = 0 THEN i % ChunkSize \in m[x].bits
                                   ELSE f[k - 1][Kid(m[x], Slot(i, k))]]]
           has == CHOOSE f : f = E(f)
           get == [k \in Nat |-> [x \in D |-> P!GetBelow(A, x, k, i) = Yes]]
<1>1. /\ A \in P!Heap(Marks) /\ DOMAIN A = DOMAIN m /\ P!Closed(A)
      /\ \A x \in DOMAIN m : A[x] = AsNode(m[x])
      /\ Nil \notin DOMAIN m
  BY HeapIs, ClosedIs
<1>2. \A x \in DOMAIN m : \A s : Kid(m[x], s) \in D
  BY DEF P!Closed, Kid
<1> HIDE DEF A
<1>3. /\ \A k \in Nat : P!GetBelow(A, Nil, k, i) = No
      /\ \A x \in DOMAIN m : P!GetBelow(A, x, 0, i) = IF i % ChunkSize \in m[x].bits THEN Yes ELSE No
      /\ \A k \in Nat, x \in DOMAIN m :
            P!GetBelow(A, x, k + 1, i) = P!GetBelow(A, Kid(m[x], Slot(i, k + 1)), k, i)
  <2>1. /\ \A k \in Nat : P!GetBelow(A, P!Nil, k, i) = No
        /\ \A x \in DOMAIN A : P!GetBelow(A, x, 0, i) = P!Val(A[x], P!SlotAt(0, i))
        /\ \A k \in Nat, x \in DOMAIN A :
              P!GetBelow(A, x, k + 1, i) = P!GetBelow(A, P!Kid(A[x], P!SlotAt(k + 1, i)), k, i)
    BY <1>1, SizesAre, MarksAre, P!GetUnfold
  <2>2. \A x \in DOMAIN m : P!Val(A[x], P!SlotAt(0, i)) = IF i % ChunkSize \in m[x].bits THEN Yes ELSE No
    BY <1>1, AsNodeIs, SpanIs
  <2>3. \A k \in Nat : P!SlotAt(k + 1, i) = Slot(i, k + 1)
    BY SpanIs
  <2>4. \A x \in DOMAIN m : \A s : P!Kid(A[x], s) = Kid(m[x], s)
    BY <1>1, AsNodeIs
  <2> QED BY <1>1, <2>1, <2>2, <2>3, <2>4, NilIs
<1>4. get = E(get)
  <2>1. ASSUME NEW k \in Nat PROVE get[k] = E(get)[k]
    <3>1. CASE k = 0
      <4>1. \A x \in D : (P!GetBelow(A, x, k, i) = Yes) =
                            (IF x = Nil THEN FALSE ELSE i % ChunkSize \in m[x].bits)
        <5>1. (P!GetBelow(A, Nil, k, i) = Yes) = FALSE
          BY <1>3, MarksAre
        <5>2. \A x \in DOMAIN m : (P!GetBelow(A, x, k, i) = Yes) = (i % ChunkSize \in m[x].bits)
          BY <1>3, <3>1, MarksAre
        <5> QED BY <1>1, <5>1, <5>2, Zenon
      <4>2. E(get)[k] = [x \in D |-> IF x = Nil THEN FALSE ELSE i % ChunkSize \in m[x].bits]
        BY <3>1, Zenon
      <4> HIDE DEF E
      <4> QED BY <4>1, <4>2, Zenon
    <3>2. CASE k # 0
      <4>1. k - 1 \in Nat /\ (k - 1) + 1 = k
        BY <3>2
      <4>2. \A x \in DOMAIN m :
               P!GetBelow(A, x, k, i) = P!GetBelow(A, Kid(m[x], Slot(i, k)), k - 1, i)
        BY <1>3, <4>1
      <4>3. \A x \in D : (P!GetBelow(A, x, k, i) = Yes) =
                            (IF x = Nil THEN FALSE
                             ELSE P!GetBelow(A, Kid(m[x], Slot(i, k)), k - 1, i) = Yes)
        BY <1>1, <1>3, <4>2, MarksAre
      <4>4. \A x \in DOMAIN m : get[k - 1][Kid(m[x], Slot(i, k))] =
                                     (P!GetBelow(A, Kid(m[x], Slot(i, k)), k - 1, i) = Yes)
        BY <1>2, <4>1, Zenon
      <4>6. get[k] = [x \in D |-> P!GetBelow(A, x, k, i) = Yes]
        BY Zenon
      <4> HIDE DEF get
      <4>5. E(get)[k] = [x \in D |-> IF x = Nil THEN FALSE
                                     ELSE get[k - 1][Kid(m[x], Slot(i, k))]]
        BY <3>2
      <4> HIDE DEF E
      <4>7. \A x \in D : (P!GetBelow(A, x, k, i) = Yes) =
                            (IF x = Nil THEN FALSE ELSE get[k - 1][Kid(m[x], Slot(i, k))])
        BY <4>3, <4>4, Zenon
      <4> QED BY <4>5, <4>6, <4>7, Zenon
    <3> QED BY <3>1, <3>2
  <2> QED BY <2>1
<1>5. has = E(has)
  BY <1>4
<1>6. \A n, k : HasBelow(m, n, k, i) = has[k][n]
  BY DEF HasBelow
<1> HIDE DEF has
<1> DEFINE S == {k \in Nat : \A x \in D : P!GetBelow(A, x, k, i) = IF has[k][x] THEN Yes ELSE No}
<1>7. 0 \in S
  <2>1. has[0] = [x \in D |-> IF x = Nil THEN FALSE ELSE i % ChunkSize \in m[x].bits]
    BY <1>5
  <2>2. has[0][Nil] = FALSE
    BY <2>1
  <2>3. \A x \in DOMAIN m : has[0][x] = (i % ChunkSize \in m[x].bits)
    BY <1>1, <2>1
  <2> QED BY <1>3, <2>2, <2>3
<1>8. ASSUME NEW k \in S PROVE k + 1 \in S
  <2>1. k \in Nat /\ k + 1 \in Nat /\ k + 1 # 0 /\ (k + 1) - 1 = k
    OBVIOUS
  <2>2. has[k + 1] = [x \in D |-> IF x = Nil THEN FALSE
                                  ELSE has[k][Kid(m[x], Slot(i, k + 1))]]
    BY <1>5, <2>1
  <2>3. \A x \in DOMAIN m : has[k + 1][x] = has[k][Kid(m[x], Slot(i, k + 1))]
    BY <1>1, <2>2, ZenonT(30)
  <2>4. has[k + 1][Nil] = FALSE
    BY <2>2
  <2>5. P!GetBelow(A, Nil, k + 1, i) = No
    BY <1>3, <2>1
  <2>6. ASSUME NEW x \in DOMAIN m
        PROVE  P!GetBelow(A, x, k + 1, i) = IF has[k + 1][x] THEN Yes ELSE No
    <3>1. x # Nil /\ Kid(m[x], Slot(i, k + 1)) \in D
      BY <1>1, <1>2, <2>1
    <3>2. P!GetBelow(A, x, k + 1, i) = P!GetBelow(A, Kid(m[x], Slot(i, k + 1)), k, i)
      BY <1>3, <2>1, <3>1
    <3> QED BY <2>3, <3>1, <3>2
  <2> QED BY <2>1, <2>4, <2>5, <2>6
<1> HIDE DEF S
<1>9. \A k \in Nat : k \in S
  <2>1. S \in SUBSET Nat
    BY DEF S
  <2> QED BY <1>7, <1>8, <2>1, P!SetInduction
<1> QED BY <1>6, <1>9 DEF S, A

\* The nodes of a bitmap are those of the vector it stands for.
LEMMA NodesAre ==
    ASSUME NEW m, m \in Heaps, P!Closed(m), NEW b, b \in DOMAIN m \cup {Nil}
    PROVE  Nodes(m, b) = IF b = Nil THEN {} ELSE P!Nodes(AsHeap(m), b, m[b].height)
<1> DEFINE D == DOMAIN m
           A == AsHeap(m)
           E(f) == [k \in Nat |->
                      [x \in D |->
                         IF k = 0 THEN {x}
                         ELSE {x} \cup UNION {f[k - 1][m[x].kids[s]] : s \in DOMAIN m[x].kids}]]
           below == CHOOSE f : f = E(f)
           nodes == [k \in Nat |-> [x \in D |-> P!Nodes(A, x, k)]]
           N(f, x) == UNION {f[m[x].kids[s]] : s \in DOMAIN m[x].kids}
<1>1. /\ A \in P!Heap(Marks) /\ DOMAIN A = DOMAIN m /\ P!Closed(A)
      /\ \A x \in DOMAIN m : A[x] = AsNode(m[x])
      /\ b # Nil => m[b].height \in Nat
  BY HeapIs, ClosedIs, NodeIs
<1>2. \A x \in D : \A s \in DOMAIN m[x].kids : m[x].kids[s] \in D
  BY DEF P!Closed
<1> HIDE DEF A
<1>3. /\ \A x \in D : P!Nodes(A, x, 0) = {x}
      /\ \A k \in Nat, x \in D : P!Nodes(A, x, k + 1) = {x} \cup N(nodes[k], x)
  <2>1. /\ \A x \in DOMAIN A : P!Nodes(A, x, 0) = {x}
        /\ \A k \in Nat, x \in DOMAIN A : P!Nodes(A, x, k + 1) = {x} \cup P!Below(A, x, k)
    BY <1>1, P!NodesUnfold
  <2>2. ASSUME NEW k \in Nat, NEW x \in D PROVE P!Below(A, x, k) = N(nodes[k], x)
    <3>1. A[x].kids = m[x].kids
      BY <1>1, AsNodeIs
    <3>2. P!Below(A, x, k) = UNION {P!Nodes(A, m[x].kids[s], k) : s \in DOMAIN m[x].kids}
      BY <3>1 DEF P!Below
    <3>3. \A s \in DOMAIN m[x].kids : nodes[k][m[x].kids[s]] = P!Nodes(A, m[x].kids[s], k)
      BY <1>2
    <3> HIDE DEF nodes
    <3> QED BY <3>2, <3>3
  <2> QED BY <1>1, <2>1, <2>2
<1> HIDE DEF N
<1>4. nodes = E(nodes)
  <2>1. ASSUME NEW k \in Nat PROVE nodes[k] = E(nodes)[k]
    <3>1. CASE k = 0
      BY <1>3, <3>1
    <3>2. CASE k # 0
      <4>1. k - 1 \in Nat /\ (k - 1) + 1 = k
        BY <3>2
      <4>2. \A x \in D : P!Nodes(A, x, k) = {x} \cup N(nodes[k - 1], x)
        BY <1>3, <4>1
      <4>3. E(nodes)[k] = [x \in D |-> {x} \cup N(nodes[k - 1], x)]
        BY <3>2 DEF N
      <4>4. nodes[k] = [x \in D |-> P!Nodes(A, x, k)]
        OBVIOUS
      <4> HIDE DEF nodes, E
      <4> QED BY <4>2, <4>3, <4>4
    <3> QED BY <3>1, <3>2
  <2> QED BY <2>1
<1>5. below = E(below)
  BY <1>4
<1>6. Nodes(m, b) = IF b = Nil THEN {} ELSE below[m[b].height][b]
  BY DEF Nodes
<1> HIDE DEF below, nodes
<1> DEFINE S == {k \in Nat : \A x \in D : below[k][x] = P!Nodes(A, x, k)}
<1>7. 0 \in S
  BY <1>3, <1>5
<1>8. ASSUME NEW k \in S PROVE k + 1 \in S
  <2>1. k \in Nat /\ k + 1 \in Nat /\ k + 1 # 0 /\ (k + 1) - 1 = k
    OBVIOUS
  <2>2. \A x \in D : below[k + 1][x] = {x} \cup N(below[k], x)
    <3>1. below[k + 1] = E(below)[k + 1]
      BY <1>5, Zenon
    <3>2. E(below)[k + 1] = [x \in D |-> {x} \cup N(below[k], x)]
      BY <2>1 DEF N
    <3> HIDE DEF E
    <3> QED BY <3>1, <3>2
  <2>3. ASSUME NEW x \in D PROVE N(below[k], x) = N(nodes[k], x)
    <3>1. \A s \in DOMAIN m[x].kids : below[k][m[x].kids[s]] = nodes[k][m[x].kids[s]]
      BY <1>2 DEF nodes
    <3> QED BY <3>1 DEF N
  <2> QED BY <1>3, <2>1, <2>2, <2>3
<1> HIDE DEF S
<1>9. \A k \in Nat : k \in S
  <2>1. S \in SUBSET Nat
    BY DEF S
  <2> QED BY <1>7, <1>8, <2>1, P!SetInduction
<1> QED BY <1>1, <1>6, <1>9 DEF S, A

----------------------------------------------------------------------------
(* What set and clear make of a node.                                      *)

ChunkWith(x, i)     == [x EXCEPT !.count = @ + 1, !.bits = @ \cup {i % ChunkSize}]
ChunkWithout(x, i)  == [x EXCEPT !.count = @ - 1, !.bits = @ \ {i % ChunkSize}]
DirWith(x, s, c)    == [x EXCEPT !.count = @ + 1, !.kids = With(@, s, c)]
DirWithout(x, s, c) == [x EXCEPT !.count = @ - 1,
                                 !.kids = IF c = Nil THEN Without(@, s) ELSE With(@, s, c)]

\* The node z of PVec, field by field.
Reads(z, e, u, f, g) == z = [epoch |-> e, used |-> u, vals |-> f, kids |-> g]

\* y is x with another count, other bits, other children.
IsAltered(y, x, c, b, g) ==
    /\ y \in BNode
    /\ y.height = x.height
    /\ y.count = c
    /\ y.kids = g
    /\ Reads(AsNode(y), x.epoch, c, Marked(b), g)

LEMMA AlteredIs ==
    ASSUME NEW x, x \in BNode, NEW c, c \in Int, NEW b, b \subseteq Chunk,
           NEW g, g \in P!Maps(Nat), NEW y,
           y = [x EXCEPT !.count = c, !.bits = b, !.kids = g]
    PROVE  IsAltered(y, x, c, b, g)
<1>1. /\ y \in BNode /\ y.epoch = x.epoch /\ y.height = x.height /\ y.count = c
      /\ y.bits = b /\ y.kids = g
  BY DEF BNode
<1>2. Reads(AsNode(y), x.epoch, c, Marked(b), g)
  BY <1>1 DEF AsNode, Reads
<1> QED BY <1>1, <1>2 DEF IsAltered

LEMMA ReadsIs ==
    ASSUME NEW x, NEW E, NEW U, NEW F, NEW G, Reads(x, E, U, F, G), NEW c, NEW f
    PROVE  Reads(P!Refilled(x, c, f), E, c, f, G) /\ Reads(P!Relinked(x, c, f), E, c, F, f)
<1> DEFINE y == P!Refilled(x, c, f)
           z == P!Relinked(x, c, f)
<1>1. x \in [epoch : {E}, used : {U}, vals : {F}, kids : {G}]
  BY DEF Reads
<1>2. y \in [epoch : {E}, used : {c}, vals : {f}, kids : {G}]
  BY <1>1 DEF P!Refilled
<1>3. z \in [epoch : {E}, used : {c}, vals : {F}, kids : {f}]
  BY <1>1 DEF P!Relinked
<1> HIDE DEF y, z
<1>4. y = [epoch |-> E, used |-> c, vals |-> f, kids |-> G]
  BY <1>2
<1>5. z = [epoch |-> E, used |-> c, vals |-> F, kids |-> f]
  BY <1>3
<1> QED BY <1>4, <1>5 DEF y, z, Reads

LEMMA SameReads ==
    ASSUME NEW x, NEW y, NEW E, NEW U, NEW F, NEW G, Reads(x, E, U, F, G), Reads(y, E, U, F, G)
    PROVE  x = y
BY DEF Reads

\* Other bits only, or other children only.
LEMMA RefilledIs ==
    ASSUME NEW x, NEW y, NEW c, NEW b, IsAltered(y, x, c, b, x.kids)
    PROVE  AsNode(y) = P!Refilled(AsNode(x), c, Marked(b))
<1>1. Reads(AsNode(x), x.epoch, x.count, Marked(x.bits), x.kids)
  BY DEF AsNode, Reads
<1>2. Reads(P!Refilled(AsNode(x), c, Marked(b)), x.epoch, c, Marked(b), x.kids)
  BY <1>1, ReadsIs
<1> QED BY <1>2, SameReads DEF IsAltered

LEMMA RelinkedIs ==
    ASSUME NEW x, NEW y, NEW c, NEW g, IsAltered(y, x, c, x.bits, g)
    PROVE  AsNode(y) = P!Relinked(AsNode(x), c, g)
<1>1. Reads(AsNode(x), x.epoch, x.count, Marked(x.bits), x.kids)
  BY DEF AsNode, Reads
<1>2. Reads(P!Relinked(AsNode(x), c, g), x.epoch, c, Marked(x.bits), g)
  BY <1>1, ReadsIs
<1> QED BY <1>2, SameReads DEF IsAltered

LEMMA MarkedAre ==
    ASSUME NEW S, NEW s
    PROVE  /\ P!With(Marked(S), s, Yes) = Marked(S \cup {s})
           /\ P!Without(Marked(S), s) = Marked(S \ {s})
BY DEF Marked, P!With, P!Without, P!Restrict

LEMMA WithoutIs == ASSUME NEW f, NEW s PROVE Without(f, s) = P!Without(f, s)
BY DEF Without, P!Without, Restrict, P!Restrict

LEMMA ChunkWithIs ==
    ASSUME Sizes, NEW x, x \in BNode, NEW i, i \in Nat
    PROVE  /\ IsAltered(ChunkWith(x, i), x, x.count + 1, x.bits \cup {i % ChunkSize}, x.kids)
           /\ i % ChunkSize \notin x.bits =>
                 /\ P!LeafUsed(AsNode(x), i % ChunkSize, Yes) = x.count + 1
                 /\ P!LeafNode(AsNode(x), i % ChunkSize, Yes) = AsNode(ChunkWith(x, i))
<1> DEFINE s == i % ChunkSize
           y == ChunkWith(x, i)
           c == x.count + 1
           b == x.bits \cup {s}
<1>1. s \in Chunk
  BY DEF Sizes, Chunk
<1>2. x.count \in Int /\ x.bits \subseteq Chunk /\ x.kids \in P!Maps(Nat)
  BY NodeIs
<1>3. y = [x EXCEPT !.count = c, !.bits = b, !.kids = x.kids]
  BY DEF ChunkWith, BNode
<1> HIDE DEF s, y
<1>4. c \in Int /\ b \subseteq Chunk
  BY <1>1, <1>2
<1> HIDE DEF c, b
<1>5. IsAltered(y, x, c, b, x.kids)
  BY <1>2, <1>3, <1>4, AlteredIs
<1>6. ASSUME s \notin x.bits
      PROVE  P!LeafUsed(AsNode(x), s, Yes) = c /\ P!LeafNode(AsNode(x), s, Yes) = AsNode(y)
  <2>1. P!One(P!Val(AsNode(x), s)) = 0
    BY <1>6, AsNodeIs, MarksAre DEF P!One
  <2>2. P!One(Yes) = 1 /\ P!One(No) = 0
    BY MarksAre DEF P!One
  <2>3. P!LeafUsed(AsNode(x), s, Yes) = c
    <3>1. AsNode(x).used = x.count
      BY AsNodeIs
    <3>2. P!LeafUsed(AsNode(x), s, Yes) = (x.count + 1) - 0
      BY <2>1, <2>2, <3>1, Zenon DEF P!LeafUsed
    <3>3. (x.count + 1) - 0 = c
      BY <1>2 DEF c
    <3> QED BY <3>2, <3>3, Zenon
  <2>4. P!LeafVals(AsNode(x), s, Yes) = Marked(b)
    <3>1. AsNode(x).vals = Marked(x.bits)
      BY DEF AsNode
    <3> QED BY <3>1, MarkedAre, MarksAre DEF P!LeafVals, b
  <2>5. AsNode(y) = P!Refilled(AsNode(x), c, Marked(b))
    BY <1>5, RefilledIs
  <2> QED BY <2>3, <2>4, <2>5 DEF P!LeafNode
<1> QED BY <1>5, <1>6 DEF c, b, s, y

LEMMA ChunkWithoutIs ==
    ASSUME Sizes, NEW x, x \in BNode, NEW i, i \in Nat
    PROVE  /\ IsAltered(ChunkWithout(x, i), x, x.count - 1, x.bits \ {i % ChunkSize}, x.kids)
           /\ i % ChunkSize \in x.bits =>
                 /\ P!LeafUsed(AsNode(x), i % ChunkSize, No) = x.count - 1
                 /\ P!LeafNode(AsNode(x), i % ChunkSize, No) = AsNode(ChunkWithout(x, i))
<1> DEFINE s == i % ChunkSize
           y == ChunkWithout(x, i)
           c == x.count - 1
           b == x.bits \ {s}
<1>1. s \in Chunk
  BY DEF Sizes, Chunk
<1>2. x.count \in Int /\ x.bits \subseteq Chunk /\ x.kids \in P!Maps(Nat)
  BY NodeIs
<1>3. y = [x EXCEPT !.count = c, !.bits = b, !.kids = x.kids]
  BY DEF ChunkWithout, BNode
<1> HIDE DEF s, y
<1>4. c \in Int /\ b \subseteq Chunk
  BY <1>1, <1>2
<1> HIDE DEF c, b
<1>5. IsAltered(y, x, c, b, x.kids)
  BY <1>2, <1>3, <1>4, AlteredIs
<1>6. ASSUME s \in x.bits
      PROVE  P!LeafUsed(AsNode(x), s, No) = c /\ P!LeafNode(AsNode(x), s, No) = AsNode(y)
  <2>1. P!One(P!Val(AsNode(x), s)) = 1
    BY <1>6, AsNodeIs, MarksAre DEF P!One
  <2>2. P!One(Yes) = 1 /\ P!One(No) = 0
    BY MarksAre DEF P!One
  <2>3. P!LeafUsed(AsNode(x), s, No) = c
    <3>1. AsNode(x).used = x.count
      BY AsNodeIs
    <3>2. P!LeafUsed(AsNode(x), s, No) = (x.count + 0) - 1
      BY <2>1, <2>2, <3>1, Zenon DEF P!LeafUsed
    <3>3. (x.count + 0) - 1 = c
      BY <1>2 DEF c
    <3> QED BY <3>2, <3>3, Zenon
  <2>4. P!LeafVals(AsNode(x), s, No) = Marked(b)
    <3>1. AsNode(x).vals = Marked(x.bits)
      BY DEF AsNode
    <3> QED BY <3>1, MarkedAre, MarksAre DEF P!LeafVals, b
  <2>5. AsNode(y) = P!Refilled(AsNode(x), c, Marked(b))
    BY <1>5, RefilledIs
  <2> QED BY <2>3, <2>4, <2>5 DEF P!LeafNode
<1> QED BY <1>5, <1>6 DEF c, b, s, y

\* The children with c in slot s, Nil to leave it empty.
Linked(x, s, c) == IF c = Nil THEN Without(x.kids, s) ELSE With(x.kids, s, c)

LEMMA LinkedIs ==
    ASSUME NEW x, x \in BNode, NEW s, s \in Nat, NEW c, c \in Nat
    PROVE  /\ Linked(x, s, c) \in P!Maps(Nat)
           /\ Linked(x, s, c) = P!InnerKids(AsNode(x), s, c)
           /\ IF c = Nil THEN P!IsWithout(Linked(x, s, c), x.kids, s)
                         ELSE P!IsWith(Linked(x, s, c), x.kids, s, c)
<1>1. AsNode(x) \in P!NodeSet(Marks) /\ AsNode(x).kids = x.kids
  BY NodeIs, AsNodeIs
<1> DEFINE g == P!InnerKids(AsNode(x), s, c)
<1>2. Linked(x, s, c) = g
  BY <1>1, WithIs, WithoutIs, NilIs DEF Linked, P!InnerKids
<1>3. /\ g \in P!Maps(Nat)
      /\ IF c = P!Nil THEN P!IsWithout(g, AsNode(x).kids, s)
                      ELSE P!IsWith(g, AsNode(x).kids, s, c)
  BY <1>1, P!InnerKidsIs
<1> HIDE DEF g
<1> QED BY <1>1, <1>2, <1>3, NilIs DEF g

LEMMA DirWithIs ==
    ASSUME NEW x, x \in BNode, NEW s, s \in Nat, NEW c, c \in Nat
    PROVE  /\ DirWith(x, s, c) \in BNode
           /\ c # Nil =>
                 /\ IsAltered(DirWith(x, s, c), x, x.count + 1, x.bits, Linked(x, s, c))
                 /\ AsNode(DirWith(x, s, c)) =
                       P!Relinked(AsNode(x), x.count + 1, P!InnerKids(AsNode(x), s, c))
<1> DEFINE y == DirWith(x, s, c)
           u == x.count + 1
           g == With(x.kids, s, c)
<1>1. x.count \in Int /\ x.bits \subseteq Chunk /\ g \in P!Maps(Nat)
  BY NodeIs, WithIs, P!WithIs
<1>2. y = [x EXCEPT !.count = u, !.bits = x.bits, !.kids = g]
  BY DEF DirWith, BNode
<1>3. u \in Int
  BY <1>1
<1> HIDE DEF y, u, g
<1>4. IsAltered(y, x, u, x.bits, g)
  BY <1>1, <1>2, <1>3, AlteredIs
<1>5. AsNode(y) = P!Relinked(AsNode(x), u, g)
  BY <1>4, RelinkedIs
<1>6. c # Nil => g = Linked(x, s, c) /\ Linked(x, s, c) = P!InnerKids(AsNode(x), s, c)
  BY LinkedIs DEF g, Linked
<1> QED BY <1>4, <1>5, <1>6 DEF y, u, IsAltered

LEMMA DirWithoutIs ==
    ASSUME NEW x, x \in BNode, NEW s, s \in Nat, NEW c, c \in Nat
    PROVE  /\ IsAltered(DirWithout(x, s, c), x, x.count - 1, x.bits, Linked(x, s, c))
           /\ AsNode(DirWithout(x, s, c)) =
                 P!Relinked(AsNode(x), x.count - 1, P!InnerKids(AsNode(x), s, c))
<1> DEFINE y == DirWithout(x, s, c)
           u == x.count - 1
           g == Linked(x, s, c)
<1>1. x.count \in Int /\ x.bits \subseteq Chunk /\ g \in P!Maps(Nat)
  BY NodeIs, LinkedIs
<1>2. y = [x EXCEPT !.count = u, !.bits = x.bits, !.kids = g]
  BY DEF DirWithout, Linked, BNode
<1>3. u \in Int
  BY <1>1
<1> HIDE DEF y, u, g
<1>4. IsAltered(y, x, u, x.bits, g)
  BY <1>1, <1>2, <1>3, AlteredIs
<1>5. AsNode(y) = P!Relinked(AsNode(x), u, g)
  BY <1>4, RelinkedIs
<1>6. g = P!InnerKids(AsNode(x), s, c)
  BY LinkedIs DEF g
<1> QED BY <1>4, <1>5, <1>6 DEF y, u, g

----------------------------------------------------------------------------
(* Heaps there can be: children are in slots, exist, and are one level lower. *)

Graded(m) ==
    \A x \in DOMAIN m : \A s \in DOMAIN m[x].kids :
        s < Fan /\ m[m[x].kids[s]].height + 1 = m[x].height
Good(m)   == m \in Heaps /\ P!Closed(m) /\ Graded(m)

SameHeights(m, o) ==
    DOMAIN m \subseteq DOMAIN o /\ \A x \in DOMAIN m : o[x].height = m[x].height

\* The result r is a node of height k that counts c ids.
IsTree(r, k, c) ==
    /\ r.node # Nil /\ r.node \in DOMAIN r.heap
    /\ r.heap[r.node].height = k
    /\ r.heap[r.node].count = c

\* The children of node are in slots, exist, and are one level lower.
Fits(m, node) ==
    \A s \in DOMAIN node.kids :
        /\ s < Fan
        /\ node.kids[s] \in DOMAIN m
        /\ m[node.kids[s]].height + 1 = node.height

LEMMA OwnGood ==
    ASSUME NEW m, Good(m), NEW e, e \in Nat, NEW n, n \in DOMAIN m \cup {Nil},
           NEW node, node \in BNode, n # Nil => node.height = m[n].height, Fits(m, node)
    PROVE  /\ Good(Own(m, e, n, node).heap)
           /\ SameHeights(m, Own(m, e, n, node).heap)
           /\ IsTree(Own(m, e, n, node), node.height, node.count)
<1> DEFINE r == Own(m, e, n, node)
           o == r.heap
           at == r.node
           new == P!Stamped(node, e)
<1>1. m \in Heaps /\ P!Closed(m) /\ Graded(m) /\ n \in Nat /\ Nil \notin DOMAIN m
  BY HeapIs, NilIs DEF Good
<1>2. o \in Heaps /\ P!OwnOk(m, e, n, node, r)
  BY <1>1, OwnIs
<1>3. new.height = node.height /\ new.count = node.count /\ new.kids = node.kids
  BY StampedIs
<1> HIDE DEF r, new
<1>4. /\ at # Nil
      /\ DOMAIN o = DOMAIN m \cup {at}
      /\ o[at] = new
      /\ \A x \in DOMAIN m : x # at => o[x] = m[x]
      /\ at \in DOMAIN m => at = n
  BY <1>2, NilIs DEF P!OwnOk, new
<1> HIDE DEF o, at
<1>5. SameHeights(m, o)
  <2>1. ASSUME NEW x \in DOMAIN m PROVE o[x].height = m[x].height
    BY <1>1, <1>3, <1>4
  <2> QED BY <1>4, <2>1 DEF SameHeights
<1>6. ASSUME NEW x \in DOMAIN o, NEW s \in DOMAIN o[x].kids
      PROVE  /\ s < Fan
             /\ o[x].kids[s] \in DOMAIN o
             /\ o[o[x].kids[s]].height + 1 = o[x].height
  <2>1. CASE x = at
    <3>1. /\ s < Fan
          /\ node.kids[s] \in DOMAIN m /\ m[node.kids[s]].height + 1 = node.height
      BY <1>3, <1>4, <2>1 DEF Fits
    <3> QED BY <1>3, <1>4, <1>5, <2>1, <3>1 DEF SameHeights
  <2>2. CASE x # at
    <3>1. x \in DOMAIN m /\ o[x] = m[x]
      BY <1>4, <2>2
    <3>2. /\ s < Fan
          /\ m[x].kids[s] \in DOMAIN m /\ m[m[x].kids[s]].height + 1 = m[x].height
      BY <1>1, <3>1 DEF P!Closed, Graded
    <3> QED BY <1>4, <1>5, <3>1, <3>2 DEF SameHeights
  <2> QED BY <2>1, <2>2
<1>7. Good(o)
  BY <1>2, <1>6 DEF Good, P!Closed, Graded, o
<1>8. IsTree(r, node.height, node.count)
  BY <1>3, <1>4 DEF IsTree, o, at
<1> QED BY <1>5, <1>7, <1>8 DEF o, r

----------------------------------------------------------------------------
(* Put and Take, one level at a time.                                      *)

Results == {r \in [heap : Heaps, node : Nat] : r.node \in DOMAIN r.heap \cup {Nil}}

LEMMA ResultIs ==
    ASSUME NEW h, h \in Heaps, NEW n, n \in DOMAIN h \cup {Nil}
    PROVE  [heap |-> h, node |-> n] \in Results
<1>1. n \in Nat
  BY HeapIs, NilIs
<1> QED BY <1>1 DEF Results

LEMMA OwnResult ==
    ASSUME NEW m, m \in Heaps, NEW e, e \in Nat, NEW n, n \in Nat, NEW node, node \in BNode
    PROVE  Own(m, e, n, node) \in Results
<1> DEFINE r == Own(m, e, n, node)
           h == r.heap
           x == r.node
<1>1. r = [heap |-> h, node |-> x]
  BY DEF Own
<1>2. h \in Heaps /\ P!OwnOk(m, e, n, node, r)
  BY OwnIs
<1>3. x \in DOMAIN h
  BY <1>2 DEF P!OwnOk
<1> HIDE DEF h, x, r
<1>4. [heap |-> h, node |-> x] \in Results
  BY <1>2, <1>3, ResultIs
<1> QED BY <1>1, <1>4 DEF r

\* Put and Take are Own of a node, or nothing is left.
LEMMA StepsAre ==
    ASSUME NEW m, NEW e, NEW n, NEW i, NEW k, NEW s, NEW b
    PROVE  /\ PutChunk(m, e, n, i) = Own(m, e, n, ChunkWith(NodeAt(m, n, 0), i))
           /\ PutDir(m, e, n, k, s, b) = Own(b.heap, e, n, DirWith(NodeAt(m, n, k), s, b.node))
           /\ TakeChunk(m, e, n, i) =
                IF NodeAt(m, n, 0).count = 1 THEN [heap |-> m, node |-> Nil]
                ELSE Own(m, e, n, ChunkWithout(NodeAt(m, n, 0), i))
           /\ TakeDir(m, e, n, k, s, b) =
                IF NodeAt(m, n, k).count = 1 THEN [heap |-> m, node |-> Nil]
                ELSE Own(b.heap, e, n, DirWithout(NodeAt(m, n, k), s, b.node))
BY DEF PutChunk, PutDir, TakeChunk, TakeDir, ChunkWith, DirWith, ChunkWithout, DirWithout

LEMMA StepResults ==
    ASSUME Sizes, NEW m, m \in Heaps, NEW e, e \in Nat, NEW n, n \in DOMAIN m \cup {Nil},
           NEW i, i \in Nat, NEW k, k \in Nat, NEW s, s \in Nat, NEW b, b \in Results
    PROVE  /\ PutChunk(m, e, n, i) \in Results
           /\ PutDir(m, e, n, k, s, b) \in Results
           /\ TakeChunk(m, e, n, i) \in Results
           /\ TakeDir(m, e, n, k, s, b) \in Results
<1> DEFINE h == b.heap
           y == b.node
           old == NodeAt(m, n, k)
           chunk == NodeAt(m, n, 0)
<1>1. h \in Heaps /\ y \in Nat
  BY DEF Results
<1>2. n \in Nat /\ old \in BNode /\ chunk \in BNode
  BY NodeAtIs
<1>3. [heap |-> m, node |-> Nil] \in Results
  BY ResultIs
<1> HIDE DEF h, y, old, chunk
<1>4. /\ ChunkWith(chunk, i) \in BNode /\ ChunkWithout(chunk, i) \in BNode
      /\ DirWith(old, s, y) \in BNode /\ DirWithout(old, s, y) \in BNode
  BY <1>1, <1>2, ChunkWithIs, ChunkWithoutIs, DirWithIs, DirWithoutIs DEF IsAltered
<1>5. /\ Own(m, e, n, ChunkWith(chunk, i)) \in Results
      /\ Own(m, e, n, ChunkWithout(chunk, i)) \in Results
      /\ Own(h, e, n, DirWith(old, s, y)) \in Results
      /\ Own(h, e, n, DirWithout(old, s, y)) \in Results
  BY <1>1, <1>2, <1>4, OwnResult
<1> QED BY <1>3, <1>5, StepsAre DEF h, y, old, chunk

LEMMA PutUnfold ==
    ASSUME Sizes, NEW m, m \in Heaps, P!Closed(m), NEW e, e \in Nat, NEW i, i \in Nat
    PROVE  /\ \A k \in Nat : \A x \in DOMAIN m \cup {Nil} : Put(m, e, x, k, i) \in Results
           /\ \A x \in DOMAIN m \cup {Nil} : Put(m, e, x, 0, i) = PutChunk(m, e, x, i)
           /\ \A k \in Nat : \A x \in DOMAIN m \cup {Nil} :
                 Put(m, e, x, k + 1, i) =
                    PutDir(m, e, x, k + 1, Slot(i, k + 1),
                           Put(m, e, Kid(NodeAt(m, x, k + 1), Slot(i, k + 1)), k, i))
<1> DEFINE D == DOMAIN m \cup {Nil}
           Z == [x \in D |-> PutChunk(m, e, x, i)]
           N(k, g) == [x \in D |-> PutDir(m, e, x, k, Slot(i, k),
                                           g[Kid(NodeAt(m, x, k), Slot(i, k))])]
           E(f) == [k \in Nat |->
                      [x \in D |->
                         IF k = 0 THEN PutChunk(m, e, x, i)
                         ELSE PutDir(m, e, x, k, Slot(i, k),
                                     f[k - 1][Kid(NodeAt(m, x, k), Slot(i, k))])]]
           steps == CHOOSE f : f = E(f)
           T == [D -> Results]
           G == [p \in Nat \X T |-> N(p[1] + 1, p[2])]
<1>1. \A k \in Nat : \A x \in D : \A s : Kid(NodeAt(m, x, k), s) \in D
  BY KidIs
<1>2. \A k \in Nat : k # 0 => Slot(i, k) \in Nat
  <2>1. \A k \in Nat : P!SlotAt(k, i) \in Nat
    BY SizesAre, P!SlotIs
  <2> QED BY <2>1, SpanIs
<1>10. \A x \in D : PutChunk(m, e, x, i) \in Results
  <2>1. [heap |-> m, node |-> Nil] \in Results
    BY ResultIs
  <2> QED BY <2>1, StepResults
<1>3. \E f : f \in [Nat -> T] /\ f = E(f)
  <2>1. Z \in T
    BY <1>10
  <2>2. ASSUME NEW k \in Nat, NEW g \in T PROVE N(k + 1, g) \in T
    <3>1. ASSUME NEW x \in D
          PROVE  PutDir(m, e, x, k + 1, Slot(i, k + 1),
                        g[Kid(NodeAt(m, x, k + 1), Slot(i, k + 1))]) \in Results
      <4> DEFINE K == k + 1
                 s == Slot(i, K)
                 b == g[Kid(NodeAt(m, x, K), s)]
      <4>1. K \in Nat /\ K # 0
        OBVIOUS
      <4> HIDE DEF K
      <4>2. s \in Nat
        BY <1>2, <4>1
      <4>3. b \in Results
        BY <1>1, <4>1
      <4> HIDE DEF s, b
      <4>4. PutDir(m, e, x, K, s, b) \in Results
        BY <4>1, <4>2, <4>3, StepResults
      <4> QED BY <4>4 DEF K, s, b
    <3> QED BY <3>1
  <2>3. G \in [Nat \X T -> T]
    BY <2>2
  <2>4. \A k \in Nat, g \in T : G[<<k, g>>] = N(k + 1, g)
    OBVIOUS
  <2> HIDE DEF T, G, Z, N
  <2>5. PICK f : P!Follows(f, T, Z, G)
    BY <2>1, <2>3, P!RecursionExists DEF P!Recursive
  <2>6. f \in [Nat -> T] /\ f[0] = Z /\ \A k \in Nat : f[k + 1] = N(k + 1, f[k])
    BY <2>4, <2>5 DEF P!Follows
  <2>7. ASSUME NEW k \in Nat PROVE f[k] = E(f)[k]
    <3>1. CASE k = 0
      BY <2>6, <3>1 DEF Z
    <3>2. CASE k # 0
      <4>1. k - 1 \in Nat /\ (k - 1) + 1 = k
        BY <3>2
      <4>2. f[k] = N(k, f[k - 1])
        BY <2>6, <4>1
      <4> QED BY <3>2, <4>2 DEF N
    <3> QED BY <3>1, <3>2
  <2>8. f = E(f)
    BY <2>6, <2>7
  <2> QED BY <2>6, <2>8
<1>4. steps = E(steps)
  BY <1>3
<1>5. \A x, k : Put(m, e, x, k, i) = steps[k][x]
  BY DEF Put
<1> HIDE DEF steps, T
<1>6. \A x \in D : steps[0][x] = PutChunk(m, e, x, i)
  BY <1>4
<1>7. ASSUME NEW k \in Nat, NEW x \in D
      PROVE  steps[k + 1][x] = PutDir(m, e, x, k + 1, Slot(i, k + 1),
                                      steps[k][Kid(NodeAt(m, x, k + 1), Slot(i, k + 1))])
  <2>1. k + 1 \in Nat /\ k + 1 # 0 /\ (k + 1) - 1 = k
    OBVIOUS
  <2>2. E(steps)[k + 1] = N(k + 1, steps[k])
    BY <2>1
  <2>3. N(k + 1, steps[k])[x] = PutDir(m, e, x, k + 1, Slot(i, k + 1),
                                       steps[k][Kid(NodeAt(m, x, k + 1), Slot(i, k + 1))])
    OBVIOUS
  <2> HIDE DEF E, N
  <2> QED BY <1>4, <2>2, <2>3
<1> HIDE DEF E, Z, N, G
<1>8. \A k \in Nat : \A x \in D : steps[k][x] \in Results
  <2> DEFINE S == {k \in Nat : \A x \in D : steps[k][x] \in Results}
  <2>1. 0 \in S
    BY <1>6, <1>10
  <2>2. ASSUME NEW k \in S PROVE k + 1 \in S
    <3> DEFINE K == k + 1
    <3>1. k \in Nat /\ K \in Nat /\ K # 0
      OBVIOUS
    <3>2. ASSUME NEW x \in D PROVE steps[K][x] \in Results
      <4> DEFINE s == Slot(i, K)
                 b == steps[k][Kid(NodeAt(m, x, K), s)]
      <4>1. steps[K][x] = PutDir(m, e, x, K, s, b)
        BY <1>7, <3>1
      <4> HIDE DEF K
      <4>2. s \in Nat
        BY <1>2, <3>1
      <4>3. b \in Results
        BY <1>1, <3>1
      <4> HIDE DEF s, b
      <4> QED BY <3>1, <4>1, <4>2, <4>3, StepResults
    <3> QED BY <3>1, <3>2
  <2> HIDE DEF S
  <2>3. S \in SUBSET Nat
    BY DEF S
  <2>4. \A k \in Nat : k \in S
    BY <2>1, <2>2, <2>3, P!SetInduction
  <2> QED BY <2>4 DEF S
<1>9. \A k \in Nat : \A x \in D : Kid(NodeAt(m, x, k + 1), Slot(i, k + 1)) \in D
  <2>1. \A k \in Nat : k + 1 \in Nat
    OBVIOUS
  <2> QED BY <1>1, <2>1
<1> QED BY <1>5, <1>6, <1>7, <1>8, <1>9

LEMMA TakeUnfold ==
    ASSUME Sizes, NEW m, m \in Heaps, P!Closed(m), NEW e, e \in Nat, NEW i, i \in Nat
    PROVE  /\ \A k \in Nat : \A x \in DOMAIN m \cup {Nil} : Take(m, e, x, k, i) \in Results
           /\ \A x \in DOMAIN m \cup {Nil} : Take(m, e, x, 0, i) = TakeChunk(m, e, x, i)
           /\ \A k \in Nat : \A x \in DOMAIN m \cup {Nil} :
                 Take(m, e, x, k + 1, i) =
                    TakeDir(m, e, x, k + 1, Slot(i, k + 1),
                           Take(m, e, Kid(NodeAt(m, x, k + 1), Slot(i, k + 1)), k, i))
<1> DEFINE D == DOMAIN m \cup {Nil}
           Z == [x \in D |-> TakeChunk(m, e, x, i)]
           N(k, g) == [x \in D |-> TakeDir(m, e, x, k, Slot(i, k),
                                           g[Kid(NodeAt(m, x, k), Slot(i, k))])]
           E(f) == [k \in Nat |->
                      [x \in D |->
                         IF k = 0 THEN TakeChunk(m, e, x, i)
                         ELSE TakeDir(m, e, x, k, Slot(i, k),
                                     f[k - 1][Kid(NodeAt(m, x, k), Slot(i, k))])]]
           steps == CHOOSE f : f = E(f)
           T == [D -> Results]
           G == [p \in Nat \X T |-> N(p[1] + 1, p[2])]
<1>1. \A k \in Nat : \A x \in D : \A s : Kid(NodeAt(m, x, k), s) \in D
  BY KidIs
<1>2. \A k \in Nat : k # 0 => Slot(i, k) \in Nat
  <2>1. \A k \in Nat : P!SlotAt(k, i) \in Nat
    BY SizesAre, P!SlotIs
  <2> QED BY <2>1, SpanIs
<1>10. \A x \in D : TakeChunk(m, e, x, i) \in Results
  <2>1. [heap |-> m, node |-> Nil] \in Results
    BY ResultIs
  <2> QED BY <2>1, StepResults
<1>3. \E f : f \in [Nat -> T] /\ f = E(f)
  <2>1. Z \in T
    BY <1>10
  <2>2. ASSUME NEW k \in Nat, NEW g \in T PROVE N(k + 1, g) \in T
    <3>1. ASSUME NEW x \in D
          PROVE  TakeDir(m, e, x, k + 1, Slot(i, k + 1),
                        g[Kid(NodeAt(m, x, k + 1), Slot(i, k + 1))]) \in Results
      <4> DEFINE K == k + 1
                 s == Slot(i, K)
                 b == g[Kid(NodeAt(m, x, K), s)]
      <4>1. K \in Nat /\ K # 0
        OBVIOUS
      <4> HIDE DEF K
      <4>2. s \in Nat
        BY <1>2, <4>1
      <4>3. b \in Results
        BY <1>1, <4>1
      <4> HIDE DEF s, b
      <4>4. TakeDir(m, e, x, K, s, b) \in Results
        BY <4>1, <4>2, <4>3, StepResults
      <4> QED BY <4>4 DEF K, s, b
    <3> QED BY <3>1
  <2>3. G \in [Nat \X T -> T]
    BY <2>2
  <2>4. \A k \in Nat, g \in T : G[<<k, g>>] = N(k + 1, g)
    OBVIOUS
  <2> HIDE DEF T, G, Z, N
  <2>5. PICK f : P!Follows(f, T, Z, G)
    BY <2>1, <2>3, P!RecursionExists DEF P!Recursive
  <2>6. f \in [Nat -> T] /\ f[0] = Z /\ \A k \in Nat : f[k + 1] = N(k + 1, f[k])
    BY <2>4, <2>5 DEF P!Follows
  <2>7. ASSUME NEW k \in Nat PROVE f[k] = E(f)[k]
    <3>1. CASE k = 0
      BY <2>6, <3>1 DEF Z
    <3>2. CASE k # 0
      <4>1. k - 1 \in Nat /\ (k - 1) + 1 = k
        BY <3>2
      <4>2. f[k] = N(k, f[k - 1])
        BY <2>6, <4>1
      <4> QED BY <3>2, <4>2 DEF N
    <3> QED BY <3>1, <3>2
  <2>8. f = E(f)
    BY <2>6, <2>7
  <2> QED BY <2>6, <2>8
<1>4. steps = E(steps)
  BY <1>3
<1>5. \A x, k : Take(m, e, x, k, i) = steps[k][x]
  BY DEF Take
<1> HIDE DEF steps, T
<1>6. \A x \in D : steps[0][x] = TakeChunk(m, e, x, i)
  BY <1>4
<1>7. ASSUME NEW k \in Nat, NEW x \in D
      PROVE  steps[k + 1][x] = TakeDir(m, e, x, k + 1, Slot(i, k + 1),
                                      steps[k][Kid(NodeAt(m, x, k + 1), Slot(i, k + 1))])
  <2>1. k + 1 \in Nat /\ k + 1 # 0 /\ (k + 1) - 1 = k
    OBVIOUS
  <2>2. E(steps)[k + 1] = N(k + 1, steps[k])
    BY <2>1
  <2>3. N(k + 1, steps[k])[x] = TakeDir(m, e, x, k + 1, Slot(i, k + 1),
                                       steps[k][Kid(NodeAt(m, x, k + 1), Slot(i, k + 1))])
    OBVIOUS
  <2> HIDE DEF E, N
  <2> QED BY <1>4, <2>2, <2>3
<1> HIDE DEF E, Z, N, G
<1>8. \A k \in Nat : \A x \in D : steps[k][x] \in Results
  <2> DEFINE S == {k \in Nat : \A x \in D : steps[k][x] \in Results}
  <2>1. 0 \in S
    BY <1>6, <1>10
  <2>2. ASSUME NEW k \in S PROVE k + 1 \in S
    <3> DEFINE K == k + 1
    <3>1. k \in Nat /\ K \in Nat /\ K # 0
      OBVIOUS
    <3>2. ASSUME NEW x \in D PROVE steps[K][x] \in Results
      <4> DEFINE s == Slot(i, K)
                 b == steps[k][Kid(NodeAt(m, x, K), s)]
      <4>1. steps[K][x] = TakeDir(m, e, x, K, s, b)
        BY <1>7, <3>1
      <4> HIDE DEF K
      <4>2. s \in Nat
        BY <1>2, <3>1
      <4>3. b \in Results
        BY <1>1, <3>1
      <4> HIDE DEF s, b
      <4> QED BY <3>1, <4>1, <4>2, <4>3, StepResults
    <3> QED BY <3>1, <3>2
  <2> HIDE DEF S
  <2>3. S \in SUBSET Nat
    BY DEF S
  <2>4. \A k \in Nat : k \in S
    BY <2>1, <2>2, <2>3, P!SetInduction
  <2> QED BY <2>4 DEF S
<1>9. \A k \in Nat : \A x \in D : Kid(NodeAt(m, x, k + 1), Slot(i, k + 1)) \in D
  <2>1. \A k \in Nat : k + 1 \in Nat
    OBVIOUS
  <2> QED BY <1>1, <2>1
<1> QED BY <1>5, <1>6, <1>7, <1>8, <1>9

----------------------------------------------------------------------------
(* Trees: nodes that count what is below them.                             *)

\* n is a tree of height k of nodes that count the ids below them, none of them
\* empty, or Nil.
Tree(m, n, k) == n = Nil \/ (n \in P!Whole(AsHeap(m), k) /\ m[n].height = k)

LEMMA GoodIs ==
    ASSUME NEW m, Good(m)
    PROVE  /\ m \in Heaps /\ P!Closed(m) /\ Nil \notin DOMAIN m
           /\ AsHeap(m) \in P!Heap(Marks) /\ P!Closed(AsHeap(m))
           /\ DOMAIN AsHeap(m) = DOMAIN m /\ No \in Marks
BY HeapIs, ClosedIs, MarksAre DEF Good

LEMMA TreeIs ==
    ASSUME Sizes, NEW m, Good(m), NEW k, k \in Nat, NEW n, Tree(m, n, k)
    PROVE  /\ n \in DOMAIN m \cup {Nil} /\ n \in Nat
           /\ n = P!Nil \/ n \in P!Whole(AsHeap(m), k)
           /\ n # Nil => m[n].height = k
           /\ NodeAt(m, n, k) \in BNode
           /\ NodeAt(m, n, k).height = k
           /\ NodeAt(m, n, k).count \in Nat
           /\ NodeAt(m, n, k).count = P!Cardinality(P!Filled(AsHeap(m), n, k))
           /\ P!NodeAt(AsHeap(m), n) = AsNode(NodeAt(m, n, k))
           /\ Fits(m, NodeAt(m, n, k))
<1> DEFINE A == AsHeap(m)
           old == NodeAt(m, n, k)
<1>1. /\ m \in Heaps /\ P!Closed(m) /\ Graded(m) /\ Nil \notin DOMAIN m
      /\ A \in P!Heap(Marks) /\ P!Closed(A) /\ DOMAIN A = DOMAIN m /\ No \in Marks
  BY GoodIs DEF Good
<1>2. n = P!Nil \/ n \in P!Whole(A, k)
  BY NilIs DEF Tree
<1>3. n \in DOMAIN A \cup {P!Nil} /\ P!NodeAt(A, n).used = P!Cardinality(P!Filled(A, n, k))
  BY <1>1, <1>2, SizesAre, P!UsedIs
<1>4. n \in DOMAIN m \cup {Nil}
  BY <1>1, <1>3, NilIs
<1>5. n \in Nat /\ old \in BNode /\ P!NodeAt(A, n) = AsNode(old)
  BY <1>1, <1>4, NodeAtIs
<1>6. n # Nil => m[n].height = k
  BY DEF Tree
<1>7. old.height = k
  BY <1>6, BlankIs DEF NodeAt
<1>8. AsNode(old).used = old.count
  BY AsNodeIs
<1>9. P!Cardinality(P!Filled(A, n, k)) \in Nat
  <2>1. P!Tallied(A, n, k, 0, Yes)
    BY <1>1, <1>3, SizesAre, P!CountIs
  <2> QED BY <2>1 DEF P!Tallied
<1>10. Fits(m, old)
  <2>1. CASE n = Nil
    BY <2>1, BlankIs DEF NodeAt, Fits
  <2>2. CASE n # Nil
    <3>1. n \in DOMAIN m /\ old = m[n]
      BY <1>4, <2>2 DEF NodeAt
    <3> QED BY <1>1, <3>1 DEF Fits, Graded, P!Closed
  <2> QED BY <2>1, <2>2
<1> HIDE DEF A, old
<1>11. old.count = P!Cardinality(P!Filled(A, n, k)) /\ old.count \in Nat
  BY <1>3, <1>5, <1>8, <1>9
<1> QED BY <1>2, <1>4, <1>5, <1>6, <1>7, <1>10, <1>11 DEF A, old

\* What is counted once i is set, or cleared.
LEMMA TreeCounts ==
    ASSUME Sizes, NEW m, Good(m), NEW k, k \in Nat, NEW n, Tree(m, n, k), NEW i, i \in Nat
    PROVE  /\ ~ HasBelow(m, n, k, i) =>
                 P!Cardinality(P!Wanted(AsHeap(m), n, k, i, Yes)) = NodeAt(m, n, k).count + 1
           /\ HasBelow(m, n, k, i) =>
                 P!Cardinality(P!Wanted(AsHeap(m), n, k, i, No)) = NodeAt(m, n, k).count - 1
<1> DEFINE A == AsHeap(m)
           c == NodeAt(m, n, k).count
           F == P!Filled(A, n, k)
           g == P!GetBelow(A, n, k, i)
           with == P!Cardinality(P!Wanted(A, n, k, i, Yes))
           without == P!Cardinality(P!Wanted(A, n, k, i, No))
<1>1. /\ A \in P!Heap(Marks) /\ P!Closed(A) /\ DOMAIN A = DOMAIN m
      /\ m \in Heaps /\ P!Closed(m) /\ No \in Marks
  BY GoodIs
<1>2. n \in DOMAIN m \cup {Nil} /\ c \in Nat /\ c = P!Cardinality(F)
  BY TreeIs
<1>3. P!Tallied(A, n, k, i, Yes) /\ P!Tallied(A, n, k, i, No)
  <2>1. n \in DOMAIN A \cup {P!Nil}
    BY <1>1, <1>2, NilIs
  <2> QED BY <1>1, <2>1, SizesAre, P!CountIs
<1>4. g = IF HasBelow(m, n, k, i) THEN Yes ELSE No
  BY <1>1, <1>2, HasIs
<1>5. /\ with = (P!Cardinality(F) + P!One(Yes)) - P!One(g)
      /\ without = (P!Cardinality(F) + P!One(No)) - P!One(g)
  BY <1>3 DEF P!Tallied
<1>6. P!One(Yes) = 1 /\ P!One(No) = 0
  BY MarksAre DEF P!One
<1> HIDE DEF A, c, F, g, with, without
<1>7. ASSUME ~ HasBelow(m, n, k, i) PROVE with = c + 1
  <2>1. P!One(g) = 0
    BY <1>4, <1>7, MarksAre DEF P!One
  <2>2. with = (c + 1) - 0
    BY <1>2, <1>5, <1>6, <2>1, Zenon
  <2> QED BY <1>2, <2>2
<1>8. ASSUME HasBelow(m, n, k, i) PROVE without = c - 1
  <2>1. P!One(g) = 1
    BY <1>4, <1>8, MarksAre DEF P!One
  <2>2. without = (c + 0) - 1
    BY <1>2, <1>5, <1>6, <2>1, Zenon
  <2> QED BY <1>2, <2>2
<1> QED BY <1>7, <1>8 DEF with, without, A, c

\* The children of a tree, and what is below the one in the slot of i.
LEMMA TreeKid ==
    ASSUME Sizes, NEW m, Good(m), NEW k, k \in Nat, NEW K, P!Over(K, k), NEW n, Tree(m, n, K)
    PROVE  /\ \A s : Tree(m, Kid(NodeAt(m, n, K), s), k)
           /\ \A s : P!Kid(P!NodeAt(AsHeap(m), n), s) = Kid(NodeAt(m, n, K), s)
           /\ \A i \in Nat :
                 /\ P!SlotAt(K, i) = Slot(i, K)
                 /\ Slot(i, K) \in Nat /\ Slot(i, K) < Fan
                 /\ HasBelow(m, n, K, i) <=> HasBelow(m, Kid(NodeAt(m, n, K), Slot(i, K)), k, i)
<1> DEFINE A == AsHeap(m)
           old == NodeAt(m, n, K)
<1>1. /\ m \in Heaps /\ P!Closed(m) /\ Nil \notin DOMAIN m
      /\ A \in P!Heap(Marks) /\ P!Closed(A) /\ DOMAIN A = DOMAIN m /\ No \in Marks
  BY GoodIs
<1>2. K \in Nat /\ K # 0 /\ K = k + 1
  BY DEF P!Over
<1>3. /\ n \in DOMAIN m \cup {Nil} /\ old \in BNode /\ old.height = K /\ Fits(m, old)
      /\ P!NodeAt(A, n) = AsNode(old)
      /\ n = P!Nil \/ n \in P!Whole(A, K)
  BY <1>2, TreeIs
<1>4. \A s : P!Kid(P!NodeAt(A, n), s) = Kid(old, s)
  BY <1>3, AsNodeIs
<1>5. P!Parts(A, n, k)
  BY <1>1, <1>2, <1>3, SizesAre, P!PartsIs
<1> HIDE DEF A, old
<1>6. ASSUME NEW s PROVE Tree(m, Kid(old, s), k)
  <2>1. Kid(old, s) = Nil \/ Kid(old, s) \in P!Whole(A, k)
    BY <1>4, <1>5, NilIs DEF P!Parts
  <2>2. Kid(old, s) # Nil => m[Kid(old, s)].height = k
    <3>1. ASSUME Kid(old, s) # Nil PROVE m[Kid(old, s)].height = k
      <4>1. s \in DOMAIN old.kids /\ Kid(old, s) = old.kids[s]
        BY <3>1 DEF Kid
      <4>2. old.kids[s] \in DOMAIN m /\ m[old.kids[s]].height + 1 = k + 1
        BY <1>2, <1>3, <4>1 DEF Fits
      <4>3. m[old.kids[s]].height \in Nat
        BY <1>1, <4>2, HeapIs, NodeIs
      <4> QED BY <4>1, <4>2, <4>3
    <3> QED BY <3>1
  <2> QED BY <2>1, <2>2 DEF Tree, A
<1>7. ASSUME NEW i \in Nat
      PROVE  /\ P!SlotAt(K, i) = Slot(i, K)
             /\ Slot(i, K) \in Nat /\ Slot(i, K) < Fan
             /\ HasBelow(m, n, K, i) <=> HasBelow(m, Kid(old, Slot(i, K)), k, i)
  <2> DEFINE s == Slot(i, K)
             c == Kid(old, s)
  <2>1. P!SlotAt(K, i) = s
    BY <1>2, SpanIs
  <2>2. s \in Nat /\ s < Fan
    <3>1. P!SlotAt(k + 1, i) = (i \div P!Span(k)) % Fan /\ P!Span(k) \in Nat \ {0}
      BY SizesAre, P!SlotIs, P!SpanIs
    <3>2. i \div P!Span(k) \in Nat
      BY <3>1, P!DivMod
    <3>3. (i \div P!Span(k)) % Fan \in 0..(Fan - 1) /\ Fan \in Nat
      BY <3>2, P!DivMod DEF Sizes
    <3> QED BY <1>2, <2>1, <3>1, <3>3
  <2>3. c \in DOMAIN m \cup {Nil}
    BY <1>1, <1>2, <1>3, KidIs DEF old
  <2>4. n \in DOMAIN A \cup {P!Nil}
    BY <1>1, <1>3, NilIs
  <2>5. P!GetBelow(A, n, k + 1, i) = P!GetBelow(A, P!Kid(P!NodeAt(A, n), P!SlotAt(k + 1, i)), k, i)
    BY <1>1, <2>4, SizesAre, P!GetNext
  <2>6. P!Kid(P!NodeAt(A, n), P!SlotAt(k + 1, i)) = c
    BY <1>2, <1>4, <2>1
  <2>7. P!GetBelow(A, n, K, i) = IF HasBelow(m, n, K, i) THEN Yes ELSE No
    BY <1>1, <1>2, <1>3, HasIs DEF A
  <2>8. P!GetBelow(A, c, k, i) = IF HasBelow(m, c, k, i) THEN Yes ELSE No
    BY <1>1, <2>3, HasIs DEF A
  <2> HIDE DEF s, c
  <2>9. HasBelow(m, n, K, i) <=> HasBelow(m, c, k, i)
    BY <1>2, <2>5, <2>6, <2>7, <2>8, MarksAre
  <2> QED BY <2>1, <2>2, <2>9, Zenon DEF s, c
<1> QED BY <1>4, <1>6, <1>7 DEF A, old

----------------------------------------------------------------------------
(* Put and Take do to a heap what PVec's Put does to the heap it stands for. *)

LEMMA PuttingIs ==
    ASSUME Sizes, NEW m, Good(m), NEW e, e \in Nat, NEW i, i \in Nat
    PROVE  P!Putting(Marks, AsHeap(m), e, i, Yes) /\ P!Putting(Marks, AsHeap(m), e, i, No)
<1>1. P!Sizes /\ Yes \in Marks /\ No \in Marks
  BY SizesAre, MarksAre
<1> QED BY <1>1, GoodIs DEF P!Putting

\* A node with one child changed fits where it did, if the child does.
\* In the heap h, y is to be the child in slot s of old, a node of height K of m.
Relinks(m, h, k, K, old, s, y) ==
    /\ Good(m) /\ SameHeights(m, h) /\ P!Over(K, k)
    /\ old \in BNode /\ old.height = K /\ Fits(m, old)
    /\ s \in Nat /\ s < Fan /\ y \in Nat
    /\ y # Nil => y \in DOMAIN h /\ h[y].height = k

\* node is one of height K that counts u and fits in h.
FitsAs(h, node, K, u) ==
    node \in BNode /\ Fits(h, node) /\ node.height = K /\ node.count = u

LEMMA LinkedFits ==
    ASSUME NEW m, NEW h, NEW k, NEW K, NEW old, NEW s, NEW y, Relinks(m, h, k, K, old, s, y),
           NEW node, NEW u, IsAltered(node, old, u, old.bits, Linked(old, s, y))
    PROVE  FitsAs(h, node, K, u)
<1> DEFINE g == Linked(old, s, y)
<1>5. /\ SameHeights(m, h) /\ P!Over(K, k)
      /\ old \in BNode /\ old.height = K /\ Fits(m, old)
      /\ s \in Nat /\ s < Fan /\ y \in Nat
      /\ y # Nil => y \in DOMAIN h /\ h[y].height = k
  BY DEF Relinks
<1>1. node \in BNode /\ node.height = K /\ node.count = u /\ node.kids = g
  BY <1>5 DEF IsAltered
<1>4. K = k + 1
  BY <1>5 DEF P!Over
<1>2. IF y = Nil THEN P!IsWithout(g, old.kids, s) ELSE P!IsWith(g, old.kids, s, y)
  BY <1>5, LinkedIs
<1> HIDE DEF g
<1>3. ASSUME NEW t \in DOMAIN g PROVE t < Fan /\ g[t] \in DOMAIN h /\ h[g[t]].height + 1 = K
  <2>1. CASE y # Nil /\ t = s
    <3>1. g[t] = y
      BY <1>2, <2>1 DEF P!IsWith
    <3> QED BY <1>4, <1>5, <2>1, <3>1
  <2>2. CASE ~ (y # Nil /\ t = s)
    <3>1. t \in DOMAIN old.kids /\ g[t] = old.kids[t]
      BY <1>2, <2>2 DEF P!IsWith, P!IsWithout
    <3>2. t < Fan /\ g[t] \in DOMAIN m /\ m[g[t]].height + 1 = K
      BY <1>5, <3>1 DEF Fits
    <3> QED BY <1>5, <3>1, <3>2 DEF SameHeights
  <2> QED BY <2>1, <2>2
<1> QED BY <1>1, <1>3 DEF Fits, FitsAs

\* What Put is to return: what PVec's Put returns, and one id more.
PutsAs(m, e, n, k, i, r) ==
    /\ Stands(r, P!Put(AsHeap(m), e, n, k, i, Yes))
    /\ Good(r.heap)
    /\ SameHeights(m, r.heap)
    /\ IsTree(r, k, NodeAt(m, n, k).count + 1)

LEMMA PutChunkAs ==
    ASSUME Sizes, NEW m, Good(m), NEW e, e \in Nat, NEW n, Tree(m, n, 0), NEW i, i \in Nat,
           ~ HasBelow(m, n, 0, i)
    PROVE  PutsAs(m, e, n, 0, i, PutChunk(m, e, n, i))
<1> DEFINE A == AsHeap(m)
           old == NodeAt(m, n, 0)
           s == i % ChunkSize
           y == ChunkWith(old, i)
           r == PutChunk(m, e, n, i)
           R == P!Put(A, e, n, 0, i, Yes)
<1>1. /\ m \in Heaps /\ P!Closed(m) /\ A \in P!Heap(Marks) /\ P!Closed(A)
      /\ DOMAIN A = DOMAIN m /\ No \in Marks
  BY GoodIs
<1>2. /\ n \in DOMAIN m \cup {Nil} /\ n \in Nat /\ old \in BNode /\ old.count \in Nat
      /\ P!NodeAt(A, n) = AsNode(old) /\ Fits(m, old) /\ old.height = 0
      /\ n # Nil => m[n].height = 0
  BY TreeIs
<1>3. r = Own(m, e, n, y)
  BY StepsAre
<1>4. n \in DOMAIN A \cup {P!Nil}
  BY <1>1, <1>2, NilIs
<1>5. s \notin old.bits
  <2>1. P!GetBelow(A, n, 0, i) = P!Val(AsNode(old), P!SlotAt(0, i))
    BY <1>1, <1>2, <1>4, SizesAre, P!GetNext
  <2>2. P!SlotAt(0, i) = s
    BY SpanIs
  <2>3. P!GetBelow(A, n, 0, i) = IF HasBelow(m, n, 0, i) THEN Yes ELSE No
    BY <1>1, <1>2, HasIs
  <2>4. P!Val(AsNode(old), s) = IF s \in old.bits THEN Yes ELSE No
    BY AsNodeIs
  <2> HIDE DEF A, old, s
  <2> QED BY <2>1, <2>2, <2>3, <2>4, MarksAre
<1>6. /\ IsAltered(y, old, old.count + 1, old.bits \cup {s}, old.kids)
      /\ P!LeafUsed(AsNode(old), s, Yes) = old.count + 1
      /\ P!LeafNode(AsNode(old), s, Yes) = AsNode(y)
  BY <1>2, <1>5, ChunkWithIs
<1>7. R = P!Own(A, e, n, AsNode(y))
  <2>1. R = P!SetLeaf(A, e, n, P!SlotAt(0, i), Yes)
    <3>1. P!Putting(Marks, A, e, i, Yes)
      BY PuttingIs
    <3> HIDE DEF A
    <3> QED BY <1>4, <3>1, P!PutStart
  <2>2. P!SlotAt(0, i) = s
    BY SpanIs
  <2>3. P!SetLeaf(A, e, n, s, Yes) =
           IF P!LeafUsed(AsNode(old), s, Yes) = 0 THEN [heap |-> A, node |-> P!Nil]
           ELSE P!Own(A, e, n, P!LeafNode(AsNode(old), s, Yes))
    BY <1>2, P!SetLeafIs
  <2>4. old.count + 1 # 0
    BY <1>2
  <2> HIDE DEF A, old, s, y, R
  <2> QED BY <1>6, <2>1, <2>2, <2>3, <2>4, Zenon
<1> HIDE DEF A, old, s, y, r, R
<1>8. y \in BNode /\ y.height = 0 /\ y.count = old.count + 1 /\ Fits(m, y)
  <2>1. y \in BNode /\ y.height = old.height /\ y.count = old.count + 1 /\ y.kids = old.kids
    BY <1>6 DEF IsAltered
  <2> QED BY <1>2, <2>1 DEF Fits
<1>9. Stands(r, R)
  BY <1>1, <1>2, <1>3, <1>7, <1>8, OwnIs DEF A
<1>10. Good(r.heap) /\ SameHeights(m, r.heap) /\ IsTree(r, y.height, y.count)
  BY <1>2, <1>3, <1>8, OwnGood
<1> QED BY <1>8, <1>9, <1>10 DEF PutsAs, A, old, r, R

LEMMA PutDirAs ==
    ASSUME Sizes, NEW m, Good(m), NEW e, e \in Nat, NEW k, k \in Nat, NEW K, P!Over(K, k),
           NEW n, Tree(m, n, K), NEW i, i \in Nat, ~ HasBelow(m, n, K, i), NEW b,
           b \in Results, PutsAs(m, e, Kid(NodeAt(m, n, K), Slot(i, K)), k, i, b)
    PROVE  PutsAs(m, e, n, K, i, PutDir(m, e, n, K, Slot(i, K), b))
<1> DEFINE A == AsHeap(m)
           old == NodeAt(m, n, K)
           s == Slot(i, K)
           c == Kid(old, s)
           h == b.heap
           x == b.node
           B == P!Put(A, e, c, k, i, Yes)
           y == DirWith(old, s, x)
           r == PutDir(m, e, n, K, s, b)
           R == P!Put(A, e, n, K, i, Yes)
<1>1. /\ m \in Heaps /\ P!Closed(m) /\ A \in P!Heap(Marks) /\ P!Closed(A)
      /\ DOMAIN A = DOMAIN m /\ No \in Marks /\ K \in Nat /\ K = k + 1
      /\ P!Putting(Marks, A, e, i, Yes)
  BY GoodIs, PuttingIs DEF P!Over
<1>2. /\ n \in DOMAIN m \cup {Nil} /\ n \in Nat /\ old \in BNode /\ old.count \in Nat
      /\ P!NodeAt(A, n) = AsNode(old) /\ Fits(m, old) /\ old.height = K
      /\ n # Nil => m[n].height = K
      /\ n = P!Nil \/ n \in P!Whole(A, K)
  BY <1>1, TreeIs
<1>3. /\ Tree(m, c, k) /\ P!Kid(P!NodeAt(A, n), s) = c
      /\ P!SlotAt(K, i) = s /\ s \in Nat /\ s < Fan
  BY TreeKid
<1>4. r = Own(h, e, n, y)
  BY StepsAre
<1>5. n \in DOMAIN A \cup {P!Nil}
  BY <1>1, <1>2, NilIs
<1>6. /\ B = [heap |-> AsHeap(h), node |-> x]
      /\ Good(h) /\ SameHeights(m, h)
      /\ x # Nil /\ x \in DOMAIN h /\ h[x].height = k
  BY DEF PutsAs, Stands, IsTree
<1>7. h \in Heaps /\ x \in Nat
  BY DEF Results
<1>8. /\ IsAltered(y, old, old.count + 1, old.bits, Linked(old, s, x))
      /\ AsNode(y) = P!Relinked(AsNode(old), old.count + 1, P!InnerKids(AsNode(old), s, x))
  BY <1>2, <1>3, <1>6, <1>7, DirWithIs
<1>9. R = P!SetInner(A, e, n, s, B)
  <2> HIDE DEF A, s, c, old
  <2>2. P!Put(A, e, n, K, i, Yes) =
           P!SetInner(A, e, n, P!SlotAt(K, i),
                      P!Put(A, e, P!Kid(P!NodeAt(A, n), P!SlotAt(K, i)), k, i, Yes))
    BY <1>1, <1>5, P!PutStep
  <2> QED BY <1>3, <2>2
<1>10. P!InnerUsed(A, n, s, B) = old.count + 1
  <2>1. c = P!Nil \/ c \in P!Whole(A, k)
    BY <1>3, TreeIs
  <2>3. P!Cardinality(P!Wanted(A, n, K, i, Yes)) = old.count + 1
    BY <1>1, TreeCounts
  <2> HIDE DEF A, c, s, h, x, y, r, R, old
  <2>4. P!InnerUsed(A, n, P!SlotAt(K, i), B) = P!Cardinality(P!Wanted(A, n, K, i, Yes))
    BY <1>1, <1>2, <1>3, <2>1, P!PutCount
  <2> QED BY <1>3, <2>3, <2>4
<1>11. R = P!Own(AsHeap(h), e, n, AsNode(y))
  <2>1. P!SetInner(A, e, n, s, B) =
           IF P!InnerUsed(A, n, s, B) = 0 THEN [heap |-> B.heap, node |-> P!Nil]
           ELSE P!Own(B.heap, e, n, P!InnerNode(A, n, s, B))
    BY P!SetInnerIs
  <2>2. old.count + 1 # 0
    BY <1>2
  <2> HIDE DEF B, A, old, s, y, R, h, x
  <2>3. B.heap = AsHeap(h) /\ B.node = x
    BY <1>6
  <2>4. P!InnerNode(A, n, s, B) = AsNode(y)
    BY <1>2, <1>8, <1>10, <2>3 DEF P!InnerNode
  <2> QED BY <1>9, <1>10, <2>1, <2>2, <2>3, <2>4, Zenon
<1> HIDE DEF A, old, s, c, h, x, B, y, r, R
<1>12. y \in BNode /\ Fits(h, y) /\ y.height = K /\ y.count = old.count + 1
  <2> DEFINE u == old.count + 1
  <2>1. IsAltered(y, old, u, old.bits, Linked(old, s, x))
    BY <1>8
  <2> HIDE DEF u
  <2>2. Relinks(m, h, k, K, old, s, x)
    BY <1>2, <1>3, <1>6, <1>7 DEF Relinks
  <2>3. FitsAs(h, y, K, u)
    BY <2>1, <2>2, LinkedFits
  <2> QED BY <2>3 DEF u, FitsAs
<1>13. n \in DOMAIN h \cup {Nil} /\ (n # Nil => h[n].height = K)
  BY <1>2, <1>6 DEF SameHeights
<1>14. Stands(r, R)
  BY <1>2, <1>4, <1>7, <1>11, <1>12, <1>13, OwnIs
<1>15. Good(r.heap) /\ SameHeights(h, r.heap) /\ IsTree(r, y.height, y.count)
  BY <1>4, <1>6, <1>12, <1>13, OwnGood
<1>16. SameHeights(m, r.heap)
  BY <1>6, <1>15 DEF SameHeights
<1> QED BY <1>12, <1>14, <1>15, <1>16 DEF PutsAs, A, old, s, r, R

LEMMA PutAs ==
    ASSUME Sizes, NEW m, Good(m), NEW e, e \in Nat, NEW i, i \in Nat
    PROVE  \A k \in Nat : \A n : Tree(m, n, k) /\ ~ HasBelow(m, n, k, i) =>
              Put(m, e, n, k, i) \in Results /\ PutsAs(m, e, n, k, i, Put(m, e, n, k, i))
<1> DEFINE Q(k, n) == Tree(m, n, k) /\ ~ HasBelow(m, n, k, i) =>
                         PutsAs(m, e, n, k, i, Put(m, e, n, k, i))
           S == {k \in Nat : \A n : Q(k, n)}
<1>1. m \in Heaps /\ P!Closed(m)
  BY GoodIs
<1>2. 0 \in S
  <2>1. ASSUME NEW n, Tree(m, n, 0), ~ HasBelow(m, n, 0, i)
        PROVE  PutsAs(m, e, n, 0, i, Put(m, e, n, 0, i))
    <3>1. n \in DOMAIN m \cup {Nil}
      BY <2>1, TreeIs
    <3>2. Put(m, e, n, 0, i) = PutChunk(m, e, n, i)
      BY <1>1, <3>1, PutUnfold
    <3> QED BY <2>1, <3>2, PutChunkAs
  <2> QED BY <2>1
<1>3. ASSUME NEW k \in S PROVE k + 1 \in S
  <2> DEFINE K == k + 1
  <2>1. k \in Nat /\ K \in Nat
    OBVIOUS
  <2>2. ASSUME NEW n, Tree(m, n, K), ~ HasBelow(m, n, K, i)
        PROVE  PutsAs(m, e, n, K, i, Put(m, e, n, K, i))
    <3> DEFINE s == Slot(i, K)
               c == Kid(NodeAt(m, n, K), s)
               b == Put(m, e, c, k, i)
    <3>1. n \in DOMAIN m \cup {Nil}
      BY <2>1, <2>2, TreeIs
    <3>2. Put(m, e, n, K, i) = PutDir(m, e, n, K, s, b)
      BY <1>1, <2>1, <3>1, PutUnfold, ZenonT(60)
    <3>9. P!Over(K, k)
      BY <2>1 DEF P!Over
    <3> HIDE DEF K
    <3>3. Tree(m, c, k) /\ ~ HasBelow(m, c, k, i)
      BY <2>1, <2>2, <3>9, TreeKid
    <3>4. c \in DOMAIN m \cup {Nil}
      BY <2>1, <3>3, TreeIs
    <3>5. b \in Results
      BY <1>1, <2>1, <3>4, PutUnfold
    <3>6. PutsAs(m, e, c, k, i, b)
      BY <3>3
    <3> HIDE DEF b
    <3>8. PutsAs(m, e, n, K, i, PutDir(m, e, n, K, s, b))
      BY <2>1, <2>2, <3>5, <3>6, <3>9, PutDirAs
    <3> QED BY <3>2, <3>8
  <2> QED BY <2>1, <2>2
<1> HIDE DEF S
<1>4. S \in SUBSET Nat
  BY DEF S
<1>5. \A k \in Nat : k \in S
  BY <1>2, <1>3, <1>4, P!SetInduction
<1>6. ASSUME NEW k \in Nat, NEW n, Tree(m, n, k) PROVE Put(m, e, n, k, i) \in Results
  <2>1. n \in DOMAIN m \cup {Nil}
    BY <1>6, TreeIs
  <2> QED BY <1>1, <2>1, PutUnfold
<1> QED BY <1>5, <1>6 DEF S

\* What Take is to return: what PVec's Put of nothing returns, and one id less.
TakesAs(m, e, n, k, i, r) ==
    /\ Stands(r, P!Put(AsHeap(m), e, n, k, i, No))
    /\ Good(r.heap)
    /\ SameHeights(m, r.heap)
    /\ IF NodeAt(m, n, k).count = 1 THEN r.heap = m /\ r.node = Nil
       ELSE IsTree(r, k, NodeAt(m, n, k).count - 1)

\* Nothing is left of the last id.
LEMMA NothingLeft ==
    ASSUME NEW m, Good(m), NEW e, NEW n, NEW k, NEW i, NodeAt(m, n, k).count = 1, NEW r,
           r = [heap |-> m, node |-> Nil],
           P!Put(AsHeap(m), e, n, k, i, No) = [heap |-> AsHeap(m), node |-> P!Nil]
    PROVE  TakesAs(m, e, n, k, i, r)
<1>1. r.heap = m /\ r.node = Nil
  OBVIOUS
<1>2. Stands(r, P!Put(AsHeap(m), e, n, k, i, No))
  BY <1>1, NilIs DEF Stands
<1>3. SameHeights(m, m)
  BY DEF SameHeights
<1> QED BY <1>1, <1>2, <1>3 DEF TakesAs

LEMMA TakeChunkAs ==
    ASSUME Sizes, NEW m, Good(m), NEW e, e \in Nat, NEW n, Tree(m, n, 0), NEW i, i \in Nat,
           HasBelow(m, n, 0, i)
    PROVE  TakesAs(m, e, n, 0, i, TakeChunk(m, e, n, i))
<1> DEFINE A == AsHeap(m)
           old == NodeAt(m, n, 0)
           s == i % ChunkSize
           y == ChunkWithout(old, i)
           r == TakeChunk(m, e, n, i)
           R == P!Put(A, e, n, 0, i, No)
<1>1. /\ m \in Heaps /\ P!Closed(m) /\ A \in P!Heap(Marks) /\ P!Closed(A)
      /\ DOMAIN A = DOMAIN m /\ No \in Marks
  BY GoodIs
<1>2. /\ n \in DOMAIN m \cup {Nil} /\ n \in Nat /\ old \in BNode /\ old.count \in Nat
      /\ P!NodeAt(A, n) = AsNode(old) /\ Fits(m, old) /\ old.height = 0
      /\ n # Nil => m[n].height = 0
  BY TreeIs
<1>3. r = IF old.count = 1 THEN [heap |-> m, node |-> Nil] ELSE Own(m, e, n, y)
  BY StepsAre
<1>4. n \in DOMAIN A \cup {P!Nil}
  BY <1>1, <1>2, NilIs
<1>5. s \in old.bits
  <2>1. P!GetBelow(A, n, 0, i) = P!Val(AsNode(old), P!SlotAt(0, i))
    BY <1>1, <1>2, <1>4, SizesAre, P!GetNext
  <2>2. P!SlotAt(0, i) = s
    BY SpanIs
  <2>3. P!GetBelow(A, n, 0, i) = IF HasBelow(m, n, 0, i) THEN Yes ELSE No
    BY <1>1, <1>2, HasIs
  <2>4. P!Val(AsNode(old), s) = IF s \in old.bits THEN Yes ELSE No
    BY AsNodeIs
  <2> HIDE DEF A, old, s
  <2> QED BY <2>1, <2>2, <2>3, <2>4, MarksAre
<1>6. /\ IsAltered(y, old, old.count - 1, old.bits \ {s}, old.kids)
      /\ P!LeafUsed(AsNode(old), s, No) = old.count - 1
      /\ P!LeafNode(AsNode(old), s, No) = AsNode(y)
  BY <1>2, <1>5, ChunkWithoutIs
<1>7. R = IF old.count = 1 THEN [heap |-> A, node |-> P!Nil] ELSE P!Own(A, e, n, AsNode(y))
  <2>1. R = P!SetLeaf(A, e, n, P!SlotAt(0, i), No)
    <3>1. P!Putting(Marks, A, e, i, No)
      BY PuttingIs
    <3> HIDE DEF A
    <3> QED BY <1>4, <3>1, P!PutStart
  <2>2. P!SlotAt(0, i) = s
    BY SpanIs
  <2>3. P!SetLeaf(A, e, n, s, No) =
           IF P!LeafUsed(AsNode(old), s, No) = 0 THEN [heap |-> A, node |-> P!Nil]
           ELSE P!Own(A, e, n, P!LeafNode(AsNode(old), s, No))
    BY <1>2, P!SetLeafIs
  <2>4. old.count - 1 = 0 <=> old.count = 1
    BY <1>2
  <2> HIDE DEF A, old, s, y, R
  <2> QED BY <1>6, <2>1, <2>2, <2>3, <2>4, Zenon
<1> HIDE DEF A, old, s, y, r, R
<1>8. y \in BNode /\ y.height = 0 /\ y.count = old.count - 1 /\ Fits(m, y)
  <2>1. y \in BNode /\ y.height = old.height /\ y.count = old.count - 1 /\ y.kids = old.kids
    BY <1>6 DEF IsAltered
  <2> QED BY <1>2, <2>1 DEF Fits
<1>9. CASE old.count = 1
  BY <1>3, <1>7, <1>9, NothingLeft DEF A, old, r, R
<1>10. CASE old.count # 1
  <2>1. Stands(r, R)
    BY <1>1, <1>2, <1>3, <1>7, <1>8, <1>10, OwnIs DEF A
  <2>2. Good(r.heap) /\ SameHeights(m, r.heap) /\ IsTree(r, y.height, y.count)
    BY <1>2, <1>3, <1>8, <1>10, OwnGood
  <2> QED BY <1>8, <1>10, <2>1, <2>2 DEF TakesAs, A, old, r, R
<1> QED BY <1>9, <1>10

LEMMA TakeDirAs ==
    ASSUME Sizes, NEW m, Good(m), NEW e, e \in Nat, NEW k, k \in Nat, NEW K, P!Over(K, k),
           NEW n, Tree(m, n, K), NEW i, i \in Nat, HasBelow(m, n, K, i), NEW b,
           b \in Results, TakesAs(m, e, Kid(NodeAt(m, n, K), Slot(i, K)), k, i, b)
    PROVE  TakesAs(m, e, n, K, i, TakeDir(m, e, n, K, Slot(i, K), b))
<1> DEFINE A == AsHeap(m)
           old == NodeAt(m, n, K)
           s == Slot(i, K)
           c == Kid(old, s)
           h == b.heap
           x == b.node
           B == P!Put(A, e, c, k, i, No)
           y == DirWithout(old, s, x)
           r == TakeDir(m, e, n, K, s, b)
           R == P!Put(A, e, n, K, i, No)
<1>1. /\ m \in Heaps /\ P!Closed(m) /\ A \in P!Heap(Marks) /\ P!Closed(A)
      /\ DOMAIN A = DOMAIN m /\ No \in Marks /\ K \in Nat /\ K = k + 1
      /\ P!Putting(Marks, A, e, i, No)
  BY GoodIs, PuttingIs DEF P!Over
<1>2. /\ n \in DOMAIN m \cup {Nil} /\ n \in Nat /\ old \in BNode /\ old.count \in Nat
      /\ P!NodeAt(A, n) = AsNode(old) /\ Fits(m, old) /\ old.height = K
      /\ n # Nil => m[n].height = K
      /\ n = P!Nil \/ n \in P!Whole(A, K)
  BY <1>1, TreeIs
<1>3. /\ Tree(m, c, k) /\ P!Kid(P!NodeAt(A, n), s) = c
      /\ P!SlotAt(K, i) = s /\ s \in Nat /\ s < Fan
  BY TreeKid
<1>4. r = IF old.count = 1 THEN [heap |-> m, node |-> Nil] ELSE Own(h, e, n, y)
  BY StepsAre
<1>5. n \in DOMAIN A \cup {P!Nil}
  BY <1>1, <1>2, NilIs
<1>6. /\ B = [heap |-> AsHeap(h), node |-> x]
      /\ Good(h) /\ SameHeights(m, h)
      /\ x # Nil => x \in DOMAIN h /\ h[x].height = k
      /\ x = Nil => h = m
  BY DEF TakesAs, Stands, IsTree
<1>7. h \in Heaps /\ x \in Nat
  BY DEF Results
<1>8. /\ IsAltered(y, old, old.count - 1, old.bits, Linked(old, s, x))
      /\ AsNode(y) = P!Relinked(AsNode(old), old.count - 1, P!InnerKids(AsNode(old), s, x))
  BY <1>2, <1>3, <1>7, DirWithoutIs
<1>9. c = P!Nil \/ c \in P!Whole(A, k)
  BY <1>3, TreeIs
<1>10. R = P!SetInner(A, e, n, s, B)
  <2> HIDE DEF A, s, c, old
  <2>1. P!Put(A, e, n, K, i, No) =
           P!SetInner(A, e, n, P!SlotAt(K, i),
                      P!Put(A, e, P!Kid(P!NodeAt(A, n), P!SlotAt(K, i)), k, i, No))
    BY <1>1, <1>5, P!PutStep
  <2> QED BY <1>3, <2>1
<1>11. P!InnerUsed(A, n, s, B) = old.count - 1
  <2>1. P!Cardinality(P!Wanted(A, n, K, i, No)) = old.count - 1
    BY <1>1, TreeCounts
  <2> HIDE DEF A, c, s, h, x, y, r, R, old
  <2>2. P!InnerUsed(A, n, P!SlotAt(K, i), B) = P!Cardinality(P!Wanted(A, n, K, i, No))
    BY <1>1, <1>2, <1>3, <1>9, P!PutCount
  <2> QED BY <1>3, <2>1, <2>2
<1>12. R = IF old.count = 1 THEN [heap |-> AsHeap(h), node |-> P!Nil]
          ELSE P!Own(AsHeap(h), e, n, AsNode(y))
  <2>1. P!SetInner(A, e, n, s, B) =
           IF P!InnerUsed(A, n, s, B) = 0 THEN [heap |-> B.heap, node |-> P!Nil]
           ELSE P!Own(B.heap, e, n, P!InnerNode(A, n, s, B))
    BY P!SetInnerIs
  <2>2. old.count - 1 = 0 <=> old.count = 1
    BY <1>2
  <2> HIDE DEF B, A, old, s, y, R, h, x
  <2>3. B.heap = AsHeap(h) /\ B.node = x
    BY <1>6
  <2>4. P!InnerNode(A, n, s, B) = AsNode(y)
    BY <1>2, <1>8, <1>11, <2>3 DEF P!InnerNode
  <2> QED BY <1>10, <1>11, <2>1, <2>2, <2>3, <2>4, Zenon
<1> HIDE DEF A, old, s, c, h, x, B, y, r, R
<1>13. CASE old.count = 1
  <2>1. R = [heap |-> AsHeap(h), node |-> P!Nil]
    BY <1>12, <1>13
  <2>2. R.node = P!Nil /\ B.node = x
    BY <1>6, <2>1
  <2>3. c = P!Kid(P!NodeAt(A, n), P!SlotAt(K, i))
    BY <1>3
  <2>4. B.node = P!Nil
    BY <1>1, <1>2, <1>9, <2>2, <2>3, P!NoneLeft DEF R, B
  <2>5. h = m
    BY <1>6, <2>2, <2>4, NilIs
  <2> QED BY <1>4, <1>13, <2>1, <2>5, NothingLeft DEF A, old, s, r, R
<1>14. CASE old.count # 1
  <2>1. y \in BNode /\ Fits(h, y) /\ y.height = K /\ y.count = old.count - 1
    <3> DEFINE u == old.count - 1
    <3>1. IsAltered(y, old, u, old.bits, Linked(old, s, x))
      BY <1>8
    <3> HIDE DEF u
    <3>2. Relinks(m, h, k, K, old, s, x)
      BY <1>2, <1>3, <1>6, <1>7 DEF Relinks
    <3>3. FitsAs(h, y, K, u)
      BY <3>1, <3>2, LinkedFits
    <3> QED BY <3>3 DEF u, FitsAs
  <2>2. n \in DOMAIN h \cup {Nil} /\ (n # Nil => h[n].height = K)
    BY <1>2, <1>6 DEF SameHeights
  <2>3. r = Own(h, e, n, y) /\ R = P!Own(AsHeap(h), e, n, AsNode(y))
    BY <1>4, <1>12, <1>14
  <2>4. Stands(r, R)
    BY <1>2, <1>7, <2>1, <2>2, <2>3, OwnIs
  <2>5. Good(r.heap) /\ SameHeights(h, r.heap) /\ IsTree(r, y.height, y.count)
    BY <1>6, <2>1, <2>2, <2>3, OwnGood
  <2>6. SameHeights(m, r.heap)
    BY <1>6, <2>5 DEF SameHeights
  <2> QED BY <1>14, <2>1, <2>4, <2>5, <2>6 DEF TakesAs, A, old, s, r, R
<1> QED BY <1>13, <1>14

LEMMA TakeAs ==
    ASSUME Sizes, NEW m, Good(m), NEW e, e \in Nat, NEW i, i \in Nat
    PROVE  \A k \in Nat : \A n : Tree(m, n, k) /\ HasBelow(m, n, k, i) =>
              Take(m, e, n, k, i) \in Results /\ TakesAs(m, e, n, k, i, Take(m, e, n, k, i))
<1> DEFINE Q(k, n) == Tree(m, n, k) /\ HasBelow(m, n, k, i) =>
                         TakesAs(m, e, n, k, i, Take(m, e, n, k, i))
           S == {k \in Nat : \A n : Q(k, n)}
<1>1. m \in Heaps /\ P!Closed(m)
  BY GoodIs
<1>2. 0 \in S
  <2>1. ASSUME NEW n, Tree(m, n, 0), HasBelow(m, n, 0, i)
        PROVE  TakesAs(m, e, n, 0, i, Take(m, e, n, 0, i))
    <3>1. n \in DOMAIN m \cup {Nil}
      BY <2>1, TreeIs
    <3>2. Take(m, e, n, 0, i) = TakeChunk(m, e, n, i)
      BY <1>1, <3>1, TakeUnfold
    <3> QED BY <2>1, <3>2, TakeChunkAs
  <2> QED BY <2>1
<1>3. ASSUME NEW k \in S PROVE k + 1 \in S
  <2> DEFINE K == k + 1
  <2>1. k \in Nat /\ K \in Nat
    OBVIOUS
  <2>2. ASSUME NEW n, Tree(m, n, K), HasBelow(m, n, K, i)
        PROVE  TakesAs(m, e, n, K, i, Take(m, e, n, K, i))
    <3> DEFINE s == Slot(i, K)
               c == Kid(NodeAt(m, n, K), s)
               b == Take(m, e, c, k, i)
    <3>1. n \in DOMAIN m \cup {Nil}
      BY <2>1, <2>2, TreeIs
    <3>2. Take(m, e, n, K, i) = TakeDir(m, e, n, K, s, b)
      BY <1>1, <2>1, <3>1, TakeUnfold, ZenonT(60)
    <3>9. P!Over(K, k)
      BY <2>1 DEF P!Over
    <3> HIDE DEF K
    <3>3. Tree(m, c, k) /\ HasBelow(m, c, k, i)
      BY <2>1, <2>2, <3>9, TreeKid
    <3>4. c \in DOMAIN m \cup {Nil}
      BY <2>1, <3>3, TreeIs
    <3>5. b \in Results
      BY <1>1, <2>1, <3>4, TakeUnfold
    <3>6. TakesAs(m, e, c, k, i, b)
      BY <3>3
    <3> HIDE DEF b
    <3>8. TakesAs(m, e, n, K, i, TakeDir(m, e, n, K, s, b))
      BY <2>1, <2>2, <3>5, <3>6, <3>9, TakeDirAs
    <3> QED BY <3>2, <3>8
  <2> QED BY <2>1, <2>2
<1> HIDE DEF S
<1>4. S \in SUBSET Nat
  BY DEF S
<1>5. \A k \in Nat : k \in S
  BY <1>2, <1>3, <1>4, P!SetInduction
<1>6. ASSUME NEW k \in Nat, NEW n, Tree(m, n, k) PROVE Take(m, e, n, k, i) \in Results
  <2>1. n \in DOMAIN m \cup {Nil}
    BY <1>6, TreeIs
  <2> QED BY <1>1, <2>1, TakeUnfold
<1> QED BY <1>5, <1>6 DEF S

----------------------------------------------------------------------------
(* What Put and Take do, said of bitmaps.                                  *)

LEMMA SameNode ==
    ASSUME NEW x, x \in BNode, NEW y, y \in BNode, AsNode(x) = AsNode(y), x.height = y.height
    PROVE  x = y
<1>1. x.epoch = y.epoch /\ x.count = y.count /\ x.kids = y.kids
  BY DEF AsNode
<1>2. x.bits = y.bits
  <2>1. DOMAIN AsNode(x).vals = x.bits /\ DOMAIN AsNode(y).vals = y.bits
    BY DEF AsNode, Marked
  <2> QED BY <2>1
<1> QED BY <1>1, <1>2 DEF BNode

LEMMA WroteIs ==
    ASSUME NEW m, Good(m), NEW o, Good(o), SameHeights(m, o), NEW e, NEW ns,
           P!Wrote(AsHeap(m), AsHeap(o), e, ns)
    PROVE  P!Wrote(m, o, e, ns)
<1>1. /\ m \in Heaps /\ DOMAIN AsHeap(m) = DOMAIN m
      /\ o \in Heaps /\ DOMAIN AsHeap(o) = DOMAIN o
  BY GoodIs
<1>2. /\ \A x \in DOMAIN m : m[x] \in BNode /\ AsHeap(m)[x] = AsNode(m[x])
      /\ \A x \in DOMAIN o : o[x] \in BNode /\ AsHeap(o)[x] = AsNode(o[x])
  BY <1>1, HeapIs
<1>3. ASSUME NEW x \in DOMAIN o
      PROVE  \/ x \in DOMAIN m /\ o[x] = m[x]
             \/ o[x].epoch = e /\ (x \in DOMAIN m => x \in ns /\ m[x].epoch = e)
  <2>1. \/ x \in DOMAIN m /\ AsNode(o[x]) = AsNode(m[x])
        \/ /\ AsNode(o[x]).epoch = e
           /\ x \in DOMAIN m => x \in ns /\ AsNode(m[x]).epoch = e
    BY <1>1, <1>2 DEF P!Wrote
  <2>2. x \in DOMAIN m => o[x].height = m[x].height
    BY DEF SameHeights
  <2>3. x \in DOMAIN m /\ AsNode(o[x]) = AsNode(m[x]) => o[x] = m[x]
    BY <1>2, <2>2, SameNode
  <2> QED BY <2>1, <2>3, AsNodeIs
<1> QED BY <1>3 DEF P!Wrote, SameHeights

\* From n, a tree of height k of m, to the result r: a tree whose nodes are those
\* of n or new, with nothing overwritten but those of n that the writer of epoch
\* e owns.
Rewritten(m, n, k, r, e) ==
    /\ Good(r.heap) /\ SameHeights(m, r.heap)
    /\ Tree(r.heap, r.node, k)
    /\ P!Wrote(m, r.heap, e, P!Nodes(AsHeap(m), n, k))
    /\ P!Nodes(AsHeap(r.heap), r.node, k) \subseteq
          P!Nodes(AsHeap(m), n, k) \cup (DOMAIN r.heap \ DOMAIN m)

LEMMA StandsOk ==
    ASSUME Sizes, NEW m, Good(m), NEW e, e \in Nat, NEW i, i \in Nat, NEW k, k \in Nat,
           NEW n, Tree(m, n, k), NEW val, P!Putting(Marks, AsHeap(m), e, i, val),
           NEW r, Stands(r, P!Put(AsHeap(m), e, n, k, i, val)),
           Good(r.heap), SameHeights(m, r.heap), r.node # Nil => r.heap[r.node].height = k
    PROVE  /\ Rewritten(m, n, k, r, e)
           /\ \A j \in Nat : P!GetBelow(AsHeap(r.heap), r.node, k, j) =
                                P!Expected(AsHeap(m), n, k, i, val, j)
<1> DEFINE A == AsHeap(m)
           o == r.heap
           R == P!Put(A, e, n, k, i, val)
<1>1. n = P!Nil \/ n \in P!Whole(A, k)
  BY TreeIs
<1>2. P!PutOk(A, e, n, k, i, val, R)
  BY <1>1, P!PutDone
<1>3. R.heap = AsHeap(o) /\ R.node = r.node
  BY DEF Stands
<1>4. DOMAIN A = DOMAIN m /\ DOMAIN AsHeap(o) = DOMAIN o
  BY GoodIs
<1> HIDE DEF A, R, o
<1>5. /\ P!Wrote(A, AsHeap(o), e, P!Nodes(A, n, k))
      /\ P!Nodes(AsHeap(o), r.node, k) \subseteq P!Nodes(A, n, k) \cup (DOMAIN o \ DOMAIN m)
      /\ \A j \in Nat : P!GetBelow(AsHeap(o), r.node, k, j) = P!Expected(A, n, k, i, val, j)
      /\ r.node = P!Nil \/ r.node \in P!Whole(AsHeap(o), k)
  BY <1>2, <1>3, <1>4 DEF P!PutOk
<1>6. P!Wrote(m, o, e, P!Nodes(A, n, k))
  BY <1>5, WroteIs DEF A, o
<1>7. Tree(o, r.node, k)
  BY <1>5, NilIs DEF Tree, o
<1> QED BY <1>5, <1>6, <1>7 DEF Rewritten, A, o

LEMMA ExpectedIs ==
    ASSUME Sizes, NEW m, Good(m), NEW k, k \in Nat, NEW n, n \in DOMAIN m \cup {Nil},
           NEW o, Good(o), NEW x, x \in DOMAIN o \cup {Nil}, NEW i, NEW val, NEW j, j \in Nat,
           P!GetBelow(AsHeap(o), x, k, j) = P!Expected(AsHeap(m), n, k, i, val, j)
    PROVE  /\ val = Yes => (HasBelow(o, x, k, j) <=> P!SamePlace(k, i, j) \/ HasBelow(m, n, k, j))
           /\ val = No => (HasBelow(o, x, k, j) <=> ~ P!SamePlace(k, i, j) /\ HasBelow(m, n, k, j))
<1>1. m \in Heaps /\ P!Closed(m) /\ o \in Heaps /\ P!Closed(o)
  BY GoodIs
<1>2. P!GetBelow(AsHeap(o), x, k, j) = IF HasBelow(o, x, k, j) THEN Yes ELSE No
  BY <1>1, HasIs
<1>3. P!GetBelow(AsHeap(m), n, k, j) = IF HasBelow(m, n, k, j) THEN Yes ELSE No
  BY <1>1, HasIs
<1> QED BY <1>2, <1>3, MarksAre DEF P!Expected

LEMMA PutDone ==
    ASSUME Sizes, NEW m, Good(m), NEW e, e \in Nat, NEW i, i \in Nat, NEW k, k \in Nat,
           NEW n, Tree(m, n, k), ~ HasBelow(m, n, k, i), NEW r, r = Put(m, e, n, k, i)
    PROVE  /\ Rewritten(m, n, k, r, e) /\ r.node # Nil
           /\ \A j \in Nat : HasBelow(r.heap, r.node, k, j) <=>
                                P!SamePlace(k, i, j) \/ HasBelow(m, n, k, j)
<1>1. PutsAs(m, e, n, k, i, r)
  BY PutAs
<1>2. /\ Stands(r, P!Put(AsHeap(m), e, n, k, i, Yes))
      /\ Good(r.heap) /\ SameHeights(m, r.heap)
      /\ r.node # Nil /\ r.node \in DOMAIN r.heap /\ r.heap[r.node].height = k
  BY <1>1 DEF PutsAs, IsTree
<1>3. P!Putting(Marks, AsHeap(m), e, i, Yes)
  BY PuttingIs
<1>4. /\ Rewritten(m, n, k, r, e)
      /\ \A j \in Nat : P!GetBelow(AsHeap(r.heap), r.node, k, j) =
                           P!Expected(AsHeap(m), n, k, i, Yes, j)
  BY <1>2, <1>3, StandsOk
<1>5. n \in DOMAIN m \cup {Nil}
  BY TreeIs
<1> DEFINE o == r.heap
           x == r.node
           A == AsHeap(m)
<1>6. \A j \in Nat : P!GetBelow(AsHeap(o), x, k, j) = P!Expected(A, n, k, i, Yes, j)
  BY <1>4
<1>7. Good(o) /\ x \in DOMAIN o \cup {Nil}
  BY <1>2, <1>5
<1>8. ASSUME NEW j \in Nat PROVE HasBelow(o, x, k, j) <=> P!SamePlace(k, i, j) \/ HasBelow(m, n, k, j)
  <2>1. P!GetBelow(AsHeap(o), x, k, j) = P!Expected(AsHeap(m), n, k, i, Yes, j)
    BY <1>6
  <2> HIDE DEF o, x, A
  <2> QED BY <1>5, <1>7, <2>1, ExpectedIs
<1> QED BY <1>2, <1>4, <1>8

LEMMA TakeDone ==
    ASSUME Sizes, NEW m, Good(m), NEW e, e \in Nat, NEW i, i \in Nat, NEW k, k \in Nat,
           NEW n, Tree(m, n, k), HasBelow(m, n, k, i), NEW r, r = Take(m, e, n, k, i)
    PROVE  /\ Rewritten(m, n, k, r, e)
           /\ \A j \in Nat : HasBelow(r.heap, r.node, k, j) <=>
                                ~ P!SamePlace(k, i, j) /\ HasBelow(m, n, k, j)
<1>1. TakesAs(m, e, n, k, i, r)
  BY TakeAs
<1>2. /\ Stands(r, P!Put(AsHeap(m), e, n, k, i, No))
      /\ Good(r.heap) /\ SameHeights(m, r.heap)
      /\ r.node # Nil => r.node \in DOMAIN r.heap /\ r.heap[r.node].height = k
  BY <1>1 DEF TakesAs, IsTree
<1>3. P!Putting(Marks, AsHeap(m), e, i, No)
  BY PuttingIs
<1>4. /\ Rewritten(m, n, k, r, e)
      /\ \A j \in Nat : P!GetBelow(AsHeap(r.heap), r.node, k, j) =
                           P!Expected(AsHeap(m), n, k, i, No, j)
  BY <1>2, <1>3, StandsOk
<1>5. n \in DOMAIN m \cup {Nil} /\ r.node \in DOMAIN r.heap \cup {Nil}
  BY <1>2, TreeIs
<1> DEFINE o == r.heap
           x == r.node
           A == AsHeap(m)
<1>6. \A j \in Nat : P!GetBelow(AsHeap(o), x, k, j) = P!Expected(A, n, k, i, No, j)
  BY <1>4
<1>7. Good(o) /\ x \in DOMAIN o \cup {Nil}
  BY <1>2, <1>5
<1>8. ASSUME NEW j \in Nat PROVE HasBelow(o, x, k, j) <=> ~ P!SamePlace(k, i, j) /\ HasBelow(m, n, k, j)
  <2>1. P!GetBelow(AsHeap(o), x, k, j) = P!Expected(AsHeap(m), n, k, i, No, j)
    BY <1>6
  <2> HIDE DEF o, x, A
  <2> QED BY <1>5, <1>7, <2>1, ExpectedIs
<1> QED BY <1>2, <1>4, <1>8

----------------------------------------------------------------------------
(* Growing: one level more, child 0 the old root.                          *)

LEMMA HeightForIs ==
    ASSUME Sizes, NEW i, i \in Nat
    PROVE  /\ HeightFor(i) \in Nat /\ i < Span(HeightFor(i))
           /\ \A k \in Nat : i < Span(k) => HeightFor(i) <= k
<1> DEFINE H == {h \in 0..i : i < Span(h)}
<1>1. H \subseteq Nat /\ H # {}
  <2>1. i \in 0..i /\ i < Span(i)
    BY SizesAre, SpanIs, P!SpanGrows
  <2> QED BY <2>1
<1>2. PICK h \in H : \A k \in H : h <= k
  <2> HIDE DEF H
  <2> QED BY <1>1, P!LeastExists
<1>3. HeightFor(i) \in H /\ \A k \in H : HeightFor(i) <= k
  <2>1. HeightFor(i) = CHOOSE x \in H : \A y \in H : x <= y
    BY DEF HeightFor, Lowest
  <2> HIDE DEF H
  <2> QED BY <1>2, <2>1, Zenon
<1> DEFINE g == HeightFor(i)
<1>4. g \in H /\ \A k \in H : g <= k
  BY <1>3
<1> HIDE DEF g
<1>5. g \in Nat /\ g <= i /\ i < Span(g) /\ \A k \in 0..i : i < Span(k) => g <= k
  BY <1>4
<1>6. ASSUME NEW k \in Nat, i < Span(k) PROVE g <= k
  <2>1. CASE k <= i
    BY <1>5, <1>6, <2>1
  <2>2. CASE ~ (k <= i)
    BY <1>5, <2>2
  <2> QED BY <2>1, <2>2
<1> QED BY <1>5, <1>6 DEF g

\* The bitmap with root b as a row vector.
Vec(m, b) == [root |-> b, height |-> m[b].height]

\* b is the root of a tree.
Root(m, b) == b \in DOMAIN m /\ Tree(m, b, m[b].height)

LEMMA RootIs ==
    ASSUME Sizes, NEW m, Good(m), NEW b, Root(m, b)
    PROVE  /\ m[b].height \in Nat /\ b # Nil /\ b \in Nat
           /\ P!IsVec(AsHeap(m), Vec(m, b))
           /\ Vec(m, b).root = b /\ Vec(m, b).height = m[b].height
           /\ \A j \in Nat : P!Get(AsHeap(m), Vec(m, b), j) = IF Has(m, b, j) THEN Yes ELSE No
<1> DEFINE v == Vec(m, b)
           k == m[b].height
           A == AsHeap(m)
<1>1. m \in Heaps /\ P!Closed(m) /\ Nil \notin DOMAIN m
  BY GoodIs
<1>2. k \in Nat /\ b # Nil /\ b \in Nat
  BY <1>1, HeapIs, NodeIs DEF Root
<1>3. v = [root |-> v.root, height |-> v.height] /\ v.root = b /\ v.height = k
  BY DEF Vec
<1> HIDE DEF v, k, A
<1>4. P!IsVec(A, v)
  <2>1. b = P!Nil \/ b \in P!Whole(A, k)
    BY <1>2, TreeIs DEF Root, A, k
  <2> QED BY <1>2, <1>3, <2>1 DEF P!IsVec
<1>5. ASSUME NEW j \in Nat PROVE P!Get(A, v, j) = IF Has(m, b, j) THEN Yes ELSE No
  <2>1. P!GetBelow(A, b, k, j) = IF HasBelow(m, b, k, j) THEN Yes ELSE No
    BY <1>1, <1>2, HasIs DEF A, Root
  <2>2. P!Span(k) = Span(k)
    BY SpanIs
  <2>3. Has(m, b, j) <=> j < Span(k) /\ HasBelow(m, b, k, j)
    BY <1>2 DEF Has, k
  <2>4. P!Get(A, v, j) = IF j < P!Span(k) THEN P!GetBelow(A, b, k, j) ELSE No
    BY <1>3 DEF P!Get
  <2> QED BY <2>1, <2>2, <2>3, <2>4
<1> QED BY <1>2, <1>3, <1>4, <1>5 DEF v, k, A

\* From the bitmap b of m to c of o: levels above b, and nothing overwritten.
Grown(m, b, o, c, e) ==
    /\ Good(o) /\ SameHeights(m, o)
    /\ Root(o, c)
    /\ P!GrownOk(AsHeap(m), Vec(m, b), AsHeap(o), Vec(o, c), e)

LEMMA GrownNot ==
    ASSUME Sizes, NEW m, Good(m), NEW b, Root(m, b), NEW e
    PROVE  Grown(m, b, m, b, e)
<1>1. P!IsVec(AsHeap(m), Vec(m, b)) /\ P!Closed(AsHeap(m))
  BY RootIs, GoodIs
<1>2. P!GrownOk(AsHeap(m), Vec(m, b), AsHeap(m), Vec(m, b), e)
  BY <1>1, P!GrownNot
<1> QED BY <1>2 DEF Grown, SameHeights

LEMMA GrownTwice ==
    ASSUME Sizes, NEW m, Good(m), NEW b, Root(m, b), NEW o, NEW c, NEW p, NEW d, NEW e,
           Grown(m, b, o, c, e), Grown(o, c, p, d, e)
    PROVE  Grown(m, b, p, d, e)
<1> DEFINE A == AsHeap(m)
           O == AsHeap(o)
           Q == AsHeap(p)
           v == Vec(m, b)
           w == Vec(o, c)
           x == Vec(p, d)
<1>1. P!IsVec(A, v)
  BY RootIs
<1>2. P!GrownOk(A, v, O, w, e) /\ P!GrownOk(O, w, Q, x, e)
  BY DEF Grown
<1> HIDE DEF A, O, Q, v, w, x
<1>3. P!GrownOk(A, v, Q, x, e)
  BY <1>1, <1>2, P!GrownTwice
<1>4. SameHeights(m, p)
  BY DEF Grown, SameHeights
<1> QED BY <1>3, <1>4 DEF Grown, A, Q, v, x

\* The node over b: child 0 is b, and nothing else is below it.
Top(m, b) == [Blank(m[b].height + 1) EXCEPT !.count = m[b].count, !.kids = With(@, 0, b)]

LEMMA TopIs ==
    ASSUME Sizes, NEW m, Good(m), NEW b, b \in DOMAIN m
    PROVE  /\ Top(m, b) \in BNode /\ Fits(m, Top(m, b))
           /\ Top(m, b).height = m[b].height + 1
           /\ AsNode(Top(m, b)) = P!Relinked(P!Blank, m[b].count, P!With(<< >>, 0, b))
<1> DEFINE h == m[b].height
           K == h + 1
           c == m[b].count
           x == Blank(K)
           g == With(x.kids, 0, b)
           y == Top(m, b)
<1>1. /\ h \in Nat /\ K \in Nat /\ K = h + 1 /\ c \in Int /\ b \in Nat /\ 0 \in Nat
      /\ b \in DOMAIN m
  BY GoodIs, HeapIs, NodeIs
<1>2. /\ x \in BNode /\ x.height = K /\ x.count = 0 /\ x.bits = {} /\ x.kids = << >>
      /\ AsNode(x) = P!Blank
  <2> HIDE DEF K
  <2> QED BY <1>1, BlankIs
<1>3. g \in P!Maps(Nat) /\ P!IsWith(g, x.kids, 0, b)
  <2>1. x.kids \in P!Maps(Nat)
    BY <1>2, NodeIs
  <2> HIDE DEF x
  <2> QED BY <1>1, <2>1, WithIs, P!WithIs
<1>4. y = [x EXCEPT !.count = c, !.bits = x.bits, !.kids = g]
  BY DEF Top, Blank
<1> HIDE DEF y, g, c, K
<1>5. IsAltered(y, x, c, x.bits, g)
  <2>1. x.bits \subseteq Chunk
    BY <1>2
  <2> HIDE DEF x
  <2> QED BY <1>1, <1>2, <1>3, <1>4, <2>1, AlteredIs
<1>6. AsNode(y) = P!Relinked(P!Blank, c, P!With(<< >>, 0, b))
  <2>1. g = P!With(<< >>, 0, b)
    BY <1>2, WithIs DEF g
  <2> HIDE DEF x
  <2>2. AsNode(y) = P!Relinked(AsNode(x), c, g)
    BY <1>5, RelinkedIs
  <2>3. AsNode(x) = P!Blank
    BY <1>2
  <2> QED BY <2>1, <2>2, <2>3, Zenon
<1>7. y \in BNode /\ y.height = K /\ y.kids = g
  BY <1>2, <1>5 DEF IsAltered
<1>8. DOMAIN g = {0} /\ g[0] = b
  BY <1>2, <1>3 DEF P!IsWith
<1>9. Fits(m, y)
  <2>1. 0 < Fan
    BY DEF Sizes
  <2> QED BY <1>1, <1>7, <1>8, <2>1 DEF Fits, K, h
<1> QED BY <1>6, <1>7, <1>9 DEF y, c, K

LEMMA TallerIs ==
    ASSUME Sizes, NEW m, Good(m), NEW b, Root(m, b), NEW e, e \in Nat,
           NEW r, r = Taller(m, e, b)
    PROVE  /\ r \in Results
           /\ Grown(m, b, r.heap, r.node, e)
           /\ r.heap[r.node].height = m[b].height + 1
<1> DEFINE A == AsHeap(m)
           h == m[b].height
           y == Top(m, b)
           o == r.heap
           c == r.node
           v == Vec(m, b)
           q == [P!Blank EXCEPT !.used = A[b].used, !.kids = P!With(@, 0, b)]
           up == P!Own(A, e, P!Nil, q)
           t == P!Taller(A, e, v)
<1>1. m \in Heaps /\ Nil \in Nat /\ A \in P!Heap(Marks) /\ P!Closed(A)
  BY GoodIs, NilIs
<1>2. y \in BNode /\ Fits(m, y) /\ y.height = h + 1
      /\ AsNode(y) = P!Relinked(P!Blank, m[b].count, P!With(<< >>, 0, b))
  BY TopIs DEF Root
<1>3. r = Own(m, e, Nil, y)
  BY DEF Taller, Top
<1>4. q = AsNode(y)
  <2>1. A[b].used = m[b].count
    BY <1>1, HeapIs, AsNodeIs DEF Root
  <2>2. q = P!Relinked(P!Blank, A[b].used, P!With(<< >>, 0, b))
    BY DEF P!Relinked, P!Blank
  <2> HIDE DEF q, A
  <2> QED BY <1>2, <2>1, <2>2
<1>5. b # P!Nil /\ v.root = b /\ v.height = h /\ P!IsVec(A, v)
  BY RootIs, NilIs
<1>6. t.heap = up.heap /\ t.vec = [root |-> up.node, height |-> h + 1]
  <2> HIDE DEF v
  <2> QED BY <1>5 DEF P!Taller
<1> HIDE DEF q, A, y, v, t, o, c, h
<1>7. r \in Results
  BY <1>1, <1>2, <1>3, OwnResult
<1>8. Stands(r, up)
  BY <1>1, <1>2, <1>3, <1>4, NilIs, OwnIs DEF A
<1>9. Good(o) /\ SameHeights(m, o) /\ IsTree(r, h + 1, y.count)
  <2> DEFINE K == h + 1
  <2> HIDE DEF K
  <2>1. y.height = K
    BY <1>2 DEF K
  <2>2. Good(r.heap) /\ SameHeights(m, r.heap) /\ IsTree(r, y.height, y.count)
    BY <1>1, <1>2, <1>3, OwnGood
  <2> QED BY <2>1, <2>2 DEF o, K
<1>10. c # Nil /\ c \in DOMAIN o /\ o[c].height = h + 1
  BY <1>9 DEF IsTree, o, c
<1>11. t.heap = AsHeap(o) /\ t.vec = Vec(o, c)
  <2>1. up.heap = AsHeap(o) /\ up.node = c
    BY <1>8 DEF Stands, o, c
  <2> QED BY <1>6, <1>10, <2>1 DEF Vec
<1>12. P!GrownOk(A, v, t.heap, t.vec, e)
  BY <1>1, <1>5, SizesAre, MarksAre, P!TallerOk DEF t
<1>13. P!GrownOk(A, v, AsHeap(o), Vec(o, c), e)
  BY <1>11, <1>12
<1>14. Root(o, c)
  <2>1. P!IsVec(AsHeap(o), Vec(o, c))
    BY <1>13 DEF P!GrownOk
  <2>2. c \in P!Whole(AsHeap(o), o[c].height)
    BY <1>10, <2>1, NilIs DEF P!IsVec, Vec
  <2> QED BY <1>10, <2>2 DEF Root, Tree
<1> QED BY <1>7, <1>9, <1>10, <1>13, <1>14 DEF Grown, A, v, o, c, h

\* grow is the levels of Raised, all in T.
Rises(m, e, b, T, grow) ==
    /\ grow \in [Nat -> T]
    /\ grow[0] = [heap |-> m, node |-> b]
    /\ \A k \in Nat : grow[k + 1] = Taller(grow[k].heap, e, grow[k].node)
    /\ \A d \in Nat : Raised(m, e, b, d) = grow[d]

LEMMA RaisedUnfold ==
    ASSUME NEW m, NEW e, NEW b, NEW T, [heap |-> m, node |-> b] \in T,
           \A g \in T : Taller(g.heap, e, g.node) \in T
    PROVE  \E grow : Rises(m, e, b, T, grow)
<1> DEFINE Z == [heap |-> m, node |-> b]
           N(g) == Taller(g.heap, e, g.node)
           E(f) == [k \in Nat |-> IF k = 0 THEN [heap |-> m, node |-> b]
                                  ELSE Taller(f[k - 1].heap, e, f[k - 1].node)]
           grow == CHOOSE f : f = E(f)
           G == [p \in Nat \X T |-> N(p[2])]
<1>1. Z \in T /\ \A g \in T : N(g) \in T
  OBVIOUS
<1> HIDE DEF Z, N
<1>2. PICK f : f \in [Nat -> T] /\ f = E(f)
  <2>1. G \in [Nat \X T -> T]
    BY <1>1
  <2>2. \A k \in Nat, g \in T : G[<<k, g>>] = N(g)
    OBVIOUS
  <2> HIDE DEF G
  <2>3. PICK f : P!Follows(f, T, Z, G)
    BY <1>1, <2>1, P!RecursionExists DEF P!Recursive
  <2>4. f \in [Nat -> T] /\ f[0] = Z /\ \A k \in Nat : f[k + 1] = N(f[k])
    BY <2>2, <2>3 DEF P!Follows
  <2>5. ASSUME NEW k \in Nat PROVE f[k] = E(f)[k]
    <3>1. CASE k = 0
      BY <2>4, <3>1 DEF Z
    <3>2. CASE k # 0
      <4>1. k - 1 \in Nat /\ (k - 1) + 1 = k
        BY <3>2
      <4>2. f[k] = N(f[k - 1])
        BY <2>4, <4>1
      <4> QED BY <3>2, <4>2 DEF N
    <3> QED BY <3>1, <3>2
  <2>6. f = E(f)
    BY <2>4, <2>5
  <2> QED BY <2>4, <2>6
<1>3. grow = E(grow)
  BY <1>2
<1>4. \A d \in Nat : Raised(m, e, b, d) = grow[d]
  BY DEF Raised
<1> HIDE DEF grow
<1>5. grow[0] = Z /\ \A k \in Nat : grow[k + 1] = N(grow[k])
  <2>1. \A k \in Nat : k + 1 \in Nat /\ k + 1 # 0 /\ (k + 1) - 1 = k
    OBVIOUS
  <2>2. grow[0] = Z
    BY <1>3 DEF Z
  <2>3. \A k \in Nat : grow[k + 1] = Taller(grow[k].heap, e, grow[k].node)
    BY <1>3, <2>1
  <2> QED BY <2>2, <2>3 DEF N
<1> DEFINE S == {k \in Nat : grow[k] \in T}
<1>6. \A k \in Nat : k \in S
  <2>1. 0 \in S
    BY <1>1, <1>5
  <2>2. ASSUME NEW k \in S PROVE k + 1 \in S
    BY <1>1, <1>5
  <2> HIDE DEF S
  <2>3. S \in SUBSET Nat
    BY DEF S
  <2> QED BY <2>1, <2>2, <2>3, P!SetInduction
<1>7. grow = [k \in Nat |-> grow[k]]
  BY <1>3
<1>8. grow \in [Nat -> T]
  BY <1>6, <1>7
<1> QED BY <1>4, <1>5, <1>8 DEF Rises, Z, N

LEMMA RaisedIs ==
    ASSUME Sizes, NEW m, Good(m), NEW b, Root(m, b), NEW e, e \in Nat, NEW d, d \in Nat,
           NEW r, r = Raised(m, e, b, d)
    PROVE  /\ r \in Results
           /\ Grown(m, b, r.heap, r.node, e)
           /\ r.heap[r.node].height = m[b].height + d
<1> DEFINE Z == [heap |-> m, node |-> b]
           N(g) == Taller(g.heap, e, g.node)
           T == {g \in Results : Grown(m, b, g.heap, g.node, e)}
           h == m[b].height
<1>1. h \in Nat
  BY RootIs
<1>2. Z \in T /\ Z.heap[Z.node].height = h
  <2>1. Z \in Results
    BY GoodIs, ResultIs DEF Root
  <2>2. Z.heap = m /\ Z.node = b
    OBVIOUS
  <2>3. Grown(m, b, m, b, e)
    BY GrownNot
  <2> HIDE DEF Z
  <2> QED BY <2>1, <2>2, <2>3
<1>3. ASSUME NEW g \in T
      PROVE  /\ N(g) \in T
             /\ N(g).heap[N(g).node].height = g.heap[g.node].height + 1
  <2> DEFINE o == g.heap
             c == g.node
             t == N(g)
             p == t.heap
             top == t.node
  <2>1. Grown(m, b, o, c, e) /\ t = Taller(o, e, c)
    OBVIOUS
  <2> HIDE DEF o, c, t
  <2>2. Good(o) /\ Root(o, c)
    BY <2>1 DEF Grown
  <2>3. t \in Results /\ Grown(o, c, p, top, e) /\ p[top].height = o[c].height + 1
    BY <2>1, <2>2, TallerIs
  <2> HIDE DEF p, top
  <2>4. Grown(m, b, p, top, e)
    BY <2>1, <2>3, GrownTwice
  <2>5. t \in T
    BY <2>3, <2>4 DEF p, top
  <2> QED BY <2>3, <2>5 DEF p, top, t, o, c
<1>4. PICK grow : Rises(m, e, b, T, grow)
  <2>1. [heap |-> m, node |-> b] \in T /\ \A g \in T : Taller(g.heap, e, g.node) \in T
    BY <1>2, <1>3
  <2> HIDE DEF T
  <2> QED BY <2>1, RaisedUnfold
<1>5. r = grow[d]
  BY <1>4 DEF Rises
<1>6. grow[0] = Z /\ \A k \in Nat : grow[k + 1] = N(grow[k])
  BY <1>4 DEF Rises
<1>7. \A k \in Nat : grow[k] \in T
  BY <1>4 DEF Rises
<1> HIDE DEF T, Z, N
<1> DEFINE S == {k \in Nat : grow[k] \in T /\ grow[k].heap[grow[k].node].height = h + k}
<1>8. \A k \in Nat : k \in S
  <2>1. 0 \in S
    BY <1>1, <1>2, <1>6
  <2>2. ASSUME NEW k \in S PROVE k + 1 \in S
    <3>1. k \in Nat /\ k + 1 \in Nat /\ h + (k + 1) = (h + k) + 1
      BY <1>1
    <3>2. grow[k + 1] = N(grow[k])
      BY <1>6
    <3>3. grow[k] \in T /\ grow[k].heap[grow[k].node].height = h + k
      OBVIOUS
    <3>4. N(grow[k]) \in T /\ N(grow[k]).heap[N(grow[k]).node].height = (h + k) + 1
      BY <1>3, <3>3
    <3> QED BY <3>1, <3>2, <3>4
  <2> HIDE DEF S
  <2>3. S \in SUBSET Nat
    BY DEF S
  <2> QED BY <2>1, <2>2, <2>3, P!SetInduction
<1>9. ASSUME NEW k \in Nat, r = grow[k]
      PROVE  /\ r \in Results
             /\ Grown(m, b, r.heap, r.node, e)
             /\ r.heap[r.node].height = h + k
  BY <1>8, <1>9 DEF T
<1> QED BY <1>5, <1>9

LEMMA GrowIs ==
    ASSUME Sizes, NEW m, Good(m), NEW b, Root(m, b), NEW e, e \in Nat, NEW i, i \in Nat,
           NEW r, r = Grow(m, e, b, i)
    PROVE  /\ r \in Results
           /\ Grown(m, b, r.heap, r.node, e)
           /\ r.heap[r.node].height =
                 IF m[b].height < HeightFor(i) THEN HeightFor(i) ELSE m[b].height
<1> DEFINE h == m[b].height
           H == HeightFor(i)
           d == IF h < H THEN H - h ELSE 0
<1>1. h \in Nat /\ H \in Nat
  BY RootIs, HeightForIs
<1>2. d \in Nat
  BY <1>1
<1>3. h + d = IF h < H THEN H ELSE h
  BY <1>1
<1>4. r = Raised(m, e, b, d)
  BY DEF Grow
<1> HIDE DEF d, H
<1>5. r \in Results /\ Grown(m, b, r.heap, r.node, e) /\ r.heap[r.node].height = m[b].height + d
  BY <1>2, <1>4, RaisedIs
<1>6. r.heap[r.node].height = IF h < H THEN H ELSE h
  BY <1>3, <1>5, Zenon
<1> QED BY <1>5, <1>6 DEF H

----------------------------------------------------------------------------
(* Bitmaps that come of writing.                                           *)

\* c of o, a bitmap or Nil, comes of writing with epoch e to b of m: of the nodes
\* there were, only those of b and of that epoch are overwritten, and the nodes
\* of c are nodes of b or new.
Comes(m, b, o, c, e) ==
    /\ Good(o) /\ SameHeights(m, o)
    /\ c = Nil \/ Root(o, c)
    /\ P!Wrote(m, o, e, Nodes(m, b))
    /\ Nodes(o, c) \subseteq Nodes(m, b) \cup (DOMAIN o \ DOMAIN m)

LEMMA ComesNot ==
    ASSUME NEW m, Good(m), NEW b, b = Nil \/ Root(m, b), NEW e
    PROVE  Comes(m, b, m, b, e)
BY DEF Comes, SameHeights, P!Wrote

LEMMA ComesTwice ==
    ASSUME NEW m, NEW b, NEW o, NEW c, NEW p, NEW d, NEW e,
           Comes(m, b, o, c, e), Comes(o, c, p, d, e)
    PROVE  Comes(m, b, p, d, e)
<1>1. SameHeights(m, p)
  BY DEF Comes, SameHeights
<1>2. DOMAIN m \subseteq DOMAIN o /\ DOMAIN o \subseteq DOMAIN p
  BY DEF Comes, SameHeights
<1>3. Nodes(p, d) \subseteq Nodes(m, b) \cup (DOMAIN p \ DOMAIN m)
  BY <1>2 DEF Comes
<1>4. ASSUME NEW y \in DOMAIN p
      PROVE  \/ y \in DOMAIN m /\ p[y] = m[y]
             \/ p[y].epoch = e /\ (y \in DOMAIN m => y \in Nodes(m, b) /\ m[y].epoch = e)
  <2>1. \/ y \in DOMAIN o /\ p[y] = o[y]
        \/ p[y].epoch = e /\ (y \in DOMAIN o => y \in Nodes(o, c) /\ o[y].epoch = e)
    BY DEF Comes, P!Wrote
  <2>2. y \in DOMAIN o =>
           \/ y \in DOMAIN m /\ o[y] = m[y]
           \/ o[y].epoch = e /\ (y \in DOMAIN m => y \in Nodes(m, b) /\ m[y].epoch = e)
    BY DEF Comes, P!Wrote
  <2>3. y \in DOMAIN m /\ y \in Nodes(o, c) => y \in Nodes(m, b)
    BY DEF Comes
  <2> QED BY <1>2, <2>1, <2>2, <2>3
<1>5. P!Wrote(m, p, e, Nodes(m, b))
  BY <1>2, <1>4 DEF P!Wrote
<1> QED BY <1>1, <1>3, <1>5 DEF Comes

LEMMA RootNodes ==
    ASSUME NEW m, Good(m), NEW b, NEW k, Tree(m, b, k), b # Nil => b \in DOMAIN m, k \in Nat
    PROVE  Nodes(m, b) = P!Nodes(AsHeap(m), b, k)
<1>1. m \in Heaps /\ P!Closed(m) /\ AsHeap(m) \in P!Heap(Marks) /\ P!Closed(AsHeap(m))
  BY GoodIs
<1>2. P!Nodes(AsHeap(m), Nil, k) = {}
  BY <1>1, NilIs, P!NodesUnfold
<1>3. b # Nil => m[b].height = k
  BY DEF Tree
<1> QED BY <1>1, <1>2, <1>3, NodesAre

LEMMA RewrittenIs ==
    ASSUME Sizes, NEW m, Good(m), NEW k, k \in Nat, NEW n, Tree(m, n, k), NEW e,
           NEW r, Rewritten(m, n, k, r, e)
    PROVE  /\ Comes(m, n, r.heap, r.node, e)
           /\ r.node # Nil => r.heap[r.node].height = k
<1> DEFINE o == r.heap
           c == r.node
<1>1. /\ Good(o) /\ SameHeights(m, o) /\ Tree(o, c, k)
      /\ P!Wrote(m, o, e, P!Nodes(AsHeap(m), n, k))
      /\ P!Nodes(AsHeap(o), c, k) \subseteq
            P!Nodes(AsHeap(m), n, k) \cup (DOMAIN o \ DOMAIN m)
  BY DEF Rewritten
<1> HIDE DEF o, c
<1>2. n \in DOMAIN m \cup {Nil} /\ c \in DOMAIN o \cup {Nil} /\ (c # Nil => o[c].height = k)
  BY <1>1, TreeIs
<1>3. Nodes(m, n) = P!Nodes(AsHeap(m), n, k) /\ Nodes(o, c) = P!Nodes(AsHeap(o), c, k)
  BY <1>1, <1>2, RootNodes
<1>4. c = Nil \/ Root(o, c)
  BY <1>1, <1>2 DEF Root
<1> QED BY <1>1, <1>2, <1>3, <1>4 DEF Comes, o, c

LEMMA GrownComes ==
    ASSUME Sizes, NEW m, Good(m), NEW b, Root(m, b), NEW o, NEW c, NEW e, Grown(m, b, o, c, e)
    PROVE  /\ Comes(m, b, o, c, e)
           /\ \A j \in Nat : Has(o, c, j) <=> Has(m, b, j)
<1> DEFINE A == AsHeap(m)
           O == AsHeap(o)
           v == Vec(m, b)
           w == Vec(o, c)
<1>1. Good(o) /\ SameHeights(m, o) /\ Root(o, c) /\ P!GrownOk(A, v, O, w, e)
  BY DEF Grown
<1>2. /\ m[b].height \in Nat /\ v.root = b /\ v.height = m[b].height
      /\ \A j \in Nat : P!Get(A, v, j) = IF Has(m, b, j) THEN Yes ELSE No
  BY RootIs
<1>3. /\ o[c].height \in Nat /\ w.root = c /\ w.height = o[c].height
      /\ \A j \in Nat : P!Get(O, w, j) = IF Has(o, c, j) THEN Yes ELSE No
  BY <1>1, RootIs
<1> HIDE DEF A, O, v, w
<1>4. /\ P!Wrote(A, O, e, {})
      /\ P!Nodes(O, c, o[c].height) \subseteq P!Nodes(A, b, m[b].height) \cup (DOMAIN O \ DOMAIN A)
      /\ \A j \in Nat : P!Get(O, w, j) = P!Get(A, v, j)
  BY <1>1, <1>2, <1>3 DEF P!GrownOk
<1>5. P!Wrote(m, o, e, {})
  BY <1>1, <1>4, WroteIs DEF A, O
<1>6. P!Wrote(m, o, e, Nodes(m, b))
  BY <1>5 DEF P!Wrote
<1>7. Nodes(m, b) = P!Nodes(A, b, m[b].height) /\ Nodes(o, c) = P!Nodes(O, c, o[c].height)
  BY <1>1, <1>2, <1>3, RootNodes DEF Root, A, O
<1>8. DOMAIN A = DOMAIN m /\ DOMAIN O = DOMAIN o
  BY <1>1, GoodIs DEF A, O
<1>9. Comes(m, b, o, c, e)
  BY <1>1, <1>4, <1>6, <1>7, <1>8 DEF Comes
<1>10. ASSUME NEW j \in Nat PROVE Has(o, c, j) <=> Has(m, b, j)
  <2>1. P!Get(O, w, j) = P!Get(A, v, j)
    BY <1>4
  <2> QED BY <1>2, <1>3, <2>1, MarksAre
<1> QED BY <1>9, <1>10

LEMMA NilHasNone ==
    ASSUME Sizes, NEW m, Good(m), NEW k, k \in Nat, NEW j, j \in Nat
    PROVE  ~ HasBelow(m, Nil, k, j)
<1>1. m \in Heaps /\ P!Closed(m) /\ AsHeap(m) \in P!Heap(Marks) /\ P!Closed(AsHeap(m))
      /\ No \in Marks
  BY GoodIs
<1>2. P!GetBelow(AsHeap(m), Nil, k, j) = No
  BY <1>1, SizesAre, NilIs, P!GetUnfold
<1>3. P!GetBelow(AsHeap(m), Nil, k, j) = IF HasBelow(m, Nil, k, j) THEN Yes ELSE No
  BY <1>1, HasIs
<1> QED BY <1>2, <1>3, MarksAre

LEMMA HasAt ==
    ASSUME Sizes, NEW m, Good(m), NEW k, k \in Nat, NEW n, Tree(m, n, k), NEW j, j \in Nat
    PROVE  Has(m, n, j) <=> j < Span(k) /\ HasBelow(m, n, k, j)
<1>1. CASE n = Nil
  <2>1. ~ HasBelow(m, Nil, k, j)
    BY NilHasNone
  <2> QED BY <1>1, <2>1 DEF Has
<1>2. CASE n # Nil
  BY <1>2 DEF Has, Tree
<1> QED BY <1>1, <1>2

LEMMA PlacesAre ==
    ASSUME Sizes, NEW k, k \in Nat, NEW i, i \in Nat, i < Span(k), NEW j, j \in Nat, j < Span(k)
    PROVE  P!SamePlace(k, i, j) <=> j = i
<1>1. P!Span(k) = Span(k)
  BY SpanIs
<1>2. i % P!Span(k) = i /\ j % P!Span(k) = j
  BY <1>1, SizesAre, P!PlaceIn
<1> QED BY <1>2 DEF P!SamePlace

\* The result r is n of m, of height k, and i.
Adds(m, n, k, e, i, r) ==
    /\ Comes(m, n, r.heap, r.node, e)
    /\ r.node # Nil /\ r.heap[r.node].height = k
    /\ \A j \in Nat : Has(r.heap, r.node, j) <=> j = i \/ Has(m, n, j)

LEMMA PutAdds ==
    ASSUME Sizes, NEW m, Good(m), NEW e, e \in Nat, NEW i, i \in Nat, NEW k, k \in Nat,
           NEW n, Tree(m, n, k), i < Span(k), ~ Has(m, n, i)
    PROVE  Adds(m, n, k, e, i, Put(m, e, n, k, i))
<1> DEFINE r == Put(m, e, n, k, i)
           o == r.heap
           c == r.node
<1>1. ~ HasBelow(m, n, k, i)
  BY HasAt
<1>2. /\ Rewritten(m, n, k, r, e) /\ c # Nil
      /\ \A j \in Nat : HasBelow(o, c, k, j) <=> P!SamePlace(k, i, j) \/ HasBelow(m, n, k, j)
  <2>1. r = Put(m, e, n, k, i)
    OBVIOUS
  <2> HIDE DEF r
  <2> QED BY <1>1, <2>1, PutDone
<1> HIDE DEF r
<1>3. Comes(m, n, o, c, e) /\ o[c].height = k
  <2>1. Rewritten(m, n, k, r, e)
    BY <1>2
  <2> QED BY <1>2, <2>1, RewrittenIs
<1>4. Good(o) /\ Tree(o, c, k)
  BY <1>2 DEF Rewritten
<1> HIDE DEF o, c
<1>5. ASSUME NEW j \in Nat PROVE Has(o, c, j) <=> j = i \/ Has(m, n, j)
  <2>1. /\ Has(o, c, j) <=> j < Span(k) /\ HasBelow(o, c, k, j)
        /\ Has(m, n, j) <=> j < Span(k) /\ HasBelow(m, n, k, j)
    BY <1>4, HasAt
  <2>2. HasBelow(o, c, k, j) <=> P!SamePlace(k, i, j) \/ HasBelow(m, n, k, j)
    BY <1>2
  <2>3. j < Span(k) => (P!SamePlace(k, i, j) <=> j = i)
    BY PlacesAre
  <2> QED BY <2>1, <2>2, <2>3
<1> QED BY <1>2, <1>3, <1>5 DEF Adds, r, o, c

LEMMA TakeRemoves ==
    ASSUME Sizes, NEW m, Good(m), NEW e, e \in Nat, NEW i, i \in Nat, NEW k, k \in Nat,
           NEW n, Tree(m, n, k), Has(m, n, i),
           NEW r, r = Take(m, e, n, k, i)
    PROVE  /\ Comes(m, n, r.heap, r.node, e)
           /\ r.node # Nil => r.heap[r.node].height = k
           /\ \A j \in Nat : Has(r.heap, r.node, j) <=> j # i /\ Has(m, n, j)
<1> DEFINE o == r.heap
           c == r.node
<1>1. i < Span(k) /\ HasBelow(m, n, k, i)
  BY HasAt
<1>2. /\ Rewritten(m, n, k, r, e)
      /\ \A j \in Nat : HasBelow(o, c, k, j) <=> ~ P!SamePlace(k, i, j) /\ HasBelow(m, n, k, j)
  BY <1>1, TakeDone
<1>3. Comes(m, n, o, c, e) /\ (c # Nil => o[c].height = k)
  <2>1. Rewritten(m, n, k, r, e)
    BY <1>2
  <2> QED BY <2>1, RewrittenIs
<1>4. Good(o) /\ Tree(o, c, k)
  BY <1>2 DEF Rewritten
<1> HIDE DEF o, c
<1>5. ASSUME NEW j \in Nat PROVE Has(o, c, j) <=> j # i /\ Has(m, n, j)
  <2>1. /\ Has(o, c, j) <=> j < Span(k) /\ HasBelow(o, c, k, j)
        /\ Has(m, n, j) <=> j < Span(k) /\ HasBelow(m, n, k, j)
    BY <1>4, HasAt
  <2>2. HasBelow(o, c, k, j) <=> ~ P!SamePlace(k, i, j) /\ HasBelow(m, n, k, j)
    BY <1>2
  <2>3. j < Span(k) => (P!SamePlace(k, i, j) <=> j = i)
    BY <1>1, PlacesAre
  <2> QED BY <2>1, <2>2, <2>3
<1> QED BY <1>3, <1>5 DEF o, c

\* The root of m is no higher than its ids need.
Low(m, b) ==
    m[b].height = 0 \/ \E j \in Nat : Has(m, b, j) /\ ~ (j < Span(m[b].height - 1))

\* Bitmaps: trees, none of whose nodes is empty or counts wrong, and no level to
\* spare; or Nil.
IsBitmap(m, b) == b = Nil \/ (Root(m, b) /\ Low(m, b))

LEMMA SpanMonotone ==
    ASSUME Sizes
    PROVE  \A h, k \in Nat : h <= k => Span(h) <= Span(k)
BY SizesAre, SpanIs, P!SpanMonotone

\* Set adds an id, and nothing else: the bitmap it makes has the ids of the old
\* one and i, is as low as they allow, counts them, and was written over nodes of
\* the old one that the writer owns, if over any (bitmap.go: Set, set, branch,
\* grow).
THEOREM SetAdds ==
    ASSUME Sizes, NEW m, Good(m), NEW e, e \in Nat, NEW b, IsBitmap(m, b),
           NEW i, i \in Nat, NEW r, r = Set(m, e, b, i)
    PROVE  /\ Comes(m, b, r.heap, r.node, e)
           /\ IsBitmap(r.heap, r.node)
           /\ \A j \in Nat : Has(r.heap, r.node, j) <=> j = i \/ Has(m, b, j)
<1> DEFINE H == HeightFor(i)
<1>1. H \in Nat /\ i < Span(H) /\ \A k \in Nat : i < Span(k) => H <= k
  BY HeightForIs
<1>2. H # 0 => ~ (i < Span(H - 1))
  <2> SUFFICES ASSUME H # 0, i < Span(H - 1) PROVE FALSE
    OBVIOUS
  <2> HIDE DEF H
  <2>1. H - 1 \in Nat /\ ~ (H <= H - 1)
    BY <1>1
  <2> QED BY <1>1, <2>1
<1> HIDE DEF H
<1>3. CASE Has(m, b, i)
  <2>1. r.heap = m /\ r.node = b
    BY <1>3 DEF Set
  <2>2. Comes(m, b, m, b, e)
    BY ComesNot DEF IsBitmap
  <2> QED BY <1>3, <2>1, <2>2
<1>4. CASE ~ Has(m, b, i) /\ b = Nil
  <2>1. r = Put(m, e, b, H, i) /\ Tree(m, b, H)
    BY <1>4 DEF Set, H, Tree
  <2>2. /\ Comes(m, b, r.heap, r.node, e)
        /\ r.node # Nil /\ r.heap[r.node].height = H
        /\ \A j \in Nat : Has(r.heap, r.node, j) <=> j = i \/ Has(m, b, j)
    <3>1. Adds(m, b, H, e, i, Put(m, e, b, H, i))
      BY <1>1, <1>4, <2>1, PutAdds
    <3> QED BY <2>1, <3>1 DEF Adds
  <2>3. Root(r.heap, r.node)
    BY <2>2 DEF Comes
  <2>4. Has(r.heap, r.node, i)
    BY <2>2
  <2>5. Low(r.heap, r.node)
    BY <1>2, <2>2, <2>4 DEF Low
  <2> QED BY <2>2, <2>3, <2>5 DEF IsBitmap
<1>5. CASE ~ Has(m, b, i) /\ b # Nil
  <2> DEFINE g == Grow(m, e, b, i)
             h == g.heap
             x == g.node
             k == h[x].height
             old == m[b].height
             o == r.heap
             c == r.node
  <2>1. Root(m, b) /\ Low(m, b)
    BY <1>5 DEF IsBitmap
  <2>2. r = Put(h, e, x, k, i)
    BY <1>5 DEF Set, Stored
  <2>3. Grown(m, b, h, x, e) /\ k = IF old < H THEN H ELSE old
    BY <2>1, GrowIs DEF H
  <2>4. old \in Nat
    BY <2>1, RootIs
  <2> HIDE DEF h, x, k, old, o, c
  <2>5. /\ Comes(m, b, h, x, e) /\ Good(h)
        /\ \A j \in Nat : Has(h, x, j) <=> Has(m, b, j)
    BY <2>1, <2>3, GrownComes DEF Grown
  <2>6. k \in Nat /\ i < Span(k)
    <3>1. k \in Nat /\ H <= k
      BY <1>1, <2>3, <2>4
    <3>2. Span(H) <= Span(k) /\ Span(H) \in Nat /\ Span(k) \in Nat
      BY <1>1, <3>1, SpanMonotone, SizesAre, SpanIs, P!SpanIs
    <3> QED BY <1>1, <3>1, <3>2
  <2>7. Tree(h, x, k)
    BY <2>3 DEF Grown, Root, k
  <2>8. ~ Has(h, x, i)
    BY <1>5, <2>5
  <2>9. /\ Comes(h, x, o, c, e)
        /\ c # Nil /\ o[c].height = k
        /\ \A j \in Nat : Has(o, c, j) <=> j = i \/ Has(h, x, j)
    <3>1. Good(h)
      BY <2>5
    <3>2. Adds(h, x, k, e, i, Put(h, e, x, k, i))
      BY <2>6, <2>7, <2>8, <3>1, PutAdds
    <3>3. Adds(h, x, k, e, i, r)
      BY <2>2, <3>2
    <3> QED BY <3>3 DEF Adds, o, c
  <2>10. Comes(m, b, o, c, e)
    BY <2>5, <2>9, ComesTwice
  <2>11. \A j \in Nat : Has(o, c, j) <=> j = i \/ Has(m, b, j)
    BY <2>5, <2>9
  <2>12. Low(o, c)
    <3>1. CASE old < H
      <4>1. k = H /\ H # 0
        BY <1>1, <2>3, <2>4, <3>1
      <4>2. Has(o, c, i)
        BY <2>11
      <4> QED BY <1>2, <2>9, <4>1, <4>2 DEF Low
    <3>2. CASE ~ (old < H)
      <4>1. k = old
        BY <2>3, <3>2
      <4> QED BY <2>1, <2>9, <2>11, <4>1 DEF Low, old
    <3> QED BY <3>1, <3>2
  <2>13. Root(o, c)
    BY <2>9 DEF Comes
  <2> QED BY <2>10, <2>11, <2>12, <2>13 DEF IsBitmap, o, c
<1> QED BY <1>3, <1>4, <1>5

----------------------------------------------------------------------------
(* The levels that only lead to child 0.                                   *)

\* A tree counts the ids below it, and has some.
LEMMA NotEmpty ==
    ASSUME Sizes, NEW m, Good(m), NEW k, k \in Nat, NEW n, Tree(m, n, k), n # Nil
    PROVE  /\ n \in DOMAIN m
           /\ m[n].count = Cardinality({j \in Nat : Has(m, n, j)})
           /\ IsFiniteSet({j \in Nat : Has(m, n, j)})
           /\ \E j \in Nat : j < Span(k) /\ HasBelow(m, n, k, j)
<1> DEFINE A == AsHeap(m)
           F == P!Filled(A, n, k)
           I == {j \in Nat : Has(m, n, j)}
           top == Span(k) - 1
<1>1. /\ m \in Heaps /\ P!Closed(m) /\ A \in P!Heap(Marks) /\ P!Closed(A)
      /\ DOMAIN A = DOMAIN m
  BY GoodIs
<1>2. n \in DOMAIN m /\ n \in P!Whole(A, k) /\ NodeAt(m, n, k).count = P!Cardinality(F)
  <2>1. n \in P!Whole(A, k) /\ NodeAt(m, n, k).count = P!Cardinality(F) /\ n \in DOMAIN m \cup {Nil}
    BY TreeIs, NilIs
  <2> QED BY <2>1
<1>3. P!Exact(A, n, k)
  <2>1. CASE k = 0
    BY <1>2, <2>1, P!WholeUnfold
  <2>2. CASE k # 0
    <3>1. k - 1 \in Nat /\ (k - 1) + 1 = k
      BY <2>2
    <3>2. n \in P!Whole(A, (k - 1) + 1)
      BY <1>2, <3>1
    <3> QED BY <3>1, <3>2, P!WholeUnfold
  <2> QED BY <2>1, <2>2
<1>4. m[n].count = Cardinality(F) /\ m[n].count # 0
  <2>1. A[n].used = m[n].count
    BY <1>1, <1>2, HeapIs, AsNodeIs
  <2>2. P!Cardinality(F) = Cardinality(F)
    BY FiniteSetsAre
  <2> QED BY <1>3, <2>1, <2>2 DEF P!Exact
<1>5. top \in Nat /\ Span(k) = top + 1
  <2>1. Span(k) \in Nat \ {0}
    BY SpanIs
  <2> QED BY <2>1
<1>6. \A j : j \in F <=> j \in Nat /\ j < Span(k) /\ HasBelow(m, n, k, j)
  <2>1. \A j : j \in F <=> j \in 0..top /\ P!GetBelow(A, n, k, j) # No
    BY SpanIs DEF P!Filled
  <2>2. \A j \in Nat : P!GetBelow(A, n, k, j) # No <=> HasBelow(m, n, k, j)
    <3> SUFFICES ASSUME NEW j \in Nat
                 PROVE  P!GetBelow(A, n, k, j) # No <=> HasBelow(m, n, k, j)
      OBVIOUS
    <3>1. P!GetBelow(A, n, k, j) = IF HasBelow(m, n, k, j) THEN Yes ELSE No
      BY <1>1, <1>2, HasIs
    <3> QED BY <3>1, MarksAre
  <2> HIDE DEF F, A, top
  <2>3. \A j : j \in 0..top <=> j \in Nat /\ j < Span(k)
    BY <1>5
  <2> QED BY <2>1, <2>2, <2>3
<1> HIDE DEF F, A, top
<1>7. F = I
  <2>1. \A j \in Nat : Has(m, n, j) <=> j < Span(k) /\ HasBelow(m, n, k, j)
    BY HasAt
  <2>2. \A j : j \in I <=> j \in Nat /\ Has(m, n, j)
    OBVIOUS
  <2> HIDE DEF I
  <2>3. \A j : j \in F <=> j \in I
    BY <1>6, <2>1, <2>2
  <2> QED BY <2>3
<1>8. IsFiniteSet(F)
  <2>1. F \subseteq 0..top
    BY <1>5, <1>6
  <2>2. IsFiniteSet(0..top)
    BY <1>5, FS_Interval
  <2> QED BY <2>1, <2>2, FS_Subset
<1>9. F # {}
  BY <1>4, FS_EmptySet
<1>10. \E j \in Nat : j < Span(k) /\ HasBelow(m, n, k, j)
  BY <1>6, <1>9
<1> QED BY <1>2, <1>4, <1>7, <1>8, <1>10

\* c is the bitmap b without levels that say nothing.
Trimmed(m, b, c) ==
    /\ Root(m, c) /\ Low(m, c)
    /\ \A j \in Nat : Has(m, c, j) <=> Has(m, b, j)
    /\ Nodes(m, c) \subseteq Nodes(m, b)

\* low is the descent of Canonical.
Descends(m, low) ==
    /\ \A x \in DOMAIN m : low[0][x] = x
    /\ \A k \in Nat : \A x \in DOMAIN m :
          low[k + 1][x] = IF DOMAIN m[x].kids # {0} THEN x ELSE low[k][m[x].kids[0]]
    /\ \A b \in DOMAIN m : Canonical(m, b) = low[m[b].height][b]

LEMMA CanonicalUnfold ==
    ASSUME NEW m, Good(m)
    PROVE  Canonical(m, Nil) = Nil /\ \E low : Descends(m, low)
<1> DEFINE D == DOMAIN m
           Z == [x \in D |-> x]
           N(g) == [x \in D |-> IF DOMAIN m[x].kids # {0} THEN x ELSE g[m[x].kids[0]]]
           E(f) == [k \in Nat |->
                      [x \in D |-> IF k = 0 \/ DOMAIN m[x].kids # {0} THEN x
                                   ELSE f[k - 1][m[x].kids[0]]]]
           low == CHOOSE f : f = E(f)
           T == [D -> D]
           G == [p \in Nat \X T |-> N(p[2])]
<1>1. Nil \notin D /\ \A x \in D : DOMAIN m[x].kids = {0} => m[x].kids[0] \in D
  BY GoodIs DEF P!Closed
<1>2. ASSUME NEW f, NEW k \in Nat
      PROVE  E(f)[k] = IF k = 0 THEN Z ELSE N(f[k - 1])
  <2>1. CASE k = 0
    BY <2>1
  <2>2. CASE k # 0
    BY <2>2
  <2> QED BY <2>1, <2>2
<1>3. \E f : f = E(f)
  <2>1. Z \in T
    OBVIOUS
  <2>2. ASSUME NEW g \in T PROVE N(g) \in T
    BY <1>1
  <2> HIDE DEF N
  <2>3. G \in [Nat \X T -> T]
    BY <2>2
  <2>4. \A k \in Nat, g \in T : G[<<k, g>>] = N(g)
    OBVIOUS
  <2> HIDE DEF T, G, Z
  <2>5. PICK f : P!Follows(f, T, Z, G)
    BY <2>1, <2>3, P!RecursionExists DEF P!Recursive
  <2>6. f \in [Nat -> T] /\ f[0] = Z /\ \A k \in Nat : f[k + 1] = N(f[k])
    BY <2>4, <2>5 DEF P!Follows
  <2>7. ASSUME NEW k \in Nat PROVE f[k] = E(f)[k]
    <3> HIDE DEF E
    <3>1. CASE k = 0
      BY <1>2, <2>6, <3>1
    <3>2. CASE k # 0
      <4>1. k - 1 \in Nat /\ (k - 1) + 1 = k
        BY <3>2
      <4>2. f[k] = N(f[k - 1])
        BY <2>6, <4>1
      <4> QED BY <1>2, <3>2, <4>2
    <3> QED BY <3>1, <3>2
  <2>8. f = E(f)
    BY <2>6, <2>7
  <2> QED BY <2>8
<1>4. low = E(low)
  BY <1>3
<1>5. Canonical(m, Nil) = Nil /\ \A b \in D : Canonical(m, b) = low[m[b].height][b]
  BY <1>1 DEF Canonical
<1> HIDE DEF low, E
<1>6. low[0] = Z
  BY <1>2, <1>4
<1>7. ASSUME NEW k \in Nat PROVE low[k + 1] = N(low[k])
  <2>1. k + 1 \in Nat /\ k + 1 # 0 /\ (k + 1) - 1 = k
    OBVIOUS
  <2> HIDE DEF N
  <2>2. E(low)[k + 1] = N(low[k])
    BY <1>2, <2>1
  <2> QED BY <1>4, <2>2
<1>9. \A x \in DOMAIN m : low[0][x] = x
  BY <1>6
<1>10. \A k \in Nat : \A x \in DOMAIN m :
          low[k + 1][x] = IF DOMAIN m[x].kids # {0} THEN x ELSE low[k][m[x].kids[0]]
  BY <1>7
<1> HIDE DEF D, Z, N
<1>8. Descends(m, low)
  BY <1>5, <1>9, <1>10 DEF Descends, D
<1> QED BY <1>5, <1>8

\* A root with a child other than child 0 is as low as its ids allow.
LEMMA LevelKept ==
    ASSUME Sizes, NEW m, Good(m), NEW k, k \in Nat, NEW K, P!Over(K, k), NEW x, Tree(m, x, K),
           x # Nil, DOMAIN m[x].kids # {0}
    PROVE  Trimmed(m, x, x)
<1>1. /\ m \in Heaps /\ P!Closed(m) /\ Nil \notin DOMAIN m /\ Graded(m)
      /\ AsHeap(m) \in P!Heap(Marks) /\ P!Closed(AsHeap(m)) /\ No \in Marks
      /\ DOMAIN AsHeap(m) = DOMAIN m
  BY GoodIs DEF Good
<1>2. K \in Nat /\ K = k + 1 /\ K - 1 = k
  BY DEF P!Over
<1>3. x \in DOMAIN m /\ m[x].height = K /\ NodeAt(m, x, K) = m[x] /\ m[x] \in BNode
  <2>1. x \in DOMAIN m
    BY <1>2, NotEmpty
  <2> QED BY <1>1, <2>1, HeapIs DEF Tree, NodeAt
<1>4. DOMAIN m[x].kids # {}
  <2>1. PICK j \in Nat : HasBelow(m, x, K, j)
    BY <1>2, NotEmpty
  <2> DEFINE c == Kid(NodeAt(m, x, K), Slot(j, K))
  <2>2. HasBelow(m, c, k, j) /\ Tree(m, c, k)
    BY <2>1, TreeKid
  <2> HIDE DEF c
  <2>3. c # Nil
    BY <2>2, NilHasNone
  <2> QED BY <1>3, <2>3 DEF c, Kid
<1>5. PICK s \in DOMAIN m[x].kids : s # 0
  BY <1>4
<1> DEFINE c == m[x].kids[s]
<1>6. s \in Nat /\ s < Fan /\ c \in DOMAIN m
  <2>1. DOMAIN m[x].kids \subseteq Nat
    BY <1>3, NodeIs, P!MapIs
  <2> QED BY <1>1, <1>3, <1>5, <2>1 DEF Graded, P!Closed
<1>7. Kid(NodeAt(m, x, K), s) = c /\ Tree(m, c, k) /\ c # Nil
  <2>1. Kid(NodeAt(m, x, K), s) = c
    BY <1>3, <1>5 DEF Kid
  <2> QED BY <1>1, <1>6, <2>1, TreeKid
<1> HIDE DEF c
<1>8. PICK j \in Nat : HasBelow(m, c, k, j)
  BY <1>7, NotEmpty
<1>9. PICK y \in Nat : /\ y < Span(K) /\ ~ (y < Span(k))
                       /\ Slot(y, K) = s /\ P!SamePlace(k, j, y)
  <2>1. \E y \in Nat : /\ y < P!Span(k + 1) /\ (s # 0 => ~ (y < P!Span(k)))
                       /\ P!SlotAt(k + 1, y) = s /\ P!SamePlace(k, j, y)
    BY <1>6, SizesAre, P!PlaceAt
  <2>2. k + 1 \in Nat /\ k + 1 # 0
    OBVIOUS
  <2> QED BY <1>2, <1>5, <2>1, <2>2, SpanIs
<1>10. HasBelow(m, c, k, y)
  <2>1. /\ P!GetBelow(AsHeap(m), c, k, j) = IF HasBelow(m, c, k, j) THEN Yes ELSE No
        /\ P!GetBelow(AsHeap(m), c, k, y) = IF HasBelow(m, c, k, y) THEN Yes ELSE No
    BY <1>1, <1>6, HasIs
  <2>2. c \in DOMAIN AsHeap(m) \cup {P!Nil}
    BY <1>1, <1>6
  <2>3. P!GetBelow(AsHeap(m), c, k, j) = P!GetBelow(AsHeap(m), c, k, y)
    BY <1>1, <1>9, <2>2, SizesAre, P!SameGet
  <2> QED BY <1>8, <2>1, <2>3, MarksAre
<1>11. HasBelow(m, x, K, y)
  BY <1>7, <1>9, <1>10, TreeKid
<1>12. Has(m, x, y)
  BY <1>2, <1>9, <1>11, HasAt
<1>13. Low(m, x)
  BY <1>2, <1>3, <1>9, <1>12 DEF Low
<1>14. Root(m, x)
  BY <1>3 DEF Root
<1> QED BY <1>13, <1>14 DEF Trimmed

\* Where child 0 is the only one, it has all the ids.
LEMMA LevelDropped ==
    ASSUME Sizes, NEW m, Good(m), NEW k, k \in Nat, NEW K, P!Over(K, k), NEW x, Tree(m, x, K),
           x # Nil, DOMAIN m[x].kids = {0}, NEW d, d = m[x].kids[0]
    PROVE  /\ d \in DOMAIN m /\ d # Nil /\ Tree(m, d, k)
           /\ \A j \in Nat : Has(m, d, j) <=> Has(m, x, j)
           /\ Nodes(m, d) \subseteq Nodes(m, x)
<1>1. /\ m \in Heaps /\ P!Closed(m) /\ Nil \notin DOMAIN m
      /\ AsHeap(m) \in P!Heap(Marks) /\ P!Closed(AsHeap(m)) /\ No \in Marks
      /\ DOMAIN AsHeap(m) = DOMAIN m
  BY GoodIs
<1>2. K \in Nat /\ K = k + 1
  BY DEF P!Over
<1>3. x \in DOMAIN m /\ NodeAt(m, x, K) = m[x]
  <2>1. x \in DOMAIN m
    BY <1>2, NotEmpty
  <2> QED BY <1>1, <2>1 DEF NodeAt
<1>4. d \in DOMAIN m /\ d # Nil
  BY <1>1, <1>3 DEF P!Closed
<1>5. \A s : Kid(NodeAt(m, x, K), s) = IF s = 0 THEN d ELSE Nil
  BY <1>3 DEF Kid
<1>6. Tree(m, d, k)
  BY <1>5, TreeKid
<1>7. ASSUME NEW j \in Nat PROVE Has(m, d, j) <=> Has(m, x, j)
  <2> DEFINE s == Slot(j, K)
  <2>1. Has(m, d, j) <=> j < Span(k) /\ HasBelow(m, d, k, j)
    BY <1>6, HasAt
  <2>2. Has(m, x, j) <=> j < Span(K) /\ HasBelow(m, x, K, j)
    BY <1>2, HasAt
  <2>3. HasBelow(m, x, K, j) <=> HasBelow(m, Kid(NodeAt(m, x, K), s), k, j)
    BY TreeKid
  <2>4. j < Span(K) => (s = 0 <=> j < Span(k))
    <3>1. j < P!Span(k + 1) => (P!SlotAt(k + 1, j) = 0 <=> j < P!Span(k))
      BY SizesAre, P!FirstSlot
    <3>2. k + 1 \in Nat /\ k + 1 # 0
      OBVIOUS
    <3> QED BY <1>2, <3>1, <3>2, SpanIs
  <2>5. Span(k) \in Nat /\ Span(K) \in Nat /\ Span(k) < Span(K)
    <3>1. P!Span(k) < P!Span(k + 1)
      BY SizesAre, P!SpanGrows
    <3> QED BY <1>2, <3>1, SpanIs
  <2>6. ~ HasBelow(m, Nil, k, j)
    BY NilHasNone
  <2> HIDE DEF s
  <2>7. CASE s = 0
    BY <1>5, <2>1, <2>2, <2>3, <2>4, <2>5, <2>7
  <2>8. CASE s # 0
    BY <1>5, <2>1, <2>2, <2>3, <2>4, <2>5, <2>6, <2>8
  <2> QED BY <2>7, <2>8
<1>8. Nodes(m, d) \subseteq Nodes(m, x)
  <2>1. Nodes(m, d) = P!Nodes(AsHeap(m), d, k) /\ Nodes(m, x) = P!Nodes(AsHeap(m), x, K)
    BY <1>2, <1>3, <1>4, <1>6, RootNodes
  <2>2. P!Nodes(AsHeap(m), x, k + 1) = {x} \cup P!Below(AsHeap(m), x, k)
    BY <1>1, <1>3, P!NodesUnfold
  <2>3. AsHeap(m)[x].kids = m[x].kids
    BY <1>1, <1>3, HeapIs, AsNodeIs
  <2>4. P!Nodes(AsHeap(m), d, k) \subseteq P!Below(AsHeap(m), x, k)
    BY <2>3 DEF P!Below
  <2> QED BY <1>2, <2>1, <2>2, <2>4
<1> QED BY <1>4, <1>6, <1>7, <1>8

LEMMA CanonicalIs ==
    ASSUME Sizes, NEW m, Good(m), NEW b, Root(m, b)
    PROVE  Trimmed(m, b, Canonical(m, b))
<1>1. PICK low : Descends(m, low)
  BY CanonicalUnfold
<1> DEFINE Q(k) == \A x : Tree(m, x, k) /\ x # Nil => Trimmed(m, x, low[k][x])
           S == {k \in Nat : Q(k)}
<1>2. 0 \in S
  <2>1. ASSUME NEW x, Tree(m, x, 0), x # Nil PROVE Trimmed(m, x, low[0][x])
    <3>1. x \in DOMAIN m /\ m[x].height = 0
      BY <2>1, NotEmpty DEF Tree
    <3>2. low[0][x] = x
      BY <1>1, <3>1 DEF Descends
    <3>3. Trimmed(m, x, x)
      BY <2>1, <3>1 DEF Trimmed, Root, Low
    <3> QED BY <3>2, <3>3
  <2> QED BY <2>1
<1>3. ASSUME NEW k \in S PROVE k + 1 \in S
  <2> DEFINE K == k + 1
  <2>1. k \in Nat /\ K \in Nat /\ P!Over(K, k) /\ Q(k)
    BY DEF P!Over
  <2>2. ASSUME NEW x, Tree(m, x, K), x # Nil PROVE Trimmed(m, x, low[K][x])
    <3>1. x \in DOMAIN m
      BY <2>1, <2>2, NotEmpty
    <3>2. low[K][x] = IF DOMAIN m[x].kids # {0} THEN x ELSE low[k][m[x].kids[0]]
      BY <1>1, <2>1, <3>1 DEF Descends
    <3> HIDE DEF K
    <3>3. CASE DOMAIN m[x].kids # {0}
      <4>1. Trimmed(m, x, x)
        BY <2>1, <2>2, <3>3, LevelKept
      <4> QED BY <3>2, <3>3, <4>1
    <3>4. CASE DOMAIN m[x].kids = {0}
      <4> DEFINE d == m[x].kids[0]
                 c == low[k][d]
      <4>1. d = m[x].kids[0]
        OBVIOUS
      <4> HIDE DEF d
      <4>2. /\ d # Nil /\ Tree(m, d, k)
            /\ \A j \in Nat : Has(m, d, j) <=> Has(m, x, j)
            /\ Nodes(m, d) \subseteq Nodes(m, x)
        BY <2>1, <2>2, <3>4, <4>1, LevelDropped
      <4>3. Trimmed(m, d, c)
        BY <2>1, <4>2
      <4> HIDE DEF c
      <4>4. Trimmed(m, x, c)
        BY <4>2, <4>3 DEF Trimmed
      <4> QED BY <3>2, <3>4, <4>1, <4>4 DEF c
    <3> QED BY <3>3, <3>4
  <2> QED BY <2>1, <2>2
<1> HIDE DEF S
<1>4. \A k \in Nat : k \in S
  <2>1. S \in SUBSET Nat
    BY DEF S
  <2> QED BY <1>2, <1>3, <2>1, P!SetInduction
<1>5. m[b].height \in Nat /\ b # Nil /\ Tree(m, b, m[b].height) /\ b \in DOMAIN m
  BY RootIs DEF Root
<1>6. Canonical(m, b) = low[m[b].height][b]
  BY <1>1, <1>5 DEF Descends
<1> QED BY <1>4, <1>5, <1>6 DEF S

\* Clear takes an id away, and nothing else: what is left has the ids of the old
\* bitmap but i, is as low as they allow or Nil, and was written over nodes of
\* the old one that the writer owns, if over any (bitmap.go: Clear, clear,
\* canonical).
THEOREM ClearTakes ==
    ASSUME Sizes, NEW m, Good(m), NEW e, e \in Nat, NEW b, IsBitmap(m, b),
           NEW i, i \in Nat, NEW r, r = Clear(m, e, b, i)
    PROVE  /\ Comes(m, b, r.heap, r.node, e)
           /\ IsBitmap(r.heap, r.node)
           /\ \A j \in Nat : Has(r.heap, r.node, j) <=> j # i /\ Has(m, b, j)
<1>1. CASE ~ Has(m, b, i)
  <2>1. r.heap = m /\ r.node = b
    BY <1>1 DEF Clear
  <2>2. Comes(m, b, m, b, e)
    BY ComesNot DEF IsBitmap
  <2> QED BY <1>1, <2>1, <2>2
<1>2. CASE Has(m, b, i)
  <2> DEFINE k == m[b].height
             left == Take(m, e, b, k, i)
             o == left.heap
             x == left.node
             c == Canonical(o, x)
  <2>1. Root(m, b)
    BY <1>2 DEF IsBitmap, Has
  <2>2. k \in Nat /\ Tree(m, b, k)
    BY <2>1, RootIs DEF Root
  <2>3. r.heap = o /\ r.node = c
    BY <1>2, StepsAre DEF Clear
  <2>4. left = Take(m, e, b, k, i)
    OBVIOUS
  <2> HIDE DEF k, left
  <2>5. /\ Comes(m, b, o, x, e)
        /\ \A j \in Nat : Has(o, x, j) <=> j # i /\ Has(m, b, j)
    BY <1>2, <2>2, <2>4, TakeRemoves
  <2> HIDE DEF o, x
  <2>6. Good(o) /\ (x = Nil \/ Root(o, x))
    BY <2>5 DEF Comes
  <2>7. CASE x = Nil
    <3>1. c = Nil
      BY <2>7 DEF Canonical
    <3> QED BY <2>3, <2>5, <2>7, <3>1 DEF IsBitmap
  <2>8. CASE x # Nil
    <3>1. Trimmed(o, x, c)
      BY <2>6, <2>8, CanonicalIs
    <3> HIDE DEF c
    <3>2. Comes(m, b, o, c, e)
      BY <2>5, <3>1 DEF Comes, Trimmed
    <3>3. IsBitmap(o, c)
      BY <3>1 DEF Trimmed, IsBitmap
    <3>4. \A j \in Nat : Has(o, c, j) <=> j # i /\ Has(m, b, j)
      BY <2>5, <3>1 DEF Trimmed
    <3> QED BY <2>3, <3>2, <3>3, <3>4
  <2> QED BY <2>7, <2>8
<1> QED BY <1>1, <1>2

\* Size, which reads the count of the root, is the number of ids (bitmap.go: Len).
THEOREM SizeExact ==
    ASSUME Sizes, NEW m, Good(m), NEW b, IsBitmap(m, b)
    PROVE  /\ IsFiniteSet({j \in Nat : Has(m, b, j)})
           /\ Size(m, b) = Cardinality({j \in Nat : Has(m, b, j)})
<1>1. CASE b = Nil
  <2>1. {j \in Nat : Has(m, b, j)} = {}
    BY <1>1 DEF Has
  <2> QED BY <1>1, <2>1, FS_EmptySet DEF Size
<1>2. CASE b # Nil
  <2>1. Root(m, b)
    BY <1>2 DEF IsBitmap
  <2>2. m[b].height \in Nat /\ Tree(m, b, m[b].height)
    BY <2>1, RootIs DEF Root
  <2> QED BY <1>2, <2>2, NotEmpty DEF Size
<1> QED BY <1>1, <1>2

LEMMA NodesExist ==
    ASSUME NEW m, Good(m), NEW b, b = Nil \/ Root(m, b)
    PROVE  Nodes(m, b) \subseteq DOMAIN m
<1>1. CASE b = Nil
  BY <1>1 DEF Nodes
<1>2. CASE b # Nil
  <2>1. Root(m, b)
    BY <1>2
  <2>2. b \in DOMAIN m /\ Tree(m, b, m[b].height) /\ m[b].height \in Nat
    BY <2>1, GoodIs, HeapIs, NodeIs DEF Root
  <2>3. Nodes(m, b) = P!Nodes(AsHeap(m), b, m[b].height)
    BY <2>2, RootNodes
  <2>4. P!Nodes(AsHeap(m), b, m[b].height) \subseteq DOMAIN AsHeap(m)
    BY <2>2, GoodIs, P!NodesIn
  <2> QED BY <2>3, <2>4, GoodIs
<1> QED BY <1>1, <1>2

\* A bitmap whose nodes are the same in another heap is the same there.
LEMMA SameBitmap ==
    ASSUME Sizes, NEW m, Good(m), NEW o, Good(o), NEW w, IsBitmap(m, w),
           \A x \in Nodes(m, w) : x \in DOMAIN o /\ o[x] = m[x]
    PROVE  /\ IsBitmap(o, w)
           /\ \A j \in Nat : Has(o, w, j) <=> Has(m, w, j)
           /\ Size(o, w) = Size(m, w)
           /\ Nodes(o, w) = Nodes(m, w)
<1> DEFINE A == AsHeap(m)
           O == AsHeap(o)
<1>3. CASE w = Nil
  BY <1>3 DEF IsBitmap, Has, Size, Nodes
<1>4. CASE w # Nil
  <2> DEFINE k == m[w].height
  <2>1. Root(m, w) /\ Low(m, w)
    BY <1>4 DEF IsBitmap
  <2>2. k \in Nat /\ w \in DOMAIN m /\ Tree(m, w, k)
    BY <2>1, RootIs DEF Root
  <2> HIDE DEF k
  <2>4. /\ A \in P!Heap(Marks) /\ O \in P!Heap(Marks) /\ P!Closed(A) /\ P!Closed(O)
        /\ DOMAIN A = DOMAIN m /\ DOMAIN O = DOMAIN o /\ No \in Marks
        /\ m \in Heaps /\ o \in Heaps /\ P!Closed(m) /\ P!Closed(o)
    BY GoodIs
  <2>5. Nodes(m, w) = P!Nodes(A, w, k)
    BY <2>2, RootNodes
  <2>6. P!Nodes(A, w, k) \subseteq DOMAIN m
    BY <2>2, <2>4, P!NodesIn
  <2>7. ASSUME NEW x \in P!Nodes(A, w, k) PROVE x \in DOMAIN O /\ O[x] = A[x]
    <3>1. x \in DOMAIN m
      BY <2>6
    <3>2. x \in DOMAIN o /\ o[x] = m[x]
      BY <2>5
    <3> QED BY <2>4, <3>1, <3>2, HeapIs
  <2>3. w \in DOMAIN o /\ o[w].height = k
    <3>1. w \in P!Nodes(A, w, k)
      BY <2>2, <2>4, P!OwnNode
    <3> QED BY <2>5, <3>1 DEF k
  <2> HIDE DEF A, O
  <2>8. P!Keeps(A, O, P!Nodes(A, w, k))
    BY <2>7 DEF P!Keeps
  <2>9. P!Same(A, O, w, k)
    BY <2>2, <2>4, <2>8, SizesAre, P!FrameIs
  <2>10. Tree(o, w, k)
    BY <1>4, <2>2, <2>3, <2>9 DEF P!Same, Tree, A, O
  <2>11. ASSUME NEW j \in Nat PROVE Has(o, w, j) <=> Has(m, w, j)
    <3>1. P!GetBelow(A, w, k, j) = IF HasBelow(m, w, k, j) THEN Yes ELSE No
      BY <2>2, <2>4, HasIs DEF A
    <3>2. P!GetBelow(O, w, k, j) = IF HasBelow(o, w, k, j) THEN Yes ELSE No
      BY <2>2, <2>3, <2>4, HasIs DEF O
    <3>3. P!GetBelow(O, w, k, j) = P!GetBelow(A, w, k, j)
      BY <2>9 DEF P!Same
    <3>4. HasBelow(o, w, k, j) <=> HasBelow(m, w, k, j)
      BY <3>1, <3>2, <3>3, MarksAre
    <3> QED BY <1>4, <2>3, <3>4 DEF Has, k
  <2>12. Root(o, w)
    BY <2>3, <2>10 DEF Root
  <2>13. Low(o, w)
    BY <2>1, <2>3, <2>11 DEF Low, k
  <2>14. Size(o, w) = Size(m, w)
    <3>1. {j \in Nat : Has(o, w, j)} = {j \in Nat : Has(m, w, j)}
      BY <2>11
    <3>2. IsBitmap(o, w)
      BY <2>12, <2>13 DEF IsBitmap
    <3> QED BY <3>1, <3>2, SizeExact
  <2>15. Nodes(o, w) = Nodes(m, w)
    <3>1. Nodes(o, w) = P!Nodes(O, w, k)
      BY <2>2, <2>3, <2>10, RootNodes DEF O
    <3> QED BY <2>5, <2>9, <3>1 DEF P!Same
  <2> QED BY <2>11, <2>12, <2>13, <2>14, <2>15 DEF IsBitmap
<1> QED BY <1>3, <1>4

\* A bitmap that has no node of the writer's epoch is after a Set or a Clear what
\* it was, whatever nodes it shares with the bitmap that was changed: the bitmaps
\* of snapshots, of row sets and of published versions are such bitmaps
\* (bitmap.go:121-124).
THEOREM OthersStay ==
    ASSUME Sizes, NEW m, Good(m), NEW e, e \in Nat, NEW b, IsBitmap(m, b),
           NEW i, i \in Nat, NEW r, r = Set(m, e, b, i) \/ r = Clear(m, e, b, i),
           NEW w, IsBitmap(m, w), \A x \in Nodes(m, w) : m[x].epoch # e
    PROVE  /\ IsBitmap(r.heap, w)
           /\ \A j \in Nat : Has(r.heap, w, j) <=> Has(m, w, j)
           /\ Size(r.heap, w) = Size(m, w)
           /\ Nodes(r.heap, w) = Nodes(m, w)
<1> DEFINE o == r.heap
<1>1. Comes(m, b, o, r.node, e)
  BY SetAdds, ClearTakes
<1> HIDE DEF o
<1>2. Good(o) /\ P!Wrote(m, o, e, Nodes(m, b))
  BY <1>1 DEF Comes
<1>3. Nodes(m, w) \subseteq DOMAIN m
  BY NodesExist DEF IsBitmap
<1>4. \A x \in Nodes(m, w) : x \in DOMAIN o /\ o[x] = m[x]
  BY <1>2, <1>3 DEF P!Wrote
<1> QED BY <1>2, <1>4, SameBitmap DEF o

----------------------------------------------------------------------------
(* Heaps that lose what nothing refers to.                                 *)

\* The children of a bitmap's nodes are its nodes.
LEMMA TreeClosed ==
    ASSUME Sizes, NEW m, Good(m)
    PROVE  \A k \in Nat : \A n : Tree(m, n, k) /\ n # Nil =>
              \A x \in P!Nodes(AsHeap(m), n, k) : \A s \in DOMAIN m[x].kids :
                  m[x].kids[s] \in P!Nodes(AsHeap(m), n, k)
<1> DEFINE A == AsHeap(m)
           N(n, k) == P!Nodes(A, n, k)
           Q(n, k) == \A x \in N(n, k) : \A s \in DOMAIN m[x].kids : m[x].kids[s] \in N(n, k)
           S == {k \in Nat : \A n : Tree(m, n, k) /\ n # Nil => Q(n, k)}
<1>1. /\ m \in Heaps /\ P!Closed(m) /\ Nil \notin DOMAIN m /\ Graded(m)
      /\ A \in P!Heap(Marks) /\ P!Closed(A) /\ No \in Marks
      /\ DOMAIN A = DOMAIN m
  BY GoodIs DEF Good
<1>2. \A x \in DOMAIN m : A[x].kids = m[x].kids
  BY <1>1, HeapIs, AsNodeIs
<1>3. /\ \A x \in DOMAIN m : N(x, 0) = {x}
      /\ \A k \in Nat, x \in DOMAIN m : N(x, k + 1) = {x} \cup P!Below(A, x, k)
      /\ \A k \in Nat : \A x \in DOMAIN m : x \in N(x, k)
  <2> HIDE DEF A
  <2> QED BY <1>1, P!NodesUnfold, P!OwnNode
<1> HIDE DEF A
<1>4. 0 \in S
  <2>1. ASSUME NEW n, Tree(m, n, 0), n # Nil PROVE Q(n, 0)
    <3>1. n \in DOMAIN m /\ m[n].height = 0
      BY <2>1, NotEmpty DEF Tree
    <3>2. \A s \in DOMAIN m[n].kids : m[m[n].kids[s]].height \in Nat
      BY <1>1, <3>1, HeapIs, NodeIs DEF P!Closed
    <3>3. DOMAIN m[n].kids = {}
      BY <1>1, <3>1, <3>2 DEF Graded
    <3> QED BY <1>3, <3>1, <3>3
  <2> HIDE DEF Q
  <2> QED BY <2>1
<1>5. ASSUME NEW k \in S PROVE k + 1 \in S
  <2> DEFINE K == k + 1
  <2>1. k \in Nat /\ K \in Nat /\ P!Over(K, k)
        /\ \A n : Tree(m, n, k) /\ n # Nil => Q(n, k)
    BY DEF P!Over
  <2>2. ASSUME NEW n, Tree(m, n, K), n # Nil PROVE Q(n, K)
    <3>1. n \in DOMAIN m /\ NodeAt(m, n, K) = m[n]
      <4>1. n \in DOMAIN m
        BY <2>1, <2>2, NotEmpty
      <4> QED BY <2>2, <4>1 DEF NodeAt
    <3>2. N(n, K) = {n} \cup P!Below(A, n, k)
      BY <1>3, <2>1, <3>1
    <3>3. ASSUME NEW s \in DOMAIN m[n].kids
          PROVE  /\ m[n].kids[s] \in DOMAIN m
                 /\ Tree(m, m[n].kids[s], k) /\ m[n].kids[s] # Nil
      <4>1. Kid(m[n], s) = m[n].kids[s] /\ m[n].kids[s] \in DOMAIN m
        BY <1>1, <3>1 DEF Kid, P!Closed
      <4>2. Tree(m, Kid(NodeAt(m, n, K), s), k)
        BY <2>1, <2>2, TreeKid
      <4> QED BY <1>1, <3>1, <4>1, <4>2
    <3>4. \A s \in DOMAIN m[n].kids : N(m[n].kids[s], k) \subseteq P!Below(A, n, k)
      BY <1>2, <3>1 DEF P!Below
    <3>5. \A y \in P!Below(A, n, k) : \E s \in DOMAIN m[n].kids : y \in N(m[n].kids[s], k)
      BY <1>2, <3>1 DEF P!Below
    <3>6. \A s \in DOMAIN m[n].kids : Q(m[n].kids[s], k)
      <4> HIDE DEF Q
      <4> QED BY <2>1, <3>3
    <3> HIDE DEF K, N
    <3> SUFFICES ASSUME NEW x \in N(n, K), NEW s \in DOMAIN m[x].kids
                 PROVE  m[x].kids[s] \in N(n, K)
      OBVIOUS
    <3>7. CASE x = n
      BY <1>3, <2>1, <3>2, <3>3, <3>4, <3>7
    <3>8. CASE x # n
      <4>1. PICK t \in DOMAIN m[n].kids : x \in N(m[n].kids[t], k)
        BY <3>2, <3>5, <3>8
      <4>2. m[x].kids[s] \in N(m[n].kids[t], k)
        BY <3>6, <4>1
      <4> QED BY <3>2, <3>4, <4>2
    <3> QED BY <3>7, <3>8
  <2> HIDE DEF Q
  <2> QED BY <2>1, <2>2
<1> HIDE DEF S
<1>6. \A k \in Nat : k \in S
  <2>1. S \in SUBSET Nat
    BY DEF S
  <2> QED BY <1>4, <1>5, <2>1, P!SetInduction
<1> QED BY <1>6 DEF S, A

LEMMA NodesClosed ==
    ASSUME Sizes, NEW m, Good(m), NEW b, IsBitmap(m, b)
    PROVE  \A x \in Nodes(m, b) : \A s \in DOMAIN m[x].kids : m[x].kids[s] \in Nodes(m, b)
<1>1. CASE b = Nil
  BY <1>1 DEF Nodes
<1>2. CASE b # Nil
  <2>1. Root(m, b)
    BY <1>2 DEF IsBitmap
  <2>2. b \in DOMAIN m /\ Tree(m, b, m[b].height) /\ m[b].height \in Nat
    BY <2>1, RootIs DEF Root
  <2>3. Nodes(m, b) = P!Nodes(AsHeap(m), b, m[b].height)
    BY <2>2, RootNodes
  <2> QED BY <1>2, <2>2, <2>3, TreeClosed
<1> QED BY <1>1, <1>2

\* A heap that loses nodes is well formed if those that are left have their children.
LEMMA SweptGood ==
    ASSUME NEW m, Good(m), NEW L, L \subseteq DOMAIN m,
           \A x \in L : \A s \in DOMAIN m[x].kids : m[x].kids[s] \in L
    PROVE  Good([x \in L |-> m[x]])
<1> DEFINE o == [x \in L |-> m[x]]
<1>1. DOMAIN o = L /\ \A x \in L : o[x] = m[x]
  OBVIOUS
<1>2. o = [x \in DOMAIN o |-> o[x]]
  OBVIOUS
<1> HIDE DEF o
<1>3. m \in Heaps /\ P!Closed(m) /\ Graded(m) /\ Nil \notin DOMAIN m
  BY GoodIs DEF Good
<1>4. DOMAIN m \subseteq Nat \ {Nil} /\ IsFiniteSet(DOMAIN m) /\ \A x \in DOMAIN m : m[x] \in BNode
  BY <1>3, HeapIs
<1>5. o \in P!Maps(BNode)
  <2>1. DOMAIN o \subseteq Nat /\ \A x \in DOMAIN o : o[x] \in BNode
    BY <1>1, <1>4
  <2> QED BY <1>2, <2>1, P!MapIs
<1>6. P!Finite(o)
  <2>1. IsFiniteSet(L)
    BY <1>4, FS_Subset
  <2> QED BY <1>1, <1>3, <2>1, FiniteSetsAre DEF P!Finite, P!Nil, Nil
<1>7. o \in Heaps
  BY <1>5, <1>6 DEF Heaps
<1>8. P!Closed(o)
  BY <1>1 DEF P!Closed
<1>9. Graded(o)
  BY <1>1, <1>3 DEF Graded
<1> QED BY <1>7, <1>8, <1>9 DEF Good, o

LEMMA EmptyGood == Good(<< >>)
<1> DEFINE m == << >>
<1>1. DOMAIN m = {} /\ m = [x \in DOMAIN m |-> m[x]]
  OBVIOUS
<1> HIDE DEF m
<1>2. m \in P!Maps(BNode)
  BY <1>1, P!MapIs
<1>3. P!Finite(m)
  BY <1>1, FS_EmptySet, FiniteSetsAre DEF P!Finite
<1> QED BY <1>1, <1>2, <1>3 DEF m, Good, Heaps, P!Closed, Graded

\* What Set and Clear do to a heap.
LEMMA ComesMeans ==
    ASSUME NEW m, NEW b, NEW o, NEW c, NEW e, Comes(m, b, o, c, e)
    PROVE  /\ Good(o)
           /\ DOMAIN m \subseteq DOMAIN o
           /\ \A x \in DOMAIN o :
                 \/ x \in DOMAIN m /\ o[x] = m[x]
                 \/ o[x].epoch = e /\ (x \in DOMAIN m => x \in Nodes(m, b) /\ m[x].epoch = e)
           /\ Nodes(o, c) \subseteq Nodes(m, b) \cup (DOMAIN o \ DOMAIN m)
BY DEF Comes, P!Wrote

\* A bitmap with no id is Nil.
LEMMA EmptyIsNil ==
    ASSUME Sizes, NEW m, Good(m), NEW b, IsBitmap(m, b), \A j \in Nat : ~ Has(m, b, j)
    PROVE  b = Nil
<1> SUFFICES ASSUME b # Nil PROVE FALSE
  OBVIOUS
<1>1. Root(m, b)
  BY DEF IsBitmap
<1>2. m[b].height \in Nat /\ Tree(m, b, m[b].height)
  BY <1>1, RootIs DEF Root
<1>3. PICK j \in Nat : j < Span(m[b].height) /\ HasBelow(m, b, m[b].height, j)
  BY <1>2, NotEmpty
<1> QED BY <1>3 DEF Has

\* What the nodes of a bitmap are.
LEMMA GoodNodes ==
    ASSUME NEW m, Good(m)
    PROVE  /\ Nil \notin DOMAIN m
           /\ \A x \in DOMAIN m : m[x].epoch \in Nat
           /\ \A b : IsBitmap(m, b) => b \in DOMAIN m \cup {Nil}
           /\ \A b : IsBitmap(m, b) => Nodes(m, b) \subseteq DOMAIN m
<1>1. m \in Heaps /\ Nil \notin DOMAIN m
  BY GoodIs
<1>2. \A x \in DOMAIN m : m[x].epoch \in Nat
  BY <1>1, HeapIs, NodeIs
<1>3. \A b : IsBitmap(m, b) => b \in DOMAIN m \cup {Nil}
  BY DEF IsBitmap, Root
<1>4. \A b : IsBitmap(m, b) => Nodes(m, b) \subseteq DOMAIN m
  BY NodesExist DEF IsBitmap
<1> QED BY <1>1, <1>2, <1>3, <1>4

----------------------------------------------------------------------------
(* The least id.                                                           *)

\* What Least has reached at height k: a node of the bitmap b of height h, all of
\* whose ids are the bitmap's when at.low is added.
Leads(m, b, h, at, k) ==
    /\ at.node \in DOMAIN m /\ at.low \in Nat /\ Tree(m, at.node, k)
    /\ \A l \in Nat : l < Span(k) /\ HasBelow(m, at.node, k, l) =>
          at.low + l < Span(h) /\ HasBelow(m, b, h, at.low + l)

LEMMA LowestIs ==
    ASSUME NEW S, S \subseteq Nat, S # {}
    PROVE  Lowest(S) \in S /\ \A y \in S : Lowest(S) <= y
BY P!LeastExists DEF Lowest

LEMMA DownLeads ==
    ASSUME Sizes, NEW m, Good(m), NEW b, NEW h, h \in Nat, NEW k, k \in Nat,
           NEW K, P!Over(K, k), NEW at, Leads(m, b, h, at, K)
    PROVE  Leads(m, b, h, Down(m, at, k), k)
<1> DEFINE x == at.node
           s == Lowest(DOMAIN m[x].kids)
           c == m[x].kids[s]
<1>0. K \in Nat /\ K = k + 1 /\ K - 1 = k
  BY DEF P!Over
<1>1. x \in DOMAIN m /\ at.low \in Nat /\ Tree(m, x, K)
  BY DEF Leads
<1>2. /\ m \in Heaps /\ P!Closed(m) /\ Nil \notin DOMAIN m /\ Graded(m)
      /\ AsHeap(m) \in P!Heap(Marks) /\ P!Closed(AsHeap(m)) /\ No \in Marks
      /\ DOMAIN AsHeap(m) = DOMAIN m
  BY GoodIs DEF Good
<1>3. x # Nil /\ NodeAt(m, x, K) = m[x] /\ m[x] \in BNode
  BY <1>1, <1>2, HeapIs DEF NodeAt
<1>4. DOMAIN m[x].kids # {}
  <2>1. PICK j \in Nat : HasBelow(m, x, K, j)
    BY <1>0, <1>1, <1>3, NotEmpty
  <2> DEFINE d == Kid(NodeAt(m, x, K), Slot(j, K))
  <2>2. HasBelow(m, d, k, j)
    BY <1>1, <2>1, TreeKid
  <2> HIDE DEF d
  <2>3. d # Nil
    BY <2>2, NilHasNone
  <2> QED BY <1>3, <2>3 DEF d, Kid
<1>5. s \in DOMAIN m[x].kids /\ s \in Nat
  <2>1. DOMAIN m[x].kids \subseteq Nat
    BY <1>3, NodeIs, P!MapIs
  <2> QED BY <1>4, <2>1, LowestIs
<1>6. s < Fan /\ c \in DOMAIN m
  BY <1>1, <1>2, <1>5 DEF Graded, P!Closed
<1>7. Kid(NodeAt(m, x, K), s) = c /\ Tree(m, c, k)
  <2>1. Kid(NodeAt(m, x, K), s) = c
    BY <1>3, <1>5 DEF Kid
  <2> QED BY <1>1, <2>1, TreeKid
<1>8. Down(m, at, k).node = c /\ Down(m, at, k).low = at.low + s * Span(k)
  BY DEF Down
<1> HIDE DEF c, s
<1>9. s * Span(k) \in Nat /\ s * Span(k) = Span(k) * s /\ Span(k) \in Nat
  BY <1>5, SpanIs
<1>10. ASSUME NEW l \in Nat, l < Span(k), HasBelow(m, c, k, l)
       PROVE  /\ (at.low + s * Span(k)) + l < Span(h)
              /\ HasBelow(m, b, h, (at.low + s * Span(k)) + l)
  <2> DEFINE y == (Span(k) * s) + l
  <2>1. y \in Nat /\ (at.low + s * Span(k)) + l = at.low + y
    BY <1>1, <1>9
  <2>2. y = (P!Span(k) * s) + l /\ l < P!Span(k)
    BY <1>10, SpanIs
  <2> HIDE DEF y
  <2>3. /\ y < P!Span(k + 1) /\ P!SlotAt(k + 1, y) = s /\ y % P!Span(k) = l
    BY <1>5, <1>6, <2>1, <2>2, SizesAre, P!PlaceExact
  <2>4. y < Span(K) /\ Slot(y, K) = s
    <3>1. k + 1 \in Nat /\ k + 1 # 0
      OBVIOUS
    <3> QED BY <1>0, <2>1, <2>3, <3>1, SpanIs
  <2>5. P!SamePlace(k, l, y)
    <3>1. l % P!Span(k) = l
      <4>1. P!Span(k) \in Nat \ {0}
        BY SpanIs
      <4> QED BY <2>2, <4>1, P!ModSmall
    <3> QED BY <2>3, <3>1 DEF P!SamePlace
  <2>6. HasBelow(m, c, k, y)
    <3>1. /\ P!GetBelow(AsHeap(m), c, k, l) = IF HasBelow(m, c, k, l) THEN Yes ELSE No
          /\ P!GetBelow(AsHeap(m), c, k, y) = IF HasBelow(m, c, k, y) THEN Yes ELSE No
      BY <1>2, <1>6, <2>1, HasIs
    <3>2. c \in DOMAIN AsHeap(m) \cup {P!Nil}
      BY <1>2, <1>6
    <3>3. P!GetBelow(AsHeap(m), c, k, l) = P!GetBelow(AsHeap(m), c, k, y)
      BY <1>2, <2>1, <2>5, <3>2, SizesAre, P!SameGet
    <3> QED BY <1>10, <3>1, <3>3, MarksAre
  <2>7. HasBelow(m, x, K, y)
    BY <1>1, <1>7, <2>1, <2>4, <2>6, TreeKid
  <2> QED BY <2>1, <2>4, <2>7 DEF Leads
<1>11. at.low + s * Span(k) \in Nat
  BY <1>1, <1>9
<1> DEFINE r == Down(m, at, k)
<1>12. r.node = c /\ r.low = at.low + s * Span(k)
  BY <1>8
<1> HIDE DEF r
<1>13. Leads(m, b, h, r, k)
  <2> DEFINE lo == at.low + s * Span(k)
  <2>1. \A l \in Nat : l < Span(k) /\ HasBelow(m, c, k, l) =>
            lo + l < Span(h) /\ HasBelow(m, b, h, lo + l)
    BY <1>10
  <2>2. lo \in Nat /\ r.low = lo
    BY <1>11, <1>12
  <2> HIDE DEF lo
  <2> QED BY <1>6, <1>7, <1>12, <2>1, <2>2 DEF Leads
<1> QED BY <1>13 DEF r

\* Walks(m, b, h, f): f is the loop of Least, as far as it has got anywhere.
Walks(m, b, h, f) ==
    /\ f[0] = [node |-> b, low |-> 0]
    /\ \A j \in 0..h : j # h /\ Leads(m, b, h, f[j], h - j) =>
          f[j + 1] = Down(m, f[j], h - (j + 1))

LEMMA WalksDown ==
    ASSUME Sizes, NEW m, Good(m), NEW b, Root(m, b), NEW h, h = m[b].height, NEW f,
           Walks(m, b, h, f)
    PROVE  \A j \in 0..h : Leads(m, b, h, f[j], h - j)
<1>1. h \in Nat /\ b \in DOMAIN m /\ Tree(m, b, h)
  BY RootIs DEF Root
<1> DEFINE S == {j \in Nat : j <= h => Leads(m, b, h, f[j], h - j)}
<1>2. 0 \in S
  <2>1. \A l \in Nat : 0 + l = l
    OBVIOUS
  <2>2. Leads(m, b, h, [node |-> b, low |-> 0], h)
    BY <1>1, <2>1 DEF Leads
  <2>3. h - 0 = h
    BY <1>1
  <2> QED BY <2>2, <2>3 DEF Walks
<1>3. ASSUME NEW j \in S PROVE j + 1 \in S
  <2> DEFINE k == h - (j + 1)
             K == h - j
  <2>1. SUFFICES ASSUME j + 1 <= h PROVE Leads(m, b, h, f[j + 1], k)
    OBVIOUS
  <2>2. /\ k \in Nat /\ K \in Nat /\ K = k + 1 /\ j \in 0..h /\ j # h
        /\ Leads(m, b, h, f[j], K)
    BY <1>1, <2>1
  <2>3. f[j + 1] = Down(m, f[j], k)
    BY <2>2 DEF Walks
  <2> HIDE DEF k, K
  <2>4. P!Over(K, k)
    BY <2>2 DEF P!Over
  <2> QED BY <1>1, <2>2, <2>3, <2>4, DownLeads
<1>4. \A j \in Nat : j \in S
  <2>1. S \in SUBSET Nat
    OBVIOUS
  <2> HIDE DEF S
  <2> QED BY <1>2, <1>3, <2>1, P!SetInduction
<1> QED BY <1>1, <1>4

LEMMA WalkExists ==
    ASSUME Sizes, NEW m, Good(m), NEW b, Root(m, b), NEW h, h = m[b].height
    PROVE  \E f : /\ Walks(m, b, h, f)
                  /\ f = [j \in 0..h |-> IF j = 0 THEN [node |-> b, low |-> 0]
                                         ELSE Down(m, f[j - 1], h - j)]
<1>1. h \in Nat /\ b \in DOMAIN m /\ Tree(m, b, h)
  BY RootIs DEF Root
<1> DEFINE T == [node : DOMAIN m, low : Nat]
           z == [node |-> b, low |-> 0]
           G == [p \in Nat \X T |->
                    IF Down(m, p[2], h - (p[1] + 1)) \in T THEN Down(m, p[2], h - (p[1] + 1))
                    ELSE z]
<1>2. P!Recursive(T, z, G)
  <2>1. z \in T
    BY <1>1
  <2>2. \A p \in Nat \X T : G[p] \in T
    <3> HIDE DEF T, z
    <3> QED BY <2>1
  <2> HIDE DEF T, z
  <2> QED BY <2>1, <2>2 DEF P!Recursive
<1>3. PICK g : P!Follows(g, T, z, G)
  <2> HIDE DEF T, z, G
  <2> QED BY <1>2, P!RecursionExists
<1>4. /\ g \in [Nat -> T] /\ g[0] = z
      /\ \A j \in Nat : Down(m, g[j], h - (j + 1)) \in T =>
            g[j + 1] = Down(m, g[j], h - (j + 1))
  <2>1. g \in [Nat -> T] /\ g[0] = z /\ \A j \in Nat : g[j + 1] = G[<<j, g[j]>>]
    <3> HIDE DEF T, z, G
    <3> QED BY <1>3 DEF P!Follows
  <2>2. ASSUME NEW j \in Nat, Down(m, g[j], h - (j + 1)) \in T
        PROVE  g[j + 1] = Down(m, g[j], h - (j + 1))
    <3>1. <<j, g[j]>> \in Nat \X T
      <4> HIDE DEF T
      <4> QED BY <2>1
    <3> HIDE DEF T, z
    <3> QED BY <2>1, <2>2, <3>1
  <2> HIDE DEF G
  <2> QED BY <2>1, <2>2
<1>6. ASSUME NEW j \in Nat, j < h, Leads(m, b, h, g[j], h - j)
      PROVE  g[j + 1] = Down(m, g[j], h - (j + 1))
  <2> DEFINE k == h - (j + 1)
             K == h - j
  <2>1. k \in Nat /\ P!Over(K, k)
    BY <1>1, <1>6 DEF P!Over
  <2> HIDE DEF k, K
  <2>2. Leads(m, b, h, g[j], K)
    BY <1>6 DEF K
  <2>3. Leads(m, b, h, Down(m, g[j], k), k)
    BY <1>1, <2>1, <2>2, DownLeads
  <2>4. Down(m, g[j], k) \in [node : DOMAIN m, low : Nat]
    <3> DEFINE r == Down(m, g[j], k)
    <3>1. r = [node |-> r.node, low |-> r.low]
      BY DEF Down
    <3> HIDE DEF r
    <3> QED BY <2>3, <3>1 DEF Leads, r
  <2> QED BY <1>4, <2>4 DEF k
<1> HIDE DEF T, G
<1>7. \A j \in 0..h : j # h => j \in Nat /\ j < h
  BY <1>1
<1>8. Walks(m, b, h, g)
  BY <1>4, <1>6, <1>7 DEF Walks
<1>9. \A j \in 0..h : Leads(m, b, h, g[j], h - j)
  BY <1>8, WalksDown
<1> DEFINE f == [j \in 0..h |-> g[j]]
<1>10. \A j \in 0..h : f[j] = g[j]
  OBVIOUS
<1>11. f = [j \in 0..h |-> IF j = 0 THEN [node |-> b, low |-> 0]
                          ELSE Down(m, f[j - 1], h - j)]
  <2>1. ASSUME NEW j \in 0..h
        PROVE  g[j] = IF j = 0 THEN [node |-> b, low |-> 0] ELSE Down(m, f[j - 1], h - j)
    <3>1. CASE j = 0
      BY <1>4, <3>1
    <3>2. CASE j # 0
      <4>1. j - 1 \in Nat /\ j - 1 < h /\ j - 1 \in 0..h /\ (j - 1) + 1 = j
        BY <1>1, <3>2
      <4>2. g[j] = Down(m, g[j - 1], h - j)
        BY <1>6, <1>9, <4>1
      <4> QED BY <1>10, <3>2, <4>1, <4>2
    <3> QED BY <3>1, <3>2
  <2> QED BY <2>1
<1>12. Walks(m, b, h, f)
  <2>1. 0 \in 0..h /\ \A j \in 0..h : j # h => j + 1 \in 0..h
    BY <1>1
  <2> HIDE DEF f
  <2> QED BY <1>8, <1>10, <2>1 DEF Walks
<1> QED BY <1>11, <1>12

\* Least, which the code calls Min, returns an id of the bitmap (bitmap.go: Min).
THEOREM LeastIn ==
    ASSUME Sizes, NEW m, Good(m), NEW b, IsBitmap(m, b), b # Nil
    PROVE  Least(m, b) \in Nat /\ Has(m, b, Least(m, b))
<1> DEFINE h == m[b].height
           E(f) == [j \in 0..h |-> IF j = 0 THEN [node |-> b, low |-> 0]
                                   ELSE Down(m, f[j - 1], h - j)]
           down == CHOOSE f : f = E(f)
<1>1. Root(m, b)
  BY DEF IsBitmap
<1>2. h \in Nat /\ b \in DOMAIN m /\ Tree(m, b, h)
  BY <1>1, RootIs DEF Root
<1>3. Least(m, b) = down[h].low + Lowest(m[down[h].node].bits)
  BY DEF Least
<1>4. down = E(down)
  <2>1. \E f : f = E(f)
    <3>1. \E f : Walks(m, b, h, f) /\ f = E(f)
      BY <1>1, WalkExists
    <3> QED BY <3>1
  <2> HIDE DEF E
  <2> QED BY <2>1
<1> HIDE DEF down
<1>5. Walks(m, b, h, down)
  <2>1. down[0] = [node |-> b, low |-> 0]
    BY <1>2, <1>4
  <2>2. ASSUME NEW j \in 0..h, j # h PROVE down[j + 1] = Down(m, down[j], h - (j + 1))
    <3>1. j + 1 \in 0..h /\ j + 1 # 0 /\ (j + 1) - 1 = j
      BY <1>2, <2>2
    <3>2. down[j + 1] = E(down)[j + 1]
      BY <1>4
    <3> QED BY <3>1, <3>2
  <2> QED BY <2>1, <2>2 DEF Walks
<1> HIDE DEF E
<1> DEFINE x == down[h].node
           a == down[h].low
           l == Lowest(m[x].bits)
<1>6. Leads(m, b, h, down[h], 0)
  <2>1. h \in 0..h /\ h - h = 0
    BY <1>2
  <2> HIDE DEF h
  <2>2. h = m[b].height
    BY DEF h
  <2> QED BY <1>1, <1>5, <2>1, <2>2, WalksDown
<1>7. x \in DOMAIN m /\ a \in Nat /\ Tree(m, x, 0)
  BY <1>6 DEF Leads
<1>8. m \in Heaps /\ Nil \notin DOMAIN m
  BY GoodIs
<1>9. x # Nil /\ m[x].bits \subseteq Nat
  BY <1>7, <1>8, HeapIs, NodeIs
<1>10. \A j \in Nat : HasBelow(m, x, 0, j) <=> j % ChunkSize \in m[x].bits
  <2>1. \A j \in Nat : P!GetBelow(AsHeap(m), x, 0, j) = IF HasBelow(m, x, 0, j) THEN Yes ELSE No
    <3>1. P!Closed(m)
      BY GoodIs
    <3> QED BY <1>7, <1>8, <3>1, HasIs
  <2>2. \A j \in Nat : P!GetBelow(AsHeap(m), x, 0, j) = P!Val(AsHeap(m)[x], P!SlotAt(0, j))
    <3> DEFINE A == AsHeap(m)
    <3>1. A \in P!Heap(Marks) /\ P!Closed(A) /\ DOMAIN A = DOMAIN m /\ No \in Marks
      BY GoodIs
    <3> HIDE DEF A
    <3>2. \A j \in Nat : \A n \in DOMAIN A : P!GetBelow(A, n, 0, j) = P!Val(A[n], P!SlotAt(0, j))
      BY <3>1, SizesAre, P!GetUnfold
    <3> QED BY <1>7, <3>1, <3>2 DEF A
  <2>3. \A s : P!Val(AsHeap(m)[x], s) = IF s \in m[x].bits THEN Yes ELSE No
    BY <1>7, <1>8, HeapIs, AsNodeIs
  <2> QED BY <2>1, <2>2, <2>3, SpanIs, MarksAre
<1>11. PICK j \in Nat : HasBelow(m, x, 0, j)
  BY <1>7, <1>9, NotEmpty
<1> DEFINE y == j % ChunkSize
<1>12. y \in m[x].bits /\ y \in Nat /\ y < ChunkSize
  <2>1. y \in 0..(ChunkSize - 1)
    BY P!DivMod DEF Sizes
  <2>2. ChunkSize \in Nat
    BY DEF Sizes
  <2> HIDE DEF y
  <2>3. y \in Nat /\ y < ChunkSize
    BY <2>1, <2>2
  <2> QED BY <1>10, <1>11, <2>3 DEF y
<1> HIDE DEF y
<1>13. l \in m[x].bits /\ l \in Nat /\ l <= y
  BY <1>9, <1>12, LowestIs
<1> HIDE DEF l
<1>14. l < Span(0) /\ HasBelow(m, x, 0, l)
  <2>1. Span(0) = ChunkSize /\ ChunkSize \in Nat
    BY SpanIs, P!SpanIs, SizesAre DEF Sizes
  <2>2. l < ChunkSize
    BY <1>12, <1>13, <2>1
  <2>3. l % ChunkSize = l
    BY <1>13, <2>2, P!ModSmall DEF Sizes
  <2> QED BY <1>10, <1>13, <2>1, <2>2, <2>3
<1>15. a + l < Span(h) /\ HasBelow(m, b, h, a + l)
  BY <1>6, <1>13, <1>14 DEF Leads
<1>16. Least(m, b) = a + l
  BY <1>3 DEF l
<1>17. a + l \in Nat
  BY <1>7, <1>13
<1> HIDE DEF a
<1> QED BY <1>15, <1>16, <1>17 DEF Has

----------------------------------------------------------------------------
(* Set algebra: the ids of a node, as sets.                                *)

\* The ids below the node n of height k, counted from its first.
Inside(m, n, k) == {j \in 0..(Span(k) - 1) : HasBelow(m, n, k, j)}

\* The same of the children of a directory node of height K over k that has in
\* slot s what F[s] has, up to slot t.
Spread(F, k, K, t) ==
    {j \in 0..(Span(K) - 1) : Slot(j, K) < t /\ j % Span(k) \in F[Slot(j, K)]}
Parts(m, x, k) == [s \in 0..(Fan - 1) |-> Inside(m, Kid(x, s), k)]

LEMMA InsideIs ==
    ASSUME Sizes, NEW m, Good(m), NEW k, k \in Nat, NEW n, n \in DOMAIN m \cup {Nil}
    PROVE  \A j : j \in Inside(m, n, k) <=>
                     j \in 0..(Span(k) - 1) /\ P!GetBelow(AsHeap(m), n, k, j) = Yes
<1> SUFFICES ASSUME NEW j, j \in 0..(Span(k) - 1)
             PROVE  HasBelow(m, n, k, j) <=> P!GetBelow(AsHeap(m), n, k, j) = Yes
  BY DEF Inside
<1>1. j \in Nat
  BY SpanIs
<1>2. P!GetBelow(AsHeap(m), n, k, j) = IF HasBelow(m, n, k, j) THEN Yes ELSE No
  BY <1>1, GoodIs, HasIs
<1> QED BY <1>2, MarksAre

LEMMA InsideUnfold ==
    ASSUME Sizes, NEW m, Good(m)
    PROVE  /\ \A k \in Nat : Inside(m, Nil, k) = {}
           /\ \A x \in DOMAIN m : Inside(m, x, 0) = m[x].bits \cap Chunk
           /\ \A k, K : P!Over(K, k) => \A x \in DOMAIN m : \A j :
                 j \in Inside(m, x, K) <=>
                    /\ j \in 0..(Span(K) - 1)
                    /\ j % Span(k) \in Inside(m, Kid(m[x], Slot(j, K)), k)
<1> DEFINE A == AsHeap(m)
<1>1. /\ m \in Heaps /\ P!Closed(m) /\ Nil \notin DOMAIN m
      /\ A \in P!Heap(Marks) /\ P!Closed(A) /\ DOMAIN A = DOMAIN m /\ No \in Marks
  BY GoodIs
<1>2. P!Sizes /\ Yes # No
  BY SizesAre, MarksAre
<1>3. \A x \in DOMAIN m : A[x] = AsNode(m[x])
  BY <1>1, HeapIs
<1>4. \A h \in Nat : Span(h) \in Nat \ {0} /\ P!Span(h) = Span(h)
  BY SpanIs
<1> HIDE DEF A
<1>5. ASSUME NEW k \in Nat PROVE Inside(m, Nil, k) = {}
  <2> SUFFICES ASSUME NEW j \in Inside(m, Nil, k) PROVE FALSE
    OBVIOUS
  <2>1. j \in 0..(Span(k) - 1) /\ P!GetBelow(A, Nil, k, j) = Yes
    BY InsideIs DEF A
  <2>2. j \in Nat
    BY <1>4, <2>1
  <2>3. P!GetBelow(A, P!Nil, k, j) = No
    BY <1>1, <1>2, <2>2, P!GetUnfold
  <2> QED BY <1>2, <2>1, <2>3, NilIs
<1>6. ASSUME NEW x \in DOMAIN m PROVE Inside(m, x, 0) = m[x].bits \cap Chunk
  <2>1. P!Span(0) = ChunkSize
    BY <1>2, P!SpanIs
  <2>2. Span(0) = ChunkSize /\ ChunkSize \in Nat \ {0}
    BY <1>4, <2>1
  <2>3. ASSUME NEW j \in Chunk
        PROVE  P!GetBelow(A, x, 0, j) = Yes <=> j \in m[x].bits
    <3>1. j \in Nat /\ j < ChunkSize
      BY <2>2, <2>3 DEF Chunk
    <3>2. P!SlotAt(0, j) = j % ChunkSize /\ j % ChunkSize = j
      BY <2>2, <3>1, SpanIs, P!ModSmall
    <3>3. P!GetBelow(A, x, 0, j) = P!Val(A[x], P!SlotAt(0, j))
      BY <1>1, <1>2, <3>1, P!GetUnfold
    <3>4. P!Val(AsNode(m[x]), j) = IF j \in m[x].bits THEN Yes ELSE No
      BY AsNodeIs
    <3> QED BY <1>2, <1>3, <3>2, <3>3, <3>4
  <2>4. \A j : j \in Inside(m, x, 0) <=> j \in Chunk /\ P!GetBelow(A, x, 0, j) = Yes
    BY <2>2, InsideIs DEF A, Chunk
  <2> QED BY <2>3, <2>4
<1>7. ASSUME NEW k, NEW K, P!Over(K, k), NEW x \in DOMAIN m, NEW j
      PROVE  j \in Inside(m, x, K) <=>
                /\ j \in 0..(Span(K) - 1)
                /\ j % Span(k) \in Inside(m, Kid(m[x], Slot(j, K)), k)
  <2> DEFINE c == Kid(m[x], Slot(j, K))
             l == j % Span(k)
  <2>1. k \in Nat /\ K \in Nat /\ K # 0 /\ K = k + 1
    BY <1>7 DEF P!Over
  <2>2. c \in DOMAIN m \cup {Nil}
    BY <1>1 DEF P!Closed, Kid
  <2>3. ASSUME j \in 0..(Span(K) - 1)
        PROVE  P!GetBelow(A, x, K, j) = Yes <=> l \in Inside(m, c, k)
    <3>1. j \in Nat
      BY <1>4, <2>1, <2>3
    <3>2. P!SlotAt(K, j) = Slot(j, K)
      BY <2>1, SpanIs
    <3>3. P!GetBelow(A, x, k + 1, j) = P!GetBelow(A, P!Kid(P!NodeAt(A, x), P!SlotAt(k + 1, j)), k, j)
      BY <1>1, <1>2, <2>1, <3>1, P!GetNext
    <3>4. P!NodeAt(A, x) = A[x]
      BY <1>1, NilIs DEF P!NodeAt
    <3>5. P!Kid(A[x], Slot(j, K)) = c
      BY <1>3, AsNodeIs
    <3>6. P!GetBelow(A, x, K, j) = P!GetBelow(A, c, k, j)
      BY <2>1, <3>2, <3>3, <3>4, <3>5
    <3>7. l \in 0..(Span(k) - 1) /\ P!SamePlace(k, j, l)
      BY <1>2, <1>4, <2>1, <3>1, P!PlaceIn
    <3>8. P!GetBelow(A, c, k, j) = P!GetBelow(A, c, k, l)
      <4>1. l \in Nat /\ c \in DOMAIN A \cup {P!Nil}
        BY <1>1, <1>4, <2>1, <2>2, <3>7, NilIs
      <4> HIDE DEF c, l
      <4> QED BY <1>1, <1>2, <2>1, <3>1, <3>7, <4>1, P!SameGet
    <3>9. l \in Inside(m, c, k) <=> P!GetBelow(A, c, k, l) = Yes
      <4> HIDE DEF c, l
      <4> QED BY <2>1, <2>2, <3>7, InsideIs DEF A
    <3> QED BY <3>6, <3>8, <3>9
  <2>4. j \in Inside(m, x, K) <=> j \in 0..(Span(K) - 1) /\ P!GetBelow(A, x, K, j) = Yes
    BY <2>1, InsideIs DEF A
  <2> HIDE DEF c, l
  <2> QED BY <2>3, <2>4 DEF c, l
<1> QED BY <1>5, <1>6, <1>7

\* An id below a directory node is a slot and an id below the child there.
LEMMA PlaceIs ==
    ASSUME Sizes, NEW k, NEW K, P!Over(K, k)
    PROVE  /\ \A j \in 0..(Span(K) - 1) :
                 /\ Slot(j, K) \in 0..(Fan - 1)
                 /\ j % Span(k) \in 0..(Span(k) - 1)
                 /\ j = Span(k) * Slot(j, K) + (j % Span(k))
           /\ \A s \in 0..(Fan - 1), l \in 0..(Span(k) - 1) :
                 /\ Span(k) * s + l \in 0..(Span(K) - 1)
                 /\ Slot(Span(k) * s + l, K) = s
                 /\ (Span(k) * s + l) % Span(k) = l
<1> DEFINE a == Span(k)
<1>1. k \in Nat /\ K \in Nat /\ K # 0 /\ K - 1 = k /\ K = k + 1
  BY DEF P!Over
<1>2. a \in Nat \ {0} /\ Fan \in Nat \ {0} /\ Span(K) = a * Fan /\ Span(K) \in Nat
  <2>1. P!Span(k + 1) = P!Span(k) * Fan
    BY <1>1, SizesAre, P!SpanIs
  <2> QED BY <1>1, <2>1, SpanIs DEF Sizes
<1>3. \A j : Slot(j, K) = (j \div a) % Fan
  BY <1>1 DEF Slot
<1> HIDE DEF a
<1>4. ASSUME NEW j \in 0..(Span(K) - 1)
      PROVE  /\ Slot(j, K) \in 0..(Fan - 1)
             /\ j % a \in 0..(a - 1)
             /\ j = a * Slot(j, K) + (j % a)
  <2> DEFINE q == j \div a
  <2>1. j \in Nat /\ j < a * Fan
    BY <1>2
  <2>2. j % a \in 0..(a - 1) /\ q \in Nat /\ j = a * q + (j % a)
    BY <1>2, <2>1, P!DivMod
  <2>3. q < Fan
    BY <1>2, <2>1, P!DivBelow
  <2> HIDE DEF q
  <2>4. q % Fan = q
    BY <1>2, <2>2, <2>3, P!ModSmall
  <2>5. Slot(j, K) = q
    BY <1>3, <2>4 DEF q
  <2> QED BY <1>2, <2>2, <2>3, <2>5
<1>5. ASSUME NEW s \in 0..(Fan - 1), NEW l \in 0..(a - 1)
      PROVE  /\ a * s + l \in 0..(Span(K) - 1)
             /\ Slot(a * s + l, K) = s
             /\ (a * s + l) % a = l
  <2>1. s \in Nat /\ l \in Nat /\ l < a /\ s < Fan
    BY <1>2
  <2>2. (a * s + l) % a = l /\ (a * s + l) \div a = s
    BY <1>2, <2>1, P!DivUnique
  <2>3. s % Fan = s
    BY <1>2, <2>1, P!ModSmall
  <2>4. a * s + l < a * Fan
    <3>1. a * s <= a * (Fan - 1)
      BY <1>2, <2>1
    <3>2. a * (Fan - 1) = a * Fan - a
      BY <1>2
    <3> QED BY <1>2, <2>1, <3>1, <3>2
  <2>5. a * s + l \in Nat
    BY <1>2, <2>1
  <2> QED BY <1>2, <1>3, <2>2, <2>3, <2>4, <2>5
<1> QED BY <1>4, <1>5 DEF a

\* The ids of two sets that have none in common.
LEMMA ApartCount ==
    ASSUME NEW S, NEW T, IsFiniteSet(S), IsFiniteSet(T), S \cap T = {}
    PROVE  Cardinality(S \cup T) = Cardinality(S) + Cardinality(T)
<1>1. Cardinality(S \cup T) = Cardinality(S) + Cardinality(T) - Cardinality(S \cap T)
  BY FS_Union
<1>2. Cardinality(S \cap T) = 0
  BY FS_EmptySet
<1>3. Cardinality(S) \in Nat /\ Cardinality(T) \in Nat
  BY FS_CardinalityType
<1> QED BY <1>1, <1>2, <1>3

\* F gives each slot of a node over height k a set of ids below it.
Spreads(F, k) == \A s \in 0..(Fan - 1) : F[s] \subseteq 0..(Span(k) - 1)

LEMMA SpreadIs ==
    ASSUME Sizes, NEW k, NEW K, P!Over(K, k), NEW F, Spreads(F, k)
    PROVE  /\ Spread(F, k, K, 0) = {}
           /\ \A t \in 0..(Fan - 1) : F[t] = {} => Spread(F, k, K, t + 1) = Spread(F, k, K, t)
           /\ \A t : IsFiniteSet(Spread(F, k, K, t)) /\ Cardinality(Spread(F, k, K, t)) \in Nat
           /\ \A t \in 0..(Fan - 1) :
                 Cardinality(Spread(F, k, K, t + 1)) =
                    Cardinality(Spread(F, k, K, t)) + Cardinality(F[t])
<1> DEFINE a == Span(k)
           top == Span(K) - 1
           X(t) == Spread(F, k, K, t)
           New(t) == {j \in 0..top : Slot(j, K) = t /\ j % a \in F[t]}
<1>1. /\ \A j \in 0..top : /\ Slot(j, K) \in 0..(Fan - 1)
                           /\ j % a \in 0..(a - 1)
                           /\ j = a * Slot(j, K) + (j % a)
      /\ \A s \in 0..(Fan - 1), l \in 0..(a - 1) :
            a * s + l \in 0..top /\ Slot(a * s + l, K) = s /\ (a * s + l) % a = l
  BY PlaceIs
<1>2. a \in Nat \ {0} /\ Fan \in Nat \ {0, 1} /\ top \in Nat
  <2>1. k \in Nat /\ K \in Nat
    BY DEF P!Over
  <2>2. Span(k) \in Nat \ {0} /\ Span(K) \in Nat \ {0}
    BY <2>1, SpanIs
  <2> QED BY <2>2 DEF Sizes
<1>3. \A t : X(t) = {j \in 0..top : Slot(j, K) < t /\ j % a \in F[Slot(j, K)]}
  BY DEF Spread
<1>4. \A s \in 0..(Fan - 1) : F[s] \subseteq 0..(a - 1)
  BY DEF Spreads
<1> HIDE DEF X, a, top
<1>5. X(0) = {}
  <2> SUFFICES ASSUME NEW j \in X(0) PROVE FALSE
    OBVIOUS
  <2>1. j \in 0..top /\ Slot(j, K) < 0
    BY <1>3
  <2>2. Slot(j, K) \in Nat
    BY <1>1, <1>2, <2>1
  <2> QED BY <2>1, <2>2
<1>6. \A t : IsFiniteSet(X(t)) /\ Cardinality(X(t)) \in Nat
  <2>1. IsFiniteSet(0..top)
    BY <1>2, FS_Interval
  <2>2. \A t : X(t) \subseteq 0..top
    BY <1>3
  <2> QED BY <2>1, <2>2, FS_Subset, FS_CardinalityType
<1>7. ASSUME NEW t \in 0..(Fan - 1)
      PROVE  X(t + 1) = X(t) \cup New(t) /\ X(t) \cap New(t) = {}
  <2>1. t \in Nat
    BY <1>2
  <2>2. \A s \in 0..(Fan - 1) : s < t + 1 <=> s < t \/ s = t
    BY <1>2, <2>1
  <2>3. \A s \in 0..(Fan - 1) : ~ (s < t /\ s = t)
    BY <1>2, <2>1
  <2>4. \A j : j \in X(t + 1) <=> j \in X(t) \/ j \in New(t)
    BY <1>1, <1>3, <2>2
  <2>5. \A j : ~ (j \in X(t) /\ j \in New(t))
    BY <1>1, <1>3, <2>3
  <2> HIDE DEF New
  <2> QED BY <2>4, <2>5
<1>8. ASSUME NEW t \in 0..(Fan - 1)
      PROVE  IsFiniteSet(New(t)) /\ Cardinality(New(t)) = Cardinality(F[t])
  <2> DEFINE S == F[t]
             f == [l \in S |-> a * t + l]
             T == New(t)
  <2>1. IsFiniteSet(S)
    <3>1. IsFiniteSet(0..(a - 1)) /\ F[t] \subseteq 0..(a - 1)
      BY <1>2, <1>4, FS_Interval
    <3> QED BY <3>1, FS_Subset
  <2>2. \A l \in S : l \in 0..(a - 1) /\ a * t + l \in T
    BY <1>1, <1>4
  <2>3. \A j \in T : j % a \in S /\ j = a * t + (j % a)
    BY <1>1
  <2>4. \A x, y \in S : a * t + x = a * t + y => x = y
    <3> SUFFICES ASSUME NEW x \in S, NEW y \in S, a * t + x = a * t + y PROVE x = y
      OBVIOUS
    <3>1. (a * t + x) % a = x /\ (a * t + y) % a = y
      BY <1>1, <2>2
    <3> QED BY <3>1
  <2> HIDE DEF S, T
  <2>5. f \in Bijection(S, T)
    <3>1. f \in [S -> T]
      BY <2>2
    <3>2. \A x, y \in S : f[x] = f[y] => x = y
      BY <2>4
    <3>3. \A j \in T : \E l \in S : f[l] = j
      BY <2>3
    <3> QED BY <3>1, <3>2, <3>3 DEF Bijection, Injection, Surjection, IsInjective
  <2>6. ExistsBijection(S, T)
    BY <2>5 DEF ExistsBijection
  <2> QED BY <2>1, <2>6, FS_Bijection DEF S, T
<1> HIDE DEF New
<1>9. ASSUME NEW t \in 0..(Fan - 1)
      PROVE  /\ Cardinality(X(t + 1)) = Cardinality(X(t)) + Cardinality(F[t])
             /\ F[t] = {} => X(t + 1) = X(t)
  <2>1. /\ X(t + 1) = X(t) \cup New(t) /\ X(t) \cap New(t) = {}
        /\ IsFiniteSet(New(t)) /\ Cardinality(New(t)) = Cardinality(F[t])
        /\ IsFiniteSet(X(t)) /\ Cardinality(X(t)) \in Nat
    BY <1>6, <1>7, <1>8
  <2>2. Cardinality(X(t + 1)) = Cardinality(X(t)) + Cardinality(F[t])
    <3>1. Cardinality(X(t) \cup New(t)) = Cardinality(X(t)) + Cardinality(New(t))
      BY <2>1, ApartCount
    <3> QED BY <2>1, <3>1, Zenon
  <2>5. F[t] = {} => New(t) = {}
    BY <2>1, FS_EmptySet
  <2>7. F[t] = {} => X(t + 1) = X(t)
    BY <2>1, <2>5
  <2> QED BY <2>2, <2>7
<1> QED BY <1>5, <1>6, <1>9 DEF X

----------------------------------------------------------------------------
(* Heaps that get more nodes.                                              *)

\* o is m and more nodes.
Extends(m, o) == DOMAIN m \subseteq DOMAIN o /\ \A x \in DOMAIN m : o[x] = m[x]

\* Every node counts the ids below it, and there are some.
Counts(m, x) ==
    /\ Inside(m, x, m[x].height) # {}
    /\ m[x].count = Cardinality(Inside(m, x, m[x].height))
Sound(m) == Good(m) /\ \A x \in DOMAIN m : Counts(m, x)

LEMMA InsideStays ==
    ASSUME Sizes, NEW m, Good(m), NEW o, Good(o), Extends(m, o),
           NEW k, k \in Nat, NEW n, n \in DOMAIN m \cup {Nil}
    PROVE  Inside(o, n, k) = Inside(m, n, k)
<1> DEFINE A == AsHeap(m)
           O == AsHeap(o)
<1>1. /\ A \in P!Heap(Marks) /\ O \in P!Heap(Marks) /\ P!Closed(A) /\ P!Closed(O)
      /\ DOMAIN A = DOMAIN m /\ DOMAIN O = DOMAIN o /\ No \in Marks
      /\ m \in Heaps /\ o \in Heaps
  BY GoodIs
<1>2. ASSUME NEW x \in DOMAIN m PROVE x \in DOMAIN O /\ O[x] = A[x]
  <2>1. x \in DOMAIN o /\ o[x] = m[x]
    BY DEF Extends
  <2> QED BY <1>1, <2>1, HeapIs
<1>3. n \in DOMAIN A \cup {P!Nil}
  BY <1>1, NilIs
<1> HIDE DEF A, O
<1>4. P!Nodes(A, n, k) \subseteq DOMAIN A
  BY <1>1, <1>3, P!NodesIn
<1>5. P!Keeps(A, O, P!Nodes(A, n, k))
  BY <1>1, <1>2, <1>4 DEF P!Keeps
<1>6. P!Same(A, O, n, k)
  BY <1>1, <1>3, <1>5, SizesAre, P!FrameIs
<1>7. n \in DOMAIN o \cup {Nil}
  BY DEF Extends
<1>8. \A j : j \in Inside(m, n, k) <=> j \in 0..(Span(k) - 1) /\ P!GetBelow(A, n, k, j) = Yes
  BY InsideIs DEF A
<1>9. \A j : j \in Inside(o, n, k) <=> j \in 0..(Span(k) - 1) /\ P!GetBelow(O, n, k, j) = Yes
  BY <1>7, InsideIs DEF O
<1>10. \A j \in 0..(Span(k) - 1) : P!GetBelow(O, n, k, j) = P!GetBelow(A, n, k, j)
  <2>1. Span(k) \in Nat
    BY SpanIs
  <2>2. 0..(Span(k) - 1) \subseteq Nat
    BY <2>1
  <2> QED BY <1>6, <2>2 DEF P!Same
<1>11. \A j : j \in Inside(o, n, k) <=> j \in Inside(m, n, k)
  BY <1>8, <1>9, <1>10
<1> QED BY <1>11

LEMMA SoundStays ==
    ASSUME Sizes, NEW m, Sound(m), NEW o, Good(o), Extends(m, o)
    PROVE  \A x \in DOMAIN m : Counts(o, x)
<1> SUFFICES ASSUME NEW x \in DOMAIN m PROVE Counts(o, x)
  OBVIOUS
<1>1. Good(m) /\ Counts(m, x) /\ o[x] = m[x]
  BY DEF Sound, Extends
<1>2. m[x].height \in Nat
  BY <1>1, GoodIs, HeapIs, NodeIs
<1>3. Inside(o, x, m[x].height) = Inside(m, x, m[x].height)
  BY <1>1, <1>2, InsideStays
<1> QED BY <1>1, <1>3 DEF Counts

\* A map of nodes over a finite set of numbers is a heap.
LEMMA IsHeap ==
    ASSUME NEW o, o = [x \in DOMAIN o |-> o[x]], DOMAIN o \subseteq Nat \ {Nil},
           IsFiniteSet(DOMAIN o), \A x \in DOMAIN o : o[x] \in BNode
    PROVE  o \in Heaps
<1>1. o \in P!Maps(BNode)
  BY P!MapIs
<1>2. P!Finite(o)
  BY FiniteSetsAre DEF P!Finite, P!Nil, Nil
<1> QED BY <1>1, <1>2 DEF Heaps

LEMMA JoinedHeap ==
    ASSUME NEW f, f \in Heaps, NEW g, g \in Heaps
    PROVE  /\ Joined(f, g) \in Heaps
           /\ DOMAIN Joined(f, g) = (DOMAIN f) \cup (DOMAIN g)
           /\ \A x \in DOMAIN f : Joined(f, g)[x] = f[x]
           /\ \A x \in DOMAIN g : x \notin DOMAIN f => Joined(f, g)[x] = g[x]
<1> DEFINE o == Joined(f, g)
<1>1. /\ o = [x \in DOMAIN o |-> o[x]]
      /\ DOMAIN o = (DOMAIN f) \cup (DOMAIN g)
      /\ \A x \in DOMAIN f : o[x] = f[x]
      /\ \A x \in DOMAIN g : x \notin DOMAIN f => o[x] = g[x]
  BY DEF Joined
<1>2. /\ DOMAIN f \subseteq Nat \ {Nil} /\ IsFiniteSet(DOMAIN f) /\ \A x \in DOMAIN f : f[x] \in BNode
      /\ DOMAIN g \subseteq Nat \ {Nil} /\ IsFiniteSet(DOMAIN g) /\ \A x \in DOMAIN g : g[x] \in BNode
  BY HeapIs
<1> HIDE DEF o
<1>3. IsFiniteSet(DOMAIN o)
  BY <1>1, <1>2, FS_Union
<1>4. DOMAIN o \subseteq Nat \ {Nil} /\ \A x \in DOMAIN o : o[x] \in BNode
  BY <1>1, <1>2
<1>5. o \in Heaps
  BY <1>1, <1>3, <1>4, IsHeap
<1> QED BY <1>1, <1>5 DEF o

\* Two heaps that extend m with nodes of different numbers.
LEMMA JoinedIs ==
    ASSUME Sizes, NEW m, NEW f, Sound(f), Extends(m, f), NEW g, Sound(g), Extends(m, g),
           (DOMAIN f) \cap (DOMAIN g) \subseteq DOMAIN m
    PROVE  Sound(Joined(f, g)) /\ Extends(f, Joined(f, g)) /\ Extends(g, Joined(f, g))
<1> DEFINE o == Joined(f, g)
<1>1. /\ Good(f) /\ f \in Heaps /\ P!Closed(f) /\ Graded(f)
      /\ Good(g) /\ g \in Heaps /\ P!Closed(g) /\ Graded(g)
  BY GoodIs DEF Sound, Good
<1>2. /\ o \in Heaps /\ DOMAIN o = (DOMAIN f) \cup (DOMAIN g)
      /\ \A x \in DOMAIN f : o[x] = f[x]
      /\ \A x \in DOMAIN g : x \notin DOMAIN f => o[x] = g[x]
  BY <1>1, JoinedHeap
<1> HIDE DEF o
<1>3. \A x \in DOMAIN g : o[x] = g[x]
  BY <1>2 DEF Extends
<1>4. Extends(f, o) /\ Extends(g, o)
  BY <1>2, <1>3 DEF Extends
<1>5. P!Closed(o)
  BY <1>1, <1>2, <1>3 DEF P!Closed
<1>6. Graded(o)
  <2>1. ASSUME NEW x \in DOMAIN f, NEW s \in DOMAIN f[x].kids
        PROVE  s < Fan /\ o[o[x].kids[s]].height + 1 = o[x].height
    <3>1. s < Fan /\ f[x].kids[s] \in DOMAIN f /\ f[f[x].kids[s]].height + 1 = f[x].height
      BY <1>1 DEF P!Closed, Graded
    <3> QED BY <1>2, <3>1
  <2>2. ASSUME NEW x \in DOMAIN g, NEW s \in DOMAIN g[x].kids
        PROVE  s < Fan /\ o[o[x].kids[s]].height + 1 = o[x].height
    <3>1. s < Fan /\ g[x].kids[s] \in DOMAIN g /\ g[g[x].kids[s]].height + 1 = g[x].height
      BY <1>1 DEF P!Closed, Graded
    <3> QED BY <1>3, <3>1
  <2> QED BY <1>2, <1>3, <2>1, <2>2 DEF Graded
<1>7. Good(o)
  BY <1>2, <1>5, <1>6 DEF Good
<1>8. \A x \in DOMAIN o : Counts(o, x)
  <2>1. \A x \in DOMAIN f : Counts(o, x)
    BY <1>4, <1>7, SoundStays
  <2>2. \A x \in DOMAIN g : Counts(o, x)
    BY <1>4, <1>7, SoundStays
  <2> QED BY <1>2, <2>1, <2>2
<1> QED BY <1>4, <1>7, <1>8 DEF Sound, o

\* The node q, of m or to be added to it, has the ids S below it.
Holds(m, q, S) ==
    /\ q \in BNode /\ Fits(m, q)
    /\ q.height = 0 => S = q.bits
    /\ \A k : P!Over(q.height, k) =>
          \A j : j \in S <=> /\ j \in 0..(Span(q.height) - 1)
                             /\ j % Span(k) \in Inside(m, Kid(q, Slot(j, q.height)), k)

LEMMA HoldsIs ==
    ASSUME Sizes, NEW m, Good(m), NEW x, x \in DOMAIN m, NEW S, Holds(m, m[x], S)
    PROVE  S = Inside(m, x, m[x].height)
<1> DEFINE K == m[x].height
<1>1. m[x] \in BNode /\ m[x].bits \subseteq Chunk /\ K \in Nat
  BY GoodIs, HeapIs, NodeIs
<1>2. CASE K = 0
  <2>1. Inside(m, x, 0) = m[x].bits \cap Chunk
    BY InsideUnfold
  <2> QED BY <1>1, <1>2, <2>1 DEF Holds
<1>3. CASE K # 0
  <2>1. PICK k \in Nat : K = k + 1
    <3>1. K - 1 \in Nat /\ K = (K - 1) + 1
      BY <1>1, <1>3
    <3> QED BY <3>1
  <2>2. P!Over(K, k)
    BY <1>1, <2>1 DEF P!Over
  <2>3. \A j : j \in S <=> /\ j \in 0..(Span(K) - 1)
                           /\ j % Span(k) \in Inside(m, Kid(m[x], Slot(j, K)), k)
    BY <2>2 DEF Holds
  <2>4. \A j : j \in Inside(m, x, K) <=>
                 /\ j \in 0..(Span(K) - 1)
                 /\ j % Span(k) \in Inside(m, Kid(m[x], Slot(j, K)), k)
    BY <2>2, InsideUnfold
  <2> HIDE DEF K
  <2>5. \A j : j \in S <=> j \in Inside(m, x, K)
    BY <2>3, <2>4
  <2> QED BY <2>5 DEF K
<1> QED BY <1>2, <1>3

LEMMA HoldsStays ==
    ASSUME Sizes, NEW m, Good(m), NEW o, Good(o), Extends(m, o), NEW q, NEW S, Holds(m, q, S)
    PROVE  Holds(o, q, S)
<1>1. Fits(o, q)
  BY DEF Holds, Fits, Extends
<1>2. ASSUME NEW k, P!Over(q.height, k), NEW s PROVE Inside(o, Kid(q, s), k) = Inside(m, Kid(q, s), k)
  <2>1. Kid(q, s) \in DOMAIN m \cup {Nil}
    BY DEF Holds, Fits, Kid
  <2>2. k \in Nat
    BY <1>2 DEF P!Over
  <2> QED BY <2>1, <2>2, InsideStays
<1> QED BY <1>1, <1>2 DEF Holds

\* The number at is new to m; its node is to be q, with the ids S below it.
IsNew(m, at, q, S) ==
    /\ Sound(m) /\ at \in Nat \ {Nil} /\ at \notin DOMAIN m
    /\ Holds(m, q, S) /\ S # {} /\ q.count = Cardinality(S)

\* And in o it is.
HasNew(m, at, q, S, o) ==
    /\ Sound(o) /\ Extends(m, o)
    /\ DOMAIN o = DOMAIN m \cup {at} /\ o[at] = q
    /\ Inside(o, at, q.height) = S

LEMMA OneNode ==
    ASSUME Sizes, NEW m, NEW at, NEW q, NEW S, IsNew(m, at, q, S)
    PROVE  HasNew(m, at, q, S, With(m, at, q))
<1> DEFINE o == With(m, at, q)
<1>0. /\ Sound(m) /\ at \in Nat \ {Nil} /\ at \notin DOMAIN m
      /\ Holds(m, q, S) /\ S # {} /\ q.count = Cardinality(S)
  BY DEF IsNew
<1>1. /\ Good(m) /\ m \in Heaps /\ P!Closed(m) /\ Graded(m)
      /\ DOMAIN m \subseteq Nat \ {Nil} /\ IsFiniteSet(DOMAIN m) /\ \A x \in DOMAIN m : m[x] \in BNode
  BY <1>0, GoodIs, HeapIs DEF Sound, Good
<1>2. q \in BNode /\ Fits(m, q)
  BY <1>0 DEF Holds
<1>3. /\ o = [x \in DOMAIN o |-> o[x]] /\ DOMAIN o = DOMAIN m \cup {at} /\ o[at] = q
      /\ \A x \in DOMAIN m : o[x] = m[x]
  BY <1>0 DEF With
<1> SUFFICES HasNew(m, at, q, S, o)
  OBVIOUS
<1> HIDE DEF o
<1>4. o \in Heaps
  <2>1. IsFiniteSet(DOMAIN o)
    BY <1>1, <1>3, FS_AddElement
  <2>2. DOMAIN o \subseteq Nat \ {Nil} /\ \A x \in DOMAIN o : o[x] \in BNode
    BY <1>0, <1>1, <1>2, <1>3
  <2> QED BY <1>3, <2>1, <2>2, IsHeap
<1>5. Extends(m, o)
  BY <1>3 DEF Extends
<1>6. ASSUME NEW x \in DOMAIN o, NEW s \in DOMAIN o[x].kids
      PROVE  o[x].kids[s] \in DOMAIN o /\ s < Fan /\ o[o[x].kids[s]].height + 1 = o[x].height
  <2>1. CASE x = at
    <3>1. s < Fan /\ q.kids[s] \in DOMAIN m /\ m[q.kids[s]].height + 1 = q.height
      BY <1>2, <1>3, <2>1 DEF Fits
    <3> QED BY <1>3, <2>1, <3>1
  <2>2. CASE x # at
    <3>1. x \in DOMAIN m /\ o[x] = m[x]
      BY <1>3, <2>2
    <3>2. s < Fan /\ m[x].kids[s] \in DOMAIN m /\ m[m[x].kids[s]].height + 1 = m[x].height
      BY <1>1, <3>1 DEF P!Closed, Graded
    <3> QED BY <1>3, <3>1, <3>2
  <2> QED BY <2>1, <2>2
<1>7. Good(o)
  BY <1>4, <1>6 DEF Good, P!Closed, Graded
<1>8. Inside(o, at, q.height) = S
  <2>1. Holds(o, o[at], S)
    BY <1>0, <1>1, <1>3, <1>5, <1>7, HoldsStays
  <2> QED BY <1>3, <1>7, <2>1, HoldsIs
<1>9. Sound(o)
  <2>1. \A x \in DOMAIN m : Counts(o, x)
    BY <1>0, <1>5, <1>7, SoundStays
  <2>2. Counts(o, at)
    BY <1>0, <1>3, <1>8 DEF Counts
  <2> QED BY <1>3, <1>7, <2>1, <2>2 DEF Sound
<1> QED BY <1>3, <1>5, <1>8, <1>9 DEF HasNew

----------------------------------------------------------------------------
(* One level of and, or and andNot.                                        *)

LEMMA AfterIs ==
    ASSUME NEW m, m \in Heaps, NEW l, l \in Nat, NEW at, at = After(m, l)
    PROVE  at \in Nat \ {Nil} /\ l < at /\ at \notin DOMAIN m
<1> DEFINE c == Cardinality(DOMAIN m)
           names == (l + 1)..(l + 1 + c)
           unused == names \ DOMAIN m
<1>1. IsFiniteSet(DOMAIN m) /\ c \in Nat
  BY HeapIs, FS_CardinalityType
<1>2. unused # {}
  <2> SUFFICES ASSUME names \subseteq DOMAIN m PROVE FALSE
    OBVIOUS
  <2>1. Cardinality(names) <= c
    BY <1>1, FS_Subset
  <2>2. Cardinality(names) = c + 1
    <3>1. l + 1 \in Int /\ l + 1 + c \in Int /\ ~ (l + 1 > l + 1 + c)
      BY <1>1
    <3>2. Cardinality(names) = ((l + 1 + c) - (l + 1)) + 1
      BY <3>1, FS_Interval
    <3> QED BY <1>1, <3>2
  <2> QED BY <1>1, <2>1, <2>2
<1>3. \A x \in unused : x \in Nat /\ l < x /\ x # 0 /\ x \notin DOMAIN m
  BY <1>1
<1>4. at = Lowest(unused)
  BY DEF After
<1> HIDE DEF unused
<1>5. unused \subseteq Nat
  BY <1>3
<1>6. at \in unused
  <2>1. \E x \in unused : \A y \in unused : x <= y
    BY <1>2, <1>5, P!LeastExists
  <2> QED BY <1>4, <2>1 DEF Lowest
<1> QED BY <1>3, <1>6 DEF Nil

\* What has been made of m: nodes of epoch 0, numbered from l + 1 to g.last.
More(m, l, g) ==
    /\ g = [heap |-> g.heap, node |-> g.node, last |-> g.last]
    /\ Sound(g.heap) /\ Extends(m, g.heap)
    /\ g.last \in Nat /\ l <= g.last
    /\ \A x \in DOMAIN g.heap : x \notin DOMAIN m =>
          l < x /\ x <= g.last /\ g.heap[x].epoch = 0

\* The contents g.node of a node of height K have the ids S.
Makes(m, l, K, S, g) ==
    /\ More(m, l, g)
    /\ Holds(g.heap, g.node, S)
    /\ g.node.height = K /\ g.node.epoch = 0
    /\ IsFiniteSet(S) /\ g.node.count = Cardinality(S)

\* The node r.node, of height K if it is not Nil, has the ids S.
Gives(m, l, K, S, r) ==
    /\ More(m, l, r)
    /\ r.node \in DOMAIN r.heap \cup {Nil}
    /\ r.node # Nil => r.heap[r.node].height = K
    /\ Inside(r.heap, r.node, K) = S

LEMMA BuiltGives ==
    ASSUME Sizes, NEW m, Sound(m), NEW l, l \in Nat, NEW K, K \in Nat, NEW S, NEW g,
           Makes(m, l, K, S, g), NEW a, a \in DOMAIN m, m[a].height = K,
           NEW b, b \in DOMAIN m, m[b].height = K, NEW op
    PROVE  Gives(m, l, K, S, Built(op, m, a, b, g))
<1> DEFINE at == After(m, g.last)
           h == g.heap
           q == g.node
           r == Built(op, m, a, b, g)
           o == With(h, at, q)
<1>1. /\ g = [heap |-> h, node |-> q, last |-> g.last]
      /\ Sound(h) /\ Good(h) /\ Extends(m, h) /\ g.last \in Nat /\ l <= g.last
      /\ \A x \in DOMAIN h : x \notin DOMAIN m => l < x /\ x <= g.last /\ h[x].epoch = 0
  BY DEF Makes, More, Sound
<1>2. /\ Holds(h, q, S) /\ q.height = K /\ q.epoch = 0 /\ IsFiniteSet(S)
      /\ q.count = Cardinality(S)
  BY DEF Makes
<1>3. r = IF q.count = 0 THEN [heap |-> h, node |-> Nil, last |-> g.last]
          ELSE IF Is(m, a, q) THEN [heap |-> h, node |-> a, last |-> g.last]
          ELSE IF op # "AndNot" /\ Is(m, b, q) THEN [heap |-> h, node |-> b, last |-> g.last]
          ELSE [heap |-> o, node |-> at, last |-> at]
  <2> HIDE DEF h, q
  <2>1. \A y : [g EXCEPT !.node = y] = [heap |-> h, node |-> y, last |-> g.last]
    BY <1>1
  <2> QED BY <2>1 DEF Built, h, q, o
<1> SUFFICES Gives(m, l, K, S, r)
  OBVIOUS
<1> HIDE DEF r, h, q, at, o
<1>4. ASSUME NEW y, r = [heap |-> h, node |-> y, last |-> g.last] PROVE More(m, l, r)
  <2>1. r.heap = h /\ r.node = y /\ r.last = g.last
    BY <1>4
  <2> QED BY <1>1, <1>4, <2>1 DEF More
<1>5. ASSUME NEW y \in DOMAIN m, m[y].height = K, Is(m, y, q),
             r = [heap |-> h, node |-> y, last |-> g.last]
      PROVE  Gives(m, l, K, S, r)
  <2>1. More(m, l, r) /\ r.heap = h /\ r.node = y
    BY <1>4, <1>5
  <2>2. y \in DOMAIN h /\ h[y] = m[y]
    BY <1>1 DEF Extends
  <2>3. h[y] \in BNode
    BY <1>1, <2>2, GoodIs, HeapIs
  <2>4. h[y].height = q.height /\ h[y].bits = q.bits /\ h[y].kids = q.kids
    BY <1>2, <1>5, <2>2 DEF Is
  <2>5. \A s : Kid(h[y], s) = Kid(q, s)
    BY <2>4 DEF Kid
  <2>6. Fits(h, h[y])
    BY <1>2, <2>4 DEF Holds, Fits
  <2>7. Holds(h, h[y], S)
    BY <1>2, <2>3, <2>4, <2>5, <2>6 DEF Holds
  <2>8. Inside(h, y, K) = S
    BY <1>1, <1>2, <2>2, <2>4, <2>7, HoldsIs
  <2> QED BY <1>2, <2>1, <2>2, <2>4, <2>8 DEF Gives
<1>6. CASE q.count = 0
  <2>1. More(m, l, r) /\ r.heap = h /\ r.node = Nil
    BY <1>3, <1>4, <1>6
  <2>2. S = {}
    BY <1>2, <1>6, FS_EmptySet
  <2>3. Inside(h, Nil, K) = {}
    BY <1>1, InsideUnfold
  <2> QED BY <2>1, <2>2, <2>3 DEF Gives
<1>7. CASE q.count # 0 /\ Is(m, a, q)
  BY <1>3, <1>5, <1>7
<1>8. CASE q.count # 0 /\ ~ Is(m, a, q) /\ op # "AndNot" /\ Is(m, b, q)
  BY <1>3, <1>5, <1>8
<1>9. CASE q.count # 0 /\ ~ Is(m, a, q) /\ ~ (op # "AndNot" /\ Is(m, b, q))
  <2>1. r = [heap |-> o, node |-> at, last |-> at] /\ r.heap = o /\ r.node = at /\ r.last = at
    BY <1>3, <1>9
  <2>2. at \in Nat \ {Nil} /\ g.last < at /\ at \notin DOMAIN m
    BY <1>1, AfterIs, GoodIs DEF Sound, at
  <2>3. at \notin DOMAIN h
    BY <1>1, <2>2
  <2>4. S # {}
    BY <1>2, <1>9, FS_EmptySet
  <2>5. /\ Sound(o) /\ Extends(h, o) /\ DOMAIN o = DOMAIN h \cup {at} /\ o[at] = q
        /\ Inside(o, at, q.height) = S
    <3>1. IsNew(h, at, q, S)
      BY <1>1, <1>2, <2>2, <2>3, <2>4 DEF IsNew
    <3>2. HasNew(h, at, q, S, o)
      BY <3>1, OneNode DEF o
    <3> QED BY <3>2 DEF HasNew
  <2>6. Extends(m, o)
    BY <1>1, <2>5 DEF Extends
  <2>7. l <= at /\ l < at
    BY <1>1, <2>2
  <2>8. ASSUME NEW x \in DOMAIN o, x \notin DOMAIN m PROVE l < x /\ x <= at /\ o[x].epoch = 0
    <3>1. CASE x = at
      BY <1>2, <2>2, <2>5, <2>7, <3>1
    <3>2. CASE x # at
      <4>1. x \in DOMAIN h /\ o[x] = h[x]
        BY <2>5, <3>2 DEF Extends
      <4>2. x \in Nat
        BY <1>1, <4>1, GoodIs, HeapIs
      <4>3. l < x /\ x <= g.last /\ o[x].epoch = 0
        BY <1>1, <2>8, <4>1
      <4> QED BY <1>1, <2>2, <4>2, <4>3
    <3> QED BY <3>1, <3>2
  <2>9. More(m, l, r)
    BY <2>1, <2>2, <2>5, <2>6, <2>7, <2>8 DEF More
  <2> QED BY <1>2, <2>1, <2>5, <2>9 DEF Gives
<1> QED BY <1>6, <1>7, <1>8, <1>9

\* m itself, and what is below the node x of it.
LEMMA NoMore ==
    ASSUME Sizes, NEW m, Sound(m), NEW l, l \in Nat, NEW y
    PROVE  More(m, l, [heap |-> m, node |-> y, last |-> l])
BY DEF More, Extends

\* The node x of m is of height k, or Nil.
At(m, x, k) == x \in DOMAIN m \cup {Nil} /\ (x # Nil => m[x].height = k)

LEMMA SparedGives ==
    ASSUME Sizes, NEW m, Sound(m), NEW l, l \in Nat, NEW k, k \in Nat,
           NEW x, At(m, x, k), NEW y, At(m, y, k), x = y \/ x = Nil \/ y = Nil,
           NEW op, op \in Ops, NEW r, r = [heap |-> m, node |-> Spared(op, x, y), last |-> l]
    PROVE  Gives(m, l, k, Meet(op, Inside(m, x, k), Inside(m, y, k)), r)
<1> DEFINE z == Spared(op, x, y)
<1>1. More(m, l, r) /\ r.heap = m /\ r.node = z
  BY NoMore
<1>2. Inside(m, Nil, k) = {}
  BY InsideUnfold DEF Sound
<1>3. op = "And" \/ op = "Or" \/ op = "AndNot"
  BY DEF Ops
<1>4. z \in DOMAIN m \cup {Nil} /\ (z # Nil => m[z].height = k)
  BY DEF Spared, At
<1>5. Inside(m, z, k) = Meet(op, Inside(m, x, k), Inside(m, y, k))
  <2> DEFINE X == Inside(m, x, k)
             Y == Inside(m, y, k)
  <2>1. x = y => X = Y
    OBVIOUS
  <2>2. (x = Nil => X = {}) /\ (y = Nil => Y = {})
    BY <1>2
  <2>3. z = x => Inside(m, z, k) = X
    OBVIOUS
  <2>4. z = y => Inside(m, z, k) = Y
    OBVIOUS
  <2>5. z = Nil => Inside(m, z, k) = {}
    BY <1>2
  <2> HIDE DEF X, Y
  <2>6. CASE op = "And"
    <3>1. z = IF x = y THEN x ELSE Nil
      BY <2>6 DEF Spared
    <3>2. Meet(op, X, Y) = X \cap Y
      BY <2>6 DEF Meet
    <3> HIDE DEF z
    <3> QED BY <2>1, <2>2, <2>3, <2>4, <2>5, <3>1, <3>2 DEF X, Y
  <2>7. CASE op = "Or"
    <3>1. z = IF x = y THEN x ELSE IF x = Nil THEN y ELSE x
      BY <2>7 DEF Spared
    <3>2. Meet(op, X, Y) = X \cup Y
      BY <2>7 DEF Meet
    <3> HIDE DEF z
    <3> QED BY <2>1, <2>2, <2>3, <2>4, <2>5, <3>1, <3>2 DEF X, Y
  <2>8. CASE op = "AndNot"
    <3>1. z = IF x = y THEN Nil ELSE x
      BY <2>8 DEF Spared
    <3>2. Meet(op, X, Y) = X \ Y
      BY <2>8 DEF Meet
    <3> HIDE DEF z
    <3> QED BY <2>1, <2>2, <2>3, <2>4, <2>5, <3>1, <3>2 DEF X, Y
  <2> QED BY <1>3, <2>6, <2>7, <2>8 DEF X, Y
<1> HIDE DEF z
<1> QED BY <1>1, <1>4, <1>5 DEF Gives

\* What an operation makes of sets is in them.
LEMMA MeetIn ==
    ASSUME NEW op, op \in Ops, NEW S, NEW T
    PROVE  /\ Meet(op, S, T) \subseteq S \cup T
           /\ \A U : Meet(op, S, T) \cap U = Meet(op, S \cap U, T \cap U)
BY DEF Ops, Meet

LEMMA WordsIs ==
    ASSUME Sizes, NEW m, m \in Heaps, NEW a, a \in DOMAIN m, NEW b, b \in DOMAIN m, NEW l,
           NEW op, op \in Ops, NEW g, g = Words(op, m, a, b, l), NEW w,
           w = Meet(op, m[a].bits, m[b].bits)
    PROVE  /\ g = [heap |-> m, node |-> g.node, last |-> l]
           /\ g.node \in BNode /\ g.node.epoch = 0 /\ g.node.height = 0
           /\ g.node.bits = w /\ g.node.kids = << >>
           /\ w \subseteq Chunk /\ IsFiniteSet(w) /\ g.node.count = Cardinality(w)
<1>1. m[a].bits \subseteq Chunk /\ m[b].bits \subseteq Chunk
  BY HeapIs, NodeIs
<1>2. w \subseteq Chunk
  BY <1>1, MeetIn
<1>3. IsFiniteSet(w) /\ Cardinality(w) \in Nat
  <2>1. IsFiniteSet(Chunk)
    BY FS_Interval DEF Chunk, Sizes
  <2> QED BY <1>2, <2>1, FS_Subset, FS_CardinalityType
<1>4. << >> \in P!Maps(Nat)
  BY P!BlankIs, P!NodeIs
<1>5. g = [heap |-> m, last |-> l,
           node |-> [epoch |-> 0, height |-> 0, count |-> Cardinality(w), bits |-> w, kids |-> << >>]]
  BY DEF Words, Blank
<1>6. g.node = [epoch |-> 0, height |-> 0, count |-> Cardinality(w), bits |-> w, kids |-> << >>]
      /\ g.heap = m /\ g.last = l
  BY <1>5
<1>7. g.node \in BNode
  BY <1>2, <1>3, <1>4, <1>6 DEF BNode
<1>8. g = [heap |-> m, node |-> g.node, last |-> l]
  BY <1>5, <1>6
<1> QED BY <1>2, <1>3, <1>6, <1>7, <1>8

LEMMA WordsMakes ==
    ASSUME Sizes, NEW m, Sound(m), NEW l, l \in Nat,
           NEW a, a \in DOMAIN m, m[a].height = 0, NEW b, b \in DOMAIN m, m[b].height = 0,
           NEW op, op \in Ops
    PROVE  Makes(m, l, 0, Meet(op, Inside(m, a, 0), Inside(m, b, 0)), Words(op, m, a, b, l))
<1> DEFINE g == Words(op, m, a, b, l)
           w == Meet(op, m[a].bits, m[b].bits)
<1>1. Good(m) /\ m \in Heaps
  BY GoodIs DEF Sound
<1>2. /\ g = [heap |-> m, node |-> g.node, last |-> l]
      /\ g.node \in BNode /\ g.node.epoch = 0 /\ g.node.height = 0
      /\ g.node.bits = w /\ g.node.kids = << >>
      /\ w \subseteq Chunk /\ IsFiniteSet(w) /\ g.node.count = Cardinality(w)
  BY <1>1, WordsIs
<1>3. Meet(op, Inside(m, a, 0), Inside(m, b, 0)) = w
  <2>1. Inside(m, a, 0) = m[a].bits /\ Inside(m, b, 0) = m[b].bits
    <3>1. m[a].bits \subseteq Chunk /\ m[b].bits \subseteq Chunk
      BY <1>1, HeapIs, NodeIs
    <3>2. Inside(m, a, 0) = m[a].bits \cap Chunk /\ Inside(m, b, 0) = m[b].bits \cap Chunk
      BY <1>1, InsideUnfold
    <3> QED BY <3>1, <3>2
  <2> QED BY <2>1
<1> HIDE DEF g, w
<1>4. More(m, l, g) /\ g.heap = m
  <2>1. More(m, l, [heap |-> m, node |-> g.node, last |-> l])
    BY NoMore
  <2> QED BY <1>2, <2>1
<1>5. Holds(m, g.node, w)
  <2>1. \A k : ~ P!Over(0, k)
    BY DEF P!Over
  <2>2. Fits(m, g.node)
    BY <1>2 DEF Fits
  <2> QED BY <1>2, <2>1, <2>2 DEF Holds
<1>6. Makes(m, l, 0, w, g)
  BY <1>2, <1>4, <1>5 DEF Makes
<1> QED BY <1>3, <1>6 DEF g

----------------------------------------------------------------------------
(* The children of two directory nodes, slot by slot.                      *)

Contents(m) == {g \in [heap : Heaps, node : BNode, last : Nat] : DOMAIN m \subseteq DOMAIN g.heap}
Answers(m)  == {r \in [heap : Heaps, node : Nat, last : Nat] :
                   DOMAIN m \subseteq DOMAIN r.heap /\ r.node \in DOMAIN r.heap \cup {Nil}}
Tasks(m)    == (DOMAIN m \cup {Nil}) \X (DOMAIN m \cup {Nil}) \X Nat

\* In slot s of the node z, which is g.node or g.node and r.node.
Added(g, s, r, z) ==
    /\ z \in BNode /\ z.height = g.node.height /\ z.epoch = g.node.epoch
    /\ r.node = Nil => z = g.node
    /\ r.node # Nil => /\ z.count = g.node.count + r.heap[r.node].count
                       /\ P!IsWith(z.kids, g.node.kids, s, r.node)

LEMMA AddIs ==
    ASSUME NEW m, NEW g, g \in Contents(m), NEW r, r \in Answers(m), NEW s, s \in Nat
    PROVE  /\ Add(g, s, r) \in Contents(m)
           /\ Add(g, s, r).heap = Joined(r.heap, g.heap) /\ Add(g, s, r).last = r.last
           /\ Added(g, s, r, Add(g, s, r).node)
<1> DEFINE q == g.node
           c == r.node
           f == With(q.kids, s, c)
           u == q.count + r.heap[c].count
           z == IF c = Nil THEN q ELSE [q EXCEPT !.count = u, !.kids = f]
           o == Joined(r.heap, g.heap)
<1>1. /\ g.heap \in Heaps /\ q \in BNode
      /\ r.heap \in Heaps /\ c \in Nat /\ c \in DOMAIN r.heap \cup {Nil} /\ r.last \in Nat
      /\ DOMAIN m \subseteq DOMAIN r.heap
  BY DEF Contents, Answers
<1>2. o \in Heaps /\ DOMAIN m \subseteq DOMAIN o
  <2>1. o \in Heaps /\ DOMAIN o = (DOMAIN r.heap) \cup (DOMAIN g.heap)
    BY <1>1, JoinedHeap
  <2> QED BY <1>1, <2>1
<1>3. Add(g, s, r) = [heap |-> o, last |-> r.last, node |-> z]
  BY DEF Add
<1>4. c # Nil => f \in P!Maps(Nat) /\ P!IsWith(f, q.kids, s, c)
  <2>1. q.kids \in P!Maps(Nat)
    BY <1>1, NodeIs
  <2> HIDE DEF q, c
  <2> QED BY <1>1, <2>1, WithIs, P!WithIs
<1>5. c # Nil => u \in Int
  <2>1. c # Nil => r.heap[c].count \in Int
    BY <1>1, HeapIs, NodeIs
  <2>2. q.count \in Int
    BY <1>1, NodeIs
  <2> QED BY <2>1, <2>2
<1> HIDE DEF q, c, f, u, o
<1>6. c # Nil => z \in BNode /\ z.height = q.height /\ z.epoch = q.epoch /\ z.count = u /\ z.kids = f
  BY <1>1, <1>4, <1>5 DEF BNode
<1>7. c = Nil => z = q
  OBVIOUS
<1> HIDE DEF z
<1>8. z \in BNode
  BY <1>1, <1>6, <1>7
<1>9. Added(g, s, r, z)
  BY <1>4, <1>6, <1>7, <1>8 DEF Added, q, c, u
<1>10. Add(g, s, r) \in Contents(m)
  BY <1>1, <1>2, <1>3, <1>8 DEF Contents
<1> QED BY <1>3, <1>9, <1>10 DEF o

\* join is the scan of the slots.
Scans(m, a, b, l, below, join) ==
    /\ join[0] = [heap |-> m, last |-> l, node |-> Blank(m[a].height)]
    /\ \A s \in Nat :
          /\ join[s] \in Contents(m)
          /\ join[s + 1] = Add(join[s], s, below[<<Kid(m[a], s), Kid(m[b], s), join[s].last>>])
    /\ Children(m, a, b, l, below) = join[Fan]

LEMMA KidTask ==
    ASSUME NEW m, P!Closed(m), NEW a, a \in DOMAIN m, NEW b, b \in DOMAIN m,
           NEW s, NEW n, n \in Nat
    PROVE  <<Kid(m[a], s), Kid(m[b], s), n>> \in Tasks(m)
<1>1. Kid(m[a], s) \in DOMAIN m \cup {Nil} /\ Kid(m[b], s) \in DOMAIN m \cup {Nil}
  BY DEF Kid, P!Closed
<1> QED BY <1>1 DEF Tasks

LEMMA ChildrenUnfold ==
    ASSUME NEW m, m \in Heaps, P!Closed(m), NEW a, a \in DOMAIN m, NEW b, b \in DOMAIN m,
           NEW l, l \in Nat, NEW below, below \in [Tasks(m) -> Answers(m)]
    PROVE  \E join : Scans(m, a, b, l, below, join)
<1> DEFINE T == Contents(m)
           Z == [heap |-> m, last |-> l, node |-> Blank(m[a].height)]
           N(s, g) == Add(g, s, below[<<Kid(m[a], s), Kid(m[b], s), g.last>>])
           E(f) == [s \in Nat |->
                      IF s = 0 THEN [heap |-> m, last |-> l, node |-> Blank(m[a].height)]
                      ELSE Add(f[s - 1], s - 1,
                               below[<<Kid(m[a], s - 1), Kid(m[b], s - 1), f[s - 1].last>>])]
           join == CHOOSE f : f = E(f)
           G == [p \in Nat \X T |-> N(p[1], p[2])]
<1>1. Z \in T
  <2>1. m[a].height \in Nat
    BY HeapIs, NodeIs
  <2>2. Blank(m[a].height) \in BNode
    BY <2>1, BlankIs
  <2> QED BY <2>2 DEF Contents
<1>2. ASSUME NEW s \in Nat, NEW g \in T PROVE N(s, g) \in T
  <2> DEFINE r == below[<<Kid(m[a], s), Kid(m[b], s), g.last>>]
  <2>1. g.last \in Nat
    BY DEF Contents
  <2>2. r \in Answers(m)
    BY <2>1, KidTask
  <2> HIDE DEF r
  <2>3. Add(g, s, r) \in Contents(m)
    BY <2>2, AddIs
  <2> QED BY <2>3 DEF r
<1> HIDE DEF T, Z, N
<1>3. \E f : f = E(f)
  <2>1. G \in [Nat \X T -> T]
    BY <1>2
  <2>2. \A k \in Nat, g \in T : G[<<k, g>>] = N(k, g)
    OBVIOUS
  <2> HIDE DEF G
  <2>3. PICK f : P!Follows(f, T, Z, G)
    BY <1>1, <2>1, P!RecursionExists DEF P!Recursive
  <2>4. f \in [Nat -> T] /\ f[0] = Z /\ \A k \in Nat : f[k + 1] = N(k, f[k])
    BY <2>2, <2>3 DEF P!Follows
  <2>5. ASSUME NEW k \in Nat PROVE f[k] = E(f)[k]
    <3>1. CASE k = 0
      BY <2>4, <3>1 DEF Z
    <3>2. CASE k # 0
      <4>1. k - 1 \in Nat /\ (k - 1) + 1 = k
        BY <3>2
      <4>2. f[k] = N(k - 1, f[k - 1])
        BY <2>4, <4>1
      <4> QED BY <3>2, <4>2 DEF N
    <3> QED BY <3>1, <3>2
  <2>6. f = E(f)
    BY <2>4, <2>5
  <2> QED BY <2>6
<1>4. join = E(join)
  BY <1>3
<1>5. Children(m, a, b, l, below) = join[Fan]
  BY DEF Children
<1> HIDE DEF join
<1>6. join[0] = Z /\ \A s \in Nat : join[s + 1] = N(s, join[s])
  <2>1. \A k \in Nat : k + 1 \in Nat /\ k + 1 # 0 /\ (k + 1) - 1 = k
    OBVIOUS
  <2>2. join[0] = Z
    BY <1>4 DEF Z
  <2>3. \A k \in Nat : join[k + 1] = Add(join[k], k, below[<<Kid(m[a], k), Kid(m[b], k), join[k].last>>])
    BY <1>4, <2>1
  <2> QED BY <2>2, <2>3 DEF N
<1> DEFINE S == {s \in Nat : join[s] \in T}
<1>7. \A s \in Nat : s \in S
  <2>1. 0 \in S
    BY <1>1, <1>6
  <2>2. ASSUME NEW s \in S PROVE s + 1 \in S
    <3>1. s \in Nat /\ s + 1 \in Nat /\ join[s] \in T
      OBVIOUS
    <3> QED BY <1>2, <1>6, <3>1
  <2> HIDE DEF S
  <2>3. S \in SUBSET Nat
    BY DEF S
  <2> QED BY <2>1, <2>2, <2>3, P!SetInduction
<1>8. Scans(m, a, b, l, below, join)
  BY <1>5, <1>6, <1>7 DEF Scans, T, Z, N
<1> QED BY <1>8

\* g.node has, in the slots before s, what W asks for.
Partly(m, l, k, K, W, s, g) ==
    /\ More(m, l, g)
    /\ g.node \in BNode /\ g.node.height = K /\ g.node.epoch = 0 /\ Fits(g.heap, g.node)
    /\ \A t \in DOMAIN g.node.kids : t < s
    /\ \A t \in 0..(Fan - 1) : t < s => Inside(g.heap, Kid(g.node, t), k) = W[t]
    /\ g.node.count = Cardinality(Spread(W, k, K, s))

LEMMA AddPartly ==
    ASSUME Sizes, NEW m, Sound(m), NEW l, l \in Nat, NEW k, NEW K, P!Over(K, k),
           NEW W, Spreads(W, k), NEW s, s \in 0..(Fan - 1), NEW g, g \in Contents(m),
           Partly(m, l, k, K, W, s, g), NEW r, r \in Answers(m), Gives(m, g.last, k, W[s], r)
    PROVE  Partly(m, l, k, K, W, s + 1, Add(g, s, r))
<1> DEFINE i == Add(g, s, r)
           z == i.node
           o == i.heap
           h == g.heap
           q == g.node
           d == r.heap
           c == r.node
<1>1. k \in Nat /\ K \in Nat /\ K = k + 1 /\ s \in Nat /\ s < Fan /\ Fan \in Nat
  BY DEF P!Over, Sizes
<1>2. i \in Contents(m) /\ o = Joined(d, h) /\ i.last = r.last /\ Added(g, s, r, z)
  BY <1>1, AddIs
<1>3. /\ Sound(h) /\ Extends(m, h) /\ g.last \in Nat /\ l <= g.last
      /\ \A x \in DOMAIN h : x \notin DOMAIN m => l < x /\ x <= g.last /\ h[x].epoch = 0
  BY DEF Partly, More
<1>4. /\ Sound(d) /\ Extends(m, d) /\ r.last \in Nat /\ g.last <= r.last
      /\ \A x \in DOMAIN d : x \notin DOMAIN m => g.last < x /\ x <= r.last /\ d[x].epoch = 0
      /\ c \in DOMAIN d \cup {Nil} /\ (c # Nil => d[c].height = k) /\ Inside(d, c, k) = W[s]
  BY DEF Gives, More
<1>5. /\ q \in BNode /\ q.height = K /\ q.epoch = 0 /\ Fits(h, q)
      /\ \A t \in DOMAIN q.kids : t < s
      /\ \A t \in 0..(Fan - 1) : t < s => Inside(h, Kid(q, t), k) = W[t]
      /\ q.count = Cardinality(Spread(W, k, K, s))
  BY DEF Partly
<1>6. i = [heap |-> o, node |-> z, last |-> i.last] /\ z \in BNode
  BY <1>2 DEF Contents
<1>7. /\ z.height = q.height /\ z.epoch = q.epoch
      /\ c = Nil => z = q
      /\ c # Nil => z.count = q.count + d[c].count /\ P!IsWith(z.kids, q.kids, s, c)
  BY <1>2 DEF Added
<1> HIDE DEF i, z, o, h, q, d, c
<1>8. \A x \in DOMAIN h : x \in Nat
  BY <1>3, GoodIs, HeapIs DEF Sound
<1>9. (DOMAIN d) \cap (DOMAIN h) \subseteq DOMAIN m
  <2> SUFFICES ASSUME NEW x \in DOMAIN d, x \in DOMAIN h, x \notin DOMAIN m PROVE FALSE
    OBVIOUS
  <2>1. g.last < x /\ x <= g.last /\ x \in Nat
    BY <1>3, <1>4, <1>8
  <2> QED BY <1>3, <2>1
<1>10. Sound(o) /\ Extends(d, o) /\ Extends(h, o)
  BY <1>2, <1>3, <1>4, <1>9, JoinedIs
<1>11. DOMAIN o = (DOMAIN d) \cup (DOMAIN h)
  BY <1>2, <1>3, <1>4, GoodIs, JoinedHeap DEF Sound
<1>12. Good(m) /\ Good(h) /\ Good(d) /\ Good(o)
  BY <1>3, <1>4, <1>10 DEF Sound
<1>13. More(m, l, i)
  <2>1. Extends(m, o)
    BY <1>3, <1>10 DEF Extends
  <2>2. l <= r.last
    BY <1>3, <1>4
  <2>3. ASSUME NEW x \in DOMAIN o, x \notin DOMAIN m
        PROVE  l < x /\ x <= r.last /\ o[x].epoch = 0
    <3>1. CASE x \in DOMAIN h
      <4>1. l < x /\ x <= g.last /\ h[x].epoch = 0 /\ x \in Nat /\ o[x] = h[x]
        BY <1>3, <1>8, <1>10, <2>3, <3>1 DEF Extends
      <4> QED BY <1>3, <1>4, <4>1
    <3>2. CASE x \in DOMAIN d
      <4>1. g.last < x /\ x <= r.last /\ d[x].epoch = 0 /\ o[x] = d[x]
        BY <1>4, <1>10, <2>3, <3>2 DEF Extends
      <4>2. x \in Nat
        BY <1>12, <3>2, GoodIs, HeapIs
      <4> QED BY <1>3, <1>4, <4>1, <4>2
    <3> QED BY <1>11, <3>1, <3>2
  <2> QED BY <1>2, <1>4, <1>6, <1>10, <2>1, <2>2, <2>3 DEF More, o
<1>14. \A t : Kid(q, t) \in DOMAIN h \cup {Nil}
  BY <1>5 DEF Fits, Kid
<1>15. \A t \in 0..(Fan - 1) : t < s => Inside(o, Kid(q, t), k) = W[t]
  BY <1>1, <1>5, <1>10, <1>12, <1>14, InsideStays
<1>16. Inside(o, c, k) = W[s]
  BY <1>1, <1>4, <1>10, <1>12, InsideStays
<1>17. \A t \in 0..(Fan - 1) : t < s + 1 => t < s \/ t = s
  BY <1>1
<1>18. Fits(o, q)
  BY <1>5, <1>10 DEF Fits, Extends
<1>19. /\ IsFiniteSet(Spread(W, k, K, s))
       /\ W[s] = {} => Spread(W, k, K, s + 1) = Spread(W, k, K, s)
       /\ Cardinality(Spread(W, k, K, s + 1)) = Cardinality(Spread(W, k, K, s)) + Cardinality(W[s])
  BY SpreadIs
<1>20. CASE c = Nil
  <2>1. z = q
    BY <1>7, <1>20
  <2>2. W[s] = {}
    BY <1>4, <1>12, <1>1, <1>20, InsideUnfold
  <2>3. Kid(q, s) = c
    BY <1>1, <1>5, <1>20 DEF Kid
  <2>4. \A t \in 0..(Fan - 1) : t < s + 1 => Inside(o, Kid(z, t), k) = W[t]
    BY <1>15, <1>16, <1>17, <2>1, <2>3
  <2>5. \A t \in DOMAIN z.kids : t < s + 1
    <3>1. DOMAIN q.kids \subseteq Nat
      BY <1>5, NodeIs, P!MapIs
    <3> QED BY <1>1, <1>5, <2>1, <3>1
  <2>6. z.count = Cardinality(Spread(W, k, K, s + 1))
    BY <1>5, <1>19, <2>1, <2>2
  <2>7. z.height = K /\ z.epoch = 0 /\ Fits(o, z)
    BY <1>5, <1>7, <1>18, <2>1
  <2> QED BY <1>6, <1>13, <2>4, <2>5, <2>6, <2>7 DEF Partly, i, z, o
<1>21. CASE c # Nil
  <2>1. z.count = q.count + d[c].count /\ P!IsWith(z.kids, q.kids, s, c)
    BY <1>7, <1>21
  <2>2. DOMAIN z.kids = DOMAIN q.kids \cup {s} /\ z.kids[s] = c
        /\ \A t \in DOMAIN q.kids : t # s => z.kids[t] = q.kids[t]
    BY <2>1 DEF P!IsWith
  <2>3. c \in DOMAIN d /\ d[c].height = k /\ c \in DOMAIN o /\ o[c] = d[c]
    BY <1>4, <1>10, <1>21 DEF Extends
  <2>4. z.count = Cardinality(Spread(W, k, K, s + 1))
    <3>1. d[c].count = Cardinality(W[s])
      BY <1>4, <2>3 DEF Sound, Counts
    <3>2. z.count = Cardinality(Spread(W, k, K, s)) + Cardinality(W[s])
      BY <1>5, <2>1, <3>1, Zenon
    <3> QED BY <1>19, <3>2
  <2>5. Kid(z, s) = c /\ \A t : t # s => Kid(z, t) = Kid(q, t)
    BY <2>2 DEF Kid
  <2>6. \A t \in 0..(Fan - 1) : t < s + 1 => Inside(o, Kid(z, t), k) = W[t]
    <3> SUFFICES ASSUME NEW t \in 0..(Fan - 1), t < s + 1 PROVE Inside(o, Kid(z, t), k) = W[t]
      OBVIOUS
    <3>1. CASE t = s
      BY <1>16, <2>5, <3>1
    <3>2. CASE t # s
      BY <1>15, <1>17, <2>5, <3>2
    <3> QED BY <3>1, <3>2
  <2>7. \A t \in DOMAIN z.kids : t < s + 1
    <3>1. DOMAIN q.kids \subseteq Nat
      BY <1>5, NodeIs, P!MapIs
    <3> QED BY <1>1, <1>5, <2>2, <3>1
  <2>8. z.height = K /\ z.epoch = 0
    BY <1>5, <1>7
  <2>9. Fits(o, z)
    <3> SUFFICES ASSUME NEW t \in DOMAIN z.kids
                 PROVE  t < Fan /\ z.kids[t] \in DOMAIN o /\ o[z.kids[t]].height + 1 = z.height
      BY DEF Fits
    <3>1. CASE t = s
      BY <1>1, <2>2, <2>3, <2>8, <3>1
    <3>2. CASE t # s
      <4>1. t \in DOMAIN q.kids /\ z.kids[t] = q.kids[t]
        BY <2>2, <3>2
      <4> QED BY <1>7, <1>18, <4>1 DEF Fits
    <3> QED BY <3>1, <3>2
  <2> QED BY <1>6, <1>13, <2>4, <2>6, <2>7, <2>8, <2>9 DEF Partly, i, z, o
<1> QED BY <1>20, <1>21

\* The nodes a and b of m are directory nodes of height K over k.
Dirs(m, a, b, k, K) ==
    /\ P!Over(K, k)
    /\ a \in DOMAIN m /\ m[a].height = K /\ b \in DOMAIN m /\ m[b].height = K

LEMMA KidAt ==
    ASSUME NEW m, Good(m), NEW a, a \in DOMAIN m, NEW k, P!Over(m[a].height, k), NEW s
    PROVE  At(m, Kid(m[a], s), k)
<1>1. m \in Heaps /\ P!Closed(m) /\ Graded(m)
  BY DEF Good
<1>2. CASE s \in DOMAIN m[a].kids
  <2>1. Kid(m[a], s) = m[a].kids[s]
    BY <1>2 DEF Kid
  <2>2. m[a].kids[s] \in DOMAIN m /\ m[m[a].kids[s]].height + 1 = m[a].height
    BY <1>1, <1>2 DEF P!Closed, Graded
  <2>3. m[m[a].kids[s]].height \in Nat
    BY <1>1, <2>2, HeapIs, NodeIs
  <2> QED BY <2>1, <2>2, <2>3 DEF P!Over, At
<1>3. CASE s \notin DOMAIN m[a].kids
  BY <1>3 DEF Kid, At
<1> QED BY <1>2, <1>3

\* What an operation makes of two nodes, it makes of their children in each slot.
LEMMA MeetBelow ==
    ASSUME Sizes, NEW m, Good(m), NEW k, NEW K, NEW a, NEW b, Dirs(m, a, b, k, K),
           NEW op, op \in Ops, NEW j
    PROVE  j \in Meet(op, Inside(m, a, K), Inside(m, b, K)) <=>
              /\ j \in 0..(Span(K) - 1)
              /\ j % Span(k) \in Meet(op, Inside(m, Kid(m[a], Slot(j, K)), k),
                                          Inside(m, Kid(m[b], Slot(j, K)), k))
<1> DEFINE A == Inside(m, a, K)
           B == Inside(m, b, K)
           U == Inside(m, Kid(m[a], Slot(j, K)), k)
           V == Inside(m, Kid(m[b], Slot(j, K)), k)
           l == j % Span(k)
           in == j \in 0..(Span(K) - 1)
<1>1. (j \in A <=> in /\ l \in U) /\ (j \in B <=> in /\ l \in V)
  BY InsideUnfold DEF Dirs
<1>2. op = "And" \/ op = "Or" \/ op = "AndNot"
  BY DEF Ops
<1> HIDE DEF A, B, U, V, l, in
<1>3. j \in Meet(op, A, B) <=> in /\ l \in Meet(op, U, V)
  <2>1. CASE op = "And"
    <3>1. Meet(op, A, B) = A \cap B /\ Meet(op, U, V) = U \cap V
      BY <2>1 DEF Meet
    <3> QED BY <1>1, <3>1
  <2>2. CASE op = "Or"
    <3>1. Meet(op, A, B) = A \cup B /\ Meet(op, U, V) = U \cup V
      BY <2>2 DEF Meet
    <3> QED BY <1>1, <3>1
  <2>3. CASE op = "AndNot"
    <3>1. Meet(op, A, B) = A \ B /\ Meet(op, U, V) = U \ V
      BY <2>3 DEF Meet
    <3> QED BY <1>1, <3>1
  <2> QED BY <1>2, <2>1, <2>2, <2>3
<1> QED BY <1>3 DEF A, B, U, V, l, in

\* below does what the operation asks for at height k.
Works(op, m, k, below) ==
    /\ below \in [Tasks(m) -> Answers(m)]
    /\ \A x, y : \A n \in Nat :
          At(m, x, k) /\ At(m, y, k) =>
             Gives(m, n, k, Meet(op, Inside(m, x, k), Inside(m, y, k)), below[<<x, y, n>>])

LEMMA BlankPartly ==
    ASSUME Sizes, NEW m, Sound(m), NEW l, l \in Nat, NEW k, NEW K, P!Over(K, k),
           NEW W, Spreads(W, k), NEW g, g = [heap |-> m, last |-> l, node |-> Blank(K)]
    PROVE  Partly(m, l, k, K, W, 0, g)
<1>1. K \in Nat
  BY DEF P!Over
<1>2. /\ Blank(K) \in BNode /\ Blank(K).height = K /\ Blank(K).count = 0
      /\ Blank(K).kids = << >>
  BY <1>1, BlankIs
<1>3. Blank(K).epoch = 0
  BY DEF Blank
<1>4. g.heap = m /\ g.node = Blank(K) /\ g.last = l
      /\ g = [heap |-> m, node |-> Blank(K), last |-> l]
  OBVIOUS
<1>5. More(m, l, g)
  BY <1>4, NoMore
<1>6. Fits(m, Blank(K)) /\ \A t \in DOMAIN Blank(K).kids : t < 0
  BY <1>2 DEF Fits
<1>7. \A t \in 0..(Fan - 1) : ~ (t < 0)
  BY DEF Sizes
<1>8. Cardinality(Spread(W, k, K, 0)) = 0
  BY SpreadIs, FS_EmptySet
<1> QED BY <1>2, <1>3, <1>4, <1>5, <1>6, <1>7, <1>8 DEF Partly

LEMMA ChildrenMakes ==
    ASSUME Sizes, NEW m, Sound(m), NEW l, l \in Nat, NEW k, NEW K, NEW a, NEW b,
           Dirs(m, a, b, k, K), NEW op, op \in Ops, NEW below, Works(op, m, k, below)
    PROVE  Makes(m, l, K, Meet(op, Inside(m, a, K), Inside(m, b, K)),
                 Children(m, a, b, l, below))
<1> DEFINE I(n, s) == Inside(m, Kid(m[n], s), k)
           W == [s \in 0..(Fan - 1) |-> Meet(op, I(a, s), I(b, s))]
           S == Meet(op, Inside(m, a, K), Inside(m, b, K))
<1>1. /\ Good(m) /\ m \in Heaps /\ P!Closed(m)
      /\ k \in Nat /\ K \in Nat /\ K = k + 1 /\ P!Over(K, k) /\ K # 0
      /\ Fan \in Nat /\ 0..Fan \subseteq Nat
      /\ a \in DOMAIN m /\ m[a].height = K /\ b \in DOMAIN m /\ m[b].height = K
      /\ below \in [Tasks(m) -> Answers(m)]
  BY GoodIs DEF Sound, Dirs, P!Over, Works, Sizes
<1>2. PICK join : Scans(m, a, b, l, below, join)
  BY <1>1, ChildrenUnfold
<1>3. /\ join[0] = [heap |-> m, last |-> l, node |-> Blank(K)]
      /\ \A s \in Nat :
          /\ join[s] \in Contents(m)
          /\ join[s + 1] = Add(join[s], s, below[<<Kid(m[a], s), Kid(m[b], s), join[s].last>>])
      /\ Children(m, a, b, l, below) = join[Fan]
  BY <1>1, <1>2 DEF Scans
<1>4. Spreads(W, k)
  <2> SUFFICES ASSUME NEW s \in 0..(Fan - 1) PROVE W[s] \subseteq 0..(Span(k) - 1)
    BY DEF Spreads
  <2>1. I(a, s) \subseteq 0..(Span(k) - 1) /\ I(b, s) \subseteq 0..(Span(k) - 1)
    BY DEF Inside
  <2> HIDE DEF I
  <2>2. Meet(op, I(a, s), I(b, s)) \subseteq 0..(Span(k) - 1)
    BY <2>1, MeetIn
  <2> QED BY <2>2
<1>5. \A s \in 0..(Fan - 1) : W[s] = Meet(op, I(a, s), I(b, s))
  OBVIOUS
<1>6. \A j : j \in S <=> j \in 0..(Span(K) - 1) /\ j % Span(k) \in Meet(op, I(a, Slot(j, K)), I(b, Slot(j, K)))
  BY <1>1, MeetBelow
<1> HIDE DEF W, I, S
<1> DEFINE J == {s \in Nat : s <= Fan => Partly(m, l, k, K, W, s, join[s])}
<1>7. \A s \in Nat : s \in J
  <2>1. 0 \in J
    <3>1. Partly(m, l, k, K, W, 0, join[0])
      BY <1>1, <1>3, <1>4, BlankPartly
    <3> QED BY <3>1
  <2>2. ASSUME NEW s \in J PROVE s + 1 \in J
    <3>1. s \in Nat /\ s + 1 \in Nat
      OBVIOUS
    <3>2. ASSUME s + 1 <= Fan PROVE Partly(m, l, k, K, W, s + 1, join[s + 1])
      <4> DEFINE g == join[s]
                 x == Kid(m[a], s)
                 y == Kid(m[b], s)
                 r == below[<<x, y, g.last>>]
      <4>1. s \in 0..(Fan - 1) /\ s <= Fan
        BY <1>1, <3>1, <3>2
      <4>2. Partly(m, l, k, K, W, s, g)
        BY <4>1
      <4>3. g \in Contents(m) /\ join[s + 1] = Add(g, s, r)
        BY <1>3, <3>1
      <4>4. g.last \in Nat
        BY <4>3 DEF Contents
      <4>5. r \in Answers(m)
        BY <1>1, <4>4, KidTask
      <4>6. At(m, x, k) /\ At(m, y, k)
        BY <1>1, KidAt
      <4>7. W[s] = Meet(op, Inside(m, x, k), Inside(m, y, k))
        BY <1>5, <4>1 DEF I
      <4>8. Gives(m, g.last, k, Meet(op, Inside(m, x, k), Inside(m, y, k)), r)
        <5> HIDE DEF x, y, g
        <5> QED BY <4>4, <4>6 DEF Works
      <4> HIDE DEF x, y, g, r
      <4>9. Gives(m, g.last, k, W[s], r)
        BY <4>7, <4>8
      <4>10. Partly(m, l, k, K, W, s + 1, Add(g, s, r))
        BY <1>1, <1>4, <4>1, <4>2, <4>3, <4>5, <4>9, AddPartly
      <4> QED BY <4>3, <4>10
    <3> QED BY <3>1, <3>2
  <2> HIDE DEF J
  <2>3. J \in SUBSET Nat
    BY DEF J
  <2> QED BY <2>1, <2>2, <2>3, P!SetInduction
<1> DEFINE g == join[Fan]
           q == g.node
<1>8. Partly(m, l, k, K, W, Fan, g)
  <2>1. Fan <= Fan
    BY <1>1
  <2> QED BY <1>1, <1>7, <2>1
<1> HIDE DEF J
<1>9. g = Children(m, a, b, l, below)
  BY <1>3
<1> HIDE DEF g, q
<1>10. /\ More(m, l, g)
       /\ q \in BNode /\ q.height = K /\ q.epoch = 0 /\ Fits(g.heap, q)
       /\ \A t \in 0..(Fan - 1) : t < Fan => Inside(g.heap, Kid(q, t), k) = W[t]
       /\ q.count = Cardinality(Spread(W, k, K, Fan))
  BY <1>8 DEF Partly, q
<1>11. \A j \in 0..(Span(K) - 1) : Slot(j, K) \in 0..(Fan - 1) /\ Slot(j, K) < Fan
  <2>1. \A s \in 0..(Fan - 1) : s < Fan
    BY <1>1
  <2> QED BY <1>1, <2>1, PlaceIs
<1>12. S = Spread(W, k, K, Fan)
  <2>1. \A j : j \in Spread(W, k, K, Fan) <=>
               j \in 0..(Span(K) - 1) /\ Slot(j, K) < Fan /\ j % Span(k) \in W[Slot(j, K)]
    BY DEF Spread
  <2>2. \A j : j \in S <=> j \in Spread(W, k, K, Fan)
    BY <1>5, <1>6, <1>11, <2>1
  <2> QED BY <2>2
<1>13. IsFiniteSet(S) /\ q.count = Cardinality(S)
  BY <1>1, <1>4, <1>10, <1>12, SpreadIs
<1>14. Holds(g.heap, q, S)
  <2>1. ASSUME NEW c, P!Over(q.height, c), NEW j
        PROVE  j \in S <=> /\ j \in 0..(Span(q.height) - 1)
                           /\ j % Span(c) \in Inside(g.heap, Kid(q, Slot(j, q.height)), c)
    <3>1. c = k
      BY <1>1, <1>10, <2>1 DEF P!Over
    <3>2. ASSUME j \in 0..(Span(K) - 1)
          PROVE  Inside(g.heap, Kid(q, Slot(j, K)), k) = Meet(op, I(a, Slot(j, K)), I(b, Slot(j, K)))
      BY <1>5, <1>10, <1>11, <3>2
    <3> QED BY <1>6, <1>10, <3>1, <3>2
  <2> QED BY <1>1, <1>10, <2>1 DEF Holds
<1>15. Makes(m, l, K, S, g)
  BY <1>10, <1>13, <1>14 DEF Makes, q
<1> QED BY <1>9, <1>15 DEF S
----------------------------------------------------------------------------
(* All levels.                                                             *)

LEMMA BuiltAnswer ==
    ASSUME NEW m, NEW a, a \in DOMAIN m, NEW b, b \in DOMAIN m, m \in Heaps,
           NEW g, g \in Contents(m), NEW op
    PROVE  Built(op, m, a, b, g) \in Answers(m)
<1> DEFINE at == After(m, g.last)
           h == g.heap
           q == g.node
           o == With(h, at, q)
           r == Built(op, m, a, b, g)
<1>1. /\ h \in Heaps /\ q \in BNode /\ g.last \in Nat /\ DOMAIN m \subseteq DOMAIN h
      /\ g = [heap |-> h, node |-> q, last |-> g.last]
  BY DEF Contents
<1>2. at \in Nat \ {Nil}
  BY <1>1, AfterIs
<1>3. /\ o = [x \in DOMAIN o |-> o[x]] /\ DOMAIN o = DOMAIN h \cup {at} /\ o[at] = q
      /\ \A x \in DOMAIN h : x # at => o[x] = h[x]
  BY DEF With
<1>4. /\ DOMAIN h \subseteq Nat \ {Nil} /\ IsFiniteSet(DOMAIN h)
      /\ \A x \in DOMAIN h : h[x] \in BNode
  BY <1>1, HeapIs
<1>5. \A y : [g EXCEPT !.node = y] = [heap |-> h, node |-> y, last |-> g.last]
  <2> HIDE DEF h, q
  <2> QED BY <1>1
<1>6. \/ \E y \in {Nil, a, b} : r = [heap |-> h, node |-> y, last |-> g.last]
      \/ r = [heap |-> o, node |-> at, last |-> at]
  BY <1>5 DEF Built
<1> SUFFICES r \in Answers(m)
  OBVIOUS
<1> HIDE DEF r, h, q, at, o
<1>7. o \in Heaps
  <2>1. IsFiniteSet(DOMAIN o)
    BY <1>3, <1>4, FS_AddElement
  <2>2. DOMAIN o \subseteq Nat \ {Nil} /\ \A x \in DOMAIN o : o[x] \in BNode
    BY <1>1, <1>2, <1>3, <1>4
  <2> QED BY <1>3, <2>1, <2>2, IsHeap
<1>8. a \in DOMAIN h /\ b \in DOMAIN h /\ a \in Nat /\ b \in Nat /\ Nil \in Nat
  BY <1>1, <1>4, NilIs
<1>9. \A y \in {Nil, a, b} : [heap |-> h, node |-> y, last |-> g.last] \in Answers(m)
  BY <1>1, <1>8 DEF Answers
<1>10. [heap |-> o, node |-> at, last |-> at] \in Answers(m)
  BY <1>1, <1>2, <1>3, <1>7 DEF Answers
<1> QED BY <1>6, <1>9, <1>10

\* The two operands of a task are the same, or one is missing.
IsSpared(p) == p[1] = p[2] \/ p[1] = Nil \/ p[2] = Nil

\* comb does every task, at each height.
Combines(op, m, comb) ==
    \A k \in Nat :
       /\ comb[k] \in [Tasks(m) -> Answers(m)]
       /\ \A p \in Tasks(m) :
             comb[k][p] =
                IF IsSpared(p) THEN [heap |-> m, node |-> Spared(op, p[1], p[2]), last |-> p[3]]
                ELSE Built(op, m, p[1], p[2],
                           IF k = 0 THEN Words(op, m, p[1], p[2], p[3])
                           ELSE Children(m, p[1], p[2], p[3], comb[k - 1]))

LEMMA CombinedUnfold ==
    ASSUME Sizes, NEW m, m \in Heaps, P!Closed(m), NEW op, op \in Ops
    PROVE  \E comb : /\ Combines(op, m, comb)
                     /\ \A a, b : Combined(op, m, a, b) = comb[NodeAt(m, a, 0).height][<<a, b, 0>>]
<1> DEFINE D == DOMAIN m \cup {Nil}
           T == [Tasks(m) -> Answers(m)]
           Done(p) == [heap |-> m, node |-> Spared(op, p[1], p[2]), last |-> p[3]]
           At0(p) == IF IsSpared(p) THEN Done(p)
                     ELSE Built(op, m, p[1], p[2], Words(op, m, p[1], p[2], p[3]))
           AtUp(p, f) == IF IsSpared(p) THEN Done(p)
                         ELSE Built(op, m, p[1], p[2], Children(m, p[1], p[2], p[3], f))
           Z == [p \in Tasks(m) |-> At0(p)]
           N(f) == [p \in Tasks(m) |-> AtUp(p, f)]
           E(c) == [k \in Nat |->
                     [p \in D \X D \X Nat |->
                        IF p[1] = p[2] \/ p[1] = Nil \/ p[2] = Nil
                        THEN [heap |-> m, node |-> Spared(op, p[1], p[2]), last |-> p[3]]
                        ELSE Built(op, m, p[1], p[2],
                                   IF k = 0 THEN Words(op, m, p[1], p[2], p[3])
                                   ELSE Children(m, p[1], p[2], p[3], c[k - 1]))]]
           comb == CHOOSE c : c = E(c)
           G == [p \in Nat \X T |-> N(p[2])]
<1>1. \A a, b : Combined(op, m, a, b) = comb[NodeAt(m, a, 0).height][<<a, b, 0>>]
  BY DEF Combined
<1>2. \A p \in Tasks(m) : /\ p[1] \in DOMAIN m \cup {Nil} /\ p[2] \in DOMAIN m \cup {Nil}
                          /\ p[3] \in Nat
  BY DEF Tasks
<1>3. ASSUME NEW p \in Tasks(m) PROVE Done(p) \in Answers(m)
  <2>1. p[1] \in DOMAIN m \cup {Nil} /\ p[2] \in DOMAIN m \cup {Nil} /\ p[3] \in Nat
    BY <1>2
  <2>2. Spared(op, p[1], p[2]) \in DOMAIN m \cup {Nil}
    BY <2>1 DEF Spared
  <2>3. Spared(op, p[1], p[2]) \in Nat
    BY <2>2, HeapIs, NilIs
  <2> QED BY <2>1, <2>2, <2>3 DEF Answers
<1>4. Z \in T
  <2> SUFFICES ASSUME NEW p \in Tasks(m) PROVE At0(p) \in Answers(m)
    OBVIOUS
  <2>1. CASE IsSpared(p)
    BY <1>3, <2>1
  <2>2. CASE ~ IsSpared(p)
    <3> DEFINE a == p[1]
               b == p[2]
               l == p[3]
               g == Words(op, m, a, b, l)
    <3>1. a \in DOMAIN m /\ b \in DOMAIN m /\ l \in Nat
      BY <1>2, <2>2 DEF IsSpared
    <3> HIDE DEF a, b, l
    <3>2. g = [heap |-> m, node |-> g.node, last |-> l] /\ g.node \in BNode
      BY <3>1, WordsIs
    <3> HIDE DEF g
    <3>3. g \in Contents(m)
      BY <3>1, <3>2 DEF Contents
    <3>4. Built(op, m, a, b, g) \in Answers(m)
      BY <3>1, <3>3, BuiltAnswer
    <3> QED BY <2>2, <3>4 DEF a, b, l, g
  <2> QED BY <2>1, <2>2
<1>5. ASSUME NEW f \in T PROVE N(f) \in T
  <2> SUFFICES ASSUME NEW p \in Tasks(m) PROVE AtUp(p, f) \in Answers(m)
    OBVIOUS
  <2>1. CASE IsSpared(p)
    BY <1>3, <2>1
  <2>2. CASE ~ IsSpared(p)
    <3> DEFINE a == p[1]
               b == p[2]
               l == p[3]
               g == Children(m, a, b, l, f)
    <3>1. a \in DOMAIN m /\ b \in DOMAIN m /\ l \in Nat
      BY <1>2, <2>2 DEF IsSpared
    <3> HIDE DEF a, b, l
    <3>2. g \in Contents(m)
      <4>1. PICK join : Scans(m, a, b, l, f, join)
        BY <3>1, ChildrenUnfold
      <4>2. Fan \in Nat
        BY DEF Sizes
      <4> QED BY <4>1, <4>2 DEF Scans
    <3> HIDE DEF g
    <3>3. Built(op, m, a, b, g) \in Answers(m)
      BY <3>1, <3>2, BuiltAnswer
    <3> QED BY <2>2, <3>3 DEF a, b, l, g
  <2> QED BY <2>1, <2>2
<1>6. Tasks(m) = D \X D \X Nat
  BY DEF Tasks
<1>7. ASSUME NEW c, NEW k \in Nat PROVE E(c)[k] = IF k = 0 THEN Z ELSE N(c[k - 1])
  <2>1. CASE k = 0
    BY <1>6, <2>1 DEF IsSpared
  <2>2. CASE k # 0
    BY <1>6, <2>2 DEF IsSpared
  <2> QED BY <2>1, <2>2
<1>71. \A c : E(c) = [k \in Nat |-> E(c)[k]]
  OBVIOUS
<1> HIDE DEF T, Z, N, E
<1>8. \E c : c = E(c)
  <2>1. G \in [Nat \X T -> T]
    BY <1>5
  <2>2. \A k \in Nat, f \in T : G[<<k, f>>] = N(f)
    OBVIOUS
  <2> HIDE DEF G
  <2>3. PICK c : P!Follows(c, T, Z, G)
    BY <1>4, <2>1, P!RecursionExists DEF P!Recursive
  <2>4. c \in [Nat -> T] /\ c[0] = Z /\ \A k \in Nat : c[k + 1] = N(c[k])
    BY <2>2, <2>3 DEF P!Follows
  <2>5. ASSUME NEW k \in Nat PROVE c[k] = IF k = 0 THEN Z ELSE N(c[k - 1])
    <3>1. CASE k # 0
      <4>1. k - 1 \in Nat /\ (k - 1) + 1 = k
        BY <3>1
      <4> QED BY <2>4, <3>1, <4>1
    <3> QED BY <2>4, <3>1
  <2>6. c = E(c)
    <3>1. \A k \in Nat : c[k] = E(c)[k]
      BY <1>7, <2>5
    <3>2. c = [k \in Nat |-> c[k]]
      BY <2>4
    <3> QED BY <1>71, <3>1, <3>2
  <2> QED BY <2>6
<1>9. comb = E(comb)
  BY <1>8
<1> HIDE DEF comb
<1>10. \A k \in Nat : comb[k] = IF k = 0 THEN Z ELSE N(comb[k - 1])
  BY <1>7, <1>9
<1> DEFINE J == {k \in Nat : comb[k] \in T}
<1>11. \A k \in Nat : k \in J
  <2>1. 0 \in J
    BY <1>4, <1>10
  <2>2. ASSUME NEW k \in J PROVE k + 1 \in J
    <3>1. k \in Nat /\ k + 1 \in Nat /\ k + 1 # 0 /\ (k + 1) - 1 = k /\ comb[k] \in T
      OBVIOUS
    <3>2. comb[k + 1] = N(comb[k])
      BY <1>10, <3>1
    <3> QED BY <1>5, <3>1, <3>2
  <2> HIDE DEF J
  <2>3. J \in SUBSET Nat
    BY DEF J
  <2> QED BY <2>1, <2>2, <2>3, P!SetInduction
<1>12. Combines(op, m, comb)
  <2> SUFFICES ASSUME NEW k \in Nat
               PROVE  /\ comb[k] \in [Tasks(m) -> Answers(m)]
                      /\ \A p \in Tasks(m) :
                           comb[k][p] =
                              IF IsSpared(p) THEN Done(p)
                              ELSE Built(op, m, p[1], p[2],
                                         IF k = 0 THEN Words(op, m, p[1], p[2], p[3])
                                         ELSE Children(m, p[1], p[2], p[3], comb[k - 1]))
    BY DEF Combines
  <2>1. comb[k] \in [Tasks(m) -> Answers(m)]
    BY <1>11 DEF T
  <2> HIDE DEF J
  <2>2. CASE k = 0
    <3>1. comb[k] = Z
      BY <1>10, <2>2
    <3> QED BY <2>1, <2>2, <3>1 DEF Z
  <2>3. CASE k # 0
    <3>1. comb[k] = N(comb[k - 1])
      BY <1>10, <2>3
    <3> QED BY <2>1, <2>3, <3>1 DEF N
  <2> QED BY <2>1, <2>2, <2>3
<1> QED BY <1>1, <1>12
\* A node of height k over another is over a child of height k - 1, ....
LEMMA WorksAll ==
    ASSUME Sizes, NEW m, Sound(m), NEW op, op \in Ops, NEW comb, Combines(op, m, comb)
    PROVE  \A k \in Nat : Works(op, m, k, comb[k])
<1> DEFINE J == {k \in Nat : Works(op, m, k, comb[k])}
           T(x, y, k) == Meet(op, Inside(m, x, k), Inside(m, y, k))
<1>1. Good(m) /\ m \in Heaps /\ P!Closed(m)
  BY GoodIs DEF Sound
<1>2. ASSUME NEW k \in Nat, NEW x, NEW y, NEW n \in Nat, At(m, x, k), At(m, y, k),
             x = y \/ x = Nil \/ y = Nil
      PROVE  Gives(m, n, k, T(x, y, k), comb[k][<<x, y, n>>])
  <2>1. <<x, y, n>> \in Tasks(m) /\ IsSpared(<<x, y, n>>)
    BY <1>2 DEF Tasks, At, IsSpared
  <2>2. comb[k][<<x, y, n>>] = [heap |-> m, node |-> Spared(op, x, y), last |-> n]
    BY <2>1 DEF Combines
  <2> HIDE DEF T
  <2>3. Gives(m, n, k, Meet(op, Inside(m, x, k), Inside(m, y, k)), comb[k][<<x, y, n>>])
    BY <1>2, <2>2, SparedGives
  <2> QED BY <2>3 DEF T
<1>3. ASSUME NEW k \in Nat, NEW x, NEW y, NEW n \in Nat, At(m, x, k), At(m, y, k),
             ~ (x = y \/ x = Nil \/ y = Nil)
      PROVE  /\ x \in DOMAIN m /\ m[x].height = k /\ y \in DOMAIN m /\ m[y].height = k
             /\ comb[k][<<x, y, n>>] =
                   Built(op, m, x, y, IF k = 0 THEN Words(op, m, x, y, n)
                                      ELSE Children(m, x, y, n, comb[k - 1]))
  <2>1. <<x, y, n>> \in Tasks(m) /\ ~ IsSpared(<<x, y, n>>)
    BY <1>3 DEF Tasks, At, IsSpared
  <2>2. comb[k][<<x, y, n>>] =
           Built(op, m, x, y, IF k = 0 THEN Words(op, m, x, y, n)
                              ELSE Children(m, x, y, n, comb[k - 1]))
    BY <2>1 DEF Combines
  <2> QED BY <1>3, <2>2 DEF At
<1>4. \A k \in Nat : comb[k] \in [Tasks(m) -> Answers(m)]
  BY DEF Combines
<1>5. 0 \in J
  <2> SUFFICES ASSUME NEW x, NEW y, NEW n \in Nat, At(m, x, 0), At(m, y, 0)
               PROVE  Gives(m, n, 0, T(x, y, 0), comb[0][<<x, y, n>>])
    BY <1>4 DEF Works
  <2>1. CASE x = y \/ x = Nil \/ y = Nil
    BY <1>2, <2>1
  <2>2. CASE ~ (x = y \/ x = Nil \/ y = Nil)
    <3> DEFINE g == Words(op, m, x, y, n)
    <3>1. x \in DOMAIN m /\ m[x].height = 0 /\ y \in DOMAIN m /\ m[y].height = 0
          /\ comb[0][<<x, y, n>>] = Built(op, m, x, y, g)
      BY <1>3, <2>2
    <3>2. Makes(m, n, 0, T(x, y, 0), g)
      BY <3>1, WordsMakes
    <3> HIDE DEF g, T
    <3>3. Gives(m, n, 0, T(x, y, 0), Built(op, m, x, y, g))
      BY <3>1, <3>2, BuiltGives
    <3> QED BY <3>1, <3>3
  <2> QED BY <2>1, <2>2
<1>6. ASSUME NEW k \in J PROVE k + 1 \in J
  <2> DEFINE K == k + 1
  <2>1. k \in Nat /\ K \in Nat /\ K # 0 /\ K - 1 = k /\ P!Over(K, k) /\ Works(op, m, k, comb[k])
    BY DEF P!Over
  <2> HIDE DEF K, J
  <2> SUFFICES ASSUME NEW x, NEW y, NEW n \in Nat, At(m, x, K), At(m, y, K)
               PROVE  Gives(m, n, K, T(x, y, K), comb[K][<<x, y, n>>])
    BY <1>4, <2>1 DEF Works, J, K
  <2>2. CASE x = y \/ x = Nil \/ y = Nil
    BY <1>2, <2>1, <2>2
  <2>3. CASE ~ (x = y \/ x = Nil \/ y = Nil)
    <3> DEFINE g == Children(m, x, y, n, comb[k])
    <3>1. x \in DOMAIN m /\ m[x].height = K /\ y \in DOMAIN m /\ m[y].height = K
          /\ comb[K][<<x, y, n>>] = Built(op, m, x, y, g)
      BY <1>3, <2>1, <2>3
    <3>2. Dirs(m, x, y, k, K)
      BY <2>1, <3>1 DEF Dirs
    <3>3. Makes(m, n, K, T(x, y, K), g)
      BY <2>1, <3>2, ChildrenMakes
    <3> HIDE DEF g, T
    <3>4. Gives(m, n, K, T(x, y, K), Built(op, m, x, y, g))
      BY <2>1, <3>1, <3>3, BuiltGives
    <3> QED BY <3>1, <3>4
  <2> QED BY <2>2, <2>3
<1> HIDE DEF J
<1>7. J \in SUBSET Nat
  BY DEF J
<1>8. \A k \in Nat : k \in J
  BY <1>5, <1>6, <1>7, P!SetInduction
<1> QED BY <1>8 DEF J

\* An operation on two nodes of one height, either of which may be missing.
LEMMA CombinedGives ==
    ASSUME Sizes, NEW m, Sound(m), NEW op, op \in Ops, NEW K, K \in Nat,
           NEW a, At(m, a, K), NEW b, At(m, b, K)
    PROVE  Gives(m, 0, K, Meet(op, Inside(m, a, K), Inside(m, b, K)), Combined(op, m, a, b))
<1> DEFINE h == NodeAt(m, a, 0).height
           S == Meet(op, Inside(m, a, K), Inside(m, b, K))
           r == Combined(op, m, a, b)
<1>1. m \in Heaps /\ P!Closed(m)
  BY GoodIs DEF Sound
<1>2. PICK comb : /\ Combines(op, m, comb)
                  /\ \A x, y : Combined(op, m, x, y) = comb[NodeAt(m, x, 0).height][<<x, y, 0>>]
  BY <1>1, CombinedUnfold
<1>3. r = comb[h][<<a, b, 0>>]
  BY <1>2
<1>4. h = IF a = Nil THEN 0 ELSE K
  BY DEF NodeAt, At, Blank
<1>5. \A k \in Nat : Works(op, m, k, comb[k])
  BY <1>2, WorksAll
<1>6. CASE a = b \/ a = Nil \/ b = Nil
  <2>1. <<a, b, 0>> \in Tasks(m) /\ IsSpared(<<a, b, 0>>) /\ h \in Nat
    BY <1>4, <1>6 DEF Tasks, At, IsSpared
  <2>2. r = [heap |-> m, node |-> Spared(op, a, b), last |-> 0]
    BY <1>2, <1>3, <2>1 DEF Combines
  <2> HIDE DEF r
  <2> QED BY <1>6, <2>2, SparedGives DEF r
<1>7. CASE ~ (a = b \/ a = Nil \/ b = Nil)
  <2>1. h = K
    BY <1>4, <1>7
  <2>2. Works(op, m, K, comb[K]) /\ 0 \in Nat
    BY <1>5
  <2>3. Gives(m, 0, K, S, comb[K][<<a, b, 0>>])
    BY <2>2 DEF Works
  <2> QED BY <1>3, <2>1, <2>3
<1> QED BY <1>6, <1>7
----------------------------------------------------------------------------
(* Operands of different heights, and the canonical form.                  *)

\* Child 0 has the ids of a node that come first.
LEMMA FirstKid ==
    ASSUME Sizes, NEW m, Good(m), NEW k, NEW x, x \in DOMAIN m, P!Over(m[x].height, k)
    PROVE  Inside(m, Kid(m[x], 0), k) = Inside(m, x, m[x].height) \cap 0..(Span(k) - 1)
<1> DEFINE K == m[x].height
           Y == Inside(m, Kid(m[x], 0), k)
           X == Inside(m, x, K)
           a == Span(k)
<1>1. k \in Nat /\ a \in Nat \ {0} /\ 0 \in 0..(Fan - 1) /\ P!Over(K, k)
  <2>1. k \in Nat
    BY DEF P!Over
  <2> QED BY <2>1, SpanIs DEF Sizes
<1>2. \A j : j \in X <=> /\ j \in 0..(Span(K) - 1)
                         /\ j % a \in Inside(m, Kid(m[x], Slot(j, K)), k)
  BY <1>1, InsideUnfold
<1>3. Y \subseteq 0..(a - 1)
  BY DEF Inside
<1> HIDE DEF K, a
<1>4. ASSUME NEW j \in 0..(a - 1)
      PROVE  j \in 0..(Span(K) - 1) /\ Slot(j, K) = 0 /\ j % a = j
  <2>1. /\ Span(k) * 0 + j \in 0..(Span(K) - 1)
        /\ Slot(Span(k) * 0 + j, K) = 0 /\ (Span(k) * 0 + j) % Span(k) = j
    BY <1>1, <1>4, PlaceIs DEF a
  <2>2. Span(k) * 0 + j = j
    <3>1. j \in Nat /\ Span(k) \in Nat
      BY <1>1, <1>4 DEF a
    <3> QED BY <3>1
  <2> QED BY <2>1, <2>2 DEF a
<1> HIDE DEF X
<1>5. \A j \in 0..(a - 1) : j \in X <=> j \in Y
  BY <1>2, <1>4 DEF Y
<1> HIDE DEF Y
<1> QED BY <1>3, <1>5 DEF X, Y, K, a

\* low is the descent of Lower.
Sinks(m, low) ==
    /\ \A k \in Nat : low[k][Nil] = Nil
    /\ \A x \in DOMAIN m \cup {Nil} : low[0][x] = x
    /\ \A k \in Nat : \A x \in DOMAIN m : low[k + 1][x] = low[k][Kid(m[x], 0)]
    /\ \A b, h : Lower(m, b, h) =
          IF b # Nil /\ h < m[b].height THEN low[m[b].height - h][b] ELSE b

LEMMA LowerUnfold ==
    ASSUME NEW m, Good(m)
    PROVE  \E low : Sinks(m, low)
<1> DEFINE D == DOMAIN m \cup {Nil}
           Z == [x \in D |-> x]
           N(g) == [x \in D |-> IF x = Nil THEN x ELSE g[Kid(m[x], 0)]]
           E(f) == [k \in Nat |->
                      [x \in DOMAIN m \cup {Nil} |->
                          IF k = 0 \/ x = Nil THEN x ELSE f[k - 1][Kid(m[x], 0)]]]
           low == CHOOSE f : f = E(f)
           T == [D -> D]
           G == [p \in Nat \X T |-> N(p[2])]
<1>1. Nil \notin DOMAIN m /\ \A x \in DOMAIN m : Kid(m[x], 0) \in D
  BY GoodIs DEF P!Closed, Kid
<1>2. ASSUME NEW f, NEW k \in Nat
      PROVE  E(f)[k] = IF k = 0 THEN Z ELSE N(f[k - 1])
  <2>1. CASE k = 0
    BY <2>1
  <2>2. CASE k # 0
    BY <2>2
  <2> QED BY <2>1, <2>2
<1>3. \E f : f = E(f)
  <2>1. Z \in T
    OBVIOUS
  <2>2. ASSUME NEW g \in T PROVE N(g) \in T
    BY <1>1
  <2> HIDE DEF N
  <2>3. G \in [Nat \X T -> T]
    BY <2>2
  <2>4. \A k \in Nat, g \in T : G[<<k, g>>] = N(g)
    OBVIOUS
  <2> HIDE DEF T, G, Z
  <2>5. PICK f : P!Follows(f, T, Z, G)
    BY <2>1, <2>3, P!RecursionExists DEF P!Recursive
  <2>6. f \in [Nat -> T] /\ f[0] = Z /\ \A k \in Nat : f[k + 1] = N(f[k])
    BY <2>4, <2>5 DEF P!Follows
  <2>7. ASSUME NEW k \in Nat PROVE f[k] = E(f)[k]
    <3> HIDE DEF E
    <3>1. CASE k = 0
      BY <1>2, <2>6, <3>1
    <3>2. CASE k # 0
      <4>1. k - 1 \in Nat /\ (k - 1) + 1 = k
        BY <3>2
      <4>2. f[k] = N(f[k - 1])
        BY <2>6, <4>1
      <4> QED BY <1>2, <3>2, <4>2
    <3> QED BY <3>1, <3>2
  <2>8. f = E(f)
    BY <2>6, <2>7
  <2> QED BY <2>8
<1>4. low = E(low)
  BY <1>3
<1>5. \A b, h : Lower(m, b, h) =
          IF b # Nil /\ h < m[b].height THEN low[m[b].height - h][b] ELSE b
  BY DEF Lower
<1> HIDE DEF low, E
<1>6. low[0] = Z
  BY <1>2, <1>4
<1>7. ASSUME NEW k \in Nat PROVE low[k + 1] = N(low[k])
  <2>1. k + 1 \in Nat /\ k + 1 # 0 /\ (k + 1) - 1 = k
    OBVIOUS
  <2> HIDE DEF N
  <2>2. E(low)[k + 1] = N(low[k])
    BY <1>2, <2>1
  <2> QED BY <1>4, <2>2
<1>8. \A k \in Nat : low[k][Nil] = Nil
  <2> SUFFICES ASSUME NEW k \in Nat PROVE low[k][Nil] = Nil
    OBVIOUS
  <2>1. CASE k = 0
    BY <1>6, <2>1
  <2>2. CASE k # 0
    <3>1. k - 1 \in Nat /\ (k - 1) + 1 = k
      BY <2>2
    <3>2. low[k] = N(low[k - 1])
      BY <1>7, <3>1
    <3> QED BY <3>2
  <2> QED BY <2>1, <2>2
<1>9. \A k \in Nat : \A x \in DOMAIN m : low[k + 1][x] = low[k][Kid(m[x], 0)]
  BY <1>1, <1>7
<1>10. \A x \in D : low[0][x] = x
  BY <1>6
<1> QED BY <1>5, <1>8, <1>9, <1>10 DEF Sinks

\* y is a node of height h, with those ids of x, a node of height K, that fit.
Cuts(m, x, K, y, h) ==
    At(m, y, h) /\ Inside(m, y, h) = Inside(m, x, K) \cap 0..(Span(h) - 1)

LEMMA CutsTwice ==
    ASSUME Sizes, NEW m, NEW x, NEW K, NEW y, NEW k, k \in Nat, NEW z, NEW h, h \in Nat, h <= k,
           Cuts(m, x, K, y, k), Cuts(m, y, k, z, h)
    PROVE  Cuts(m, x, K, z, h)
<1>1. Span(h) \in Nat /\ Span(k) \in Nat /\ Span(h) <= Span(k)
  BY SpanIs, SpanMonotone
<1>2. 0..(Span(h) - 1) \subseteq 0..(Span(k) - 1)
  BY <1>1
<1> QED BY <1>2 DEF Cuts

LEMMA SinkCuts ==
    ASSUME Sizes, NEW m, Good(m), NEW low, Sinks(m, low)
    PROVE  \A d \in Nat : \A h \in Nat : \A x :
              At(m, x, h + d) => Cuts(m, x, h + d, low[d][x], h)
<1> DEFINE Q(d) == \A h \in Nat : \A x : At(m, x, h + d) => Cuts(m, x, h + d, low[d][x], h)
           S == {d \in Nat : Q(d)}
<1>1. 0 \in S
  <2>1. ASSUME NEW h \in Nat, NEW x, At(m, x, h + 0) PROVE Cuts(m, x, h + 0, low[0][x], h)
    <3>1. low[0][x] = x /\ h + 0 = h
      BY <2>1 DEF Sinks, At
    <3>2. Inside(m, x, h) \subseteq 0..(Span(h) - 1)
      BY DEF Inside
    <3> QED BY <2>1, <3>1, <3>2 DEF Cuts
  <2> QED BY <2>1
<1>2. ASSUME NEW d \in S PROVE d + 1 \in S
  <2>1. d \in Nat /\ Q(d)
    OBVIOUS
  <2>2. ASSUME NEW h \in Nat, NEW x, At(m, x, h + (d + 1))
        PROVE  Cuts(m, x, h + (d + 1), low[d + 1][x], h)
    <3> DEFINE K == h + (d + 1)
               k == h + d
               y == Kid(m[x], 0)
    <3>1. K \in Nat /\ k \in Nat /\ K = k + 1 /\ h <= k /\ P!Over(K, k) /\ d + 1 \in Nat
      BY <2>1 DEF P!Over
    <3> HIDE DEF K, k
    <3>2. CASE x = Nil
      <4>1. low[d + 1][x] = Nil
        BY <3>1, <3>2 DEF Sinks
      <4>2. Inside(m, Nil, K) = {} /\ Inside(m, Nil, h) = {}
        BY <3>1, InsideUnfold
      <4>3. At(m, Nil, h)
        BY DEF At
      <4> QED BY <3>2, <4>1, <4>2, <4>3 DEF Cuts, K
    <3>3. CASE x # Nil
      <4>1. x \in DOMAIN m /\ m[x].height = K
        BY <2>2, <3>3 DEF At, K
      <4>2. low[d + 1][x] = low[d][y]
        BY <2>1, <4>1 DEF Sinks
      <4>3. At(m, y, k)
        BY <3>1, <4>1, KidAt
      <4>4. Inside(m, y, k) = Inside(m, x, K) \cap 0..(Span(k) - 1)
        BY <3>1, <4>1, FirstKid
      <4> HIDE DEF y
      <4>5. Cuts(m, x, K, y, k)
        BY <4>3, <4>4 DEF Cuts
      <4>6. Cuts(m, y, k, low[d][y], h)
        BY <2>1, <4>3 DEF k
      <4>7. Cuts(m, x, K, low[d][y], h)
        BY <3>1, <4>5, <4>6, CutsTwice
      <4> QED BY <4>2, <4>7 DEF K
    <3> QED BY <3>2, <3>3
  <2> QED BY <2>1, <2>2
<1> HIDE DEF S
<1>3. S \in SUBSET Nat
  BY DEF S
<1>4. \A d \in Nat : d \in S
  BY <1>1, <1>2, <1>3, P!SetInduction
<1> QED BY <1>4 DEF S

LEMMA LowerIs ==
    ASSUME Sizes, NEW m, Good(m), NEW b, b \in DOMAIN m, NEW h, h \in Nat
    PROVE  /\ h < m[b].height => Cuts(m, b, m[b].height, Lower(m, b, h), h)
           /\ ~ (h < m[b].height) => Lower(m, b, h) = b
<1> DEFINE K == m[b].height
<1>1. PICK low : Sinks(m, low)
  BY LowerUnfold
<1>2. b # Nil /\ K \in Nat
  BY GoodIs, HeapIs, NodeIs
<1>3. Lower(m, b, h) = IF h < K THEN low[K - h][b] ELSE b
  BY <1>1, <1>2 DEF Sinks
<1>4. At(m, b, K)
  BY DEF At
<1> HIDE DEF K
<1>5. ASSUME h < K PROVE Cuts(m, b, K, low[K - h][b], h)
  <2>1. K - h \in Nat /\ h + (K - h) = K
    BY <1>2, <1>5
  <2> QED BY <1>1, <1>4, <2>1, SinkCuts
<1> QED BY <1>3, <1>5 DEF K
LEMMA TopForm ==
    ASSUME NEW m, NEW b
    PROVE  Top(m, b) = [epoch |-> 0, height |-> m[b].height + 1, count |-> m[b].count,
                        bits |-> {}, kids |-> With(<< >>, 0, b)]
<1> DEFINE x == Blank(m[b].height + 1)
           f == With(x.kids, 0, b)
<1>1. Top(m, b) = [x EXCEPT !.count = m[b].count, !.kids = f]
  BY DEF Top
<1>2. x = [epoch |-> 0, height |-> m[b].height + 1, count |-> 0, bits |-> {}, kids |-> << >>]
  BY DEF Blank
<1>3. f = With(<< >>, 0, b)
  BY <1>2
<1> HIDE DEF x, f
<1> QED BY <1>1, <1>2, <1>3

\* The node above b has its ids.
LEMMA TopHolds ==
    ASSUME Sizes, NEW m, Sound(m), NEW b, b \in DOMAIN m
    PROVE  /\ Holds(m, Top(m, b), Inside(m, b, m[b].height))
           /\ Top(m, b).height = m[b].height + 1 /\ Top(m, b).epoch = 0
           /\ Top(m, b).count = m[b].count
<1> DEFINE k == m[b].height
           K == k + 1
           q == Top(m, b)
           S == Inside(m, b, k)
<1>1. Good(m) /\ b # Nil /\ k \in Nat /\ K \in Nat /\ K # 0 /\ P!Over(K, k)
  <2>1. Good(m) /\ k \in Nat /\ b # Nil
    BY GoodIs, HeapIs, NodeIs DEF Sound
  <2> QED BY <2>1 DEF P!Over
<1>2. q \in BNode /\ Fits(m, q) /\ q.height = K
  BY <1>1, TopIs
<1>3. /\ q.epoch = 0 /\ q.count = m[b].count
      /\ \A s : Kid(q, s) = IF s = 0 THEN b ELSE Nil
  <2>1. q = [epoch |-> 0, height |-> K, count |-> m[b].count, bits |-> {},
             kids |-> With(<< >>, 0, b)]
    BY TopForm
  <2>2. DOMAIN With(<< >>, 0, b) = {0} /\ With(<< >>, 0, b)[0] = b
    <3>1. DOMAIN << >> = {}
      OBVIOUS
    <3> QED BY <3>1 DEF With
  <2> HIDE DEF q
  <2>3. q.kids = With(<< >>, 0, b)
    BY <2>1
  <2> QED BY <2>1, <2>2, <2>3 DEF Kid
<1> HIDE DEF q, K
<1>4. \A j : j \in S <=> /\ j \in 0..(Span(K) - 1)
                         /\ j % Span(k) \in Inside(m, Kid(q, Slot(j, K)), k)
  <2>1. /\ \A j \in 0..(Span(K) - 1) : j = Span(k) * Slot(j, K) + (j % Span(k))
        /\ \A s \in 0..(Fan - 1), l \in 0..(Span(k) - 1) :
              /\ Span(k) * s + l \in 0..(Span(K) - 1)
              /\ Slot(Span(k) * s + l, K) = s
              /\ (Span(k) * s + l) % Span(k) = l
        /\ \A j \in 0..(Span(K) - 1) : j % Span(k) \in 0..(Span(k) - 1)
    BY <1>1, PlaceIs
  <2>2. Span(k) \in Nat /\ 0 \in 0..(Fan - 1)
    BY <1>1, SpanIs DEF Sizes
  <2>3. ASSUME NEW j \in S
        PROVE  /\ j \in 0..(Span(K) - 1)
               /\ j % Span(k) \in Inside(m, Kid(q, Slot(j, K)), k)
    <3>1. j \in 0..(Span(k) - 1) /\ j \in Nat
      BY <2>2 DEF Inside
    <3>2. Span(k) * 0 + j = j
      BY <2>2, <3>1
    <3>3. j \in 0..(Span(K) - 1) /\ Slot(j, K) = 0 /\ j % Span(k) = j
      BY <2>1, <2>2, <3>1, <3>2
    <3> QED BY <1>3, <3>3
  <2>4. ASSUME NEW j, j \in 0..(Span(K) - 1), j % Span(k) \in Inside(m, Kid(q, Slot(j, K)), k)
        PROVE  j \in S
    <3>1. Inside(m, Nil, k) = {}
      BY <1>1, InsideUnfold
    <3>2. Slot(j, K) = 0 /\ j % Span(k) \in S
      BY <1>3, <2>4, <3>1
    <3>3. j = Span(k) * 0 + (j % Span(k))
      BY <2>1, <2>4, <3>2
    <3>4. j % Span(k) \in Nat
      BY <2>1, <2>2, <2>4
    <3>5. j = j % Span(k)
      BY <2>2, <3>3, <3>4
    <3> QED BY <3>2, <3>5
  <2> QED BY <2>3, <2>4
<1>5. Holds(m, q, S)
  <2>1. \A c : P!Over(K, c) => c = k
    BY <1>1 DEF P!Over, K
  <2> QED BY <1>1, <1>2, <1>4, <2>1 DEF Holds
<1> QED BY <1>2, <1>3, <1>5 DEF q, K

\* c of o is the bitmap b of m, and d levels, of nodes that no writer owns.
Lifted(m, b, o, c, d) ==
    /\ Sound(o) /\ Extends(m, o)
    /\ \A x \in DOMAIN o : x \notin DOMAIN m => o[x].epoch = 0
    /\ c \in DOMAIN o /\ o[c].height = m[b].height + d
    /\ Inside(o, c, o[c].height) = Inside(m, b, m[b].height)

LEMMA TallerLifts ==
    ASSUME Sizes, NEW m, Sound(m), NEW b, b \in DOMAIN m
    PROVE  Lifted(m, b, Taller(m, 0, b).heap, Taller(m, 0, b).node, 1)
<1> DEFINE at == Fresh(m)
           q == Top(m, b)
           S == Inside(m, b, m[b].height)
           o == With(m, at, q)
           r == Taller(m, 0, b)
<1>1. Holds(m, q, S) /\ q.height = m[b].height + 1 /\ q.epoch = 0 /\ q.count = m[b].count
  BY TopHolds
<1>2. m \in Heaps /\ S # {} /\ m[b].count = Cardinality(S)
  BY GoodIs DEF Sound, Counts
<1>3. [q EXCEPT !.epoch = 0] = q
  <2> HIDE DEF q
  <2>1. q = [epoch |-> 0, height |-> m[b].height + 1, count |-> m[b].count,
             bits |-> {}, kids |-> With(<< >>, 0, b)]
    BY TopForm DEF q
  <2>2. \A h, c, f :
           [[epoch |-> 0, height |-> h, count |-> c, bits |-> {}, kids |-> f] EXCEPT !.epoch = 0] =
           [epoch |-> 0, height |-> h, count |-> c, bits |-> {}, kids |-> f]
    OBVIOUS
  <2> QED BY <2>1, <2>2, Zenon
<1>4. r.heap = o /\ r.node = at
  <2>1. r = Own(m, 0, Nil, q)
    BY DEF Taller, Top
  <2> HIDE DEF q, r
  <2>2. r = [heap |-> With(m, Fresh(m), [q EXCEPT !.epoch = 0]), node |-> Fresh(m)]
    BY <2>1 DEF Own
  <2> QED BY <1>3, <2>2
<1>5. at \in Nat \ {Nil} /\ at \notin DOMAIN m
  <2>1. P!Finite(m) /\ DOMAIN m \subseteq Nat
    BY <1>2, HeapIs DEF Heaps
  <2>2. P!Fresh(m) \in Nat \ {P!Nil} /\ P!Fresh(m) \notin DOMAIN m
    BY <2>1, P!FreshIs
  <2> QED BY <1>2, <2>2, FreshIs, NilIs
<1> HIDE DEF q, at, S, o, r
<1>6. HasNew(m, at, q, S, o)
  <2>1. IsNew(m, at, q, S)
    BY <1>1, <1>2, <1>5 DEF IsNew
  <2> QED BY <2>1, OneNode DEF o
<1>7. Lifted(m, b, o, at, 1)
  <2>1. /\ Sound(o) /\ Extends(m, o) /\ DOMAIN o = DOMAIN m \cup {at} /\ o[at] = q
        /\ Inside(o, at, q.height) = S
    BY <1>6 DEF HasNew
  <2>2. at \in DOMAIN o /\ o[at].height = m[b].height + 1
    BY <1>1, <2>1
  <2>3. \A x \in DOMAIN o : x \notin DOMAIN m => o[x].epoch = 0
    BY <1>1, <2>1
  <2>4. Inside(o, at, o[at].height) = Inside(m, b, m[b].height)
    BY <2>1 DEF S
  <2> QED BY <2>1, <2>2, <2>3, <2>4 DEF Lifted
<1> QED BY <1>4, <1>7 DEF r

LEMMA LiftedTwice ==
    ASSUME NEW m, NEW b, m[b].height \in Nat, NEW o, NEW c, NEW d, d \in Nat, NEW p, NEW a,
           Lifted(m, b, o, c, d), Lifted(o, c, p, a, 1)
    PROVE  Lifted(m, b, p, a, d + 1)
<1>1. Extends(m, p) /\ \A x \in DOMAIN p : x \notin DOMAIN m => p[x].epoch = 0
  BY DEF Lifted, Extends
<1>2. p[a].height = m[b].height + (d + 1)
  BY DEF Lifted
<1> QED BY <1>1, <1>2 DEF Lifted

LEMMA RaisedLifts ==
    ASSUME Sizes, NEW m, Sound(m), NEW b, b \in DOMAIN m
    PROVE  \A d \in Nat : Lifted(m, b, Raised(m, 0, b, d).heap, Raised(m, 0, b, d).node, d)
<1> DEFINE Z == [heap |-> m, node |-> b]
           U == {g \in Results : \E d \in Nat : Lifted(m, b, g.heap, g.node, d)}
<1>1. m[b].height \in Nat /\ m \in Heaps
  BY GoodIs, HeapIs, NodeIs DEF Sound
<1>2. Lifted(m, b, m, b, 0)
  <2>1. m[b].height = m[b].height + 0
    BY <1>1
  <2> QED BY <2>1 DEF Lifted, Extends
<1>3. Z \in U /\ Z.heap = m /\ Z.node = b
  <2>1. Z \in Results
    BY <1>1, ResultIs
  <2>2. 0 \in Nat
    OBVIOUS
  <2> QED BY <1>2, <2>1, <2>2
<1>4. ASSUME NEW g \in Results, NEW d \in Nat, Lifted(m, b, g.heap, g.node, d)
      PROVE  /\ Taller(g.heap, 0, g.node) \in Results
             /\ Lifted(m, b, Taller(g.heap, 0, g.node).heap, Taller(g.heap, 0, g.node).node, d + 1)
  <2> DEFINE o == g.heap
             c == g.node
             t == Taller(o, 0, c)
  <2>1. Sound(o) /\ Good(o) /\ c \in DOMAIN o
    BY <1>4 DEF Lifted, Sound
  <2>2. Lifted(o, c, t.heap, t.node, 1)
    BY <2>1, TallerLifts
  <2>3. Lifted(m, b, t.heap, t.node, d + 1)
    BY <1>1, <1>4, <2>2, LiftedTwice
  <2>4. t \in Results
    <3>1. t = Own(o, 0, Nil, Top(o, c))
      BY DEF Taller, Top
    <3>2. o \in Heaps /\ Top(o, c) \in BNode
      BY <2>1, GoodIs, TopIs
    <3> HIDE DEF o, c
    <3> QED BY <3>1, <3>2, NilIs, OwnResult
  <2> QED BY <2>3, <2>4
<1> HIDE DEF Z
<1>5. PICK grow : Rises(m, 0, b, U, grow)
  <2>1. \A g \in U : Taller(g.heap, 0, g.node) \in U
    <3> SUFFICES ASSUME NEW g \in U PROVE Taller(g.heap, 0, g.node) \in U
      OBVIOUS
    <3>1. PICK d \in Nat : g \in Results /\ Lifted(m, b, g.heap, g.node, d)
      OBVIOUS
    <3>2. d + 1 \in Nat
      OBVIOUS
    <3> QED BY <1>4, <3>1, <3>2
  <2>2. [heap |-> m, node |-> b] \in U
    BY <1>3 DEF Z
  <2> HIDE DEF U
  <2> QED BY <2>1, <2>2, RaisedUnfold
<1> DEFINE S == {d \in Nat : Lifted(m, b, grow[d].heap, grow[d].node, d)}
<1>6. \A d \in Nat : d \in S
  <2>1. 0 \in S
    <3>1. grow[0] = Z
      BY <1>5 DEF Rises, Z
    <3> QED BY <1>2, <1>3, <3>1
  <2>2. ASSUME NEW d \in S PROVE d + 1 \in S
    <3>1. d \in Nat /\ d + 1 \in Nat /\ grow[d] \in U /\ grow[d] \in Results
      BY <1>5 DEF Rises
    <3>2. grow[d + 1] = Taller(grow[d].heap, 0, grow[d].node)
      BY <1>5, <3>1 DEF Rises
    <3>3. Lifted(m, b, grow[d].heap, grow[d].node, d)
      OBVIOUS
    <3> QED BY <1>4, <3>1, <3>2, <3>3
  <2> HIDE DEF S
  <2>3. S \in SUBSET Nat
    BY DEF S
  <2> QED BY <2>1, <2>2, <2>3, P!SetInduction
<1>7. \A d \in Nat : Raised(m, 0, b, d) = grow[d]
  BY <1>5 DEF Rises
<1> HIDE DEF U
<1> QED BY <1>6, <1>7
\* The ids of a bitmap.
IdsOf(m, b) == {j \in Nat : Has(m, b, j)}

LEMMA IdsOfIs ==
    ASSUME Sizes, NEW m, Good(m)
    PROVE  /\ IdsOf(m, Nil) = {}
           /\ \A b \in DOMAIN m : IdsOf(m, b) = Inside(m, b, m[b].height)
<1>1. IdsOf(m, Nil) = {}
  BY DEF IdsOf, Has
<1>2. ASSUME NEW b \in DOMAIN m PROVE IdsOf(m, b) = Inside(m, b, m[b].height)
  <2> DEFINE k == m[b].height
             I == IdsOf(m, b)
             S == Inside(m, b, k)
  <2>1. b # Nil /\ k \in Nat
    BY GoodIs, HeapIs, NodeIs
  <2>2. Span(k) \in Nat \ {0}
    BY <2>1, SpanIs
  <2>3. \A j : j \in I <=> j \in Nat /\ j < Span(k) /\ HasBelow(m, b, k, j)
    BY <2>1 DEF IdsOf, Has
  <2>4. \A j : j \in S <=> j \in 0..(Span(k) - 1) /\ HasBelow(m, b, k, j)
    BY DEF Inside
  <2>5. \A j : j \in 0..(Span(k) - 1) <=> j \in Nat /\ j < Span(k)
    BY <2>2
  <2> HIDE DEF I, S, k
  <2>6. \A j : j \in I <=> j \in S
    BY <2>3, <2>4, <2>5
  <2>7. I = S
    BY <2>6
  <2> QED BY <2>7 DEF I, S, k
<1> QED BY <1>1, <1>2

\* Where child 0 is the only one, it has all the ids; and where it is not, some
\* id is beyond it.
LEMMA OnlyFirst ==
    ASSUME Sizes, NEW m, Sound(m), NEW x, x \in DOMAIN m, NEW k, P!Over(m[x].height, k)
    PROVE  /\ DOMAIN m[x].kids = {0} =>
                 /\ m[x].kids[0] \in DOMAIN m /\ m[m[x].kids[0]].height = k
                 /\ Inside(m, m[x].kids[0], k) = Inside(m, x, m[x].height)
           /\ DOMAIN m[x].kids # {0} =>
                 \E j \in Inside(m, x, m[x].height) : ~ (j < Span(k))
<1> DEFINE K == m[x].height
           X == Inside(m, x, K)
           a == Span(k)
<1>1. /\ Good(m) /\ m \in Heaps /\ P!Closed(m) /\ Graded(m) /\ X # {} /\ k \in Nat
      /\ a \in Nat \ {0} /\ P!Over(K, k) /\ \A n \in DOMAIN m : Counts(m, n)
  <2>1. k \in Nat
    BY DEF P!Over
  <2> QED BY <2>1, SpanIs DEF Sound, Good, Counts
<1>2. \A j : j \in X <=> /\ j \in 0..(Span(K) - 1)
                         /\ j % a \in Inside(m, Kid(m[x], Slot(j, K)), k)
  BY <1>1, InsideUnfold
<1>3. /\ \A j \in 0..(Span(K) - 1) :
            /\ Slot(j, K) \in 0..(Fan - 1)
            /\ j % a \in 0..(a - 1)
            /\ j = a * Slot(j, K) + (j % a)
      /\ \A s \in 0..(Fan - 1), l \in 0..(a - 1) :
            a * s + l \in 0..(Span(K) - 1) /\ Slot(a * s + l, K) = s /\ (a * s + l) % a = l
  BY <1>1, PlaceIs
<1>4. Inside(m, Nil, k) = {}
  BY <1>1, InsideUnfold
<1>5. \A s : s \in DOMAIN m[x].kids <=> Kid(m[x], s) # Nil
  BY <1>1, GoodIs DEF Kid, P!Closed
<1>6. \A s : At(m, Kid(m[x], s), k)
  BY <1>1, KidAt
<1>7. \A j \in X : Slot(j, K) \in DOMAIN m[x].kids
  BY <1>2, <1>4, <1>5
<1>8. ASSUME DOMAIN m[x].kids = {0}
      PROVE  /\ m[x].kids[0] \in DOMAIN m /\ m[m[x].kids[0]].height = k
             /\ Inside(m, m[x].kids[0], k) = X
  <2> DEFINE c == m[x].kids[0]
  <2>1. c = Kid(m[x], 0) /\ c \in DOMAIN m /\ m[c].height = k
    <3>1. c = Kid(m[x], 0)
      BY <1>8 DEF Kid
    <3> QED BY <1>5, <1>6, <1>8, <3>1 DEF At
  <2>2. Inside(m, c, k) = X \cap 0..(a - 1)
    BY <1>1, <2>1, FirstKid
  <2>3. ASSUME NEW j \in X PROVE j \in 0..(a - 1)
    <3>1. Slot(j, K) = 0 /\ j \in 0..(Span(K) - 1)
      BY <1>2, <1>7, <1>8
    <3>2. j % a \in 0..(a - 1) /\ j = a * 0 + (j % a)
      BY <1>3, <3>1
    <3>3. j = j % a
      BY <1>1, <3>2
    <3> QED BY <3>2, <3>3
  <2> HIDE DEF X
  <2>4. X \cap 0..(a - 1) = X
    BY <2>3
  <2> QED BY <2>1, <2>2, <2>4
<1>9. ASSUME DOMAIN m[x].kids # {0} PROVE \E j \in X : ~ (j < a)
  <2>1. PICK s \in DOMAIN m[x].kids : s # 0
    BY <1>1, <1>7, <1>9
  <2> DEFINE c == Kid(m[x], s)
  <2>2. c \in DOMAIN m /\ m[c].height = k
    BY <1>5, <1>6, <2>1 DEF At
  <2>3. PICK l : l \in Inside(m, c, k)
    BY <1>1, <2>2 DEF Counts
  <2>4. l \in 0..(a - 1)
    BY <2>3 DEF Inside
  <2>5. s \in 0..(Fan - 1) /\ s \in Nat /\ s >= 1
    <3>1. s \in Nat
      <4>1. m[x].kids \in P!Maps(Nat)
        BY <1>1, HeapIs, NodeIs
      <4>2. DOMAIN m[x].kids \subseteq Nat
        BY <4>1, P!MapIs
      <4> QED BY <2>1, <4>2
    <3>2. s < Fan /\ Fan \in Nat
      BY <1>1, <2>1 DEF Graded, Sizes
    <3> QED BY <2>1, <3>1, <3>2
  <2> DEFINE j == a * s + l
  <2> HIDE DEF X, c
  <2>6. j \in 0..(Span(K) - 1) /\ Slot(j, K) = s /\ j % a = l
    BY <1>3, <2>4, <2>5
  <2>7. j \in X
    BY <1>2, <2>3, <2>6 DEF c
  <2>8. ~ (j < a)
    <3> HIDE DEF a
    <3>1. a * s >= a
      BY <1>1, <2>5
    <3>2. a \in Nat /\ l \in Nat /\ a * s \in Nat
      BY <1>1, <2>4, <2>5
    <3> QED BY <3>1, <3>2
  <2> QED BY <2>7, <2>8
<1> QED BY <1>8, <1>9

\* c has the ids of b, and no level to spare.
Drops(m, b, c) ==
    /\ c \in DOMAIN m
    /\ IdsOf(m, c) = IdsOf(m, b)
    /\ Low(m, c)

LEMMA DropsIs ==
    ASSUME Sizes, NEW m, Sound(m), NEW b, b \in DOMAIN m
    PROVE  Drops(m, b, Canonical(m, b))
<1>1. Good(m) /\ m \in Heaps
  BY GoodIs DEF Sound
<1>2. PICK low : Descends(m, low)
  BY <1>1, CanonicalUnfold
<1>3. \A x \in DOMAIN m : IdsOf(m, x) = Inside(m, x, m[x].height)
  BY <1>1, IdsOfIs
<1> DEFINE Q(k) == \A x \in DOMAIN m : m[x].height = k => Drops(m, x, low[k][x])
           S == {k \in Nat : Q(k)}
<1>4. 0 \in S
  <2>1. ASSUME NEW x \in DOMAIN m, m[x].height = 0 PROVE Drops(m, x, low[0][x])
    <3>1. low[0][x] = x
      BY <1>2 DEF Descends
    <3> QED BY <2>1, <3>1 DEF Drops, Low
  <2> QED BY <2>1
<1>5. ASSUME NEW k \in S PROVE k + 1 \in S
  <2> DEFINE K == k + 1
  <2>1. k \in Nat /\ K \in Nat /\ K - 1 = k /\ P!Over(K, k) /\ Q(k)
    BY DEF P!Over
  <2>2. ASSUME NEW x \in DOMAIN m, m[x].height = K PROVE Drops(m, x, low[K][x])
    <3>1. low[K][x] = IF DOMAIN m[x].kids # {0} THEN x ELSE low[k][m[x].kids[0]]
      BY <1>2, <2>1 DEF Descends
    <3> HIDE DEF K
    <3>2. CASE DOMAIN m[x].kids # {0}
      <4>1. PICK j \in Inside(m, x, K) : ~ (j < Span(k))
        BY <2>1, <2>2, <3>2, OnlyFirst
      <4>2. j \in IdsOf(m, x)
        BY <1>3, <2>2, <4>1
      <4>3. Low(m, x)
        BY <2>1, <2>2, <4>1, <4>2 DEF Low, IdsOf
      <4>4. Drops(m, x, x)
        BY <4>3 DEF Drops
      <4> QED BY <3>1, <3>2, <4>4
    <3>3. CASE DOMAIN m[x].kids = {0}
      <4> DEFINE d == m[x].kids[0]
      <4>1. d \in DOMAIN m /\ m[d].height = k /\ Inside(m, d, k) = Inside(m, x, K)
        BY <2>1, <2>2, <3>3, OnlyFirst
      <4>2. IdsOf(m, d) = IdsOf(m, x)
        BY <1>3, <2>2, <4>1
      <4>3. Drops(m, d, low[k][d])
        BY <2>1, <4>1
      <4> HIDE DEF d
      <4>4. Drops(m, x, low[k][d])
        BY <4>2, <4>3 DEF Drops
      <4> QED BY <3>1, <3>3, <4>4 DEF d
    <3> QED BY <3>2, <3>3
  <2> QED BY <2>1, <2>2
<1> HIDE DEF S
<1>6. S \in SUBSET Nat
  BY DEF S
<1>7. \A k \in Nat : k \in S
  BY <1>4, <1>5, <1>6, P!SetInduction
<1>8. m[b].height \in Nat
  BY <1>1, HeapIs, NodeIs
<1>9. Canonical(m, b) = low[m[b].height][b]
  BY <1>2 DEF Descends
<1> QED BY <1>7, <1>8, <1>9 DEF S
\* The result r is a bitmap with the ids S, of nodes of m and new ones that no
\* writer owns.
Result(m, r, S) ==
    /\ Sound(r.heap) /\ Extends(m, r.heap)
    /\ \A x \in DOMAIN r.heap : x \notin DOMAIN m => r.heap[x].epoch = 0
    /\ r.node \in DOMAIN r.heap \cup {Nil}
    /\ IdsOf(r.heap, r.node) = S

LEMMA ResultOf ==
    ASSUME Sizes, NEW m, NEW K, K \in Nat, NEW S, NEW r, Gives(m, 0, K, S, r)
    PROVE  Result(m, r, S)
<1>1. /\ Sound(r.heap) /\ Good(r.heap) /\ Extends(m, r.heap)
      /\ \A x \in DOMAIN r.heap : x \notin DOMAIN m => r.heap[x].epoch = 0
      /\ r.node \in DOMAIN r.heap \cup {Nil}
      /\ r.node # Nil => r.heap[r.node].height = K
      /\ Inside(r.heap, r.node, K) = S
  BY DEF Gives, More, Sound
<1>2. IdsOf(r.heap, r.node) = S
  <2>1. CASE r.node = Nil
    <3>1. IdsOf(r.heap, Nil) = {}
      BY <1>1, IdsOfIs
    <3>2. Inside(r.heap, Nil, K) = {}
      BY <1>1, InsideUnfold
    <3> QED BY <1>1, <2>1, <3>1, <3>2
  <2>2. CASE r.node # Nil
    BY <1>1, <2>2, IdsOfIs
  <2> QED BY <2>1, <2>2
<1> QED BY <1>1, <1>2 DEF Result

LEMMA SameResult ==
    ASSUME Sizes, NEW m, Sound(m), NEW b, b \in DOMAIN m \cup {Nil}, NEW r, r.heap = m, r.node = b
    PROVE  Result(m, r, IdsOf(m, b))
BY DEF Result, Extends

\* What is below the lower of two heights.
LEMMA Below ==
    ASSUME Sizes, NEW m, NEW b, NEW k, k \in Nat, NEW h, h \in Nat, k <= h
    PROVE  Inside(m, b, k) \cap 0..(Span(h) - 1) = Inside(m, b, k)
<1>1. Span(k) \in Nat /\ Span(h) \in Nat /\ Span(k) <= Span(h)
  BY SpanIs, SpanMonotone
<1>2. 0..(Span(k) - 1) \subseteq 0..(Span(h) - 1)
  BY <1>1
<1> QED BY <1>2 DEF Inside

LEMMA LowerAt ==
    ASSUME Sizes, NEW m, Good(m), NEW b, b \in DOMAIN m, NEW h, h \in Nat, NEW K,
           K = IF h < m[b].height THEN h ELSE m[b].height
    PROVE  /\ K \in Nat /\ K <= h /\ K <= m[b].height
           /\ At(m, Lower(m, b, h), K)
           /\ Inside(m, Lower(m, b, h), K) = Inside(m, b, m[b].height) \cap 0..(Span(h) - 1)
<1> DEFINE H == m[b].height
<1>1. H \in Nat /\ K \in Nat /\ K <= h /\ K <= H
  BY GoodIs, HeapIs, NodeIs
<1>2. CASE h < H
  <2>1. Cuts(m, b, H, Lower(m, b, h), h) /\ K = h
    BY <1>2, LowerIs
  <2> QED BY <1>1, <2>1 DEF Cuts
<1>3. CASE ~ (h < H)
  <2>1. Lower(m, b, h) = b /\ K = H
    BY <1>3, LowerIs
  <2>2. Inside(m, b, H) \cap 0..(Span(h) - 1) = Inside(m, b, H)
    BY <1>1, <2>1, Below
  <2> QED BY <1>1, <2>1, <2>2 DEF At
<1> QED BY <1>2, <1>3

LEMMA AndResult ==
    ASSUME Sizes, NEW m, Sound(m), NEW a, a \in DOMAIN m \cup {Nil}, NEW b, b \in DOMAIN m \cup {Nil}
    PROVE  Result(m, And(m, a, b), IdsOf(m, a) \cap IdsOf(m, b))
<1>1. Good(m) /\ m \in Heaps
  BY GoodIs DEF Sound
<1>2. CASE a = Nil \/ b = Nil
  <2>1. And(m, a, b).heap = m /\ And(m, a, b).node = Nil
    BY <1>2 DEF And
  <2>2. IdsOf(m, a) \cap IdsOf(m, b) = {} /\ IdsOf(m, Nil) = {}
    BY <1>1, <1>2, IdsOfIs
  <2>3. Result(m, And(m, a, b), IdsOf(m, Nil))
    BY <2>1, SameResult
  <2> QED BY <2>2, <2>3
<1>3. CASE a # Nil /\ b # Nil
  <2> DEFINE h == m[a].height
             k == m[b].height
             x == Lower(m, a, k)
             y == Lower(m, b, h)
             K == IF h < k THEN h ELSE k
             X == Inside(m, a, h)
             Y == Inside(m, b, k)
             L(j) == 0..(Span(j) - 1)
             r == And(m, a, b)
  <2>1. a \in DOMAIN m /\ b \in DOMAIN m /\ h \in Nat /\ k \in Nat
    BY <1>1, <1>3, HeapIs, NodeIs
  <2>2. K = (IF k < h THEN k ELSE h) /\ K \in Nat
    BY <2>1
  <2>3. At(m, x, K) /\ Inside(m, x, K) = X \cap L(k)
    BY <1>1, <2>1, <2>2, LowerAt
  <2>4. At(m, y, K) /\ Inside(m, y, K) = Y \cap L(h)
    BY <1>1, <2>1, LowerAt
  <2>5. r = Combined("And", m, x, y)
    BY <1>3 DEF And
  <2>6. IdsOf(m, a) = X /\ IdsOf(m, b) = Y /\ X \subseteq L(h) /\ Y \subseteq L(k)
    BY <1>1, <2>1, IdsOfIs DEF Inside
  <2> HIDE DEF h, k, x, y, K, X, Y, L, r
  <2>7. Gives(m, 0, K, Meet("And", Inside(m, x, K), Inside(m, y, K)), r)
    BY <2>2, <2>3, <2>4, <2>5, CombinedGives DEF Ops
  <2>8. Meet("And", Inside(m, x, K), Inside(m, y, K)) = X \cap Y
    BY <2>3, <2>4, <2>6 DEF Meet
  <2>9. Gives(m, 0, K, X \cap Y, r)
    BY <2>7, <2>8
  <2>10. Result(m, r, X \cap Y)
    BY <2>2, <2>9, ResultOf
  <2> QED BY <2>6, <2>10 DEF r
<1> QED BY <1>2, <1>3

\* b as high as h, at least.
LEMMA LiftIs ==
    ASSUME Sizes, NEW m, Sound(m), NEW b, b \in DOMAIN m, NEW h, h \in Nat, NEW K,
           K = IF m[b].height < h THEN h ELSE m[b].height
    PROVE  LET x == Lift(m, b, h)
           IN  /\ Sound(x.heap) /\ Extends(m, x.heap)
               /\ \A n \in DOMAIN x.heap : n \notin DOMAIN m => x.heap[n].epoch = 0
               /\ x.node \in DOMAIN x.heap /\ x.heap[x.node].height = K
               /\ Inside(x.heap, x.node, K) = Inside(m, b, m[b].height)
<1> DEFINE k == m[b].height
           d == IF k < h THEN h - k ELSE 0
           x == Lift(m, b, h)
<1>1. k \in Nat /\ d \in Nat /\ k + d = K
  <2>1. k \in Nat
    BY GoodIs, HeapIs, NodeIs DEF Sound
  <2> QED BY <2>1
<1>2. x = Raised(m, 0, b, d)
  BY DEF Lift
<1> HIDE DEF d, x
<1>3. Lifted(m, b, x.heap, x.node, d)
  BY <1>1, <1>2, RaisedLifts
<1>4. x.heap[x.node].height = K
  BY <1>1, <1>3 DEF Lifted
<1> QED BY <1>3, <1>4 DEF Lifted, x

LEMMA ExtendsTwice ==
    ASSUME NEW m, NEW o, NEW p, Extends(m, o), Extends(o, p),
           \A x \in DOMAIN o : x \notin DOMAIN m => o[x].epoch = 0,
           \A x \in DOMAIN p : x \notin DOMAIN o => p[x].epoch = 0
    PROVE  Extends(m, p) /\ \A x \in DOMAIN p : x \notin DOMAIN m => p[x].epoch = 0
BY DEF Extends

LEMMA OrResult ==
    ASSUME Sizes, NEW m, Sound(m), NEW a, a \in DOMAIN m \cup {Nil}, NEW b, b \in DOMAIN m \cup {Nil}
    PROVE  Result(m, Or(m, a, b), IdsOf(m, a) \cup IdsOf(m, b))
<1>1. Good(m) /\ m \in Heaps
  BY GoodIs DEF Sound
<1>2. CASE a = Nil \/ b = Nil
  <2> DEFINE z == IF a = Nil THEN b ELSE a
  <2>1. Or(m, a, b).heap = m /\ Or(m, a, b).node = z
    BY <1>2 DEF Or, Spared
  <2>2. IdsOf(m, a) \cup IdsOf(m, b) = IdsOf(m, z)
    <3>1. IdsOf(m, Nil) = {}
      BY <1>1, IdsOfIs
    <3> QED BY <1>2, <3>1
  <2>3. Result(m, Or(m, a, b), IdsOf(m, z))
    BY <2>1, SameResult
  <2> QED BY <2>2, <2>3
<1>3. CASE a # Nil /\ b # Nil
  <2> DEFINE h == m[a].height
             k == m[b].height
             x == Lift(m, a, k)
             n == x.heap
             y == Lift(n, b, h)
             o == y.heap
             K == IF h < k THEN k ELSE h
             X == Inside(m, a, h)
             Y == Inside(m, b, k)
             r == Or(m, a, b)
  <2>1. a \in DOMAIN m /\ b \in DOMAIN m /\ h \in Nat /\ k \in Nat
    BY <1>1, <1>3, HeapIs, NodeIs
  <2>2. K = (IF k < h THEN h ELSE k) /\ K \in Nat
    BY <2>1
  <2>3. /\ Sound(n) /\ Extends(m, n)
        /\ \A i \in DOMAIN n : i \notin DOMAIN m => n[i].epoch = 0
        /\ x.node \in DOMAIN n /\ n[x.node].height = K
        /\ Inside(n, x.node, K) = X
    BY <2>1, LiftIs
  <2>4. r = Combined("Or", o, x.node, y.node)
    BY <1>3 DEF Or
  <2>5. IdsOf(m, a) = X /\ IdsOf(m, b) = Y
    BY <1>1, <2>1, IdsOfIs
  <2> HIDE DEF r, x, n
  <2>6. b \in DOMAIN n /\ n[b].height = k /\ Inside(n, b, k) = Y /\ Good(n)
    <3>1. b \in DOMAIN n /\ n[b] = m[b] /\ Good(n)
      BY <2>1, <2>3 DEF Extends, Sound
    <3> QED BY <1>1, <2>1, <2>3, <3>1, InsideStays
  <2>7. /\ Sound(o) /\ Extends(n, o)
        /\ \A i \in DOMAIN o : i \notin DOMAIN n => o[i].epoch = 0
        /\ y.node \in DOMAIN o /\ o[y.node].height = K
        /\ Inside(o, y.node, K) = Y
    BY <2>1, <2>2, <2>3, <2>6, LiftIs
  <2> HIDE DEF h, k, y, o, K, X, Y
  <2>8. x.node \in DOMAIN o /\ o[x.node].height = K /\ Inside(o, x.node, K) = X /\ Good(o)
    <3>1. x.node \in DOMAIN o /\ o[x.node] = n[x.node] /\ Good(o)
      BY <2>3, <2>7 DEF Extends, Sound
    <3> QED BY <2>2, <2>3, <2>6, <2>7, <3>1, InsideStays
  <2>9. Gives(o, 0, K, X \cup Y, r)
    <3>1. At(o, x.node, K) /\ At(o, y.node, K)
      BY <2>7, <2>8 DEF At
    <3>2. Gives(o, 0, K, Meet("Or", Inside(o, x.node, K), Inside(o, y.node, K)), r)
      BY <2>2, <2>4, <2>7, <3>1, CombinedGives DEF Ops
    <3>3. Meet("Or", Inside(o, x.node, K), Inside(o, y.node, K)) = X \cup Y
      BY <2>7, <2>8 DEF Meet
    <3> QED BY <3>2, <3>3
  <2>10. Result(o, r, X \cup Y)
    BY <2>2, <2>9, ResultOf
  <2>11. Extends(m, o) /\ \A i \in DOMAIN o : i \notin DOMAIN m => o[i].epoch = 0
    BY <2>3, <2>7, ExtendsTwice
  <2>12. Extends(m, r.heap) /\ \A i \in DOMAIN r.heap : i \notin DOMAIN m => r.heap[i].epoch = 0
    BY <2>10, <2>11, ExtendsTwice DEF Result
  <2>13. Result(m, r, X \cup Y)
    BY <2>10, <2>12 DEF Result
  <2> QED BY <2>5, <2>13 DEF r
<1> QED BY <1>2, <1>3

LEMMA AndNotResult ==
    ASSUME Sizes, NEW m, Sound(m), NEW a, a \in DOMAIN m \cup {Nil}, NEW b, b \in DOMAIN m \cup {Nil}
    PROVE  Result(m, AndNot(m, a, b), IdsOf(m, a) \ IdsOf(m, b))
<1>1. Good(m) /\ m \in Heaps
  BY GoodIs DEF Sound
<1>2. CASE a = Nil \/ b = Nil
  <2>1. AndNot(m, a, b).heap = m /\ AndNot(m, a, b).node = a
    BY <1>2 DEF AndNot
  <2>2. IdsOf(m, a) \ IdsOf(m, b) = IdsOf(m, a)
    <3>1. IdsOf(m, Nil) = {}
      BY <1>1, IdsOfIs
    <3> QED BY <1>2, <3>1
  <2>3. Result(m, AndNot(m, a, b), IdsOf(m, a))
    BY <2>1, SameResult
  <2> QED BY <2>2, <2>3
<1>3. CASE a # Nil /\ b # Nil
  <2> DEFINE h == m[a].height
             k == m[b].height
             z == Lower(m, b, h)
             J == IF h < k THEN h ELSE k
             y == Lift(m, z, h)
             o == y.heap
             X == Inside(m, a, h)
             Y == Inside(m, b, k)
             Z == Inside(m, z, J)
             r == AndNot(m, a, b)
  <2>1. a \in DOMAIN m /\ b \in DOMAIN m /\ h \in Nat /\ k \in Nat
    BY <1>1, <1>3, HeapIs, NodeIs
  <2>2. J \in Nat /\ J <= h /\ At(m, z, J) /\ Z = Y \cap 0..(Span(h) - 1)
    BY <1>1, <2>1, LowerAt
  <2>3. IdsOf(m, a) = X /\ IdsOf(m, b) = Y /\ X \subseteq 0..(Span(h) - 1)
    BY <1>1, <2>1, IdsOfIs DEF Inside
  <2>4. X \ Z = X \ Y
    <3> HIDE DEF X, Y, Z, h
    <3> QED BY <2>2, <2>3
  <2>5. r = IF z = Nil THEN [heap |-> m, node |-> a] ELSE Combined("AndNot", o, a, y.node)
    BY <1>3 DEF AndNot
  <2> HIDE DEF r, z
  <2>6. CASE z = Nil
    <3>1. Z = {}
      BY <1>1, <2>2, <2>6, InsideUnfold
    <3>2. r.heap = m /\ r.node = a
      BY <2>5, <2>6
    <3>3. Result(m, r, IdsOf(m, a))
      BY <3>2, SameResult
    <3> HIDE DEF X, Y, Z
    <3>4. X = X \ Y
      BY <2>4, <3>1
    <3>5. Result(m, r, X \ Y)
      BY <2>3, <3>3, <3>4
    <3> QED BY <2>3, <3>5 DEF r
  <2>7. CASE z # Nil
    <3>1. z \in DOMAIN m /\ m[z].height = J
      BY <2>2, <2>7 DEF At
    <3>2. h = IF J < h THEN h ELSE J
      BY <2>1, <2>2
    <3>3. /\ Sound(o) /\ Extends(m, o)
          /\ \A i \in DOMAIN o : i \notin DOMAIN m => o[i].epoch = 0
          /\ y.node \in DOMAIN o /\ o[y.node].height = h
          /\ Inside(o, y.node, h) = Z
      <4> HIDE DEF h, J
      <4> QED BY <2>1, <3>1, <3>2, LiftIs
    <3> HIDE DEF y, o
    <3>4. a \in DOMAIN o /\ o[a].height = h /\ Inside(o, a, h) = X /\ Good(o)
      <4>1. a \in DOMAIN o /\ o[a] = m[a] /\ Good(o)
        BY <2>1, <3>3 DEF Extends, Sound
      <4> QED BY <1>1, <2>1, <3>3, <4>1, InsideStays
    <3> HIDE DEF h, k, J, X, Y, Z
    <3>5. Gives(o, 0, h, X \ Y, r)
      <4>1. At(o, a, h) /\ At(o, y.node, h)
        BY <3>3, <3>4 DEF At
      <4>2. r = Combined("AndNot", o, a, y.node)
        BY <2>5, <2>7
      <4>3. Gives(o, 0, h, Meet("AndNot", Inside(o, a, h), Inside(o, y.node, h)), r)
        BY <2>1, <3>3, <4>1, <4>2, CombinedGives DEF Ops
      <4>4. Meet("AndNot", Inside(o, a, h), Inside(o, y.node, h)) = X \ Y
        BY <2>4, <3>3, <3>4 DEF Meet
      <4> QED BY <4>3, <4>4
    <3>6. Result(o, r, X \ Y)
      BY <2>1, <3>5, ResultOf
    <3>7. Extends(m, r.heap) /\ \A i \in DOMAIN r.heap : i \notin DOMAIN m => r.heap[i].epoch = 0
      BY <3>3, <3>6, ExtendsTwice DEF Result
    <3>8. Result(m, r, X \ Y)
      BY <3>6, <3>7 DEF Result
    <3> QED BY <2>3, <3>8 DEF r
  <2> QED BY <2>6, <2>7
<1> QED BY <1>2, <1>3

\* And, Or and AndNot of any two bitmaps, whatever their heights and however they
\* share nodes, have exactly the ids they should: the result is Nil or as low as
\* they allow, its count is exact, nothing that there was is changed, and every
\* node that is made counts right, has something below it and is nobody's to
\* change (ops.go: And, Or, AndNot).
THEOREM AlgebraExact ==
    ASSUME Sizes, NEW m, Sound(m), NEW op, op \in Ops,
           NEW a, a \in DOMAIN m \cup {Nil}, NEW b, b \in DOMAIN m \cup {Nil},
           NEW r, r = Algebra(op, m, a, b)
    PROVE  /\ Result(m, r, Meet(op, IdsOf(m, a), IdsOf(m, b)))
           /\ r.node # Nil => Low(r.heap, r.node)
           /\ Size(r.heap, r.node) = Cardinality(Meet(op, IdsOf(m, a), IdsOf(m, b)))
<1> DEFINE S == Meet(op, IdsOf(m, a), IdsOf(m, b))
           g == CASE op = "And" -> And(m, a, b)
                  [] op = "Or" -> Or(m, a, b)
                  [] op = "AndNot" -> AndNot(m, a, b)
           o == g.heap
           c == g.node
<1>1. Result(m, g, S)
  <2>1. CASE op = "And"
    <3>1. g = And(m, a, b) /\ S = IdsOf(m, a) \cap IdsOf(m, b)
      BY <2>1 DEF Meet
    <3> QED BY <3>1, AndResult
  <2>2. CASE op = "Or"
    <3>1. g = Or(m, a, b) /\ S = IdsOf(m, a) \cup IdsOf(m, b)
      BY <2>2 DEF Meet
    <3> QED BY <3>1, OrResult
  <2>3. CASE op = "AndNot"
    <3>1. g = AndNot(m, a, b) /\ S = IdsOf(m, a) \ IdsOf(m, b)
      BY <2>3 DEF Meet
    <3> QED BY <3>1, AndNotResult
  <2> QED BY <2>1, <2>2, <2>3 DEF Ops
<1>2. r = [heap |-> o, node |-> Canonical(o, c)]
  BY DEF Algebra
<1> HIDE DEF S, g
<1>3. /\ Sound(o) /\ Good(o) /\ Extends(m, o)
      /\ \A x \in DOMAIN o : x \notin DOMAIN m => o[x].epoch = 0
      /\ c \in DOMAIN o \cup {Nil} /\ IdsOf(o, c) = S
  BY <1>1 DEF Result, Sound
<1>4. r.heap = o /\ r.node = Canonical(o, c)
  BY <1>2
<1> HIDE DEF o, c
<1>5. CASE c = Nil
  <2>1. r.node = Nil
    BY <1>4, <1>5 DEF Canonical
  <2>2. S = {} /\ Size(o, Nil) = 0
    BY <1>3, <1>5, IdsOfIs DEF Size
  <2>3. Size(o, Nil) = Cardinality(S)
    BY <2>2, FS_EmptySet
  <2> QED BY <1>3, <1>4, <1>5, <2>1, <2>3 DEF Result, S
<1>6. CASE c # Nil
  <2> DEFINE z == r.node
  <2>1. z \in DOMAIN o /\ IdsOf(o, z) = IdsOf(o, c) /\ Low(o, z)
    BY <1>3, <1>4, <1>6, DropsIs DEF Drops
  <2> HIDE DEF z
  <2>2. IdsOf(o, z) = S /\ IdsOf(o, z) = Inside(o, z, o[z].height) /\ z # Nil
    BY <1>3, <2>1, IdsOfIs, GoodIs
  <2>3. Size(o, z) = Cardinality(S)
    BY <1>3, <2>1, <2>2 DEF Size, Sound, Counts
  <2>4. r.heap = o /\ r.node = z
    BY <1>4 DEF z
  <2> QED BY <1>3, <2>1, <2>2, <2>3, <2>4 DEF Result, S
<1> QED BY <1>5, <1>6
=============================================================================
