---------------------------- MODULE RowSetsProofs ----------------------------
(* Theorems about RowSets, for any databases, values, objects, bounds and    *)
(* sizes of nodes.                                                           *)
EXTENDS RowSets, Integers, FiniteSetTheorems, TLAPS

BP == INSTANCE BitmapProofs
VP == INSTANCE PVecProofs

----------------------------------------------------------------------------
(* The theorems about Bitmap and PVec are about the operators used here.   *)

LEMMA BitsAre ==
    /\ BP!Nil = B!Nil
    /\ \A m, b, i : BP!Has(m, b, i) = B!Has(m, b, i)
    /\ \A m, b : BP!Size(m, b) = B!Size(m, b)
    /\ \A m, b : BP!Nodes(m, b) = B!Nodes(m, b)
    /\ \A m, b : BP!Least(m, b) = B!Least(m, b)
<1>1. BP!Nil = B!Nil
  BY DEF BP!Nil, B!Nil
<1>2. \A h : BP!Span(h) = B!Span(h)
  BY DEF BP!Span, B!Span
<1>3. \A i, h : BP!Slot(i, h) = B!Slot(i, h)
  BY <1>2 DEF BP!Slot, B!Slot
<1>4. \A n, s : BP!Kid(n, s) = B!Kid(n, s)
  BY DEF BP!Kid, B!Kid, BP!Nil, B!Nil
<1>5. \A m, n, h, i : BP!HasBelow(m, n, h, i) = B!HasBelow(m, n, h, i)
  BY DEF BP!HasBelow, B!HasBelow, BP!Kid, B!Kid, BP!Slot, B!Slot, BP!Nil, B!Nil, BP!Span, B!Span
<1>6. \A m, b, i : BP!Has(m, b, i) = B!Has(m, b, i)
  BY <1>1, <1>2, <1>5 DEF BP!Has, B!Has
<1>7. \A m, b : BP!Size(m, b) = B!Size(m, b)
  BY <1>1 DEF BP!Size, B!Size
<1>8. \A m, b : BP!Nodes(m, b) = B!Nodes(m, b)
  BY DEF BP!Nodes, B!Nodes, BP!Nil, B!Nil
<1>9. \A m, b : BP!Least(m, b) = B!Least(m, b)
  BY DEF BP!Least, B!Least, BP!Down, B!Down, BP!Lowest, B!Lowest, BP!Span, B!Span
<1> QED BY <1>1, <1>6, <1>7, <1>8, <1>9

LEMMA FiniteSetsAre ==
    /\ \A S : B!Cardinality(S) = Cardinality(S)
    /\ \A S : V!Cardinality(S) = Cardinality(S)
    /\ \A S : BP!Cardinality(S) = Cardinality(S)
    /\ \A S : VP!Cardinality(S) = Cardinality(S)
    /\ \A S : BP!IsFiniteSet(S) <=> IsFiniteSet(S)
BY DEF B!Cardinality, V!Cardinality, BP!Cardinality, VP!Cardinality, Cardinality,
       B!IsFiniteSet, V!IsFiniteSet, BP!IsFiniteSet, VP!IsFiniteSet, IsFiniteSet

LEMMA BitWritesAre ==
    /\ \A m, e, b, i : BP!Set(m, e, b, i) = B!Set(m, e, b, i)
    /\ \A m, e, b, i : BP!Clear(m, e, b, i) = B!Clear(m, e, b, i)
<1>1. \A m, e, n, node : BP!Own(m, e, n, node) = B!Own(m, e, n, node)
  BY DEF BP!Own, B!Own, BP!Nil, B!Nil, BP!Fresh, B!Fresh, BP!With, B!With, BP!Lowest, B!Lowest,
         B!Cardinality, BP!Cardinality, B!IsFiniteSet, BP!IsFiniteSet
<1>2. \A i : BP!HeightFor(i) = B!HeightFor(i)
  BY DEF BP!HeightFor, B!HeightFor, BP!Lowest, B!Lowest, BP!Span, B!Span
<1> USE DEF BP!Own, B!Own, BP!Nil, B!Nil, BP!Fresh, B!Fresh, BP!With, B!With, BP!Lowest, B!Lowest,
         B!Cardinality, BP!Cardinality, B!IsFiniteSet, BP!IsFiniteSet, BP!Span, B!Span,
         BP!Slot, B!Slot, BP!Kid, B!Kid, BP!NodeAt, B!NodeAt, BP!Blank, B!Blank,
         BP!Without, B!Without, BP!Restrict, B!Restrict
<1>3. \A m, e, n, h, i : BP!Put(m, e, n, h, i) = B!Put(m, e, n, h, i)
  BY DEF BP!Put, B!Put, BP!PutChunk, B!PutChunk, BP!PutDir, B!PutDir
<1>4. \A m, e, n, h, i : BP!Take(m, e, n, h, i) = B!Take(m, e, n, h, i)
  BY DEF BP!Take, B!Take, BP!TakeChunk, B!TakeChunk, BP!TakeDir, B!TakeDir
<1>5. \A m, b : BP!Canonical(m, b) = B!Canonical(m, b)
  BY DEF BP!Canonical, B!Canonical
<1>6. \A m, e, b, i : BP!Grow(m, e, b, i) = B!Grow(m, e, b, i)
  BY DEF BP!Grow, B!Grow, BP!Raised, B!Raised, BP!Taller, B!Taller, BP!HeightFor, B!HeightFor
<1>7. BP!Nil = B!Nil
  OBVIOUS
<1>8. ASSUME NEW m, NEW e, NEW b, NEW i PROVE BP!Set(m, e, b, i) = B!Set(m, e, b, i)
  BY <1>2, <1>3, <1>6, <1>7, BitsAre DEF BP!Set, B!Set, BP!Stored, B!Stored
<1>9. ASSUME NEW m, NEW e, NEW b, NEW i PROVE BP!Clear(m, e, b, i) = B!Clear(m, e, b, i)
  BY <1>4, <1>5, BitsAre DEF BP!Clear, B!Clear
<1> QED BY <1>8, <1>9

LEMMA VecsAre ==
    /\ VP!Nil = V!Nil /\ VP!Empty = V!Empty
    /\ \A m, v, i : VP!Get(m, v, i) = V!Get(m, v, i)
    /\ \A m, n, h : VP!Nodes(m, n, h) = V!Nodes(m, n, h)
    /\ \A m, v : VP!IsVec(m, v) = V!IsVec(m, v)
    /\ \A m, e, v, i, val : VP!Set(m, e, v, i, val) = V!Set(m, e, v, i, val)
<1> USE DEF VP!Nil, V!Nil
<1>1. VP!Nil = V!Nil /\ VP!Empty = V!Empty
  BY DEF VP!Empty, V!Empty
<1>2. \A h : VP!Span(h) = V!Span(h)
  BY DEF VP!Span, V!Span
<1>3. \A m, n, h, i : VP!GetBelow(m, n, h, i) = V!GetBelow(m, n, h, i)
  BY DEF VP!GetBelow, V!GetBelow, VP!Kid, V!Kid, VP!SlotAt, V!SlotAt, VP!Span, V!Span,
         VP!Val, V!Val
<1>4. \A m, v, i : VP!Get(m, v, i) = V!Get(m, v, i)
  BY <1>2, <1>3 DEF VP!Get, V!Get
<1>5. \A m, n, h : VP!Nodes(m, n, h) = V!Nodes(m, n, h)
  BY DEF VP!Nodes, V!Nodes
<1>6. \A m, h : VP!Whole(m, h) = V!Whole(m, h)
  BY SMTT(30) DEF VP!Whole, V!Whole, VP!Filled, V!Filled, VP!Apart, V!Apart, VP!GetBelow, V!GetBelow,
         VP!Kid, V!Kid, VP!SlotAt, V!SlotAt, VP!Span, V!Span, VP!Val, V!Val, VP!Nodes, V!Nodes,
         VP!Cardinality, V!Cardinality, VP!IsFiniteSet, V!IsFiniteSet
<1>7. \A m, v : VP!IsVec(m, v) = V!IsVec(m, v)
  BY <1>6 DEF VP!IsVec, V!IsVec
<1> USE DEF VP!Own, V!Own, VP!Fresh, V!Fresh, VP!With, V!With,
         V!Cardinality, VP!Cardinality, V!IsFiniteSet, VP!IsFiniteSet, VP!Span, V!Span,
         VP!SlotAt, V!SlotAt, VP!Kid, V!Kid, VP!Val, V!Val, VP!NodeAt, V!NodeAt, VP!Blank, V!Blank,
         VP!Without, V!Without, VP!Restrict, V!Restrict
<1>8. \A m, e, n, h, i, val : VP!Put(m, e, n, h, i, val) = V!Put(m, e, n, h, i, val)
  BY DEF VP!Put, V!Put, VP!SetLeaf, V!SetLeaf, VP!SetInner, V!SetInner
<1>9. \A m, e, v, i : VP!Grow(m, e, v, i) = V!Grow(m, e, v, i)
  BY DEF VP!Grow, V!Grow, VP!Taller, V!Taller, VP!HeightFor, V!HeightFor
<1>10. ASSUME NEW m, NEW e, NEW v, NEW i, NEW val
       PROVE  VP!Set(m, e, v, i, val) = V!Set(m, e, v, i, val)
  BY <1>1, <1>4, <1>8, <1>9 DEF VP!Set, V!Set, VP!Stored, V!Stored, VP!Rooted, V!Rooted
<1> QED BY <1>1, <1>4, <1>5, <1>7, <1>10

----------------------------------------------------------------------------
(* One bitmap written.                                                     *)

LEMMA SizesAre ==
    /\ BP!Sizes /\ VP!Sizes /\ MaxRow \in Nat /\ MaxWrites \in Nat /\ MaxSets \in Nat
    /\ Row \subseteq Nat
    /\ "all" \in K /\ "free" \in K /\ Value \subseteq K
    /\ "all" # "free" /\ "all" \notin Value /\ "free" \notin Value
BY BoundAssumption DEF BP!Sizes, VP!Sizes, Row, K

\* The bitmap b has the ids in S.
Holds(hp, b, S) == BP!IsBitmap(hp, b) /\ \A j \in Nat : B!Has(hp, b, j) <=> j \in S

\* What a change makes of the ids of a bitmap.
Put(how, S, i) == IF how = "set" THEN S \cup {i} ELSE S \ {i}

\* The bitmap b of the heap m has become c of o.
Moves(m, b, o, c, e) ==
    /\ BP!Good(o) /\ VP!Wrote(m, o, e, B!Nodes(m, b))
    /\ B!Nodes(o, c) \subseteq B!Nodes(m, b) \cup (DOMAIN o \ DOMAIN m)

LEMMA ChangeMoves ==
    ASSUME NEW m, BP!Good(m), NEW e \in Nat, NEW b, NEW S, Holds(m, b, S), NEW i \in Nat, NEW how,
           NEW r, r = IF how = "set" THEN B!Set(m, e, b, i) ELSE B!Clear(m, e, b, i)
    PROVE  Moves(m, b, r.heap, r.node, e) /\ Holds(r.heap, r.node, Put(how, S, i))
<1>1. BP!IsBitmap(m, b) /\ \A j \in Nat : BP!Has(m, b, j) <=> j \in S
  BY BitsAre DEF Holds
<1>2. /\ BP!Comes(m, b, r.heap, r.node, e)
      /\ BP!IsBitmap(r.heap, r.node)
      /\ \A j \in Nat : BP!Has(r.heap, r.node, j) <=>
            IF how = "set" THEN j = i \/ BP!Has(m, b, j) ELSE j # i /\ BP!Has(m, b, j)
  <2>1. CASE how = "set"
    <3>1. r = BP!Set(m, e, b, i)
      BY <2>1, BitWritesAre
    <3> QED BY <1>1, <2>1, <3>1, SizesAre, BP!SetAdds
  <2>2. CASE how # "set"
    <3>1. r = BP!Clear(m, e, b, i)
      BY <2>2, BitWritesAre
    <3> QED BY <1>1, <2>2, <3>1, SizesAre, BP!ClearTakes
  <2> QED BY <2>1, <2>2
<1> DEFINE o == r.heap
           c == r.node
<1>3. /\ BP!Good(o) /\ DOMAIN m \subseteq DOMAIN o
      /\ \A x \in DOMAIN o :
            \/ x \in DOMAIN m /\ o[x] = m[x]
            \/ o[x].epoch = e /\ (x \in DOMAIN m => x \in BP!Nodes(m, b) /\ m[x].epoch = e)
      /\ BP!Nodes(o, c) \subseteq BP!Nodes(m, b) \cup (DOMAIN o \ DOMAIN m)
  <2> HIDE DEF o, c
  <2>1. BP!Comes(m, b, o, c, e)
    BY <1>2 DEF o, c
  <2> QED BY <2>1, BP!ComesMeans
<1>4. Moves(m, b, o, c, e)
  <2> HIDE DEF o, c
  <2> QED BY <1>3, BitsAre DEF Moves, VP!Wrote
<1>5. Holds(o, c, Put(how, S, i))
  <2>1. BP!IsBitmap(o, c)
    BY <1>2
  <2>2. \A j \in Nat : BP!Has(o, c, j) <=> j \in Put(how, S, i)
    BY <1>1, <1>2 DEF Put
  <2> HIDE DEF o, c
  <2> QED BY <2>1, <2>2, BitsAre DEF Holds
<1> QED BY <1>4, <1>5

\* A bitmap whose nodes are the same in another heap is the same there.
Kept(m, o, ns) == \A x \in ns : x \in DOMAIN o /\ o[x] = m[x]

LEMMA BitmapStays ==
    ASSUME NEW m, BP!Good(m), NEW o, BP!Good(o), NEW b, NEW S, Holds(m, b, S),
           Kept(m, o, B!Nodes(m, b))
    PROVE  /\ Holds(o, b, S)
           /\ B!Nodes(o, b) = B!Nodes(m, b)
           /\ B!Size(o, b) = B!Size(m, b)
<1>1. BP!IsBitmap(m, b) /\ \A j \in Nat : BP!Has(m, b, j) <=> j \in S
  BY BitsAre DEF Holds
<1>2. \A x \in BP!Nodes(m, b) : x \in DOMAIN o /\ o[x] = m[x]
  BY BitsAre DEF Kept
<1>3. /\ BP!IsBitmap(o, b)
      /\ \A j \in Nat : BP!Has(o, b, j) <=> BP!Has(m, b, j)
      /\ BP!Size(o, b) = BP!Size(m, b)
      /\ BP!Nodes(o, b) = BP!Nodes(m, b)
  BY <1>1, <1>2, SizesAre, BP!SameBitmap
<1> QED BY <1>1, <1>3, BitsAre DEF Holds

\* The nodes of bitmaps.
LEMMA BitNodesAre ==
    ASSUME NEW m, BP!Good(m), NEW b, BP!IsBitmap(m, b)
    PROVE  /\ b \in DOMAIN m \cup {B!Nil}
           /\ B!Nodes(m, b) \subseteq DOMAIN m
           /\ \A x \in B!Nodes(m, b) : \A s \in DOMAIN m[x].kids : m[x].kids[s] \in B!Nodes(m, b)
<1>1. b \in DOMAIN m \cup {BP!Nil} /\ BP!Nodes(m, b) \subseteq DOMAIN m
  BY BP!GoodNodes
<1>2. \A x \in BP!Nodes(m, b) : \A s \in DOMAIN m[x].kids : m[x].kids[s] \in BP!Nodes(m, b)
  BY SizesAre, BP!NodesClosed
<1> QED BY <1>1, <1>2, BitsAre

----------------------------------------------------------------------------
(* The bitmaps of a table written.                                         *)

\* The bitmaps have the ids in has, and no node in common.
BitsOk(hp, bits, has) ==
    /\ bits = [k \in K |-> bits[k]]
    /\ \A k \in K : Holds(hp, bits[k], has[k])
    /\ \A k, l \in K : k # l => B!Nodes(hp, bits[k]) \cap B!Nodes(hp, bits[l]) = {}

All(hp, bits) == UNION {B!Nodes(hp, bits[k]) : k \in K}

\* The bitmaps old of the heap m have become bits of o, which have the ids in has.
Moved(m, old, e, o, bits, has) ==
    /\ BP!Good(o) /\ BitsOk(o, bits, has)
    /\ VP!Wrote(m, o, e, All(m, old))
    /\ All(o, bits) \subseteq All(m, old) \cup (DOMAIN o \ DOMAIN m)

LEMMA MovedNot ==
    ASSUME NEW m, BP!Good(m), NEW bits, NEW has, BitsOk(m, bits, has), NEW e
    PROVE  Moved(m, bits, e, m, bits, has)
BY DEF Moved, VP!Wrote

\* What a writer of epoch e does, and does then, it does.
LEMMA WroteTwice ==
    ASSUME NEW m, NEW h, NEW o, NEW e, NEW ns, NEW more,
           VP!Wrote(m, h, e, ns), VP!Wrote(h, o, e, more),
           more \subseteq ns \cup (DOMAIN h \ DOMAIN m)
    PROVE  VP!Wrote(m, o, e, ns)
<1>1. DOMAIN m \subseteq DOMAIN h /\ DOMAIN h \subseteq DOMAIN o
  BY DEF VP!Wrote
<1>2. ASSUME NEW x \in DOMAIN o
      PROVE  \/ x \in DOMAIN m /\ o[x] = m[x]
             \/ o[x].epoch = e /\ (x \in DOMAIN m => x \in ns /\ m[x].epoch = e)
  <2>1. CASE x \in DOMAIN h /\ o[x] = h[x]
    <3>1. \/ x \in DOMAIN m /\ h[x] = m[x]
          \/ h[x].epoch = e /\ (x \in DOMAIN m => x \in ns /\ m[x].epoch = e)
      BY <2>1 DEF VP!Wrote
    <3> QED BY <2>1, <3>1
  <2>2. CASE ~ (x \in DOMAIN h /\ o[x] = h[x])
    <3>1. o[x].epoch = e /\ (x \in DOMAIN h => x \in more /\ h[x].epoch = e)
      BY <2>2 DEF VP!Wrote
    <3>2. ASSUME x \in DOMAIN m PROVE x \in ns /\ m[x].epoch = e
      <4>1. x \in DOMAIN h /\ x \in ns /\ h[x].epoch = e
        BY <1>1, <3>1, <3>2
      <4>2. h[x] = m[x] \/ m[x].epoch = e
        BY <3>2, <4>1 DEF VP!Wrote
      <4> QED BY <4>1, <4>2
    <3> QED BY <3>1, <3>2
  <2> QED BY <2>1, <2>2
<1> QED BY <1>1, <1>2 DEF VP!Wrote

\* The ids of the bitmaps after the change c.
IdsWith(has, c) == [k \in K |-> IF k = c.k THEN Put(c.how, has[k], c.i) ELSE has[k]]

LEMMA ChangeOk ==
    ASSUME NEW m, NEW old, NEW e \in Nat, NEW st, NEW has,
           Moved(m, old, e, st.heap, st.bits, has),
           NEW c, c.k \in K, c.i \in Nat, NEW d, d = Change(e, st, c)
    PROVE  Moved(m, old, e, d.heap, d.bits, IdsWith(has, c))
<1> DEFINE h == st.heap
           q == c.k
           b == st.bits[q]
           r == IF c.how = "set" THEN B!Set(h, e, b, c.i) ELSE B!Clear(h, e, b, c.i)
           o == r.heap
           w == r.node
           now == IdsWith(has, c)
<1>1. d.heap = o /\ d.bits = [st.bits EXCEPT ![q] = w]
  BY DEF Change
<1>2. r = IF c.how = "set" THEN B!Set(h, e, b, c.i) ELSE B!Clear(h, e, b, c.i)
  OBVIOUS
<1> HIDE DEF r
<1>3. /\ BP!Good(h) /\ BitsOk(h, st.bits, has) /\ q \in K
      /\ VP!Wrote(m, h, e, All(m, old))
      /\ All(h, st.bits) \subseteq All(m, old) \cup (DOMAIN h \ DOMAIN m)
  BY DEF Moved
<1>4. \A k \in K : /\ Holds(h, st.bits[k], has[k])
                   /\ B!Nodes(h, st.bits[k]) \subseteq DOMAIN h
  <2>1. \A k \in K : Holds(h, st.bits[k], has[k])
    BY <1>3 DEF BitsOk
  <2> QED BY <1>3, <2>1, BitNodesAre DEF Holds
<1>5. Moves(h, b, o, w, e) /\ Holds(o, w, Put(c.how, has[q], c.i))
  BY <1>2, <1>3, <1>4, ChangeMoves
<1> HIDE DEF o, w
<1>6. /\ BP!Good(o) /\ VP!Wrote(h, o, e, B!Nodes(h, b))
      /\ B!Nodes(o, w) \subseteq B!Nodes(h, b) \cup (DOMAIN o \ DOMAIN h)
  BY <1>5 DEF Moves
<1>7. ASSUME NEW k \in K, k # q
      PROVE  Holds(o, st.bits[k], has[k]) /\ B!Nodes(o, st.bits[k]) = B!Nodes(h, st.bits[k])
  <2>1. B!Nodes(h, st.bits[k]) \cap B!Nodes(h, b) = {}
    BY <1>3, <1>7 DEF BitsOk
  <2>2. Kept(h, o, B!Nodes(h, st.bits[k]))
    BY <1>4, <1>6, <2>1 DEF Kept, VP!Wrote
  <2> QED BY <1>3, <1>4, <1>6, <2>2, BitmapStays
<1>8. /\ d.bits = [k \in K |-> d.bits[k]]
      /\ d.bits[q] = w
      /\ \A k \in K : k # q => d.bits[k] = st.bits[k]
  BY <1>1, <1>3 DEF BitsOk
<1>9. \A k \in K : Holds(o, d.bits[k], now[k])
  <2>1. \A k \in K : now[k] = IF k = q THEN Put(c.how, has[k], c.i) ELSE has[k]
    BY DEF IdsWith
  <2> HIDE DEF now
  <2> QED BY <1>5, <1>7, <1>8, <2>1
<1>10. ASSUME NEW k \in K, NEW l \in K, k # l
       PROVE  B!Nodes(o, d.bits[k]) \cap B!Nodes(o, d.bits[l]) = {}
  <2>1. ASSUME NEW j \in K, j # q PROVE B!Nodes(o, w) \cap B!Nodes(o, st.bits[j]) = {}
    <3>1. B!Nodes(h, st.bits[j]) \cap B!Nodes(h, b) = {}
      BY <1>3, <2>1 DEF BitsOk
    <3>2. B!Nodes(o, st.bits[j]) = B!Nodes(h, st.bits[j]) /\ B!Nodes(h, st.bits[j]) \subseteq DOMAIN h
      BY <1>4, <1>7, <2>1
    <3> QED BY <1>6, <3>1, <3>2
  <2>2. CASE k = q
    BY <1>8, <1>10, <2>1, <2>2
  <2>3. CASE l = q
    BY <1>8, <1>10, <2>1, <2>3
  <2>4. CASE k # q /\ l # q
    <3>1. B!Nodes(h, st.bits[k]) \cap B!Nodes(h, st.bits[l]) = {}
      BY <1>3, <1>10 DEF BitsOk
    <3> QED BY <1>7, <1>8, <2>4, <3>1
  <2> QED BY <2>2, <2>3, <2>4
<1>11. BitsOk(o, d.bits, now)
  <2> HIDE DEF now
  <2> QED BY <1>8, <1>9, <1>10 DEF BitsOk
<1>12. B!Nodes(h, b) \subseteq All(m, old) \cup (DOMAIN h \ DOMAIN m)
  BY <1>3 DEF All
<1>13. VP!Wrote(m, o, e, All(m, old))
  BY <1>3, <1>6, <1>12, WroteTwice
<1>14. All(o, d.bits) \subseteq All(m, old) \cup (DOMAIN o \ DOMAIN m)
  <2> SUFFICES ASSUME NEW k \in K, NEW x \in B!Nodes(o, d.bits[k])
               PROVE  x \in All(m, old) \cup (DOMAIN o \ DOMAIN m)
    BY DEF All
  <2>1. DOMAIN m \subseteq DOMAIN h /\ DOMAIN h \subseteq DOMAIN o
    BY <1>3, <1>6 DEF VP!Wrote
  <2>2. CASE k = q
    BY <1>6, <1>8, <1>12, <2>1, <2>2
  <2>3. CASE k # q
    <3>1. x \in B!Nodes(h, st.bits[k])
      BY <1>7, <1>8, <2>3
    <3>2. x \in All(h, st.bits)
      BY <3>1 DEF All
    <3> QED BY <1>3, <2>1, <3>2
  <2> QED BY <2>2, <2>3
<1> HIDE DEF now
<1>15. Moved(m, old, e, o, d.bits, now)
  BY <1>6, <1>11, <1>13, <1>14 DEF Moved
<1> QED BY <1>1, <1>15 DEF now

----------------------------------------------------------------------------
(* The changes that a row needs.                                           *)

\* One of the first n changes of s is of this kind, to the bitmap k.
Does(s, n, how, k) == \E a \in 1..n : s[a].how = how /\ s[a].k = k

LEMMA SetToSeqIs ==
    ASSUME NEW S, IsFiniteSet(S)
    PROVE  /\ Cardinality(S) \in Nat
           /\ SetToSeq(S) \in [1..Cardinality(S) -> S]
           /\ \A x \in S : \E n \in 1..Cardinality(S) : SetToSeq(S)[n] = x
<1> DEFINE N == Cardinality(S)
           f == SetToSeq(S)
<1>1. N \in Nat /\ ExistsBijection(1..N, S)
  BY FS_CardinalityType
<1>2. \E g \in [1..N -> S] : IsInjective(g)
  BY <1>1 DEF ExistsBijection, Bijection, Injection
<1>3. f \in [1..N -> S] /\ IsInjective(f)
  BY <1>2 DEF SetToSeq
<1> HIDE DEF f
<1>4. IsFiniteSet(1..N) /\ Cardinality(1..N) = N
  BY <1>1, FS_Interval
<1>5. f \in Injection(1..N, S)
  BY <1>3 DEF Injection
<1>6. f \in Surjection(1..N, S)
  BY <1>4, <1>5, FS_Injection
<1>7. \A x \in S : \E n \in 1..N : f[n] = x
  BY <1>6 DEF Surjection
<1> QED BY <1>1, <1>3, <1>7 DEF f

\* The changes of bitmaps of K of the row i.
Listed(i) == Seq([how : {"set", "clear"}, k : K, i : {i}])

LEMMA EachIs ==
    ASSUME NEW h \in {"set", "clear"}, NEW S, S \subseteq K, IsFiniteSet(S), NEW i
    PROVE  /\ Each(h, S, i) \in Listed(i)
           /\ \A how, k : Does(Each(h, S, i), Len(Each(h, S, i)), how, k) <=> how = h /\ k \in S
<1> DEFINE N == Cardinality(S)
           f == SetToSeq(S)
           s == Each(h, S, i)
<1>1. N \in Nat /\ f \in [1..N -> S] /\ \A x \in S : \E n \in 1..N : f[n] = x
  BY SetToSeqIs
<1>2. s = [n \in 1..N |-> [how |-> h, k |-> f[n], i |-> i]]
  BY DEF Each
<1> HIDE DEF N, f, s
<1>3. s \in Listed(i)
  <2>1. \A n \in 1..N : [how |-> h, k |-> f[n], i |-> i] \in [how : {"set", "clear"}, k : K, i : {i}]
    BY <1>1
  <2> QED BY <1>1, <1>2, <2>1 DEF Listed
<1>4. Len(s) = N /\ \A n \in 1..N : s[n].how = h /\ s[n].k = f[n]
  BY <1>1, <1>2
<1>5. ASSUME NEW how, NEW k PROVE Does(s, N, how, k) <=> how = h /\ k \in S
  BY <1>1, <1>4 DEF Does
<1> QED BY <1>3, <1>4, <1>5 DEF s

LEMMA WhenIs ==
    ASSUME NEW i, NEW s \in Listed(i), NEW cond \in BOOLEAN
    PROVE  /\ When(cond, s) \in Listed(i)
           /\ \A how, k : Does(When(cond, s), Len(When(cond, s)), how, k) <=>
                 cond /\ Does(s, Len(s), how, k)
<1>1. CASE cond
  BY <1>1 DEF When
<1>2. CASE ~ cond
  <2>1. When(cond, s) = << >> /\ Len(<< >>) = 0
    BY <1>2 DEF When
  <2>2. << >> \in Listed(i)
    BY DEF Listed
  <2> QED BY <1>2, <2>1, <2>2 DEF Does
<1> QED BY <1>1, <1>2

LEMMA ConcatIs ==
    ASSUME NEW i, NEW s \in Listed(i), NEW t \in Listed(i)
    PROVE  /\ s \o t \in Listed(i)
           /\ \A how, k : Does(s \o t, Len(s \o t), how, k) <=>
                 Does(s, Len(s), how, k) \/ Does(t, Len(t), how, k)
<1> DEFINE u == s \o t
<1>1. u \in Listed(i)
  BY DEF Listed
<1>2. /\ Len(u) = Len(s) + Len(t) /\ Len(s) \in Nat /\ Len(t) \in Nat
      /\ \A n \in 1..(Len(s) + Len(t)) : u[n] = IF n <= Len(s) THEN s[n] ELSE t[n - Len(s)]
  BY DEF Listed
<1> HIDE DEF u
<1>3. \A n \in 1..Len(u) : \/ n \in 1..Len(s) /\ u[n] = s[n]
                           \/ n - Len(s) \in 1..Len(t) /\ u[n] = t[n - Len(s)]
  BY <1>2
<1>4. \A n \in 1..Len(s) : n \in 1..Len(u) /\ u[n] = s[n]
  BY <1>2
<1>5. \A n \in 1..Len(t) : Len(s) + n \in 1..Len(u) /\ u[Len(s) + n] = t[n]
  <2>1. ASSUME NEW n \in 1..Len(t) PROVE Len(s) + n \in 1..Len(u) /\ u[Len(s) + n] = t[n]
    <3> DEFINE p == Len(s) + n
    <3>1. p \in 1..(Len(s) + Len(t)) /\ ~ (p <= Len(s)) /\ p - Len(s) = n
      BY <1>2
    <3>2. u[p] = t[n]
      BY <1>2, <3>1
    <3> QED BY <1>2, <3>1, <3>2
  <2> QED BY <2>1
<1>6. ASSUME NEW how, NEW k
      PROVE  Does(u, Len(u), how, k) <=> Does(s, Len(s), how, k) \/ Does(t, Len(t), how, k)
  <2>1. ASSUME Does(u, Len(u), how, k) PROVE Does(s, Len(s), how, k) \/ Does(t, Len(t), how, k)
    BY <1>3, <2>1 DEF Does
  <2>2. ASSUME Does(s, Len(s), how, k) PROVE Does(u, Len(u), how, k)
    BY <1>4, <2>2 DEF Does
  <2>3. ASSUME Does(t, Len(t), how, k) PROVE Does(u, Len(u), how, k)
    BY <1>5, <2>3 DEF Does
  <2> QED BY <2>1, <2>2, <2>3
<1> QED BY <1>1, <1>6 DEF u

\* The bitmaps that gain the row i when obj takes the place of was, and those that
\* lose it; next says that i is a new id.
Gain(was, obj) ==
    (IF obj = None THEN {"free"} ELSE {}) \cup (IF was = None THEN {"all"} ELSE {})
        \cup (ValuesOf(obj) \ ValuesOf(was))
Lose(was, obj, next) ==
    (IF obj = None THEN {"all"} ELSE {}) \cup (IF was = None /\ ~ next THEN {"free"} ELSE {})
        \cup (ValuesOf(was) \ ValuesOf(obj))
Objs == (SUBSET Value) \cup {None}

LEMMA ValuesAre ==
    ASSUME NEW obj \in Objs
    PROVE  ValuesOf(obj) \subseteq Value /\ IsFiniteSet(ValuesOf(obj))
<1>1. ValuesOf(obj) \subseteq Value
  <2>1. CASE obj = None
    BY <2>1 DEF ValuesOf
  <2>2. CASE obj # None
    BY <2>2 DEF ValuesOf, Objs
  <2> QED BY <2>1, <2>2
<1> QED BY <1>1, FS_Subset, BoundAssumption

LEMMA ChangesAre ==
    ASSUME NEW ver, NEW i, NEW obj \in Objs, ver.table[i] \in Objs,
           NEW cs, cs = Changes(ver, i, obj)
    PROVE  /\ cs \in Listed(i)
           /\ \A k : Does(cs, Len(cs), "set", k) <=> k \in Gain(ver.table[i], obj)
           /\ \A k : Does(cs, Len(cs), "clear", k) <=>
                 k \in Lose(ver.table[i], obj, IsNext(ver, i))
<1> DEFINE was == ver.table[i]
           next == IsNext(ver, i)
           lost == ValuesOf(was) \ ValuesOf(obj)
           won  == ValuesOf(obj) \ ValuesOf(was)
           drop == Each("clear", {"all"}, i)
           free == Each("set", {"free"}, i)
           take == Each("clear", {"free"}, i)
           add  == Each("set", {"all"}, i)
           lose == Each("clear", lost, i)
           gain == Each("set", won, i)
           gone == drop \o free
           a == When(obj = None, gone)
           b == When(was = None /\ ~ next, take)
           c == When(was = None, add)
           ab == a \o b
           abc == ab \o c
           most == abc \o lose
           D(s, how, k) == Does(s, Len(s), how, k)
<1>1. cs = most \o gain
  BY DEF Changes
<1>2. /\ {"all"} \subseteq K /\ {"free"} \subseteq K
      /\ IsFiniteSet({"all"}) /\ IsFiniteSet({"free"})
  BY SizesAre, FS_Singleton
<1>3. /\ drop \in Listed(i) /\ \A how, k : D(drop, how, k) <=> how = "clear" /\ k \in {"all"}
      /\ free \in Listed(i) /\ \A how, k : D(free, how, k) <=> how = "set" /\ k \in {"free"}
      /\ take \in Listed(i) /\ \A how, k : D(take, how, k) <=> how = "clear" /\ k \in {"free"}
      /\ add \in Listed(i) /\ \A how, k : D(add, how, k) <=> how = "set" /\ k \in {"all"}
  BY <1>2, EachIs
<1>4. ValuesOf(obj) \subseteq Value /\ IsFiniteSet(ValuesOf(obj))
      /\ ValuesOf(was) \subseteq Value /\ IsFiniteSet(ValuesOf(was))
  BY ValuesAre
<1>5. lost \subseteq K /\ won \subseteq K /\ IsFiniteSet(lost) /\ IsFiniteSet(won)
  BY <1>4, SizesAre, FS_Subset
<1>6. /\ lose \in Listed(i) /\ \A how, k : D(lose, how, k) <=> how = "clear" /\ k \in lost
      /\ gain \in Listed(i) /\ \A how, k : D(gain, how, k) <=> how = "set" /\ k \in won
  <2> HIDE DEF lost, won
  <2> QED BY <1>5, EachIs
<1> HIDE DEF drop, free, take, add, lose, gain, lost, won
<1>7. gone \in Listed(i) /\ \A how, k : D(gone, how, k) <=> D(drop, how, k) \/ D(free, how, k)
  BY <1>3, ConcatIs
<1> HIDE DEF gone
<1>8. /\ a \in Listed(i) /\ \A how, k : D(a, how, k) <=> obj = None /\ D(gone, how, k)
      /\ b \in Listed(i) /\ \A how, k : D(b, how, k) <=> (was = None /\ ~ next) /\ D(take, how, k)
      /\ c \in Listed(i) /\ \A how, k : D(c, how, k) <=> was = None /\ D(add, how, k)
  <2>1. (obj = None) \in BOOLEAN /\ (was = None /\ ~ next) \in BOOLEAN /\ (was = None) \in BOOLEAN
    OBVIOUS
  <2> HIDE DEF was, next
  <2> QED BY <1>3, <1>7, <2>1, WhenIs
<1> HIDE DEF a, b, c
<1>9. ab \in Listed(i) /\ \A how, k : D(ab, how, k) <=> D(a, how, k) \/ D(b, how, k)
  BY <1>8, ConcatIs
<1> HIDE DEF ab
<1>10. abc \in Listed(i) /\ \A how, k : D(abc, how, k) <=> D(ab, how, k) \/ D(c, how, k)
  BY <1>8, <1>9, ConcatIs
<1> HIDE DEF abc
<1>11. most \in Listed(i) /\ \A how, k : D(most, how, k) <=> D(abc, how, k) \/ D(lose, how, k)
  BY <1>6, <1>10, ConcatIs
<1> HIDE DEF most
<1>12. cs \in Listed(i) /\ \A how, k : D(cs, how, k) <=> D(most, how, k) \/ D(gain, how, k)
  BY <1>1, <1>6, <1>11, ConcatIs
<1> HIDE DEF D
<1>13. \A k : D(cs, "set", k) <=> k \in Gain(was, obj)
  <2> HIDE DEF was, next
  <2> QED BY <1>3, <1>6, <1>7, <1>8, <1>9, <1>10, <1>11, <1>12 DEF Gain, won
<1>14. \A k : D(cs, "clear", k) <=> k \in Lose(was, obj, next)
  <2> HIDE DEF was, next
  <2> QED BY <1>3, <1>6, <1>7, <1>8, <1>9, <1>10, <1>11, <1>12 DEF Lose, lost
<1> QED BY <1>12, <1>13, <1>14 DEF D

----------------------------------------------------------------------------
(* All the changes of a row.                                               *)

\* The ids of the bitmaps after n changes.
IdsAfter(has, cs, n, i) ==
    [k \in K |-> IF Does(cs, n, "set", k) THEN has[k] \cup {i}
                 ELSE IF Does(cs, n, "clear", k) THEN has[k] \ {i} ELSE has[k]]

LEMMA OneMore ==
    ASSUME NEW cs, NEW n \in Nat, NEW how, NEW k
    PROVE  /\ ~ Does(cs, 0, how, k)
           /\ Does(cs, n + 1, how, k) <=>
                 Does(cs, n, how, k) \/ (cs[n + 1].how = how /\ cs[n + 1].k = k)
<1>1. ~ Does(cs, 0, how, k)
  BY DEF Does
<1>2. \A a : a \in 1..(n + 1) <=> a \in 1..n \/ a = n + 1
  OBVIOUS
<1> QED BY <1>1, <1>2 DEF Does

LEMMA FewerDo ==
    ASSUME NEW cs, NEW n \in Nat, NEW p \in Nat, n <= p, NEW how, NEW k, Does(cs, n, how, k)
    PROVE  Does(cs, p, how, k)
BY DEF Does

\* What Changed goes through.
Folds(f, e, x, cs, n) == f = [k \in 0..n |-> IF k = 0 THEN x ELSE Change(e, f[k - 1], cs[k])]

LEMMA FoldExists ==
    ASSUME NEW e, NEW x, NEW cs, NEW N \in Nat
    PROVE  \E f : Folds(f, e, x, cs, N)
<1> USE DEF Folds
<1> DEFINE Is(f, n) == Folds(f, e, x, cs, n)
           S == {n \in Nat : \E f : Is(f, n)}
<1>1. 0 \in S
  <2>1. Is([k \in 0..0 |-> x], 0)
    OBVIOUS
  <2> HIDE DEF Is
  <2> QED BY <2>1
<1>2. ASSUME NEW n \in S PROVE n + 1 \in S
  <2>1. n \in Nat
    OBVIOUS
  <2>2. PICK f : Is(f, n)
    <3> HIDE DEF Is
    <3> QED OBVIOUS
  <2> DEFINE g == [k \in 0..(n + 1) |-> IF k = n + 1 THEN Change(e, f[n], cs[n + 1]) ELSE f[k]]
  <2>3. /\ g = [k \in 0..(n + 1) |-> g[k]]
        /\ g[n + 1] = Change(e, f[n], cs[n + 1])
        /\ \A k \in 0..n : g[k] = f[k]
    BY <2>1
  <2> HIDE DEF g
  <2>4. \A k \in 0..n : f[k] = IF k = 0 THEN x ELSE Change(e, f[k - 1], cs[k])
    BY <2>2
  <2>5. ASSUME NEW k \in 0..(n + 1)
        PROVE  g[k] = IF k = 0 THEN x ELSE Change(e, g[k - 1], cs[k])
    <3>1. CASE k = n + 1
      <4>1. k # 0 /\ k - 1 = n /\ n \in 0..n
        BY <2>1, <3>1
      <4> QED BY <2>3, <3>1, <4>1
    <3>2. CASE k # n + 1
      <4>1. k \in 0..n /\ (k # 0 => k - 1 \in 0..n)
        BY <2>1, <3>2
      <4> QED BY <2>3, <2>4, <4>1
    <3> QED BY <3>1, <3>2
  <2>6. Is(g, n + 1)
    BY <2>3, <2>5
  <2> HIDE DEF Is
  <2> QED BY <2>1, <2>6
<1> HIDE DEF S
<1>3. \A n \in Nat : n \in S
  <2>1. S \in SUBSET Nat
    BY DEF S
  <2> QED BY <1>1, <1>2, <2>1, VP!SetInduction
<1> QED BY <1>3 DEF S

LEMMA IdsAfterOne ==
    ASSUME NEW has, NEW i, NEW cs \in Listed(i), NEW n \in Nat, n + 1 <= Len(cs),
           \A k : ~ (Does(cs, Len(cs), "set", k) /\ Does(cs, Len(cs), "clear", k))
    PROVE  /\ cs[n + 1].k \in K /\ cs[n + 1].i = i
           /\ IdsAfter(has, cs, n + 1, i) = IdsWith(IdsAfter(has, cs, n, i), cs[n + 1])
<1> DEFINE c == cs[n + 1]
           was == IdsAfter(has, cs, n, i)
<1>1. Len(cs) \in Nat /\ n + 1 \in 1..Len(cs)
  BY DEF Listed
<1>2. c.how \in {"set", "clear"} /\ c.k \in K /\ c.i = i
  <2> DEFINE T == [how : {"set", "clear"}, k : K, i : {i}]
  <2>1. c \in T
    <3>1. cs \in Seq(T)
      BY DEF Listed
    <3> HIDE DEF T
    <3> QED BY <1>1, <3>1
  <2> HIDE DEF c
  <2> QED BY <2>1
<1>3. \A k : ~ (Does(cs, n + 1, "set", k) /\ Does(cs, n + 1, "clear", k))
  BY <1>1, FewerDo
<1>4. \A how, k : Does(cs, n + 1, how, k) <=> Does(cs, n, how, k) \/ (c.how = how /\ c.k = k)
  BY OneMore
<1>5. \A k \in K : was[k] = IF Does(cs, n, "set", k) THEN has[k] \cup {i}
                            ELSE IF Does(cs, n, "clear", k) THEN has[k] \ {i} ELSE has[k]
  BY DEF IdsAfter
<1> HIDE DEF c, was
<1>6. ASSUME NEW k \in K
      PROVE  (IF Does(cs, n + 1, "set", k) THEN has[k] \cup {i}
              ELSE IF Does(cs, n + 1, "clear", k) THEN has[k] \ {i} ELSE has[k])
             = IF k = c.k THEN Put(c.how, was[k], i) ELSE was[k]
  <2>1. CASE k # c.k
    BY <1>4, <1>5, <2>1
  <2>2. CASE k = c.k /\ c.how = "set"
    <3>1. Does(cs, n + 1, "set", k)
      BY <1>4, <2>2
    <3>2. was[k] \cup {i} = has[k] \cup {i}
      BY <1>5
    <3> QED BY <2>2, <3>1, <3>2 DEF Put
  <2>3. CASE k = c.k /\ c.how = "clear"
    <3>1. Does(cs, n + 1, "clear", k) /\ ~ Does(cs, n + 1, "set", k) /\ ~ Does(cs, n, "set", k)
      BY <1>3, <1>4, <2>3
    <3>2. was[k] \ {i} = has[k] \ {i}
      BY <1>5, <3>1
    <3> QED BY <2>3, <3>1, <3>2 DEF Put
  <2> QED BY <1>2, <2>1, <2>2, <2>3
<1>7. IdsAfter(has, cs, n + 1, i) = IdsWith(was, c)
  BY <1>2, <1>6 DEF IdsAfter, IdsWith
<1> QED BY <1>2, <1>7 DEF c, was

LEMMA ChangedOk ==
    ASSUME NEW m, BP!Good(m), NEW bits, NEW has, has = [k \in K |-> has[k]], BitsOk(m, bits, has),
           NEW e \in Nat, NEW i \in Nat, NEW cs \in Listed(i),
           \A k : ~ (Does(cs, Len(cs), "set", k) /\ Does(cs, Len(cs), "clear", k)),
           NEW r, r = Changed(m, e, bits, cs)
    PROVE  Moved(m, bits, e, r.heap, r.bits, IdsAfter(has, cs, Len(cs), i))
<1>0. \A n \in Nat : n + 1 <= Len(cs) =>
         /\ cs[n + 1].k \in K /\ cs[n + 1].i = i
         /\ IdsAfter(has, cs, n + 1, i) = IdsWith(IdsAfter(has, cs, n, i), cs[n + 1])
  BY IdsAfterOne
<1> DEFINE N == Len(cs)
           x == [heap |-> m, bits |-> bits]
           E(f) == [k \in 0..N |-> IF k = 0 THEN x ELSE Change(e, f[k - 1], cs[k])]
           f == CHOOSE g : g = E(g)
           Q(n) == Moved(m, bits, e, f[n].heap, f[n].bits, IdsAfter(has, cs, n, i))
<1>1. N \in Nat
  BY DEF Listed
<1>2. r = f[N]
  BY DEF Changed, Iterated
<1>3. f = E(f)
  <2>1. \E g : g = E(g)
    <3>1. \E g : Folds(g, e, x, cs, N)
      BY <1>1, FoldExists
    <3> QED BY <3>1 DEF Folds
  <2> HIDE DEF E
  <2> QED BY <2>1
<1> HIDE DEF f
<1>4. f[0] = x /\ \A n \in Nat : n + 1 <= N => f[n + 1] = Change(e, f[n], cs[n + 1])
  <2>1. \A k \in 0..N : f[k] = IF k = 0 THEN x ELSE Change(e, f[k - 1], cs[k])
    BY <1>3
  <2>2. \A n \in Nat : n + 1 <= N => n + 1 \in 0..N /\ n + 1 # 0 /\ (n + 1) - 1 = n
    BY <1>1
  <2> QED BY <1>1, <2>1, <2>2
<1> HIDE DEF E
<1> DEFINE S == {n \in Nat : n <= N => Q(n)}
<1>5. 0 \in S
  <2>1. IdsAfter(has, cs, 0, i) = has
    BY OneMore DEF IdsAfter
  <2>2. Moved(m, bits, e, m, bits, has)
    BY MovedNot
  <2> QED BY <1>4, <2>1, <2>2
<1>6. ASSUME NEW n \in S PROVE n + 1 \in S
  <2> SUFFICES ASSUME n + 1 <= N PROVE Q(n + 1)
    OBVIOUS
  <2> DEFINE st == f[n]
             c == cs[n + 1]
             was == IdsAfter(has, cs, n, i)
             now == IdsAfter(has, cs, n + 1, i)
  <2>1. n \in Nat /\ Moved(m, bits, e, st.heap, st.bits, was)
    BY <1>1
  <2>2. /\ c.k \in K /\ c.i = i
        /\ now = IdsWith(was, c)
    <3>1. n \in Nat /\ n + 1 <= N
      BY <2>1
    <3> HIDE DEF Q, S
    <3> QED BY <1>0, <3>1
  <2>3. f[n + 1] = Change(e, st, c)
    BY <1>4, <2>1
  <2> DEFINE d == f[n + 1]
  <2> HIDE DEF Q
  <2>4. d = Change(e, st, c) /\ c.k \in K /\ c.i \in Nat
    BY <2>2, <2>3
  <2> HIDE DEF st, c, was, now, d
  <2>5. Moved(m, bits, e, d.heap, d.bits, IdsWith(was, c))
    BY <2>1, <2>4, ChangeOk
  <2>6. Moved(m, bits, e, d.heap, d.bits, now)
    BY <2>2, <2>5
  <2> QED BY <2>6 DEF now, d, Q
<1> HIDE DEF Q
<1>7. \A n \in Nat : n \in S
  <2>1. S \in SUBSET Nat
    OBVIOUS
  <2> HIDE DEF S
  <2> QED BY <1>5, <1>6, <2>1, VP!SetInduction
<1>8. Q(N)
  BY <1>1, <1>7
<1> QED BY <1>2, <1>8 DEF Q

----------------------------------------------------------------------------
(* The row vector written.                                                 *)

VGood(m) == m \in VP!Heap(Objs) /\ VP!Closed(m) /\ VP!Proper(m)

VNodes(m, v) == V!Nodes(m, v.root, v.height)

\* The vector v has the objects of the table t.
Lists(m, v, t) ==
    /\ V!IsVec(m, v)
    /\ \A j \in Nat : V!Get(m, v, j) = IF j \in Row THEN t[j] ELSE None

LEMMA ListsAfter ==
    ASSUME NEW m, VGood(m), NEW v, NEW t \in [Row -> Objs], Lists(m, v, t),
           NEW e \in Nat, NEW i \in Row, NEW obj \in Objs, NEW r, r = V!Set(m, e, v, i, obj)
    PROVE  /\ VGood(r.heap)
           /\ Lists(r.heap, r.vec, [t EXCEPT ![i] = obj])
           /\ VP!Wrote(m, r.heap, e, VNodes(m, v))
           /\ VNodes(r.heap, r.vec) \subseteq VNodes(m, v) \cup (DOMAIN r.heap \ DOMAIN m)
<1>1. i \in Nat /\ None \in Objs /\ VP!Sizes
  BY SizesAre DEF Objs
<1>2. r = VP!Set(m, e, v, i, obj) /\ VP!IsVec(m, v)
  BY VecsAre DEF Lists
<1>3. /\ r.heap \in VP!Heap(Objs) /\ VP!Proper(r.heap)
      /\ VP!Updated(m, v, r.heap, r.vec, e, i, obj)
  BY <1>1, <1>2, VP!SetIsUpdate, VP!SetProper DEF VGood
<1> DEFINE o == r.heap
           w == r.vec
<1> HIDE DEF o, w
<1>4. VP!Updated(m, v, o, w, e, i, obj)
  BY <1>3 DEF o, w
<1>5. /\ VP!Closed(o) /\ VP!IsVec(o, w)
      /\ DOMAIN m \subseteq DOMAIN o
      /\ \A x \in DOMAIN o :
            \/ x \in DOMAIN m /\ o[x] = m[x]
            \/ o[x].epoch = e /\
               (x \in DOMAIN m => x \in VP!Nodes(m, v.root, v.height) /\ m[x].epoch = e)
      /\ VP!Nodes(o, w.root, w.height) \subseteq
            VP!Nodes(m, v.root, v.height) \cup (DOMAIN o \ DOMAIN m)
      /\ \A j \in Nat : VP!Get(o, w, j) = IF j = i THEN obj ELSE VP!Get(m, v, j)
  BY <1>4, VP!UpdatedMeans
<1>6. /\ VP!Wrote(m, o, e, VNodes(m, v))
      /\ VNodes(o, w) \subseteq VNodes(m, v) \cup (DOMAIN o \ DOMAIN m)
  BY <1>5, VecsAre DEF VP!Wrote, VNodes
<1>7. Lists(o, w, [t EXCEPT ![i] = obj])
  <2>1. V!IsVec(o, w)
    BY <1>5, VecsAre
  <2>2. \A j \in Nat : V!Get(o, w, j) = IF j = i THEN obj ELSE V!Get(m, v, j)
    BY <1>5, VecsAre
  <2>3. \A j \in Nat : V!Get(m, v, j) = IF j \in Row THEN t[j] ELSE None
    BY DEF Lists
  <2>4. \A j \in Row : [t EXCEPT ![i] = obj][j] = IF j = i THEN obj ELSE t[j]
    OBVIOUS
  <2>5. \A j \in Nat : V!Get(o, w, j) = IF j \in Row THEN [t EXCEPT ![i] = obj][j] ELSE None
    BY <2>2, <2>3, <2>4
  <2> QED BY <2>1, <2>5 DEF Lists
<1>8. VGood(o)
  BY <1>3, <1>5 DEF VGood, o
<1> QED BY <1>6, <1>7, <1>8 DEF o, w

LEMMA ListsStays ==
    ASSUME NEW m, VGood(m), NEW o, VGood(o), NEW v, NEW t, Lists(m, v, t),
           Kept(m, o, VNodes(m, v))
    PROVE  Lists(o, v, t) /\ VNodes(o, v) = VNodes(m, v)
<1>1. /\ None \in Objs /\ VP!Sizes
      /\ VP!IsVec(m, v)
  BY SizesAre, VecsAre DEF Objs, Lists
<1>2. VP!Keeps(m, o, VP!Nodes(m, v.root, v.height))
  BY VecsAre DEF Kept, VNodes, VP!Keeps
<1>3. /\ VP!IsVec(o, v)
      /\ VP!Nodes(o, v.root, v.height) = VP!Nodes(m, v.root, v.height)
      /\ \A j \in Nat : VP!Get(o, v, j) = VP!Get(m, v, j)
  BY <1>1, <1>2, VP!SameVec DEF VGood
<1> QED BY <1>3, VecsAre DEF Lists, VNodes

LEMMA VecNodesAre ==
    ASSUME NEW m, VGood(m), NEW v, V!IsVec(m, v)
    PROVE  /\ v.root \in DOMAIN m \cup {V!Nil}
           /\ VNodes(m, v) \subseteq DOMAIN m
           /\ \A x \in VNodes(m, v) : \A s \in DOMAIN m[x].kids : m[x].kids[s] \in VNodes(m, v)
<1>1. None \in Objs /\ VP!Sizes /\ VP!IsVec(m, v)
  BY SizesAre, VecsAre DEF Objs
<1>2. /\ v.root \in DOMAIN m \cup {VP!Nil}
      /\ VP!Nodes(m, v.root, v.height) \subseteq DOMAIN m
      /\ \A x \in VP!Nodes(m, v.root, v.height) : \A s \in DOMAIN m[x].kids :
            m[x].kids[s] \in VP!Nodes(m, v.root, v.height)
  BY <1>1, VP!VecNodes DEF VGood
<1> QED BY <1>2, VecsAre DEF VNodes

----------------------------------------------------------------------------
(* A row written.                                                          *)

\* The row j is in the bitmap k of a table t whose next id is next.
Belongs(t, next, k, j) ==
    IF k = "all" THEN t[j] # None
    ELSE IF k = "free" THEN j < next /\ t[j] = None
    ELSE t[j] # None /\ k \in t[j]

IdsIn(t, next) == [k \in K |-> {j \in Row : Belongs(t, next, k, j)}]

TableOk(ver) ==
    /\ ver.table \in [Row -> Objs]
    /\ ver.next \in 0..(MaxRow + 1)
    /\ \A j \in Row : ver.table[j] # None => j < ver.next

\* The bitmaps and the vector of a version say what its table holds.
VerOk(m, vm, ver) ==
    /\ "bits" \in DOMAIN ver
    /\ TableOk(ver)
    /\ BitsOk(m, ver.bits, IdsIn(ver.table, ver.next))
    /\ Lists(vm, ver.rows, ver.table)

\* The row i is one that obj may be written to.
Fits(ver, i, obj) ==
    ver.table[i] = None =>
        /\ obj # None
        /\ IF ver.bits["free"] = B!Nil THEN i = ver.next ELSE i < ver.next

LEMMA BelongsAfter ==
    ASSUME NEW ver, TableOk(ver), NEW i \in Row, NEW obj \in Objs, Fits(ver, i, obj),
           NEW was, was = ver.table[i], NEW after, after = [ver.table EXCEPT ![i] = obj],
           NEW next, next = IF IsNext(ver, i) THEN ver.next + 1 ELSE ver.next,
           NEW k \in K
    PROVE  /\ \A j \in Row \ {i} : Belongs(after, next, k, j) <=> Belongs(ver.table, ver.next, k, j)
           /\ k \in Gain(was, obj) => Belongs(after, next, k, i)
           /\ k \in Lose(was, obj, IsNext(ver, i)) => ~ Belongs(after, next, k, i)
           /\ k \notin Gain(was, obj) /\ k \notin Lose(was, obj, IsNext(ver, i)) =>
                 (Belongs(after, next, k, i) <=> Belongs(ver.table, ver.next, k, i))
           /\ ~ (k \in Gain(was, obj) /\ k \in Lose(was, obj, IsNext(ver, i)))
<1>1. /\ Row \subseteq Nat /\ i \in Nat /\ ver.next \in Nat
      /\ "all" # "free" /\ "all" \notin Value /\ "free" \notin Value
  BY SizesAre DEF TableOk
<1>2. /\ after[i] = obj /\ \A j \in Row \ {i} : after[j] = ver.table[j]
      /\ was \in Objs /\ (was # None => i < ver.next)
  BY DEF TableOk
<1>3. IsNext(ver, i) => was = None /\ i = ver.next /\ next = ver.next + 1
  BY DEF IsNext, Fits
<1>4. ~ IsNext(ver, i) => next = ver.next /\ i < ver.next
  BY <1>2 DEF IsNext, Fits
<1>5. was = None => obj # None
  BY DEF Fits
<1>6. ValuesOf(was) \subseteq Value /\ ValuesOf(obj) \subseteq Value
  BY <1>2, ValuesAre
<1>7. /\ \A x : x \in ValuesOf(was) <=> was # None /\ x \in was
      /\ \A x : x \in ValuesOf(obj) <=> obj # None /\ x \in obj
  BY DEF ValuesOf
<1> DEFINE new == IsNext(ver, i)
<1>8. \A x : x \in Gain(was, obj) <=> \/ obj = None /\ x = "free"
                                      \/ was = None /\ x = "all"
                                      \/ x \in ValuesOf(obj) /\ x \notin ValuesOf(was)
  BY DEF Gain
<1>9. \A x : x \in Lose(was, obj, new) <=> \/ obj = None /\ x = "all"
                                           \/ was = None /\ ~ new /\ x = "free"
                                           \/ x \in ValuesOf(was) /\ x \notin ValuesOf(obj)
  BY DEF Lose
<1>10. \A j \in Row \ {i} : Belongs(after, next, k, j) <=> Belongs(ver.table, ver.next, k, j)
  <2>1. \A j \in Row \ {i} : j < next <=> j < ver.next
    BY <1>1, <1>3, <1>4
  <2> QED BY <1>2, <2>1 DEF Belongs
<1>11. i < next /\ (i < ver.next <=> ~ new)
  BY <1>1, <1>3, <1>4
<1>12. /\ Belongs(after, next, k, i) <=>
             IF k = "all" THEN obj # None ELSE IF k = "free" THEN obj = None
             ELSE obj # None /\ k \in obj
       /\ Belongs(ver.table, ver.next, k, i) <=>
             IF k = "all" THEN was # None ELSE IF k = "free" THEN ~ new /\ was = None
             ELSE was # None /\ k \in was
  BY <1>2, <1>11 DEF Belongs
<1>13. new => was = None
  BY <1>3
<1> HIDE DEF new
<1>14. CASE k = "all"
  BY <1>1, <1>5, <1>6, <1>8, <1>9, <1>10, <1>12, <1>14 DEF new
<1>15. CASE k = "free"
  BY <1>1, <1>5, <1>6, <1>8, <1>9, <1>10, <1>12, <1>13, <1>15 DEF new
<1>16. CASE k # "all" /\ k # "free"
  BY <1>7, <1>8, <1>9, <1>10, <1>12, <1>16 DEF new
<1> QED BY <1>14, <1>15, <1>16

\* The ids of the bitmaps, once changed, are those of the table written.
LEMMA IdsFollow ==
    ASSUME NEW ver, TableOk(ver), NEW i \in Row, NEW obj \in Objs, Fits(ver, i, obj),
           NEW cs, cs = Changes(ver, i, obj),
           NEW after, after = [ver.table EXCEPT ![i] = obj],
           NEW next, next = IF IsNext(ver, i) THEN ver.next + 1 ELSE ver.next
    PROVE  /\ cs \in Listed(i)
           /\ \A k : ~ (Does(cs, Len(cs), "set", k) /\ Does(cs, Len(cs), "clear", k))
           /\ IdsAfter(IdsIn(ver.table, ver.next), cs, Len(cs), i) = IdsIn(after, next)
<1> DEFINE was == ver.table[i]
           new == IsNext(ver, i)
           S(k) == Does(cs, Len(cs), "set", k)
           C(k) == Does(cs, Len(cs), "clear", k)
           has == IdsIn(ver.table, ver.next)
           now == IdsIn(after, next)
<1>1. was \in Objs
  BY DEF TableOk
<1>2. /\ cs \in Listed(i)
      /\ \A k : S(k) <=> k \in Gain(was, obj)
      /\ \A k : C(k) <=> k \in Lose(was, obj, new)
  BY <1>1, ChangesAre
<1>3. \A k \in K :
        /\ \A j \in Row \ {i} : Belongs(after, next, k, j) <=> Belongs(ver.table, ver.next, k, j)
        /\ k \in Gain(was, obj) => Belongs(after, next, k, i)
        /\ k \in Lose(was, obj, new) => ~ Belongs(after, next, k, i)
        /\ k \notin Gain(was, obj) /\ k \notin Lose(was, obj, new) =>
              (Belongs(after, next, k, i) <=> Belongs(ver.table, ver.next, k, i))
        /\ ~ (k \in Gain(was, obj) /\ k \in Lose(was, obj, new))
  BY BelongsAfter
<1>4. \A k : k \in Gain(was, obj) => k \in K
  BY <1>1, ValuesAre, SizesAre DEF Gain
<1> HIDE DEF S, C, was, new
<1>5. \A k : ~ (S(k) /\ C(k))
  BY <1>2, <1>3, <1>4
<1>6. ASSUME NEW k \in K
      PROVE  (IF S(k) THEN has[k] \cup {i} ELSE IF C(k) THEN has[k] \ {i} ELSE has[k]) = now[k]
  <2>1. /\ has[k] = {j \in Row : Belongs(ver.table, ver.next, k, j)}
        /\ now[k] = {j \in Row : Belongs(after, next, k, j)}
    BY DEF IdsIn
  <2> HIDE DEF has, now
  <2>2. \A j \in Row \ {i} : j \in has[k] <=> j \in now[k]
    BY <1>3, <2>1
  <2>3. has[k] \subseteq Row /\ now[k] \subseteq Row
    BY <2>1
  <2>4. CASE S(k)
    <3>1. i \in now[k]
      BY <1>2, <1>3, <2>1, <2>4
    <3> QED BY <2>2, <2>3, <2>4, <3>1
  <2>5. CASE ~ S(k) /\ C(k)
    <3>1. i \notin now[k]
      BY <1>2, <1>3, <2>1, <2>5
    <3> QED BY <2>2, <2>3, <2>5, <3>1
  <2>6. CASE ~ S(k) /\ ~ C(k)
    <3>1. i \in now[k] <=> i \in has[k]
      BY <1>2, <1>3, <2>1, <2>6
    <3> QED BY <2>2, <2>3, <2>6, <3>1
  <2> QED BY <2>4, <2>5, <2>6
<1>7. now = [k \in K |-> now[k]]
  BY DEF IdsIn
<1>8. IdsAfter(has, cs, Len(cs), i) = now
  <2> HIDE DEF has, now
  <2> QED BY <1>6, <1>7 DEF IdsAfter, S, C
<1> QED BY <1>2, <1>5, <1>8 DEF S, C

\* What a writer of epoch e has made of a version, in one of its heaps.
Grown(m, ns, o, now, e) ==
    VP!Wrote(m, o, e, ns) /\ now \subseteq ns \cup (DOMAIN o \ DOMAIN m)

\* The table and the next id of now, after the write of obj to the row i of ver.
Follows(ver, i, obj, now) ==
    /\ now.table = [ver.table EXCEPT ![i] = obj]
    /\ now.next = IF IsNext(ver, i) THEN ver.next + 1 ELSE ver.next

LEMMA AppliedOk ==
    ASSUME NEW m, BP!Good(m), NEW vm, VGood(vm), NEW ver, VerOk(m, vm, ver),
           NEW e, e.bm \in Nat, e.vec \in Nat,
           NEW i \in Row, NEW obj \in Objs, Fits(ver, i, obj),
           NEW r, r = Applied(m, vm, e, ver, i, obj)
    PROVE  /\ BP!Good(r.heap) /\ VGood(r.vheap)
           /\ VerOk(r.heap, r.vheap, r.ver)
           /\ Grown(m, All(m, ver.bits), r.heap, All(r.heap, r.ver.bits), e.bm)
           /\ Grown(vm, VNodes(vm, ver.rows), r.vheap, VNodes(r.vheap, r.ver.rows), e.vec)
           /\ Follows(ver, i, obj, r.ver)
<1> DEFINE cs == Changes(ver, i, obj)
           bm == Changed(m, e.bm, ver.bits, cs)
           vec == V!Set(vm, e.vec, ver.rows, i, obj)
           after == [ver.table EXCEPT ![i] = obj]
           next == IF IsNext(ver, i) THEN ver.next + 1 ELSE ver.next
           has == IdsIn(ver.table, ver.next)
           x == r.ver
<1>1. /\ r.heap = bm.heap /\ r.vheap = vec.heap
      /\ x = [bits |-> bm.bits, rows |-> vec.vec, next |-> next, table |-> after]
  BY DEF Applied
<1>2. TableOk(ver) /\ BitsOk(m, ver.bits, has) /\ Lists(vm, ver.rows, ver.table)
  BY DEF VerOk
<1>3. /\ cs \in Listed(i)
      /\ \A k : ~ (Does(cs, Len(cs), "set", k) /\ Does(cs, Len(cs), "clear", k))
      /\ IdsAfter(has, cs, Len(cs), i) = IdsIn(after, next)
  <2> HIDE DEF cs, after, next
  <2> QED BY <1>2, IdsFollow DEF cs, after, next
<1>4. Moved(m, ver.bits, e.bm, bm.heap, bm.bits, IdsIn(after, next))
  <2>1. has = [k \in K |-> has[k]] /\ i \in Nat
    BY SizesAre DEF IdsIn
  <2>2. bm = Changed(m, e.bm, ver.bits, cs)
    OBVIOUS
  <2> HIDE DEF cs, bm, has, after, next
  <2>3. Moved(m, ver.bits, e.bm, bm.heap, bm.bits, IdsAfter(has, cs, Len(cs), i))
    BY <1>2, <1>3, <2>1, <2>2, ChangedOk
  <2> QED BY <1>3, <2>3
<1>5. /\ VGood(vec.heap) /\ Lists(vec.heap, vec.vec, after)
      /\ VP!Wrote(vm, vec.heap, e.vec, VNodes(vm, ver.rows))
      /\ VNodes(vec.heap, vec.vec) \subseteq
            VNodes(vm, ver.rows) \cup (DOMAIN vec.heap \ DOMAIN vm)
  BY <1>2, ListsAfter DEF TableOk
<1>6. /\ after \in [Row -> Objs] /\ next \in 0..(MaxRow + 1)
      /\ \A j \in Row : after[j] # None => j < next
  <2>1. /\ ver.table \in [Row -> Objs] /\ ver.next \in 0..(MaxRow + 1)
        /\ \A j \in Row : ver.table[j] # None => j < ver.next
    BY <1>2 DEF TableOk
  <2>2. IsNext(ver, i) => i = ver.next
    BY DEF IsNext, Fits
  <2>3. Row = 0..MaxRow /\ MaxRow \in Nat
    BY SizesAre DEF Row
  <2>4. next \in 0..(MaxRow + 1) /\ ver.next <= next /\ (ver.table[i] = None => i < next)
    <3>1. CASE IsNext(ver, i)
      BY <2>1, <2>2, <2>3, <3>1
    <3>2. CASE ~ IsNext(ver, i)
      BY <2>1, <2>3, <3>2 DEF IsNext, Fits
    <3> QED BY <3>1, <3>2
  <2> HIDE DEF next
  <2>5. \A j \in Row : after[j] = IF j = i THEN obj ELSE ver.table[j]
    BY <2>1
  <2>6. after \in [Row -> Objs]
    BY <2>1
  <2> HIDE DEF after
  <2>7. ASSUME NEW j \in Row, after[j] # None PROVE j < next
    <3>1. ver.table[j] # None => j < ver.next
      BY <2>1
    <3>2. j \in Nat /\ ver.next \in Nat /\ next \in Nat
      BY <2>1, <2>3, <2>4
    <3>3. ver.table[j] = None => j = i
      BY <2>5, <2>7
    <3> QED BY <2>4, <3>1, <3>2, <3>3
  <2> QED BY <2>4, <2>6, <2>7
<1> HIDE DEF bm, vec, after, next
<1>7. /\ x.bits = bm.bits /\ x.rows = vec.vec /\ x.next = next /\ x.table = after
      /\ "bits" \in DOMAIN x
  BY <1>1
<1> HIDE DEF x
<1>8. /\ BP!Good(bm.heap) /\ BitsOk(bm.heap, bm.bits, IdsIn(after, next))
      /\ Grown(m, All(m, ver.bits), bm.heap, All(bm.heap, bm.bits), e.bm)
  BY <1>4 DEF Moved, Grown
<1>9. VerOk(bm.heap, vec.heap, x)
  <2>1. TableOk(x)
    BY <1>6, <1>7 DEF TableOk
  <2> QED BY <1>5, <1>7, <1>8, <2>1 DEF VerOk
<1>10. Grown(vm, VNodes(vm, ver.rows), vec.heap, VNodes(vec.heap, vec.vec), e.vec)
  BY <1>5 DEF Grown
<1>11. x.table = after /\ x.next = next
  BY <1>7
<1>12. r.ver = x
  BY DEF x
<1> HIDE DEF Grown
<1>13. /\ BP!Good(r.heap) /\ VGood(r.vheap) /\ VerOk(r.heap, r.vheap, x)
       /\ Grown(m, All(m, ver.bits), r.heap, All(r.heap, x.bits), e.bm)
       /\ Grown(vm, VNodes(vm, ver.rows), r.vheap, VNodes(r.vheap, x.rows), e.vec)
  BY <1>1, <1>5, <1>7, <1>8, <1>9, <1>10
<1> QED BY <1>11, <1>12, <1>13 DEF after, next, Follows

----------------------------------------------------------------------------
(* Versions and row sets in heaps that change.                             *)

\* A row set has the ids and the objects it was made with.
SetOk(m, vm, s) ==
    /\ "bits" \in DOMAIN s
    /\ s.ids \subseteq Row /\ s.table \in [Row -> Objs]
    /\ Holds(m, s.bits, s.ids)
    /\ Lists(vm, s.rows, s.table)

\* The nodes of a version, or of a row set, exist, and so do their children.
LEMMA VerNodes ==
    ASSUME NEW m, BP!Good(m), NEW vm, VGood(vm), NEW v, VerOk(m, vm, v)
    PROVE  /\ \A k \in K : v.bits[k] \in DOMAIN m \cup {B!Nil}
           /\ v.rows.root \in DOMAIN vm \cup {V!Nil}
           /\ All(m, v.bits) \subseteq DOMAIN m /\ VNodes(vm, v.rows) \subseteq DOMAIN vm
           /\ \A x \in All(m, v.bits) : \A s \in DOMAIN m[x].kids :
                 m[x].kids[s] \in All(m, v.bits)
           /\ \A x \in VNodes(vm, v.rows) : \A s \in DOMAIN vm[x].kids :
                 vm[x].kids[s] \in VNodes(vm, v.rows)
<1>1. V!IsVec(vm, v.rows)
  BY DEF VerOk, Lists
<1>2. \A k \in K : BP!IsBitmap(m, v.bits[k])
  BY DEF VerOk, BitsOk, Holds
<1>3. \A k \in K : /\ v.bits[k] \in DOMAIN m \cup {B!Nil}
                   /\ B!Nodes(m, v.bits[k]) \subseteq DOMAIN m
                   /\ \A x \in B!Nodes(m, v.bits[k]) : \A s \in DOMAIN m[x].kids :
                         m[x].kids[s] \in B!Nodes(m, v.bits[k])
  BY <1>2, BitNodesAre
<1>4. /\ All(m, v.bits) \subseteq DOMAIN m
      /\ \A x \in All(m, v.bits) : \A s \in DOMAIN m[x].kids : m[x].kids[s] \in All(m, v.bits)
  BY <1>3 DEF All
<1> QED BY <1>1, <1>3, <1>4, VecNodesAre

LEMMA SetNodes ==
    ASSUME NEW m, BP!Good(m), NEW vm, VGood(vm), NEW s, SetOk(m, vm, s)
    PROVE  /\ s.bits \in DOMAIN m \cup {B!Nil} /\ s.rows.root \in DOMAIN vm \cup {V!Nil}
           /\ B!Nodes(m, s.bits) \subseteq DOMAIN m /\ VNodes(vm, s.rows) \subseteq DOMAIN vm
           /\ \A x \in B!Nodes(m, s.bits) : \A k \in DOMAIN m[x].kids :
                 m[x].kids[k] \in B!Nodes(m, s.bits)
           /\ \A x \in VNodes(vm, s.rows) : \A k \in DOMAIN vm[x].kids :
                 vm[x].kids[k] \in VNodes(vm, s.rows)
<1>1. V!IsVec(vm, s.rows) /\ BP!IsBitmap(m, s.bits)
  BY DEF SetOk, Lists, Holds
<1> QED BY <1>1, VecNodesAre, BitNodesAre

\* What a version, or a row set, refers to is the same in the heaps o and vo.
VerKept(m, vm, o, vo, v) == Kept(m, o, All(m, v.bits)) /\ Kept(vm, vo, VNodes(vm, v.rows))
SetKept(m, vm, o, vo, s) == Kept(m, o, B!Nodes(m, s.bits)) /\ Kept(vm, vo, VNodes(vm, s.rows))

LEMMA VerStays ==
    ASSUME NEW m, BP!Good(m), NEW vm, VGood(vm), NEW v, VerOk(m, vm, v),
           NEW o, BP!Good(o), NEW vo, VGood(vo), VerKept(m, vm, o, vo, v)
    PROVE  /\ VerOk(o, vo, v)
           /\ All(o, v.bits) = All(m, v.bits) /\ VNodes(vo, v.rows) = VNodes(vm, v.rows)
<1> DEFINE has == IdsIn(v.table, v.next)
<1>1. BitsOk(m, v.bits, has) /\ Lists(vm, v.rows, v.table) /\ TableOk(v) /\ "bits" \in DOMAIN v
  BY DEF VerOk
<1> HIDE DEF has
<1>2. ASSUME NEW k \in K
      PROVE  Holds(o, v.bits[k], has[k]) /\ B!Nodes(o, v.bits[k]) = B!Nodes(m, v.bits[k])
  <2>1. Kept(m, o, B!Nodes(m, v.bits[k]))
    BY DEF Kept, All, VerKept
  <2>2. Holds(m, v.bits[k], has[k])
    BY <1>1 DEF BitsOk
  <2> QED BY <2>1, <2>2, BitmapStays
<1>3. BitsOk(o, v.bits, has)
  BY <1>1, <1>2 DEF BitsOk
<1>4. All(o, v.bits) = All(m, v.bits)
  BY <1>2 DEF All
<1>5. Lists(vo, v.rows, v.table) /\ VNodes(vo, v.rows) = VNodes(vm, v.rows)
  BY <1>1, ListsStays DEF VerKept
<1> QED BY <1>1, <1>3, <1>4, <1>5 DEF VerOk, has

LEMMA SetStays ==
    ASSUME NEW m, BP!Good(m), NEW vm, VGood(vm), NEW s, SetOk(m, vm, s),
           NEW o, BP!Good(o), NEW vo, VGood(vo), SetKept(m, vm, o, vo, s)
    PROVE  /\ SetOk(o, vo, s)
           /\ B!Nodes(o, s.bits) = B!Nodes(m, s.bits) /\ VNodes(vo, s.rows) = VNodes(vm, s.rows)
<1>1. Holds(o, s.bits, s.ids) /\ B!Nodes(o, s.bits) = B!Nodes(m, s.bits)
  BY BitmapStays DEF SetKept, SetOk
<1>2. Lists(vo, s.rows, s.table) /\ VNodes(vo, s.rows) = VNodes(vm, s.rows)
  BY ListsStays DEF SetKept, SetOk
<1> QED BY <1>1, <1>2 DEF SetOk

\* The versions and the row sets there are, in their heaps.
World(m, vm, vers, rs) ==
    /\ BP!Good(m) /\ VGood(vm)
    /\ \A v \in vers : VerOk(m, vm, v)
    /\ \A s \in rs : SetOk(m, vm, s)

\* They refer to the same in the heaps o and vo.
Alike(m, vm, o, vo, vers, rs) ==
    /\ \A v \in vers : /\ All(o, v.bits) = All(m, v.bits)
                       /\ VNodes(vo, v.rows) = VNodes(vm, v.rows)
                       /\ VerKept(m, vm, o, vo, v)
    /\ \A s \in rs : /\ B!Nodes(o, s.bits) = B!Nodes(m, s.bits)
                     /\ VNodes(vo, s.rows) = VNodes(vm, s.rows)
                     /\ SetKept(m, vm, o, vo, s)

LEMMA WorldStays ==
    ASSUME NEW m, NEW vm, NEW vers, NEW rs, World(m, vm, vers, rs),
           NEW o, BP!Good(o), NEW vo, VGood(vo),
           \A v \in vers : VerKept(m, vm, o, vo, v),
           \A s \in rs : SetKept(m, vm, o, vo, s)
    PROVE  World(o, vo, vers, rs) /\ Alike(m, vm, o, vo, vers, rs)
<1>1. \A v \in vers : /\ VerOk(o, vo, v)
                      /\ All(o, v.bits) = All(m, v.bits)
                      /\ VNodes(vo, v.rows) = VNodes(vm, v.rows)
  BY VerStays DEF World
<1>2. \A s \in rs : /\ SetOk(o, vo, s)
                    /\ B!Nodes(o, s.bits) = B!Nodes(m, s.bits)
                    /\ VNodes(vo, s.rows) = VNodes(vm, s.rows)
  BY SetStays DEF World
<1> QED BY <1>1, <1>2 DEF World, Alike

\* Nodes nobody refers to go.
LEMMA SweepOk ==
    ASSUME NEW m, NEW vm, NEW vers, NEW rs, World(m, vm, vers, rs),
           NEW o, o = Swept(m, vers, rs), NEW vo, vo = SweptVec(vm, vers, rs)
    PROVE  /\ World(o, vo, vers, rs) /\ Alike(m, vm, o, vo, vers, rs)
           /\ DOMAIN o \subseteq DOMAIN m /\ \A x \in DOMAIN o : o[x] = m[x]
           /\ DOMAIN vo \subseteq DOMAIN vm /\ \A x \in DOMAIN vo : vo[x] = vm[x]
<1> DEFINE tops == {v.bits[k] : v \in vers, k \in K} \cup {s.bits : s \in rs}
           live == UNION {B!Nodes(m, b) : b \in tops}
           vtops == {v.rows : v \in vers} \cup {s.rows : s \in rs}
           vlive == UNION {V!Nodes(vm, v.root, v.height) : v \in vtops}
<1>1. o = [x \in live |-> m[x]] /\ vo = [x \in vlive |-> vm[x]]
  BY DEF Swept, SweptVec
<1>2. \A x : x \in live <=> \/ \E v \in vers : x \in All(m, v.bits)
                            \/ \E s \in rs : x \in B!Nodes(m, s.bits)
  BY DEF All
<1>3. \A x : x \in vlive <=> \/ \E v \in vers : x \in VNodes(vm, v.rows)
                             \/ \E s \in rs : x \in VNodes(vm, s.rows)
  BY DEF VNodes
<1> HIDE DEF live, vlive
<1>4. \A v \in vers :
         /\ All(m, v.bits) \subseteq DOMAIN m /\ VNodes(vm, v.rows) \subseteq DOMAIN vm
         /\ \A x \in All(m, v.bits) : \A s \in DOMAIN m[x].kids : m[x].kids[s] \in All(m, v.bits)
         /\ \A x \in VNodes(vm, v.rows) : \A s \in DOMAIN vm[x].kids :
               vm[x].kids[s] \in VNodes(vm, v.rows)
  BY VerNodes DEF World
<1>5. \A s \in rs :
         /\ B!Nodes(m, s.bits) \subseteq DOMAIN m /\ VNodes(vm, s.rows) \subseteq DOMAIN vm
         /\ \A x \in B!Nodes(m, s.bits) : \A k \in DOMAIN m[x].kids :
               m[x].kids[k] \in B!Nodes(m, s.bits)
         /\ \A x \in VNodes(vm, s.rows) : \A k \in DOMAIN vm[x].kids :
               vm[x].kids[k] \in VNodes(vm, s.rows)
  BY SetNodes DEF World
<1>6. live \subseteq DOMAIN m /\ vlive \subseteq DOMAIN vm
  BY <1>2, <1>3, <1>4, <1>5
<1>7. BP!Good(o)
  <2>1. \A x \in live : \A s \in DOMAIN m[x].kids : m[x].kids[s] \in live
    <3>1. ASSUME NEW x \in live, NEW s \in DOMAIN m[x].kids PROVE m[x].kids[s] \in live
      <4>1. CASE \E v \in vers : x \in All(m, v.bits)
        BY <1>2, <1>4, <4>1
      <4>2. CASE \E t \in rs : x \in B!Nodes(m, t.bits)
        BY <1>2, <1>5, <4>2
      <4> QED BY <1>2, <4>1, <4>2
    <3> QED BY <3>1
  <2> QED BY <1>1, <1>6, <2>1, BP!SweptGood DEF World
<1>8. VGood(vo)
  <2>1. \A x \in vlive : \A s \in DOMAIN vm[x].kids : vm[x].kids[s] \in vlive
    <3>1. ASSUME NEW x \in vlive, NEW s \in DOMAIN vm[x].kids PROVE vm[x].kids[s] \in vlive
      <4>1. CASE \E v \in vers : x \in VNodes(vm, v.rows)
        BY <1>3, <1>4, <4>1
      <4>2. CASE \E t \in rs : x \in VNodes(vm, t.rows)
        BY <1>3, <1>5, <4>2
      <4> QED BY <1>3, <4>1, <4>2
    <3> QED BY <3>1
  <2> QED BY <1>1, <1>6, <2>1, VP!SweptOk DEF World, VGood
<1>9. \A v \in vers : VerKept(m, vm, o, vo, v)
  BY <1>1, <1>2, <1>3 DEF VerKept, Kept
<1>10. \A s \in rs : SetKept(m, vm, o, vo, s)
  BY <1>1, <1>2, <1>3 DEF SetKept, Kept
<1>11. World(o, vo, vers, rs) /\ Alike(m, vm, o, vo, vers, rs)
  BY <1>7, <1>8, <1>9, <1>10, WorldStays
<1> QED BY <1>1, <1>6, <1>11

----------------------------------------------------------------------------
(* What module Epochs says of bitmaps and of row vectors.                  *)

\* The nodes of a version, of bitmaps and of its row vector.
NodesOf(m, x)   == IF x = Idle THEN {} ELSE All(m, x.bits)
VNodesOf(vm, x) == IF x = Idle THEN {} ELSE VNodes(vm, x.rows)

\* What readers keep: the nodes of their sets.
KeptOf(m, rs)   == {[n \in B!Nodes(m, s.bits) |-> m[n]] : s \in rs}
VKeptOf(vm, rs) == {[n \in VNodesOf(vm, s) |-> vm[n]] : s \in rs}

BWriter == [d \in DB |-> writer[d].bm]
BRoot   == [d \in DB |-> NodesOf(heap, root[d])]
BCur    == [d \in DB |-> NodesOf(heap, cur[d])]
BKept   == KeptOf(heap, sets)
BE == INSTANCE EpochsProofs WITH
    node <- heap, drawn <- drawn.bm, open <- Written,
    writer <- BWriter, root <- BRoot, cur <- BCur, kept <- BKept

VWriter == [d \in DB |-> writer[d].vec]
VRoot   == [d \in DB |-> VNodesOf(vheap, root[d])]
VCur    == [d \in DB |-> VNodesOf(vheap, cur[d])]
VKept   == VKeptOf(vheap, sets)
VE == INSTANCE EpochsProofs WITH
    node <- vheap, drawn <- drawn.vec, open <- Written,
    writer <- VWriter, root <- VRoot, cur <- VCur, kept <- VKept

LEMMA BitsInit == BE!Init => Bits!Init
BY DEF BE!Init, Bits!Init, BWriter, BRoot, BCur, BKept, NodesOf, KeptOf, BitNodes, All

LEMMA BitsNext == [BE!Next]_BE!evars => [Bits!Next]_Bits!evars
<1> USE DEF BE!Old, Bits!Old, BE!New, Bits!New, BE!Unchanged, Bits!Unchanged, BE!Made, Bits!Made,
            BWriter, BRoot, BCur, BKept, NodesOf, KeptOf, BitNodes, All
<1>1. \A d \in DB : BE!Begin(d) => Bits!Begin(d)
  BY DEF BE!Begin, Bits!Begin
<1>2. \A d \in DB : BE!Write(d) => Bits!Write(d)
  BY DEF BE!Write, Bits!Write, BE!EpochOf, Bits!EpochOf, BE!Changed, Bits!Changed, BE!Becomes,
         Bits!Becomes
<1>3. \A d \in DB : BE!Empties(d) => Bits!Empties(d)
  BY DEF BE!Empties, Bits!Empties, BE!Becomes, Bits!Becomes
<1>4. \A d \in DB : BE!Commit(d) => Bits!Commit(d)
  BY DEF BE!Commit, Bits!Commit, BE!Release, Bits!Release
<1>5. \A d \in DB : BE!Abort(d) => Bits!Abort(d)
  BY DEF BE!Abort, Bits!Abort, BE!Release, Bits!Release
<1>6. \A d \in DB : BE!Read(d) => Bits!Read(d)
  BY DEF BE!Read, Bits!Read, BE!Keeps, Bits!Keeps
<1>7. \A d \in DB : BE!Take(d) => Bits!Take(d)
  BY DEF BE!Take, Bits!Take, BE!Keeps, Bits!Keeps
<1>8. \A d, new \in DB : BE!Clone(d, new) => Bits!Clone(d, new)
  BY DEF BE!Clone, Bits!Clone
<1>9. \A s, t : BE!Combine(s, t) => Bits!Combine(s, t)
  BY DEF BE!Combine, Bits!Combine, BE!Keeps, Bits!Keeps
<1>10. BE!Collected => Bits!Collected
  BY DEF BE!Collected, Bits!Collected
<1>11. BE!evars' = BE!evars => Bits!evars' = Bits!evars
  BY DEF BE!evars, Bits!evars
<1>12. BKept = {[n \in B!Nodes(heap, s.bits) |-> heap[n]] : s \in sets}
  OBVIOUS
<1> HIDE DEF BE!Old, Bits!Old, BE!New, Bits!New, BE!Unchanged, Bits!Unchanged, BE!Made, Bits!Made,
            BWriter, BRoot, BCur, BKept, NodesOf, KeptOf, BitNodes, All
<1>13. BE!Next => Bits!Next
  BY <1>1, <1>2, <1>3, <1>4, <1>5, <1>6, <1>7, <1>8, <1>9, <1>10, <1>12 DEF BE!Next, Bits!Next
<1> QED BY <1>11, <1>13

LEMMA VecsInit == VE!Init => Vecs!Init
BY DEF VE!Init, Vecs!Init, VWriter, VRoot, VCur, VKept, VNodesOf, VKeptOf, VecNodes, VNodes

LEMMA VecsNext == [VE!Next]_VE!evars => [Vecs!Next]_Vecs!evars
<1> USE DEF VE!Old, Vecs!Old, VE!New, Vecs!New, VE!Unchanged, Vecs!Unchanged, VE!Made, Vecs!Made,
            VWriter, VRoot, VCur, VKept, VNodesOf, VKeptOf, VecNodes, VNodes
<1>1. \A d \in DB : VE!Begin(d) => Vecs!Begin(d)
  BY DEF VE!Begin, Vecs!Begin
<1>2. \A d \in DB : VE!Write(d) => Vecs!Write(d)
  BY DEF VE!Write, Vecs!Write, VE!EpochOf, Vecs!EpochOf, VE!Changed, Vecs!Changed, VE!Becomes,
         Vecs!Becomes
<1>3. \A d \in DB : VE!Empties(d) => Vecs!Empties(d)
  BY DEF VE!Empties, Vecs!Empties, VE!Becomes, Vecs!Becomes
<1>4. \A d \in DB : VE!Commit(d) => Vecs!Commit(d)
  BY DEF VE!Commit, Vecs!Commit, VE!Release, Vecs!Release
<1>5. \A d \in DB : VE!Abort(d) => Vecs!Abort(d)
  BY DEF VE!Abort, Vecs!Abort, VE!Release, Vecs!Release
<1>6. \A d \in DB : VE!Read(d) => Vecs!Read(d)
  BY DEF VE!Read, Vecs!Read, VE!Keeps, Vecs!Keeps
<1>7. \A d \in DB : VE!Take(d) => Vecs!Take(d)
  BY DEF VE!Take, Vecs!Take, VE!Keeps, Vecs!Keeps
<1>8. \A d, new \in DB : VE!Clone(d, new) => Vecs!Clone(d, new)
  BY DEF VE!Clone, Vecs!Clone
<1>9. \A s, t : VE!Combine(s, t) => Vecs!Combine(s, t)
  BY DEF VE!Combine, Vecs!Combine, VE!Keeps, Vecs!Keeps
<1>10. VE!Collected => Vecs!Collected
  BY DEF VE!Collected, Vecs!Collected
<1>11. VE!evars' = VE!evars => Vecs!evars' = Vecs!evars
  BY DEF VE!evars, Vecs!evars
<1>12. VKept = {[n \in VecNodes(s) |-> vheap[n]] : s \in sets}
  OBVIOUS
<1> HIDE DEF VE!Old, Vecs!Old, VE!New, Vecs!New, VE!Unchanged, Vecs!Unchanged, VE!Made, Vecs!Made,
            VWriter, VRoot, VCur, VKept, VNodesOf, VKeptOf, VecNodes, VNodes
<1>13. VE!Next => Vecs!Next
  BY <1>1, <1>2, <1>3, <1>4, <1>5, <1>6, <1>7, <1>8, <1>9, <1>10, <1>12 DEF VE!Next, Vecs!Next
<1> QED BY <1>11, <1>13

----------------------------------------------------------------------------
(* The invariant.                                                          *)

\* What versions and row sets say is so, in their heaps.
StateInv ==
    /\ root = [d \in DB |-> root[d]] /\ cur = [d \in DB |-> cur[d]]
    /\ writer = [d \in DB |-> [bm |-> writer[d].bm, vec |-> writer[d].vec]]
    /\ \A d \in DB : cur[d] = Idle => writer[d] = Frozen
    /\ writes \in 0..MaxWrites
    /\ World(heap, vheap, Versions, sets)

IInv == StateInv /\ BE!IInv /\ VE!IInv

LEMMA NotIdle == ASSUME NEW x, "bits" \in DOMAIN x PROVE x # Idle
BY DEF Idle

LEMMA RefersTo ==
    ASSUME NEW m, NEW vm, NEW vers, NEW rs, World(m, vm, vers, rs)
    PROVE  /\ \A v \in vers : /\ v # Idle
                              /\ NodesOf(m, v) = All(m, v.bits)
                              /\ VNodesOf(vm, v) = VNodes(vm, v.rows)
                              /\ NodesOf(m, v) \subseteq DOMAIN m
                              /\ VNodesOf(vm, v) \subseteq DOMAIN vm
           /\ \A s \in rs : /\ VNodesOf(vm, s) = VNodes(vm, s.rows)
                            /\ B!Nodes(m, s.bits) \subseteq DOMAIN m
                            /\ VNodesOf(vm, s) \subseteq DOMAIN vm
           /\ \A x : x = Idle => NodesOf(m, x) = {} /\ VNodesOf(vm, x) = {}
<1>1. \A v \in vers : /\ v # Idle
                      /\ All(m, v.bits) \subseteq DOMAIN m /\ VNodes(vm, v.rows) \subseteq DOMAIN vm
  BY VerNodes, NotIdle DEF World, VerOk
<1>2. \A s \in rs : /\ s # Idle
                    /\ B!Nodes(m, s.bits) \subseteq DOMAIN m
                    /\ VNodes(vm, s.rows) \subseteq DOMAIN vm
  BY SetNodes, NotIdle DEF World, SetOk
<1> QED BY <1>1, <1>2 DEF NodesOf, VNodesOf

\* What is alike refers to the same nodes, and is kept alike.
LEMMA AlikeIs ==
    ASSUME NEW m, NEW vm, NEW vers, NEW rs, World(m, vm, vers, rs),
           NEW o, NEW vo, World(o, vo, vers, rs), Alike(m, vm, o, vo, vers, rs)
    PROVE  /\ \A v \in vers : /\ NodesOf(o, v) = NodesOf(m, v)
                              /\ VNodesOf(vo, v) = VNodesOf(vm, v)
           /\ KeptOf(o, rs) = KeptOf(m, rs)
           /\ VKeptOf(vo, rs) = VKeptOf(vm, rs)
<1>1. \A v \in vers : /\ NodesOf(o, v) = NodesOf(m, v)
                      /\ VNodesOf(vo, v) = VNodesOf(vm, v)
  BY RefersTo DEF Alike
<1>2. \A s \in rs : [n \in B!Nodes(o, s.bits) |-> o[n]] = [n \in B!Nodes(m, s.bits) |-> m[n]]
  BY DEF Alike, SetKept, Kept
<1>3. \A s \in rs : VNodesOf(vo, s) = VNodes(vm, s.rows) /\ VNodesOf(vm, s) = VNodes(vm, s.rows)
  BY RefersTo DEF Alike
<1>4. \A s \in rs : [n \in VNodesOf(vo, s) |-> vo[n]] = [n \in VNodesOf(vm, s) |-> vm[n]]
  BY <1>3 DEF Alike, SetKept, Kept
<1>5. KeptOf(o, rs) = KeptOf(m, rs)
  BY <1>2 DEF KeptOf
<1>6. VKeptOf(vo, rs) = VKeptOf(vm, rs)
  BY <1>4 DEF VKeptOf
<1> QED BY <1>1, <1>5, <1>6

LEMMA SameAlike ==
    ASSUME NEW m, NEW vm, NEW vers, NEW rs, World(m, vm, vers, rs)
    PROVE  Alike(m, vm, m, vm, vers, rs)
<1>1. \A v \in vers : All(m, v.bits) \subseteq DOMAIN m /\ VNodes(vm, v.rows) \subseteq DOMAIN vm
  BY RefersTo
<1>2. \A s \in rs : B!Nodes(m, s.bits) \subseteq DOMAIN m /\ VNodes(vm, s.rows) \subseteq DOMAIN vm
  BY RefersTo
<1> QED BY <1>1, <1>2 DEF Alike, VerKept, SetKept, Kept

\* A heap that is not written, and perhaps swept, of which vers and rs are left.
Left(m, vm, vers, rs, o, vo) ==
    \/ o = m /\ vo = vm
    \/ o = Swept(m, vers, rs) /\ vo = SweptVec(vm, vers, rs)

LEMMA LeftOk ==
    ASSUME NEW m, NEW vm, NEW vers, NEW rs, World(m, vm, vers, rs),
           NEW o, NEW vo, Left(m, vm, vers, rs, o, vo)
    PROVE  /\ World(o, vo, vers, rs)
           /\ \A v \in vers : /\ NodesOf(o, v) = NodesOf(m, v)
                              /\ VNodesOf(vo, v) = VNodesOf(vm, v)
           /\ KeptOf(o, rs) = KeptOf(m, rs)
           /\ VKeptOf(vo, rs) = VKeptOf(vm, rs)
           /\ DOMAIN o \subseteq DOMAIN m /\ \A x \in DOMAIN o : o[x] = m[x]
           /\ DOMAIN vo \subseteq DOMAIN vm /\ \A x \in DOMAIN vo : vo[x] = vm[x]
<1>1. CASE o = m /\ vo = vm
  BY <1>1
<1>2. CASE o = Swept(m, vers, rs) /\ vo = SweptVec(vm, vers, rs)
  <2>1. /\ World(o, vo, vers, rs) /\ Alike(m, vm, o, vo, vers, rs)
        /\ DOMAIN o \subseteq DOMAIN m /\ \A x \in DOMAIN o : o[x] = m[x]
        /\ DOMAIN vo \subseteq DOMAIN vm /\ \A x \in DOMAIN vo : vo[x] = vm[x]
    BY <1>2, SweepOk
  <2> QED BY <2>1, AlikeIs
<1> QED BY <1>1, <1>2 DEF Left

\* What versions and readers have exists, before and after a step.
LEMMA Exists ==
    StateInv => /\ \A d \in DB : BRoot[d] \cup BCur[d] \subseteq DOMAIN heap
                /\ \A s \in BKept : DOMAIN s \subseteq DOMAIN heap
                /\ \A d \in DB : VRoot[d] \cup VCur[d] \subseteq DOMAIN vheap
                /\ \A s \in VKept : DOMAIN s \subseteq DOMAIN vheap
<1> SUFFICES ASSUME StateInv
             PROVE  /\ \A d \in DB : BRoot[d] \cup BCur[d] \subseteq DOMAIN heap
                    /\ \A s \in BKept : DOMAIN s \subseteq DOMAIN heap
                    /\ \A d \in DB : VRoot[d] \cup VCur[d] \subseteq DOMAIN vheap
                    /\ \A s \in VKept : DOMAIN s \subseteq DOMAIN vheap
  OBVIOUS
<1>1. World(heap, vheap, Versions, sets)
  BY DEF StateInv
<1>2. \A d \in DB : root[d] \in Versions /\ (cur[d] = Idle \/ cur[d] \in Versions)
  BY DEF Versions, Written
<1>3. \A d \in DB : BRoot[d] \cup BCur[d] \subseteq DOMAIN heap
  BY <1>1, <1>2, RefersTo DEF BRoot, BCur
<1>4. \A d \in DB : VRoot[d] \cup VCur[d] \subseteq DOMAIN vheap
  BY <1>1, <1>2, RefersTo DEF VRoot, VCur
<1>5. \A s \in BKept : DOMAIN s \subseteq DOMAIN heap
  BY <1>1, RefersTo DEF BKept, KeptOf
<1>6. \A s \in VKept : DOMAIN s \subseteq DOMAIN vheap
  BY <1>1, RefersTo DEF VKept, VKeptOf
<1> QED BY <1>3, <1>4, <1>5, <1>6

LEMMA AllCollected == (StateInv)' => BE!Collected /\ VE!Collected
<1>1. (StateInv)' => (/\ \A d \in DB : BRoot[d] \cup BCur[d] \subseteq DOMAIN heap
                      /\ \A s \in BKept : DOMAIN s \subseteq DOMAIN heap
                      /\ \A d \in DB : VRoot[d] \cup VCur[d] \subseteq DOMAIN vheap
                      /\ \A s \in VKept : DOMAIN s \subseteq DOMAIN vheap)'
  BY Exists, PTL
<1> QED BY <1>1 DEF BE!Collected, VE!Collected

----------------------------------------------------------------------------
(* Transactions: what they do to versions, they do to the nodes of theirs. *)

LEMMA BeginOk ==
    ASSUME StateInv, NEW d \in DB, Begin(d)
    PROVE  StateInv' /\ BE!Begin(d) /\ VE!Begin(d)
<1>1. /\ cur[d] = Idle /\ cur' = [cur EXCEPT ![d] = root[d]]
      /\ heap' = heap /\ vheap' = vheap /\ drawn' = drawn /\ writer' = writer /\ root' = root
      /\ sets' = sets /\ writes' = writes
  BY DEF Begin
<1>2. /\ World(heap, vheap, Versions, sets)
      /\ cur = [e \in DB |-> cur[e]]
      /\ \A e \in DB : cur[e] = Idle => writer[e] = Frozen
  BY DEF StateInv
<1>3. root[d] \in Versions /\ root[d] # Idle
  BY <1>2, RefersTo DEF Versions
<1>4. /\ cur' = [e \in DB |-> cur'[e]]
      /\ cur'[d] = root[d] /\ \A e \in DB \ {d} : cur'[e] = cur[e]
  BY <1>1, <1>2
<1>5. Written' = Written \cup {d} /\ d \notin Written
  BY <1>1, <1>3, <1>4 DEF Written
<1>6. Versions' = Versions
  BY <1>1, <1>3, <1>4, <1>5 DEF Versions
<1>7. StateInv'
  BY <1>1, <1>2, <1>3, <1>4, <1>6 DEF StateInv
<1>8. BCur' = [BCur EXCEPT ![d] = BRoot[d]] /\ VCur' = [VCur EXCEPT ![d] = VRoot[d]]
  BY <1>1, <1>4 DEF BCur, VCur, BRoot, VRoot
<1>9. /\ BRoot' = BRoot /\ VRoot' = VRoot /\ BKept' = BKept /\ VKept' = VKept
      /\ BWriter' = BWriter /\ VWriter' = VWriter
  BY <1>1 DEF BRoot, VRoot, BKept, VKept, BWriter, VWriter
<1>10. BE!Begin(d)
  BY <1>1, <1>5, <1>8, <1>9 DEF BE!Begin, BE!Unchanged, BE!New, BE!Old
<1>11. VE!Begin(d)
  BY <1>1, <1>5, <1>8, <1>9 DEF VE!Begin, VE!Unchanged, VE!New, VE!Old
<1> QED BY <1>7, <1>10, <1>11

\* A step after which versions are among left, and readers keep what they kept.
LEMMA LeftStep ==
    ASSUME StateInv, NEW left, left \subseteq Versions, Versions' \subseteq left,
           Left(heap, vheap, left, sets, heap', vheap'), sets' = sets
    PROVE  /\ World(heap', vheap', Versions', sets')
           /\ \A x : x = Idle \/ x \in left =>
                 /\ NodesOf(heap', x) = NodesOf(heap, x)
                 /\ VNodesOf(vheap', x) = VNodesOf(vheap, x)
           /\ BKept' = BKept /\ VKept' = VKept
           /\ BE!Unchanged /\ BE!New = {} /\ VE!Unchanged /\ VE!New = {}
<1>1. World(heap, vheap, left, sets)
  BY DEF StateInv, World
<1>2. /\ World(heap', vheap', left, sets)
      /\ \A v \in left : /\ NodesOf(heap', v) = NodesOf(heap, v)
                         /\ VNodesOf(vheap', v) = VNodesOf(vheap, v)
      /\ KeptOf(heap', sets) = KeptOf(heap, sets)
      /\ VKeptOf(vheap', sets) = VKeptOf(vheap, sets)
      /\ DOMAIN heap' \subseteq DOMAIN heap /\ \A x \in DOMAIN heap' : heap'[x] = heap[x]
      /\ DOMAIN vheap' \subseteq DOMAIN vheap /\ \A x \in DOMAIN vheap' : vheap'[x] = vheap[x]
  BY <1>1, LeftOk
<1>3. World(heap', vheap', Versions', sets')
  BY <1>2 DEF World
<1>4. \A x : x = Idle \/ x \in left =>
         NodesOf(heap', x) = NodesOf(heap, x) /\ VNodesOf(vheap', x) = VNodesOf(vheap, x)
  BY <1>2 DEF NodesOf, VNodesOf
<1>5. BKept' = BKept /\ VKept' = VKept
  BY <1>2 DEF BKept, VKept
<1>6. BE!Unchanged /\ BE!New = {} /\ VE!Unchanged /\ VE!New = {}
  BY <1>2 DEF BE!Unchanged, BE!New, BE!Old, VE!Unchanged, VE!New, VE!Old
<1> QED BY <1>3, <1>4, <1>5, <1>6

\* Commit, or Abort: the version published is that of the transaction, or the old one.
LEMMA EndOk ==
    ASSUME StateInv, NEW d \in DB, cur[d] # Idle, NEW version \in {cur[d], root[d]},
           End(d, version)
    PROVE  /\ StateInv' /\ BE!Release(d) /\ VE!Release(d) /\ d \in Written
           /\ version = cur[d] => /\ BRoot' = [BRoot EXCEPT ![d] = BCur[d]]
                                  /\ VRoot' = [VRoot EXCEPT ![d] = VCur[d]]
           /\ version = root[d] => BRoot' = BRoot /\ VRoot' = VRoot
<1> DEFINE left == {root[e] : e \in DB \ {d}} \cup {cur[e] : e \in Written \ {d}} \cup {version}
<1>1. /\ cur' = [cur EXCEPT ![d] = Idle] /\ writer' = [writer EXCEPT ![d] = Frozen]
      /\ root' = [root EXCEPT ![d] = version]
      /\ heap' = Swept(heap, left, sets) /\ vheap' = SweptVec(vheap, left, sets)
      /\ drawn' = drawn /\ sets' = sets /\ writes' = writes
  BY DEF End, Release
<1>2. /\ root = [e \in DB |-> root[e]] /\ cur = [e \in DB |-> cur[e]]
      /\ writer = [e \in DB |-> [bm |-> writer[e].bm, vec |-> writer[e].vec]]
      /\ \A e \in DB : cur[e] = Idle => writer[e] = Frozen
  BY DEF StateInv
<1>3. /\ cur' = [e \in DB |-> cur'[e]] /\ root' = [e \in DB |-> root'[e]]
      /\ cur'[d] = Idle /\ root'[d] = version
      /\ \A e \in DB \ {d} : cur'[e] = cur[e] /\ root'[e] = root[e]
      /\ writer'[d] = Frozen /\ \A e \in DB \ {d} : writer'[e] = writer[e]
      /\ writer' = [e \in DB |-> writer'[e]]
  BY <1>1, <1>2
<1>4. Written' = Written \ {d} /\ d \in Written
  BY <1>3 DEF Written
<1>5. left \subseteq Versions
  BY <1>4 DEF Versions, Written
<1>6. Versions' \subseteq left
  <2>1. \A e \in DB : root'[e] \in left
    BY <1>3
  <2>2. \A e \in Written' : cur'[e] \in left
    BY <1>3, <1>4 DEF Written
  <2> HIDE DEF left
  <2> QED BY <2>1, <2>2 DEF Versions
<1>7. \A e \in DB \ {d} : root[e] \in left /\ (cur[e] = Idle \/ cur[e] \in left)
  BY DEF Written
<1>8. version \in left
  OBVIOUS
<1>9. Left(heap, vheap, left, sets, heap', vheap')
  BY <1>1 DEF Left
<1> HIDE DEF left
<1>10. /\ World(heap', vheap', Versions', sets')
       /\ \A x : x = Idle \/ x \in left =>
             /\ NodesOf(heap', x) = NodesOf(heap, x)
             /\ VNodesOf(vheap', x) = VNodesOf(vheap, x)
       /\ BKept' = BKept /\ VKept' = VKept
       /\ BE!Unchanged /\ BE!New = {} /\ VE!Unchanged /\ VE!New = {}
  BY <1>1, <1>5, <1>6, <1>9, LeftStep
<1>11. StateInv'
  <2>1. writer' = [e \in DB |-> [bm |-> writer'[e].bm, vec |-> writer'[e].vec]]
    <3>1. ASSUME NEW e \in DB
          PROVE  writer'[e] = [bm |-> writer'[e].bm, vec |-> writer'[e].vec]
      <4>1. CASE e = d
        BY <1>3, <4>1 DEF Frozen
      <4>2. CASE e # d
        BY <1>2, <1>3, <4>2
      <4> QED BY <4>1, <4>2
    <3> QED BY <1>3, <3>1
  <2>2. \A e \in DB : cur'[e] = Idle => writer'[e] = Frozen
    BY <1>2, <1>3
  <2> QED BY <1>1, <1>3, <1>10, <2>1, <2>2 DEF StateInv
<1>12. BCur' = [BCur EXCEPT ![d] = {}] /\ VCur' = [VCur EXCEPT ![d] = {}]
  <2>1. NodesOf(heap', cur'[d]) = {} /\ VNodesOf(vheap', cur'[d]) = {}
    BY <1>3 DEF NodesOf, VNodesOf
  <2>2. \A e \in DB \ {d} : /\ NodesOf(heap', cur'[e]) = NodesOf(heap, cur[e])
                            /\ VNodesOf(vheap', cur'[e]) = VNodesOf(vheap, cur[e])
    BY <1>3, <1>7, <1>10
  <2> QED BY <2>1, <2>2 DEF BCur, VCur
<1>13. BWriter' = [BWriter EXCEPT ![d] = 0] /\ VWriter' = [VWriter EXCEPT ![d] = 0]
  <2>1. writer'[d].bm = 0 /\ writer'[d].vec = 0
    BY <1>3 DEF Frozen
  <2>2. \A e \in DB \ {d} : writer'[e].bm = writer[e].bm /\ writer'[e].vec = writer[e].vec
    BY <1>3
  <2> QED BY <2>1, <2>2 DEF BWriter, VWriter
<1>14. BE!Release(d)
  BY <1>1, <1>4, <1>10, <1>12, <1>13 DEF BE!Release
<1>15. VE!Release(d)
  BY <1>1, <1>4, <1>10, <1>12, <1>13 DEF VE!Release
<1>16. /\ \A e \in DB \ {d} : /\ NodesOf(heap', root'[e]) = NodesOf(heap, root[e])
                              /\ VNodesOf(vheap', root'[e]) = VNodesOf(vheap, root[e])
       /\ NodesOf(heap', root'[d]) = NodesOf(heap, version)
       /\ VNodesOf(vheap', root'[d]) = VNodesOf(vheap, version)
  BY <1>3, <1>7, <1>8, <1>10
<1>17. version = cur[d] => /\ BRoot' = [BRoot EXCEPT ![d] = BCur[d]]
                           /\ VRoot' = [VRoot EXCEPT ![d] = VCur[d]]
  BY <1>16 DEF BRoot, VRoot, BCur, VCur
<1>18. version = root[d] => BRoot' = BRoot /\ VRoot' = VRoot
  BY <1>16 DEF BRoot, VRoot
<1> QED BY <1>4, <1>11, <1>14, <1>15, <1>17, <1>18

LEMMA CommitOk ==
    ASSUME StateInv, NEW d \in DB, Commit(d)
    PROVE  StateInv' /\ BE!Commit(d) /\ VE!Commit(d)
<1>1. cur[d] # Idle /\ End(d, cur[d])
  BY DEF Commit
<1> QED BY <1>1, EndOk DEF BE!Commit, VE!Commit

LEMMA AbortOk ==
    ASSUME StateInv, NEW d \in DB, Abort(d)
    PROVE  StateInv' /\ BE!Abort(d) /\ VE!Abort(d)
<1>1. cur[d] # Idle /\ End(d, root[d])
  BY DEF Abort
<1> QED BY <1>1, EndOk DEF BE!Abort, VE!Abort

LEMMA CloneOk ==
    ASSUME StateInv, NEW d \in DB, NEW new \in DB, Clone(d, new)
    PROVE  StateInv' /\ BE!Clone(d, new) /\ VE!Clone(d, new)
<1> DEFINE left == {root[e] : e \in DB \ {new}} \cup {cur[e] : e \in Written}
<1>1. /\ cur[new] = Idle /\ root[new] # root[d] /\ root' = [root EXCEPT ![new] = root[d]]
      /\ heap' = Swept(heap, left, sets) /\ vheap' = SweptVec(vheap, left, sets)
      /\ drawn' = drawn /\ writer' = writer /\ cur' = cur /\ sets' = sets /\ writes' = writes
  BY DEF Clone
<1>2. /\ root = [e \in DB |-> root[e]] /\ cur = [e \in DB |-> cur[e]]
      /\ writer = [e \in DB |-> [bm |-> writer[e].bm, vec |-> writer[e].vec]]
      /\ \A e \in DB : cur[e] = Idle => writer[e] = Frozen
  BY DEF StateInv
<1>3. /\ root' = [e \in DB |-> root'[e]] /\ root'[new] = root[d] /\ d # new
      /\ \A e \in DB \ {new} : root'[e] = root[e]
  BY <1>1, <1>2
<1>4. Written' = Written /\ new \notin Written
  BY <1>1 DEF Written
<1>5. /\ \A e \in DB \ {new} : root[e] \in left
      /\ \A e \in DB : cur[e] = Idle \/ cur[e] \in left
      /\ root[d] \in left
  BY <1>3 DEF Written
<1>6. left \subseteq Versions
  BY DEF Versions
<1>7. Left(heap, vheap, left, sets, heap', vheap')
  BY <1>1 DEF Left
<1>8. Versions' \subseteq left
  <2>1. \A e \in DB : root'[e] \in left
    BY <1>3, <1>5
  <2>2. \A e \in Written' : cur'[e] \in left
    BY <1>1, <1>4
  <2> HIDE DEF left
  <2> QED BY <2>1, <2>2 DEF Versions
<1> HIDE DEF left
<1>9. /\ World(heap', vheap', Versions', sets')
      /\ \A x : x = Idle \/ x \in left =>
            /\ NodesOf(heap', x) = NodesOf(heap, x)
            /\ VNodesOf(vheap', x) = VNodesOf(vheap, x)
      /\ BKept' = BKept /\ VKept' = VKept
      /\ BE!Unchanged /\ BE!New = {} /\ VE!Unchanged /\ VE!New = {}
  BY <1>1, <1>6, <1>7, <1>8, LeftStep
<1>10. StateInv'
  BY <1>1, <1>2, <1>3, <1>9 DEF StateInv
<1>11. BCur' = BCur /\ VCur' = VCur
  <2>1. \A e \in DB : /\ NodesOf(heap', cur'[e]) = NodesOf(heap, cur[e])
                      /\ VNodesOf(vheap', cur'[e]) = VNodesOf(vheap, cur[e])
    BY <1>1, <1>5, <1>9
  <2> QED BY <2>1 DEF BCur, VCur
<1>12. BRoot' = [BRoot EXCEPT ![new] = BRoot[d]] /\ VRoot' = [VRoot EXCEPT ![new] = VRoot[d]]
  <2>1. /\ NodesOf(heap', root'[new]) = NodesOf(heap, root[d])
        /\ VNodesOf(vheap', root'[new]) = VNodesOf(vheap, root[d])
    BY <1>3, <1>5, <1>9
  <2>2. \A e \in DB \ {new} : /\ NodesOf(heap', root'[e]) = NodesOf(heap, root[e])
                              /\ VNodesOf(vheap', root'[e]) = VNodesOf(vheap, root[e])
    BY <1>3, <1>5, <1>9
  <2> QED BY <2>1, <2>2 DEF BRoot, VRoot
<1>13. BWriter' = BWriter /\ VWriter' = VWriter
  BY <1>1 DEF BWriter, VWriter
<1>14. BE!Clone(d, new)
  BY <1>1, <1>4, <1>9, <1>11, <1>12, <1>13 DEF BE!Clone
<1>15. VE!Clone(d, new)
  BY <1>1, <1>4, <1>9, <1>11, <1>12, <1>13 DEF VE!Clone
<1> QED BY <1>10, <1>14, <1>15

----------------------------------------------------------------------------
(* Row sets.                                                               *)

\* The ids of the bitmap of a version are in the table.
LEMMA IdsAre ==
    ASSUME NEW m, NEW b, NEW S, S \subseteq Row, Holds(m, b, S)
    PROVE  Ids(m, b) = S
<1>1. \A i \in Row : B!Has(m, b, i) <=> i \in S
  BY SizesAre DEF Holds
<1> QED BY <1>1 DEF Ids

LEMMA FoundOk ==
    ASSUME NEW v, VerOk(heap, vheap, v), NEW k \in Query
    PROVE  /\ SetOk(heap, vheap, Found(v, k))
           /\ B!Nodes(heap, Found(v, k).bits) \subseteq All(heap, v.bits)
           /\ VNodes(vheap, Found(v, k).rows) = VNodes(vheap, v.rows)
<1> DEFINE s == Found(v, k)
           S == IdsIn(v.table, v.next)[k]
<1>1. k \in K
  BY SizesAre DEF Query
<1>2. Holds(heap, v.bits[k], S) /\ S \subseteq Row
  BY <1>1 DEF VerOk, BitsOk, IdsIn
<1> HIDE DEF S
<1>3. Ids(heap, v.bits[k]) = S
  BY <1>2, IdsAre
<1>4. /\ s.rows = v.rows /\ s.bits = v.bits[k] /\ s.ids = S /\ s.table = v.table
      /\ "bits" \in DOMAIN s
  BY <1>3 DEF Found, RowSet
<1> HIDE DEF s
<1>5. SetOk(heap, vheap, s)
  BY <1>2, <1>4 DEF SetOk, VerOk, TableOk
<1>6. B!Nodes(heap, s.bits) \subseteq All(heap, v.bits) /\ VNodes(vheap, s.rows) = VNodes(vheap, v.rows)
  BY <1>1, <1>4 DEF All
<1> QED BY <1>5, <1>6 DEF s

\* A reader keeps a row set of the version v, whose nodes are from and vfrom.
LEMMA KeepOk ==
    ASSUME StateInv, NEW v \in Versions, NEW k \in Query, Keep(Found(v, k)),
           heap' = heap, vheap' = vheap, drawn' = drawn, root' = root, cur' = cur
    PROVE  /\ World(heap', vheap', Versions', sets')
           /\ BE!Keeps(NodesOf(heap, v)) /\ VE!Keeps(VNodesOf(vheap, v))
<1> DEFINE s == Found(v, k)
           f == [n \in B!Nodes(heap, s.bits) |-> heap[n]]
           g == [n \in VNodesOf(vheap, s) |-> vheap[n]]
<1>1. sets' = sets \cup {s}
  BY DEF Keep
<1>2. World(heap, vheap, Versions, sets)
  BY DEF StateInv
<1>3. /\ SetOk(heap, vheap, s)
      /\ B!Nodes(heap, s.bits) \subseteq All(heap, v.bits)
      /\ VNodes(vheap, s.rows) = VNodes(vheap, v.rows)
  BY <1>2, FoundOk DEF World
<1> HIDE DEF s
<1>4. World(heap, vheap, Versions, sets')
  BY <1>1, <1>2, <1>3 DEF World
<1>5. Versions' = Versions /\ Written' = Written
  BY DEF Versions, Written
<1>6. BKept' = BKept \cup {f} /\ VKept' = VKept \cup {g}
  BY <1>1 DEF BKept, VKept, KeptOf, VKeptOf
<1>7. DOMAIN f \subseteq NodesOf(heap, v) /\ DOMAIN g \subseteq VNodesOf(vheap, v)
  <2>1. NodesOf(heap, v) = All(heap, v.bits) /\ VNodesOf(vheap, v) = VNodes(vheap, v.rows)
    BY <1>2, RefersTo
  <2>2. VNodesOf(vheap, s) = VNodes(vheap, s.rows)
    BY <1>1, <1>4, RefersTo
  <2> QED BY <1>3, <2>1, <2>2
<1>8. f = [n \in DOMAIN f |-> heap'[n]] /\ g = [n \in DOMAIN g |-> vheap'[n]]
  OBVIOUS
<1>9. /\ BRoot' = BRoot /\ BCur' = BCur /\ VRoot' = VRoot /\ VCur' = VCur
  BY DEF BRoot, BCur, VRoot, VCur
<1>10. /\ BE!Unchanged /\ BE!Made(0) /\ VE!Unchanged /\ VE!Made(0)
  BY DEF BE!Unchanged, BE!New, BE!Old, BE!Made, VE!Unchanged, VE!New, VE!Old, VE!Made
<1> HIDE DEF f, g
<1>11. BE!Keeps(NodesOf(heap, v))
  BY <1>5, <1>6, <1>7, <1>8, <1>9, <1>10 DEF BE!Keeps
<1>12. VE!Keeps(VNodesOf(vheap, v))
  BY <1>5, <1>6, <1>7, <1>8, <1>9, <1>10 DEF VE!Keeps
<1> QED BY <1>4, <1>5, <1>11, <1>12

LEMMA ReadOk ==
    ASSUME StateInv, NEW d \in DB, NEW k \in Query, Read(d, k)
    PROVE  StateInv' /\ BE!Read(d) /\ VE!Read(d)
<1>1. /\ Keep(Found(root[d], k))
      /\ heap' = heap /\ vheap' = vheap /\ drawn' = drawn /\ root' = root /\ cur' = cur
      /\ writer' = writer /\ writes' = writes
  BY DEF Read
<1>2. root[d] \in Versions
  BY DEF Versions
<1>3. /\ World(heap', vheap', Versions', sets')
      /\ BE!Keeps(NodesOf(heap, root[d])) /\ VE!Keeps(VNodesOf(vheap, root[d]))
  BY <1>1, <1>2, KeepOk
<1>4. StateInv'
  BY <1>1, <1>3 DEF StateInv
<1>5. BRoot[d] = NodesOf(heap, root[d]) /\ VRoot[d] = VNodesOf(vheap, root[d])
  BY DEF BRoot, VRoot
<1>6. BWriter' = BWriter /\ VWriter' = VWriter
  BY <1>1 DEF BWriter, VWriter
<1> QED BY <1>3, <1>4, <1>5, <1>6 DEF BE!Read, VE!Read

LEMMA TakeOk ==
    ASSUME StateInv, NEW d \in DB, NEW k \in Query, Take(d, k)
    PROVE  StateInv' /\ BE!Take(d) /\ VE!Take(d)
<1>1. /\ cur[d] # Idle /\ Keep(Found(cur[d], k)) /\ writer' = [writer EXCEPT ![d] = Frozen]
      /\ heap' = heap /\ vheap' = vheap /\ drawn' = drawn /\ root' = root /\ cur' = cur
      /\ writes' = writes
  BY DEF Take, Freeze
<1>2. cur[d] \in Versions /\ d \in Written
  BY <1>1 DEF Versions, Written
<1>3. /\ World(heap', vheap', Versions', sets')
      /\ BE!Keeps(NodesOf(heap, cur[d])) /\ VE!Keeps(VNodesOf(vheap, cur[d]))
  BY <1>1, <1>2, KeepOk
<1>4. writer = [e \in DB |-> [bm |-> writer[e].bm, vec |-> writer[e].vec]]
  BY DEF StateInv
<1>5. /\ writer' = [e \in DB |-> writer'[e]]
      /\ writer'[d] = Frozen /\ \A e \in DB \ {d} : writer'[e] = writer[e]
  BY <1>1, <1>4
<1>6. writer'[d].bm = 0 /\ writer'[d].vec = 0
  BY <1>5 DEF Frozen
<1>7. writer' = [e \in DB |-> [bm |-> writer'[e].bm, vec |-> writer'[e].vec]]
  <2>1. ASSUME NEW e \in DB
        PROVE  writer'[e] = [bm |-> writer'[e].bm, vec |-> writer'[e].vec]
    <3>1. CASE e = d
      BY <1>5, <3>1 DEF Frozen
    <3>2. CASE e # d
      BY <1>4, <1>5, <3>2
    <3> QED BY <3>1, <3>2
  <2> QED BY <1>5, <2>1
<1>8. StateInv'
  <2>1. \A e \in DB : cur'[e] = Idle => writer'[e] = Frozen
    BY <1>1, <1>5 DEF StateInv
  <2> QED BY <1>1, <1>3, <1>7, <2>1 DEF StateInv
<1>9. BCur[d] = NodesOf(heap, cur[d]) /\ VCur[d] = VNodesOf(vheap, cur[d])
  BY DEF BCur, VCur
<1>10. BWriter' = [BWriter EXCEPT ![d] = 0] /\ VWriter' = [VWriter EXCEPT ![d] = 0]
  <2>1. \A e \in DB \ {d} : writer'[e].bm = writer[e].bm /\ writer'[e].vec = writer[e].vec
    BY <1>5
  <2> QED BY <1>6, <2>1 DEF BWriter, VWriter
<1> QED BY <1>2, <1>3, <1>8, <1>9, <1>10 DEF BE!Take, VE!Take

----------------------------------------------------------------------------
(* Writes.                                                                 *)

\* The epochs a transaction writes in are those of module Epochs.
LEMMA EpochsAre ==
    ASSUME BE!IInv, VE!IInv, NEW d \in DB
    PROVE  /\ Epochs(d).bm = BE!EpochOf(d) /\ Epochs(d).vec = VE!EpochOf(d)
           /\ Epochs(d).bm \in Nat /\ Epochs(d).vec \in Nat
           /\ drawn.bm \in Nat /\ drawn.vec \in Nat
           /\ writer[d].bm \in 0..drawn.bm /\ writer[d].vec \in 0..drawn.vec
<1>1. drawn.bm \in Nat /\ BWriter \in [DB -> 0..drawn.bm]
  BY DEF BE!IInv, BE!TypeInv
<1>2. drawn.vec \in Nat /\ VWriter \in [DB -> 0..drawn.vec]
  BY DEF VE!IInv, VE!TypeInv
<1>3. BWriter[d] = writer[d].bm /\ VWriter[d] = writer[d].vec
  BY DEF BWriter, VWriter
<1>4. writer[d].bm \in 0..drawn.bm /\ writer[d].vec \in 0..drawn.vec
  BY <1>1, <1>2, <1>3
<1>5. Epochs(d).bm = BE!EpochOf(d) /\ Epochs(d).vec = VE!EpochOf(d)
  BY <1>3 DEF Epochs, BE!EpochOf, VE!EpochOf
<1>6. Epochs(d).bm \in Nat /\ Epochs(d).vec \in Nat
  BY <1>1, <1>2, <1>4 DEF Epochs
<1> QED BY <1>1, <1>2, <1>4, <1>5, <1>6

\* The versions but that of d's transaction.
Others(d) == {root[x] : x \in DB} \cup {cur[x] : x \in Written \ {d}}

\* What is not the transaction's has no node of its epochs.
LEMMA OthersPrivate ==
    ASSUME StateInv, BE!IInv, VE!IInv, NEW d \in DB
    PROVE  /\ \A v \in Others(d) :
                 /\ \A x \in All(heap, v.bits) : heap[x].epoch # Epochs(d).bm
                 /\ \A x \in VNodes(vheap, v.rows) : vheap[x].epoch # Epochs(d).vec
           /\ \A s \in sets :
                 /\ \A x \in B!Nodes(heap, s.bits) : heap[x].epoch # Epochs(d).bm
                 /\ \A x \in VNodes(vheap, s.rows) : vheap[x].epoch # Epochs(d).vec
<1>1. /\ \A x \in BE!Shared(d) : heap[x].epoch # Epochs(d).bm
      /\ \A x \in VE!Shared(d) : vheap[x].epoch # Epochs(d).vec
  BY EpochsAre, BE!EpochIsPrivate, VE!EpochIsPrivate
<1>2. World(heap, vheap, Versions, sets)
  BY DEF StateInv
<1>3. Others(d) \subseteq Versions
  BY DEF Others, Versions
<1>4. \A v \in Others(d) : NodesOf(heap, v) \subseteq BE!Shared(d) /\ VNodesOf(vheap, v) \subseteq VE!Shared(d)
  <2>1. \A x \in DB : /\ NodesOf(heap, root[x]) \subseteq BE!Shared(d)
                      /\ VNodesOf(vheap, root[x]) \subseteq VE!Shared(d)
    <3>1. \A x \in DB : BRoot[x] = NodesOf(heap, root[x]) /\ VRoot[x] = VNodesOf(vheap, root[x])
      BY DEF BRoot, VRoot
    <3> QED BY <3>1 DEF BE!Shared, VE!Shared
  <2>2. \A x \in DB \ {d} : /\ NodesOf(heap, cur[x]) \subseteq BE!Shared(d)
                            /\ VNodesOf(vheap, cur[x]) \subseteq VE!Shared(d)
    <3>1. \A x \in DB : BCur[x] = NodesOf(heap, cur[x]) /\ VCur[x] = VNodesOf(vheap, cur[x])
      BY DEF BCur, VCur
    <3> QED BY <3>1 DEF BE!Shared, VE!Shared
  <2> QED BY <2>1, <2>2 DEF Others, Written
<1>5. \A v \in Others(d) : NodesOf(heap, v) = All(heap, v.bits) /\ VNodesOf(vheap, v) = VNodes(vheap, v.rows)
  BY <1>2, <1>3, RefersTo
<1>6. \A s \in sets : B!Nodes(heap, s.bits) \subseteq BE!Shared(d) /\ VNodes(vheap, s.rows) \subseteq VE!Shared(d)
  <2>1. \A s \in sets : VNodesOf(vheap, s) = VNodes(vheap, s.rows)
    BY <1>2, RefersTo
  <2>2. ASSUME NEW s \in sets
        PROVE  B!Nodes(heap, s.bits) \subseteq BE!Shared(d) /\ VNodesOf(vheap, s) \subseteq VE!Shared(d)
    <3> DEFINE f == [n \in B!Nodes(heap, s.bits) |-> heap[n]]
               g == [n \in VNodesOf(vheap, s) |-> vheap[n]]
    <3>1. f \in BKept /\ g \in VKept
      BY DEF BKept, KeptOf, VKept, VKeptOf
    <3>2. DOMAIN f = B!Nodes(heap, s.bits) /\ DOMAIN g = VNodesOf(vheap, s)
      OBVIOUS
    <3> HIDE DEF f, g
    <3>3. DOMAIN f \subseteq BE!Shared(d) /\ DOMAIN g \subseteq VE!Shared(d)
      BY <3>1 DEF BE!Shared, VE!Shared
    <3> QED BY <3>2, <3>3
  <2> QED BY <2>1, <2>2
<1> QED BY <1>1, <1>4, <1>5, <1>6

\* What a writer of another epoch leaves alone.
LEMMA WroteKeeps ==
    ASSUME NEW m, NEW o, NEW e, NEW ns, NEW now, Grown(m, ns, o, now, e),
           NEW S, S \subseteq DOMAIN m, \A x \in S : m[x].epoch # e
    PROVE  Kept(m, o, S)
BY DEF Grown, VP!Wrote, Kept

\* The heaps that a write of a row makes, before and after they are swept.
WritesTo(d, i, obj, r, o, vo) ==
    /\ r = Applied(heap, vheap, Epochs(d), cur[d], i, obj)
    /\ o = Swept(r.heap, WithCur(d, r.ver), sets)
    /\ vo = SweptVec(r.vheap, WithCur(d, r.ver), sets)

LEMMA WriteHeaps ==
    ASSUME StateInv, BE!IInv, VE!IInv, NEW d \in DB, cur[d] # Idle,
           NEW i \in Row, NEW obj \in Objs, Fits(cur[d], i, obj),
           NEW r, NEW o, NEW vo, WritesTo(d, i, obj, r, o, vo)
    PROVE  /\ World(o, vo, Others(d) \cup {r.ver}, sets)
           /\ \A v \in Others(d) : /\ NodesOf(o, v) = NodesOf(heap, v)
                                   /\ VNodesOf(vo, v) = VNodesOf(vheap, v)
           /\ KeptOf(o, sets) = KeptOf(heap, sets) /\ VKeptOf(vo, sets) = VKeptOf(vheap, sets)
           /\ DOMAIN o \subseteq DOMAIN r.heap /\ \A x \in DOMAIN o : o[x] = r.heap[x]
           /\ DOMAIN vo \subseteq DOMAIN r.vheap /\ \A x \in DOMAIN vo : vo[x] = r.vheap[x]
           /\ Grown(heap, NodesOf(heap, cur[d]), r.heap, NodesOf(o, r.ver), Epochs(d).bm)
           /\ Grown(vheap, VNodesOf(vheap, cur[d]), r.vheap, VNodesOf(vo, r.ver), Epochs(d).vec)
<1> DEFINE e == Epochs(d)
           m == r.heap
           vm == r.vheap
           ver == r.ver
           all == Others(d) \cup {ver}
<1>1. World(heap, vheap, Versions, sets)
  BY DEF StateInv
<1>2. cur[d] \in Versions /\ Others(d) \subseteq Versions
  BY DEF Versions, Written, Others
<1>3. WithCur(d, ver) = all
  BY DEF WithCur, Others
<1>4. /\ BP!Good(m) /\ VGood(vm) /\ VerOk(m, vm, ver)
      /\ Grown(heap, All(heap, cur[d].bits), m, All(m, ver.bits), e.bm)
      /\ Grown(vheap, VNodes(vheap, cur[d].rows), vm, VNodes(vm, ver.rows), e.vec)
  <2>1. BP!Good(heap) /\ VGood(vheap) /\ VerOk(heap, vheap, cur[d])
    BY <1>1, <1>2 DEF World
  <2>2. e.bm \in Nat /\ e.vec \in Nat /\ r = Applied(heap, vheap, e, cur[d], i, obj)
    BY EpochsAre DEF WritesTo
  <2> HIDE DEF e
  <2> QED BY <2>1, <2>2, AppliedOk
<1>5. World(heap, vheap, Others(d), sets)
  BY <1>1, <1>2 DEF World
<1>6. \A v \in Others(d) : VerKept(heap, vheap, m, vm, v)
  <2>1. ASSUME NEW v \in Others(d) PROVE VerKept(heap, vheap, m, vm, v)
    <3>1. /\ \A x \in All(heap, v.bits) : heap[x].epoch # e.bm
          /\ \A x \in VNodes(vheap, v.rows) : vheap[x].epoch # e.vec
      BY OthersPrivate
    <3>2. All(heap, v.bits) \subseteq DOMAIN heap /\ VNodes(vheap, v.rows) \subseteq DOMAIN vheap
      BY <1>5, RefersTo
    <3> HIDE DEF e, m, vm, ver
    <3>3. Kept(heap, m, All(heap, v.bits)) /\ Kept(vheap, vm, VNodes(vheap, v.rows))
      BY <1>4, <3>1, <3>2, WroteKeeps
    <3> QED BY <3>3 DEF VerKept
  <2> QED BY <2>1
<1>7. \A s \in sets : SetKept(heap, vheap, m, vm, s)
  <2>1. ASSUME NEW s \in sets PROVE SetKept(heap, vheap, m, vm, s)
    <3>1. /\ \A x \in B!Nodes(heap, s.bits) : heap[x].epoch # e.bm
          /\ \A x \in VNodes(vheap, s.rows) : vheap[x].epoch # e.vec
      BY OthersPrivate
    <3>2. B!Nodes(heap, s.bits) \subseteq DOMAIN heap /\ VNodes(vheap, s.rows) \subseteq DOMAIN vheap
      BY <1>5, RefersTo
    <3> HIDE DEF e, m, vm, ver
    <3>3. Kept(heap, m, B!Nodes(heap, s.bits)) /\ Kept(vheap, vm, VNodes(vheap, s.rows))
      BY <1>4, <3>1, <3>2, WroteKeeps
    <3> QED BY <3>3 DEF SetKept
  <2> QED BY <2>1
<1> HIDE DEF e, m, vm, ver
<1>8. World(m, vm, Others(d), sets) /\ Alike(heap, vheap, m, vm, Others(d), sets)
  BY <1>4, <1>5, <1>6, <1>7, WorldStays
<1>9. World(m, vm, all, sets)
  BY <1>4, <1>8 DEF World
<1>10. o = Swept(m, all, sets) /\ vo = SweptVec(vm, all, sets)
  BY <1>3 DEF m, vm, ver, WritesTo
<1> HIDE DEF all
<1>11. /\ World(o, vo, all, sets) /\ Alike(m, vm, o, vo, all, sets)
       /\ DOMAIN o \subseteq DOMAIN m /\ \A x \in DOMAIN o : o[x] = m[x]
       /\ DOMAIN vo \subseteq DOMAIN vm /\ \A x \in DOMAIN vo : vo[x] = vm[x]
  BY <1>9, <1>10, SweepOk
<1>12. /\ \A v \in all : NodesOf(o, v) = NodesOf(m, v) /\ VNodesOf(vo, v) = VNodesOf(vm, v)
       /\ KeptOf(o, sets) = KeptOf(m, sets) /\ VKeptOf(vo, sets) = VKeptOf(vm, sets)
  BY <1>9, <1>11, AlikeIs
<1>13. /\ \A v \in Others(d) : NodesOf(m, v) = NodesOf(heap, v) /\ VNodesOf(vm, v) = VNodesOf(vheap, v)
       /\ KeptOf(m, sets) = KeptOf(heap, sets) /\ VKeptOf(vm, sets) = VKeptOf(vheap, sets)
  BY <1>5, <1>8, AlikeIs
<1>14. Others(d) \subseteq all /\ ver \in all
  BY DEF all
<1>15. NodesOf(o, ver) = All(m, ver.bits) /\ VNodesOf(vo, ver) = VNodes(vm, ver.rows)
  BY <1>9, <1>12, <1>14, RefersTo
<1>16. NodesOf(heap, cur[d]) = All(heap, cur[d].bits) /\ VNodesOf(vheap, cur[d]) = VNodes(vheap, cur[d].rows)
  BY <1>1, <1>2, RefersTo
<1>17. /\ Grown(heap, NodesOf(heap, cur[d]), m, NodesOf(o, ver), e.bm)
       /\ Grown(vheap, VNodesOf(vheap, cur[d]), vm, VNodesOf(vo, ver), e.vec)
  BY <1>4, <1>15, <1>16
<1>18. \A v \in Others(d) : NodesOf(o, v) = NodesOf(heap, v) /\ VNodesOf(vo, v) = VNodesOf(vheap, v)
  BY <1>12, <1>13, <1>14
<1>19. KeptOf(o, sets) = KeptOf(heap, sets) /\ VKeptOf(vo, sets) = VKeptOf(vheap, sets)
  BY <1>12, <1>13
<1> HIDE DEF World, Grown, NodesOf, VNodesOf, KeptOf, VKeptOf, Others
<1> QED BY <1>11, <1>17, <1>18, <1>19 DEF all, m, vm, ver, e

\* A write of a row, of a transaction that may write it.
LEMMA WriteOk ==
    ASSUME StateInv, BE!IInv, VE!IInv, NEW d \in DB, cur[d] # Idle,
           NEW i \in Row, NEW obj \in Objs, Fits(cur[d], i, obj), Write(d, i, obj)
    PROVE  StateInv' /\ (BE!Write(d) \/ BE!Empties(d)) /\ VE!Write(d)
<1> DEFINE r == Applied(heap, vheap, Epochs(d), cur[d], i, obj)
           e == Epochs(d)
           drew == [bm |-> IF r.heap = heap THEN writer[d].bm ELSE e.bm, vec |-> e.vec]
           m == r.heap
           vm == r.vheap
           ver == r.ver
           was == cur[d]
<1>1. /\ writes < MaxWrites /\ writes' = writes + 1
      /\ cur' = [cur EXCEPT ![d] = ver]
      /\ writer' = [writer EXCEPT ![d] = drew]
      /\ drawn' = [bm  |-> IF drew.bm > drawn.bm THEN drew.bm ELSE drawn.bm,
                   vec |-> IF drew.vec > drawn.vec THEN drew.vec ELSE drawn.vec]
      /\ heap' = Swept(m, WithCur(d, ver), sets)
      /\ vheap' = SweptVec(vm, WithCur(d, ver), sets)
      /\ root' = root /\ sets' = sets
  BY DEF Write
<1>2. /\ World(heap', vheap', Others(d) \cup {ver}, sets)
      /\ \A v \in Others(d) : /\ NodesOf(heap', v) = NodesOf(heap, v)
                              /\ VNodesOf(vheap', v) = VNodesOf(vheap, v)
      /\ KeptOf(heap', sets) = KeptOf(heap, sets) /\ VKeptOf(vheap', sets) = VKeptOf(vheap, sets)
      /\ DOMAIN heap' \subseteq DOMAIN m /\ \A x \in DOMAIN heap' : heap'[x] = m[x]
      /\ DOMAIN vheap' \subseteq DOMAIN vm /\ \A x \in DOMAIN vheap' : vheap'[x] = vm[x]
      /\ Grown(heap, NodesOf(heap, was), m, NodesOf(heap', ver), e.bm)
      /\ Grown(vheap, VNodesOf(vheap, was), vm, VNodesOf(vheap', ver), e.vec)
  <2>1. r = Applied(heap, vheap, Epochs(d), cur[d], i, obj)
    OBVIOUS
  <2> HIDE DEF r
  <2>2. WritesTo(d, i, obj, r, heap', vheap')
    BY <1>1, <2>1 DEF WritesTo
  <2> QED BY <2>2, WriteHeaps
<1>3. /\ e.bm = BE!EpochOf(d) /\ e.vec = VE!EpochOf(d)
      /\ e.bm \in Nat /\ e.vec \in Nat /\ drawn.bm \in Nat /\ drawn.vec \in Nat
      /\ writer[d].bm \in 0..drawn.bm /\ writer[d].vec \in 0..drawn.vec
  BY EpochsAre
<1>4. /\ BWriter[d] = writer[d].bm /\ VWriter[d] = writer[d].vec
  BY DEF BWriter, VWriter
<1>5. /\ drew.bm = IF m = heap THEN writer[d].bm ELSE e.bm
      /\ drew.vec = e.vec
      /\ drew = [bm |-> drew.bm, vec |-> drew.vec]
  OBVIOUS
<1> HIDE DEF r, e, drew, m, vm, ver, was
<1>6. /\ cur = [x \in DB |-> cur[x]]
      /\ writer = [x \in DB |-> [bm |-> writer[x].bm, vec |-> writer[x].vec]]
      /\ root = [x \in DB |-> root[x]]
      /\ \A x \in DB : cur[x] = Idle => writer[x] = Frozen
      /\ writes \in 0..MaxWrites /\ MaxWrites \in Nat
  BY SizesAre DEF StateInv
<1>7. /\ cur' = [x \in DB |-> cur'[x]] /\ writer' = [x \in DB |-> writer'[x]]
      /\ cur'[d] = ver /\ writer'[d] = drew
      /\ \A x \in DB \ {d} : cur'[x] = cur[x] /\ writer'[x] = writer[x]
  BY <1>1, <1>6
<1>8. ver # Idle
  BY <1>2, RefersTo
<1>9. Written' = Written /\ d \in Written
  BY <1>7, <1>8 DEF Written
<1>10. Versions' \subseteq Others(d) \cup {ver}
  <2>1. \A x \in DB : root'[x] \in Others(d)
    BY <1>1 DEF Others
  <2>2. \A x \in Written' : cur'[x] \in Others(d) \cup {ver}
    BY <1>7, <1>9 DEF Others, Written
  <2> QED BY <2>1, <2>2 DEF Versions
<1>11. StateInv'
  <2>1. World(heap', vheap', Versions', sets')
    BY <1>1, <1>2, <1>10 DEF World
  <2>2. writer' = [x \in DB |-> [bm |-> writer'[x].bm, vec |-> writer'[x].vec]]
    <3>1. ASSUME NEW x \in DB
          PROVE  writer'[x] = [bm |-> writer'[x].bm, vec |-> writer'[x].vec]
      <4>1. CASE x = d
        BY <1>5, <1>7, <4>1
      <4>2. CASE x # d
        BY <1>6, <1>7, <4>2
      <4> QED BY <4>1, <4>2
    <3> QED BY <1>7, <3>1
  <2>3. \A x \in DB : cur'[x] = Idle => writer'[x] = Frozen
    BY <1>6, <1>7, <1>8
  <2>4. root' = [x \in DB |-> root'[x]] /\ cur' = [x \in DB |-> cur'[x]]
    BY <1>1, <1>6, <1>7
  <2>5. writes' \in 0..MaxWrites
    BY <1>1, <1>6
  <2> QED BY <2>1, <2>2, <2>3, <2>4, <2>5 DEF StateInv
<1>12. BRoot' = BRoot /\ VRoot' = VRoot
  <2>1. \A x \in DB : root[x] \in Others(d)
    BY DEF Others
  <2>2. \A x \in DB : /\ NodesOf(heap', root'[x]) = NodesOf(heap, root[x])
                      /\ VNodesOf(vheap', root'[x]) = VNodesOf(vheap, root[x])
    BY <1>1, <1>2, <2>1
  <2> QED BY <2>2 DEF BRoot, VRoot
<1>13. BKept' = BKept /\ VKept' = VKept
  BY <1>1, <1>2 DEF BKept, VKept
<1>14. /\ BCur' = [BCur EXCEPT ![d] = BCur'[d]] /\ VCur' = [VCur EXCEPT ![d] = VCur'[d]]
       /\ BCur'[d] = NodesOf(heap', ver) /\ VCur'[d] = VNodesOf(vheap', ver)
       /\ BCur[d] = NodesOf(heap, was) /\ VCur[d] = VNodesOf(vheap, was)
  <2>1. \A x \in DB \ {d} : cur[x] = Idle \/ cur[x] \in Others(d)
    BY DEF Others, Written
  <2>2. \A x \in DB \ {d} : /\ NodesOf(heap', cur'[x]) = NodesOf(heap, cur[x])
                            /\ VNodesOf(vheap', cur'[x]) = VNodesOf(vheap, cur[x])
    BY <1>2, <1>7, <2>1 DEF NodesOf, VNodesOf
  <2> QED BY <1>7, <2>2 DEF BCur, VCur, was
<1>15. /\ BCur'[d] \subseteq DOMAIN heap' /\ VCur'[d] \subseteq DOMAIN vheap'
  BY <1>2, <1>14, RefersTo
<1>16. VE!Write(d)
  <2>1. VWriter' = [VWriter EXCEPT ![d] = VE!EpochOf(d)]
    <3>1. writer'[d].vec = VE!EpochOf(d) /\ \A x \in DB \ {d} : writer'[x].vec = writer[x].vec
      BY <1>3, <1>5, <1>7
    <3> QED BY <3>1 DEF VWriter
  <2>2. drawn'.vec = IF VWriter[d] = 0 THEN drawn.vec + 1 ELSE drawn.vec
    <3>1. drawn'.vec = IF e.vec > drawn.vec THEN e.vec ELSE drawn.vec
      BY <1>1, <1>5
    <3>2. e.vec = IF VWriter[d] = 0 THEN drawn.vec + 1 ELSE VWriter[d]
      BY <1>3 DEF VE!EpochOf
    <3> QED BY <1>3, <1>4, <3>1, <3>2
  <2>3. VE!Changed(e.vec) /\ VE!Made(e.vec)
    BY <1>2 DEF VE!Changed, VE!Made, VE!Old, VE!New, Grown, VP!Wrote
  <2>4. VE!Becomes(d, VCur[d] \cup VE!New)
    <3>1. VCur'[d] \subseteq VCur[d] \cup VE!New
      BY <1>2, <1>14, <1>15 DEF Grown, VE!New
    <3> QED BY <1>14, <3>1 DEF VE!Becomes
  <2> QED BY <1>3, <1>9, <1>12, <1>13, <2>1, <2>2, <2>3, <2>4 DEF VE!Write
<1>17. CASE m # heap
  <2>1. BWriter' = [BWriter EXCEPT ![d] = BE!EpochOf(d)]
    <3>1. writer'[d].bm = BE!EpochOf(d) /\ \A x \in DB \ {d} : writer'[x].bm = writer[x].bm
      BY <1>3, <1>5, <1>7, <1>17
    <3> QED BY <3>1 DEF BWriter
  <2>2. drawn'.bm = IF BWriter[d] = 0 THEN drawn.bm + 1 ELSE drawn.bm
    <3>1. drawn'.bm = IF e.bm > drawn.bm THEN e.bm ELSE drawn.bm
      BY <1>1, <1>5, <1>17
    <3>2. e.bm = IF BWriter[d] = 0 THEN drawn.bm + 1 ELSE BWriter[d]
      BY <1>3 DEF BE!EpochOf
    <3> QED BY <1>3, <1>4, <3>1, <3>2
  <2>3. BE!Changed(e.bm) /\ BE!Made(e.bm)
    BY <1>2 DEF BE!Changed, BE!Made, BE!Old, BE!New, Grown, VP!Wrote
  <2>4. BE!Becomes(d, BCur[d] \cup BE!New)
    <3>1. BCur'[d] \subseteq BCur[d] \cup BE!New
      BY <1>2, <1>14, <1>15 DEF Grown, BE!New
    <3> QED BY <1>14, <3>1 DEF BE!Becomes
  <2>5. BE!Write(d)
    BY <1>3, <1>9, <1>12, <1>13, <2>1, <2>2, <2>3, <2>4 DEF BE!Write
  <2> QED BY <1>11, <1>16, <2>5
<1>18. CASE m = heap
  <2>1. BWriter' = BWriter
    <3>1. \A x \in DB : writer'[x].bm = writer[x].bm
      BY <1>5, <1>7, <1>18
    <3> QED BY <3>1 DEF BWriter
  <2>2. drawn'.bm = drawn.bm
    BY <1>1, <1>3, <1>5, <1>18
  <2>3. BE!Unchanged /\ BE!New = {}
    BY <1>2, <1>18 DEF BE!Unchanged, BE!New, BE!Old
  <2>4. BE!Becomes(d, BCur[d])
    <3>1. BCur'[d] \subseteq BCur[d]
      BY <1>2, <1>14, <1>18 DEF Grown
    <3> QED BY <1>14, <3>1 DEF BE!Becomes
  <2>5. BE!Empties(d)
    BY <1>9, <1>12, <1>13, <2>1, <2>2, <2>3, <2>4 DEF BE!Empties
  <2> QED BY <1>11, <1>16, <2>5
<1> QED BY <1>17, <1>18

\* The row id of an insert is free, or the next.
LEMMA InsertOk ==
    ASSUME StateInv, BE!IInv, VE!IInv, NEW d \in DB, Insert(d)
    PROVE  StateInv' /\ (BE!Write(d) \/ BE!Empties(d)) /\ VE!Write(d)
<1> DEFINE i == NewId(heap, cur[d])
           v == cur[d]
<1>1. PICK obj \in Obj : cur[d] # Idle /\ i \in Row /\ Write(d, i, obj)
  BY DEF Insert
<1>2. obj \in Objs /\ obj # None
  BY BoundAssumption DEF Objs
<1>3. v \in Versions
  BY <1>1 DEF Versions, Written
<1>4. BP!Good(heap) /\ VerOk(heap, vheap, v)
  BY <1>3 DEF StateInv, World
<1>5. TableOk(v) /\ BitsOk(heap, v.bits, IdsIn(v.table, v.next))
  BY <1>4 DEF VerOk
<1>6. ASSUME v.table[i] = None PROVE IF v.bits["free"] = B!Nil THEN i = v.next ELSE i < v.next
  <2>1. CASE v.bits["free"] = B!Nil
    BY <2>1 DEF NewId
  <2>2. CASE v.bits["free"] # B!Nil
    <3> DEFINE b == v.bits["free"]
    <3>1. i = BP!Least(heap, b)
      BY <2>2, BitsAre DEF NewId
    <3>2. /\ BP!IsBitmap(heap, b)
          /\ \A j \in Nat : BP!Has(heap, b, j) <=> j \in IdsIn(v.table, v.next)["free"]
      BY <1>5, SizesAre, BitsAre DEF BitsOk, Holds
    <3> HIDE DEF i, v, b
    <3>3. i \in Nat /\ BP!Has(heap, b, i)
      BY <1>4, <2>2, <3>1, <3>2, SizesAre, BitsAre, BP!LeastIn DEF b
    <3>4. i \in IdsIn(v.table, v.next)["free"]
      BY <3>2, <3>3
    <3>5. Belongs(v.table, v.next, "free", i)
      BY <3>4, SizesAre DEF IdsIn
    <3> QED BY <2>2, <3>5, SizesAre DEF Belongs
  <2> QED BY <2>1, <2>2
<1>7. Fits(v, i, obj)
  BY <1>2, <1>6 DEF Fits
<1> HIDE DEF i
<1> QED BY <1>1, <1>2, <1>7, WriteOk

LEMMA UpdateOk ==
    ASSUME StateInv, BE!IInv, VE!IInv, NEW d \in DB, UpdateOrDelete(d)
    PROVE  StateInv' /\ (BE!Write(d) \/ BE!Empties(d)) /\ VE!Write(d)
<1>1. PICK i \in Row, obj \in Obj \cup {None} :
         cur[d] # Idle /\ cur[d].table[i] # None /\ Write(d, i, obj)
  BY DEF UpdateOrDelete
<1>2. obj \in Objs
  BY BoundAssumption DEF Objs
<1>3. Fits(cur[d], i, obj)
  BY <1>1 DEF Fits
<1> QED BY <1>1, <1>2, <1>3, WriteOk

----------------------------------------------------------------------------
(* The table that the databases start with.                                *)

\* f is what becomes of x as the first n rows of Start are inserted.
Loads(f, x, n) == f = [k \in 0..n |-> IF k = 0 THEN x ELSE Loaded(f[k - 1], k)]

LEMMA LoadExists == ASSUME NEW x, NEW N \in Nat PROVE \E f : Loads(f, x, N)
<1> DEFINE S == {n \in Nat : \E f : Loads(f, x, n)}
<1>1. 0 \in S
  <2>1. Loads([k \in 0..0 |-> x], x, 0)
    BY DEF Loads
  <2> QED BY <2>1
<1>2. ASSUME NEW n \in S PROVE n + 1 \in S
  <2>1. n \in Nat
    OBVIOUS
  <2>2. PICK f : Loads(f, x, n)
    OBVIOUS
  <2> DEFINE g == [k \in 0..(n + 1) |-> IF k = n + 1 THEN Loaded(f[n], n + 1) ELSE f[k]]
  <2>3. /\ g = [k \in 0..(n + 1) |-> g[k]]
        /\ g[n + 1] = Loaded(f[n], n + 1)
        /\ \A k \in 0..n : g[k] = f[k]
    BY <2>1
  <2> HIDE DEF g
  <2>4. \A k \in 0..n : f[k] = IF k = 0 THEN x ELSE Loaded(f[k - 1], k)
    BY <2>2 DEF Loads
  <2>5. ASSUME NEW k \in 0..(n + 1)
        PROVE  g[k] = IF k = 0 THEN x ELSE Loaded(g[k - 1], k)
    <3>1. CASE k = n + 1
      <4>1. k # 0 /\ k - 1 = n /\ n \in 0..n
        BY <2>1, <3>1
      <4> QED BY <2>3, <3>1, <4>1
    <3>2. CASE k # n + 1
      <4>1. k \in 0..n /\ (k # 0 => k - 1 \in 0..n)
        BY <2>1, <3>2
      <4> QED BY <2>3, <2>4, <4>1
    <3> QED BY <3>1, <3>2
  <2>6. Loads(g, x, n + 1)
    BY <2>3, <2>5 DEF Loads
  <2> QED BY <2>1, <2>6
<1> HIDE DEF S
<1>3. \A n \in Nat : n \in S
  <2>1. S \in SUBSET Nat
    BY DEF S
  <2> QED BY <1>1, <1>2, <2>1, VP!SetInduction
<1> QED BY <1>3 DEF S

\* After n rows: the table has them, and no id is free.
Full(st, n) ==
    /\ BP!Good(st.heap) /\ VGood(st.vheap)
    /\ VerOk(st.heap, st.vheap, st.ver)
    /\ VP!Wrote(<< >>, st.heap, 1, {}) /\ VP!Wrote(<< >>, st.vheap, 1, {})
    /\ st.ver.next = n
    /\ \A j \in Row : st.ver.table[j] # None <=> j < n

Blank == [bits |-> [k \in K |-> B!Nil], rows |-> V!Empty, next |-> 0,
          table |-> [i \in Row |-> None]]
First == [heap |-> << >>, vheap |-> << >>, ver |-> Blank]

LEMMA FirstFull == Full(First, 0)
<1> DEFINE ver == Blank
<1>1. BP!Good(<< >>) /\ VGood(<< >>)
  BY BP!EmptyGood, VP!EmptyHeap DEF VGood
<1>2. /\ \A k \in K : ver.bits[k] = B!Nil
      /\ ver.bits = [k \in K |-> ver.bits[k]]
      /\ ver.rows = V!Empty /\ ver.next = 0 /\ "bits" \in DOMAIN ver
      /\ ver.table = [i \in Row |-> None]
  BY DEF Blank
<1> HIDE DEF ver
<1>3. ver.table \in [Row -> Objs] /\ \A j \in Row : ver.table[j] = None
  BY <1>2 DEF Objs
<1>4. TableOk(ver)
  BY <1>2, <1>3, SizesAre DEF TableOk
<1>0. \A j \in Row : ~ (j < 0)
  <2>1. \A j \in Row : j \in Nat
    BY SizesAre
  <2> QED BY <2>1
<1>5. \A k \in K : IdsIn(ver.table, ver.next)[k] = {}
  <2>1. \A k \in K, j \in Row : ~ Belongs(ver.table, ver.next, k, j)
    BY <1>0, <1>2, <1>3 DEF Belongs
  <2> QED BY <2>1 DEF IdsIn
<1>6. /\ BP!IsBitmap(<< >>, B!Nil) /\ B!Nodes(<< >>, B!Nil) = {}
      /\ \A j \in Nat : ~ B!Has(<< >>, B!Nil, j)
  BY BitsAre DEF BP!IsBitmap, BP!Nil, B!Nil, B!Nodes, B!Has
<1>7. BitsOk(<< >>, ver.bits, IdsIn(ver.table, ver.next))
  BY <1>2, <1>5, <1>6 DEF BitsOk, Holds
<1>8. Lists(<< >>, ver.rows, ver.table)
  <2>1. None \in Objs
    BY DEF Objs
  <2>2. /\ VP!IsVec(<< >>, VP!Empty)
        /\ \A j \in Nat : VP!Get(<< >>, VP!Empty, j) = None
    BY <2>1, SizesAre, VP!EmptyHeap, VP!EmptyVec
  <2> QED BY <1>2, <1>3, <2>2, VecsAre DEF Lists
<1>9. VerOk(<< >>, << >>, ver)
  BY <1>2, <1>4, <1>7, <1>8 DEF VerOk
<1>10. VP!Wrote(<< >>, << >>, 1, {})
  BY DEF VP!Wrote
<1>11. First.heap = << >> /\ First.vheap = << >> /\ First.ver = ver
  BY DEF First, ver
<1>12. \A j \in Row : ver.table[j] # None <=> j < 0
  BY <1>0, <1>3
<1> QED BY <1>1, <1>2, <1>9, <1>10, <1>11, <1>12 DEF Full

LEMMA LoadedFull ==
    ASSUME NEW n \in Nat, n + 1 <= Len(Start), NEW st, Full(st, n)
    PROVE  Full(Loaded(st, n + 1), n + 1)
<1> DEFINE ver == st.ver
           obj == Start[n + 1]
           e == [bm |-> 1, vec |-> 1]
           r == Loaded(st, n + 1)
<1>1. (n + 1) - 1 = n
  OBVIOUS
<1>2. r = Applied(st.heap, st.vheap, e, ver, n, obj)
  BY <1>1 DEF Loaded
<1>3. n \in Row /\ obj \in SUBSET Value
  BY SizesAre, BoundAssumption DEF Row
<1>4. obj \in Objs /\ obj # None
  BY <1>3, BoundAssumption DEF Objs
<1>5. /\ BP!Good(st.heap) /\ VGood(st.vheap) /\ VerOk(st.heap, st.vheap, ver)
      /\ VP!Wrote(<< >>, st.heap, 1, {}) /\ VP!Wrote(<< >>, st.vheap, 1, {})
      /\ ver.next = n
      /\ \A j \in Row : ver.table[j] # None <=> j < n
  BY DEF Full
<1>6. ver.table[n] = None
  BY <1>3, <1>5
<1>7. ver.bits["free"] = B!Nil
  <2> DEFINE b == ver.bits["free"]
  <2>1. /\ BP!IsBitmap(st.heap, b)
        /\ \A j \in Nat : BP!Has(st.heap, b, j) <=> j \in IdsIn(ver.table, ver.next)["free"]
    BY <1>5, SizesAre, BitsAre DEF VerOk, BitsOk, Holds
  <2>2. \A j : j \notin IdsIn(ver.table, ver.next)["free"]
    BY <1>5, SizesAre DEF IdsIn, Belongs
  <2> HIDE DEF b
  <2>3. b = BP!Nil
    BY <1>5, <2>1, <2>2, SizesAre, BP!EmptyIsNil
  <2> QED BY <2>3, BitsAre DEF b
<1>8. Fits(ver, n, obj) /\ IsNext(ver, n)
  BY <1>4, <1>5, <1>6, <1>7 DEF Fits, IsNext
<1>9. e.bm = 1 /\ e.vec = 1
  OBVIOUS
<1> HIDE DEF ver, obj, e, r
<1>10. /\ BP!Good(r.heap) /\ VGood(r.vheap)
       /\ VerOk(r.heap, r.vheap, r.ver)
       /\ Grown(st.heap, All(st.heap, ver.bits), r.heap, All(r.heap, r.ver.bits), 1)
       /\ Grown(st.vheap, VNodes(st.vheap, ver.rows), r.vheap, VNodes(r.vheap, r.ver.rows), 1)
       /\ Follows(ver, n, obj, r.ver)
  <2>1. e.bm \in Nat /\ e.vec \in Nat
    BY <1>9
  <2> QED BY <1>2, <1>3, <1>4, <1>5, <1>8, <1>9, <2>1, AppliedOk
<1>11. VP!Wrote(<< >>, r.heap, 1, {}) /\ VP!Wrote(<< >>, r.vheap, 1, {})
  <2>1. /\ VP!Wrote(st.heap, r.heap, 1, All(st.heap, ver.bits))
        /\ VP!Wrote(st.vheap, r.vheap, 1, VNodes(st.vheap, ver.rows))
    BY <1>10 DEF Grown
  <2>2. /\ All(st.heap, ver.bits) \subseteq DOMAIN st.heap
        /\ VNodes(st.vheap, ver.rows) \subseteq DOMAIN st.vheap
    BY <1>5, VerNodes
  <2>3. DOMAIN << >> = {}
    OBVIOUS
  <2> DEFINE none == << >>
  <2>4. /\ VP!Wrote(none, st.heap, 1, {}) /\ VP!Wrote(none, st.vheap, 1, {})
        /\ DOMAIN none = {}
    BY <1>5, <2>3
  <2> HIDE DEF none
  <2>5. /\ All(st.heap, ver.bits) \subseteq {} \cup (DOMAIN st.heap \ DOMAIN none)
        /\ VNodes(st.vheap, ver.rows) \subseteq {} \cup (DOMAIN st.vheap \ DOMAIN none)
    BY <2>2, <2>4
  <2>6. VP!Wrote(none, r.heap, 1, {})
    BY <2>1, <2>4, <2>5, WroteTwice
  <2>7. VP!Wrote(none, r.vheap, 1, {})
    BY <2>1, <2>4, <2>5, WroteTwice
  <2> QED BY <2>6, <2>7 DEF none
<1>12. r.ver.next = n + 1
  BY <1>5, <1>8, <1>10 DEF Follows
<1>13. \A j \in Row : r.ver.table[j] # None <=> j < n + 1
  <2>1. ver.table \in [Row -> Objs]
    BY <1>5 DEF VerOk, TableOk
  <2>2. \A j \in Row : r.ver.table[j] = IF j = n THEN obj ELSE ver.table[j]
    BY <1>10, <2>1 DEF Follows
  <2>3. \A j \in Row : j \in Nat
    BY SizesAre
  <2> QED BY <1>4, <1>5, <2>2, <2>3
<1> QED BY <1>10, <1>11, <1>12, <1>13 DEF Full, r

LEMMA AllLoaded ==
    ASSUME NEW load, load = Iterated(Loaded, First, Len(Start))
    PROVE  Full(load, Len(Start))
<1> DEFINE N == Len(Start)
           E(f) == [k \in 0..N |-> IF k = 0 THEN First ELSE Loaded(f[k - 1], k)]
           f == CHOOSE g : g = E(g)
<1>1. N \in Nat
  BY BoundAssumption
<1>2. load = f[N]
  BY DEF Iterated
<1>3. f = E(f)
  <2>1. \E g : g = E(g)
    <3>1. \E g : Loads(g, First, N)
      BY <1>1, LoadExists
    <3> QED BY <3>1 DEF Loads
  <2> HIDE DEF E
  <2> QED BY <2>1
<1> HIDE DEF f
<1>4. f[0] = First /\ \A n \in Nat : n + 1 <= N => f[n + 1] = Loaded(f[n], n + 1)
  <2>1. \A k \in 0..N : f[k] = IF k = 0 THEN First ELSE Loaded(f[k - 1], k)
    BY <1>3
  <2>2. \A n \in Nat : n + 1 <= N => n + 1 \in 0..N /\ n + 1 # 0 /\ (n + 1) - 1 = n
    BY <1>1
  <2> QED BY <1>1, <2>1, <2>2
<1> HIDE DEF E
<1> DEFINE S == {n \in Nat : n <= N => Full(f[n], n)}
<1>5. 0 \in S
  BY <1>4, FirstFull
<1>6. ASSUME NEW n \in S PROVE n + 1 \in S
  <2>1. n \in Nat /\ (n <= N => Full(f[n], n))
    OBVIOUS
  <2>2. ASSUME n + 1 <= N PROVE Full(f[n + 1], n + 1)
    <3>1. Full(f[n], n) /\ f[n + 1] = Loaded(f[n], n + 1)
      BY <1>1, <1>4, <2>1, <2>2
    <3> QED BY <2>1, <2>2, <3>1, LoadedFull
  <2> QED BY <2>1, <2>2
<1>7. \A n \in Nat : n \in S
  <2>1. S \in SUBSET Nat
    OBVIOUS
  <2> HIDE DEF S
  <2> QED BY <1>5, <1>6, <2>1, VP!SetInduction
<1>8. Full(f[N], N)
  BY <1>1, <1>7
<1> QED BY <1>2, <1>8

LEMMA InitOk == Init => StateInv /\ BE!Init /\ VE!Init
<1> SUFFICES ASSUME Init PROVE StateInv /\ BE!Init /\ VE!Init
  OBVIOUS
<1> DEFINE load == Iterated(Loaded, First, Len(Start))
<1>1. /\ heap = Swept(load.heap, {load.ver}, {})
      /\ vheap = SweptVec(load.vheap, {load.ver}, {})
      /\ drawn = [bm |-> 1, vec |-> 1]
      /\ writer = [d \in DB |-> Frozen]
      /\ root = [d \in DB |-> load.ver]
      /\ cur = [d \in DB |-> Idle]
      /\ sets = {} /\ writes = 0
  BY DEF Init, First, Blank
<1>2. Full(load, Len(Start))
  BY AllLoaded
<1> HIDE DEF load
<1>3. World(load.heap, load.vheap, {load.ver}, {})
  BY <1>2 DEF Full, World
<1>4. /\ World(heap, vheap, {load.ver}, {})
      /\ DOMAIN heap \subseteq DOMAIN load.heap /\ \A x \in DOMAIN heap : heap[x] = load.heap[x]
      /\ DOMAIN vheap \subseteq DOMAIN load.vheap
      /\ \A x \in DOMAIN vheap : vheap[x] = load.vheap[x]
  <2> DEFINE vers == {load.ver}
             rs == {}
  <2>1. /\ heap = Swept(load.heap, vers, rs) /\ vheap = SweptVec(load.vheap, vers, rs)
        /\ World(load.heap, load.vheap, vers, rs)
    BY <1>1, <1>3
  <2> HIDE DEF vers, rs
  <2>2. /\ World(heap, vheap, vers, rs)
        /\ DOMAIN heap \subseteq DOMAIN load.heap /\ \A x \in DOMAIN heap : heap[x] = load.heap[x]
        /\ DOMAIN vheap \subseteq DOMAIN load.vheap
        /\ \A x \in DOMAIN vheap : vheap[x] = load.vheap[x]
    BY <2>1, SweepOk
  <2> QED BY <2>2 DEF vers, rs
<1>5. Written = {}
  BY <1>1 DEF Written
<1>6. \A v \in Versions : v = load.ver
  BY <1>1, <1>5 DEF Versions
<1>7. World(heap, vheap, Versions, sets)
  BY <1>1, <1>4, <1>6 DEF World
<1>8. Frozen = [bm |-> 0, vec |-> 0] /\ Frozen.bm = 0 /\ Frozen.vec = 0
  BY DEF Frozen
<1>9. StateInv
  <2>1. writer = [d \in DB |-> [bm |-> writer[d].bm, vec |-> writer[d].vec]]
    BY <1>1, <1>8
  <2>2. root = [d \in DB |-> root[d]] /\ cur = [d \in DB |-> cur[d]]
    BY <1>1
  <2>3. \A d \in DB : writer[d] = Frozen
    BY <1>1
  <2>4. writes \in 0..MaxWrites
    BY <1>1, SizesAre
  <2> QED BY <1>7, <2>1, <2>2, <2>3, <2>4 DEF StateInv
<1>10. /\ \A x \in DOMAIN heap : heap[x].epoch = 1
       /\ \A x \in DOMAIN vheap : vheap[x].epoch = 1
  <2>1. VP!Wrote(<< >>, load.heap, 1, {}) /\ VP!Wrote(<< >>, load.vheap, 1, {})
    BY <1>2 DEF Full
  <2>2. DOMAIN << >> = {}
    OBVIOUS
  <2>3. /\ \A x \in DOMAIN load.heap : load.heap[x].epoch = 1
        /\ \A x \in DOMAIN load.vheap : load.vheap[x].epoch = 1
    BY <2>1, <2>2 DEF VP!Wrote
  <2> QED BY <1>4, <2>3
<1>11. /\ \A d \in DB : BRoot[d] \subseteq DOMAIN heap
       /\ \A d \in DB : VRoot[d] \subseteq DOMAIN vheap
  BY <1>9, Exists
<1>12. BRoot \in [DB -> SUBSET DOMAIN heap] /\ VRoot \in [DB -> SUBSET DOMAIN vheap]
  <2>1. BRoot = [d \in DB |-> BRoot[d]] /\ VRoot = [d \in DB |-> VRoot[d]]
    BY DEF BRoot, VRoot
  <2> QED BY <1>11, <2>1
<1>13. BWriter = [d \in DB |-> 0] /\ VWriter = [d \in DB |-> 0]
  BY <1>1, <1>8 DEF BWriter, VWriter
<1>14. BCur = [d \in DB |-> {}] /\ VCur = [d \in DB |-> {}]
  BY <1>1 DEF BCur, VCur, NodesOf, VNodesOf
<1>15. BKept = {} /\ VKept = {}
  BY <1>1 DEF BKept, VKept, KeptOf, VKeptOf
<1>16. drawn.bm = 1 /\ drawn.vec = 1
  BY <1>1
<1>17. BE!Init
  BY <1>5, <1>10, <1>12, <1>13, <1>14, <1>15, <1>16 DEF BE!Init
<1>18. VE!Init
  BY <1>5, <1>10, <1>12, <1>13, <1>14, <1>15, <1>16 DEF VE!Init
<1> QED BY <1>9, <1>17, <1>18

----------------------------------------------------------------------------
(* The theorems.                                                           *)

LEMMA StutterOk ==
    ASSUME StateInv, UNCHANGED vars
    PROVE  StateInv' /\ BE!evars' = BE!evars /\ VE!evars' = VE!evars
<1>1. /\ heap' = heap /\ vheap' = vheap /\ drawn' = drawn /\ writer' = writer /\ root' = root
      /\ cur' = cur /\ sets' = sets /\ writes' = writes
  BY DEF vars
<1>2. Written' = Written
  BY <1>1 DEF Written
<1>3. Versions' = Versions
  BY <1>1, <1>2 DEF Versions
<1>4. StateInv'
  BY <1>1, <1>3 DEF StateInv
<1>5. BE!evars' = BE!evars
  BY <1>1, <1>2 DEF BE!evars, BWriter, BRoot, BCur, BKept
<1>6. VE!evars' = VE!evars
  BY <1>1, <1>2 DEF VE!evars, VWriter, VRoot, VCur, VKept
<1> QED BY <1>4, <1>5, <1>6

LEMMA StepOk ==
    ASSUME IInv, [Next]_vars
    PROVE  StateInv' /\ [BE!Next]_BE!evars /\ [VE!Next]_VE!evars
<1> USE DEF IInv
<1>1. CASE UNCHANGED vars
  BY <1>1, StutterOk
<1>2. ASSUME NEW d \in DB, Begin(d) \/ Insert(d) \/ UpdateOrDelete(d) \/ Commit(d) \/ Abort(d)
      PROVE  /\ StateInv'
             /\ BE!Begin(d) \/ BE!Write(d) \/ BE!Empties(d) \/ BE!Commit(d) \/ BE!Abort(d)
             /\ VE!Begin(d) \/ VE!Write(d) \/ VE!Empties(d) \/ VE!Commit(d) \/ VE!Abort(d)
  BY <1>2, BeginOk, InsertOk, UpdateOk, CommitOk, AbortOk
<1>3. ASSUME NEW d \in DB, NEW new \in DB, Clone(d, new)
      PROVE  StateInv' /\ BE!Clone(d, new) /\ VE!Clone(d, new)
  BY <1>3, CloneOk
<1>4. ASSUME NEW d \in DB, NEW k \in Query, Read(d, k) \/ Take(d, k)
      PROVE  StateInv' /\ (BE!Read(d) \/ BE!Take(d)) /\ (VE!Read(d) \/ VE!Take(d))
  BY <1>4, ReadOk, TakeOk
<1>5. CASE Next
  <2>1. CASE \E d \in DB : Begin(d) \/ Insert(d) \/ UpdateOrDelete(d) \/ Commit(d) \/ Abort(d)
    BY <1>2, <2>1, AllCollected DEF BE!Next, VE!Next
  <2>2. CASE \E d, new \in DB : Clone(d, new)
    BY <1>3, <2>2, AllCollected DEF BE!Next, VE!Next
  <2>3. CASE \E d \in DB, k \in Query : Read(d, k) \/ Take(d, k)
    BY <1>4, <2>3, AllCollected DEF BE!Next, VE!Next
  <2> QED BY <1>5, <2>1, <2>2, <2>3 DEF Next
<1> QED BY <1>1, <1>5

\* The inductive invariant: the structures of versions and row sets say what they
\* should, and what a writer owns nobody else can see, of bitmaps and of vectors.
THEOREM Inductive == Spec => []IInv
<1>1. Init => IInv
  BY InitOk, BE!InitHolds, VE!InitHolds DEF IInv
<1>2. IInv /\ [Next]_vars => IInv'
  <2> SUFFICES ASSUME IInv, [Next]_vars PROVE IInv'
    OBVIOUS
  <2>1. StateInv' /\ [BE!Next]_BE!evars /\ [VE!Next]_VE!evars
    BY StepOk
  <2>2. BE!IInv' /\ VE!IInv'
    BY <2>1, BE!NextKeeps, VE!NextKeeps DEF IInv
  <2> QED BY <2>1, <2>2 DEF IInv
<1> QED BY <1>1, <1>2, PTL DEF Spec

\* KeepsEpochs: whatever is read, written, committed, thrown away and cloned, nodes
\* of bitmaps and of row vectors are changed in place only by the transaction that
\* made them, while nobody else has them: the writers implement Epochs, whose
\* theorems so hold of them (Writer.own, bitmap.go:121-155, pvec.go:128-160).
THEOREM WritersImplement == Spec => KeepsEpochs
<1>1. Init => Bits!Init /\ Vecs!Init
  BY InitOk, BitsInit, VecsInit
<1>2. IInv /\ [Next]_vars => [Bits!Next]_Bits!evars /\ [Vecs!Next]_Vecs!evars
  BY StepOk, BitsNext, VecsNext
<1> QED BY Inductive, <1>1, <1>2, PTL DEF Spec, KeepsEpochs, Bits!Spec, Vecs!Spec

\* TypeOK: versions and row sets refer to nodes that exist; the epochs of writers
\* have been drawn, no two have the same, and a database without a transaction
\* has writers that own nothing (writeState.release).
THEOREM TypesHold == Spec => []TypeOK
<1>1. IInv => TypeOK
  <2> SUFFICES ASSUME IInv PROVE TypeOK
    OBVIOUS
  <2>1. /\ World(heap, vheap, Versions, sets)
        /\ \A d \in DB : cur[d] = Idle => writer[d] = Frozen
        /\ writes \in 0..MaxWrites
    BY DEF IInv, StateInv
  <2>2. \A v \in Versions : /\ v.table \in [Row -> (SUBSET Value) \cup {None}]
                            /\ v.next \in 0..(MaxRow + 1)
                            /\ \A k \in K : v.bits[k] \in DOMAIN heap \cup {B!Nil}
                            /\ v.rows.root \in DOMAIN vheap \cup {V!Nil}
    <3>1. \A v \in Versions : VerOk(heap, vheap, v) /\ TableOk(v)
      BY <2>1 DEF World, VerOk
    <3>2. \A v \in Versions : /\ \A k \in K : v.bits[k] \in DOMAIN heap \cup {B!Nil}
                              /\ v.rows.root \in DOMAIN vheap \cup {V!Nil}
      BY <2>1, <3>1, VerNodes DEF World
    <3> QED BY <3>1, <3>2 DEF TableOk, Objs
  <2>3. \A s \in sets : /\ s.bits \in DOMAIN heap \cup {B!Nil}
                        /\ s.rows.root \in DOMAIN vheap \cup {V!Nil}
                        /\ s.ids \subseteq Row
    <3>1. \A s \in sets : SetOk(heap, vheap, s) /\ s.ids \subseteq Row
      BY <2>1 DEF World, SetOk
    <3> QED BY <2>1, <3>1, SetNodes DEF World
  <2>4. \A d \in DB : writer[d].bm \in 0..drawn.bm /\ writer[d].vec \in 0..drawn.vec
    BY EpochsAre DEF IInv
  <2>5. \A d, e \in DB : d # e /\ writer[d].vec # 0 => writer[d].vec # writer[e].vec
    <3>1. \A d \in DB : VWriter[d] = writer[d].vec
      BY DEF VWriter
    <3>2. VE!Distinct
      BY DEF IInv, VE!IInv
    <3> QED BY <3>1, <3>2 DEF VE!Distinct
  <2> QED BY <2>1, <2>2, <2>3, <2>4, <2>5 DEF TypeOK
<1> QED BY Inductive, <1>1, PTL

\* RowSetsStable: a row set has the ids it was made with, counts them, and has the
\* objects they had then, for as long as a reader keeps it, whatever the
\* transactions do that share its nodes (bitmap_index.go:352).
THEOREM SetsAreStable == Spec => []RowSetsStable
<1>1. IInv => RowSetsStable
  <2> SUFFICES ASSUME IInv, NEW s \in sets
               PROVE  /\ Ids(heap, s.bits) = s.ids
                      /\ B!Size(heap, s.bits) = Cardinality(s.ids)
                      /\ \A i \in s.ids : V!Get(vheap, s.rows, i) = s.table[i]
    BY DEF RowSetsStable
  <2>1. BP!Good(heap) /\ SetOk(heap, vheap, s)
    BY DEF IInv, StateInv, World
  <2>2. /\ s.ids \subseteq Row /\ Holds(heap, s.bits, s.ids) /\ Lists(vheap, s.rows, s.table)
        /\ \A i \in Row : i \in Nat
    BY <2>1, SizesAre DEF SetOk
  <2>3. Ids(heap, s.bits) = s.ids
    BY <2>2, IdsAre
  <2>4. B!Size(heap, s.bits) = Cardinality(s.ids)
    <3>1. BP!IsBitmap(heap, s.bits) /\ \A j \in Nat : BP!Has(heap, s.bits, j) <=> j \in s.ids
      BY <2>2, BitsAre DEF Holds
    <3>2. {j \in Nat : BP!Has(heap, s.bits, j)} = s.ids
      BY <2>2, <3>1
    <3>3. BP!Size(heap, s.bits) = BP!Cardinality(s.ids)
      BY <2>1, <3>1, <3>2, SizesAre, BP!SizeExact
    <3> QED BY <3>3, BitsAre, FiniteSetsAre
  <2>5. \A i \in s.ids : V!Get(vheap, s.rows, i) = s.table[i]
    BY <2>2 DEF Lists
  <2> QED BY <2>3, <2>4, <2>5
<1> QED BY Inductive, <1>1, PTL

\* VersionsExact: in every version, published or not, the bitmaps have the rows in
\* use, those with each value, and the free ids, and the vector the objects of the
\* rows (applyBitmaps and the bookkeeping of writeState, bitmap_index.go).
THEOREM VersionsAreExact == Spec => []VersionsExact
<1>1. IInv => VersionsExact
  <2> SUFFICES ASSUME IInv, NEW v \in Versions
               PROVE  LET used == {i \in Row : v.table[i] # None} IN
                      /\ Ids(heap, v.bits["all"]) = used
                      /\ \A k \in Value : Ids(heap, v.bits[k]) = {i \in used : k \in v.table[i]}
                      /\ Ids(heap, v.bits["free"]) = 0..(v.next - 1) \ used
                      /\ \A i \in Row : V!Get(vheap, v.rows, i) = v.table[i]
    BY DEF VersionsExact
  <2> DEFINE used == {i \in Row : v.table[i] # None}
             S(k) == {j \in Row : Belongs(v.table, v.next, k, j)}
  <2>1. VerOk(heap, vheap, v)
    BY DEF IInv, StateInv, World
  <2>2. /\ v.next \in 0..(MaxRow + 1) /\ MaxRow \in Nat /\ Row = 0..MaxRow
        /\ \A k \in K : Holds(heap, v.bits[k], S(k))
    BY <2>1, SizesAre DEF VerOk, TableOk, BitsOk, IdsIn, Row
  <2>3. \A k \in K : Ids(heap, v.bits[k]) = S(k)
    BY <2>2, IdsAre
  <2>4. S("all") = used
    BY DEF Belongs
  <2>5. \A k \in Value : S(k) = {i \in used : k \in v.table[i]}
    BY SizesAre DEF Belongs
  <2>6. S("free") = 0..(v.next - 1) \ used
    <3>1. S("free") = {j \in Row : j < v.next /\ v.table[j] = None}
      BY SizesAre DEF Belongs
    <3>2. \A j : j \in 0..(v.next - 1) <=> j \in Row /\ j < v.next
      BY <2>2
    <3> HIDE DEF S
    <3> QED BY <3>1, <3>2
  <2>7. \A i \in Row : V!Get(vheap, v.rows, i) = v.table[i]
    BY <2>1, SizesAre DEF VerOk, Lists
  <2> HIDE DEF S
  <2> QED BY <2>3, <2>4, <2>5, <2>6, <2>7, SizesAre
<1> QED BY Inductive, <1>1, PTL

\* VectorsWellFormed: the vectors of versions and row sets are well formed, though
\* their nodes are shared and some are changed in place (pvec.go).
THEOREM VectorsAreWellFormed == Spec => []VectorsWellFormed
<1>1. IInv => VectorsWellFormed
  <2> SUFFICES ASSUME IInv PROVE VectorsWellFormed
    OBVIOUS
  <2>1. \A v \in Versions : V!IsVec(vheap, v.rows)
    BY DEF IInv, StateInv, World, VerOk, Lists
  <2>2. \A s \in sets : V!IsVec(vheap, s.rows)
    BY DEF IInv, StateInv, World, SetOk, Lists
  <2> QED BY <2>1, <2>2 DEF VectorsWellFormed
<1> QED BY Inductive, <1>1, PTL

\* SameMeansSameState: row sets whose vectors have the same root, which may be
\* combined, are of the same state of the table (RowSet.with, bitmap_index.go:363).
THEOREM SameIsSameState == Spec => []SameMeansSameState
<1>1. IInv => SameMeansSameState
  <2> SUFFICES ASSUME IInv, NEW s \in sets, NEW o \in sets, With(s, o)
               PROVE  s.table = o.table
    BY DEF SameMeansSameState
  <2>1. VGood(vheap) /\ SetOk(heap, vheap, s) /\ SetOk(heap, vheap, o)
    BY DEF IInv, StateInv, World
  <2>2. /\ Lists(vheap, s.rows, s.table) /\ Lists(vheap, o.rows, o.table)
        /\ s.table \in [Row -> Objs] /\ o.table \in [Row -> Objs]
    BY <2>1 DEF SetOk
  <2>3. VP!IsVec(vheap, s.rows) /\ VP!IsVec(vheap, o.rows) /\ s.rows.root = o.rows.root
    BY <2>2, VecsAre DEF Lists, With
  <2>4. \A j \in Nat : VP!Get(vheap, s.rows, j) = VP!Get(vheap, o.rows, j)
    <3>1. VP!Sizes /\ None \in Objs
      BY SizesAre DEF Objs
    <3> QED BY <2>1, <2>3, <3>1, VP!RootDecides DEF VGood
  <2>5. \A i \in Row : i \in Nat
    BY SizesAre
  <2>6. \A i \in Row : s.table[i] = o.table[i]
    BY <2>2, <2>4, <2>5, VecsAre DEF Lists
  <2> QED BY <2>2, <2>6
<1> QED BY Inductive, <1>1, PTL
=============================================================================
