----------------------------- MODULE PVecProofs -----------------------------
(* Theorems about PVec, for any sizes of nodes, heights, heaps and values:   *)
(* Set is the update of a function and Get its application, every node       *)
(* counts the values below it, and only nodes of the writer's epoch change.  *)
EXTENDS PVec, Integers, FiniteSetTheorems, NaturalsInduction, WellFoundedInduction,
        TLAPS

----------------------------------------------------------------------------
(* Induction and recursion on the height, for properties and functions given *)
(* as sets.                                                                  *)

LEMMA SetInduction ==
    ASSUME NEW S \in SUBSET Nat, 0 \in S, \A k \in S : k + 1 \in S
    PROVE  \A k \in Nat : k \in S
<1> DEFINE R == OpToRel(<, Nat)
           Rest == Nat \ S
<1> SUFFICES ASSUME Rest # {} PROVE FALSE
  OBVIOUS
<1>1. \A x, y \in Nat : <<x, y>> \in R <=> x < y
  BY DEF OpToRel
<1>2. IsWellFoundedOn(R, Nat)
  BY NatLessThanWellFounded
<1>3. Rest \subseteq Nat
  OBVIOUS
<1> HIDE DEF R, Rest
<1>4. \E x \in Rest : \A y \in Rest : ~ (<<y, x>> \in R)
  BY <1>2, <1>3, WFMin, Zenon
<1>5. PICK x \in Rest : \A y \in Rest : ~ (<<y, x>> \in R)
  BY <1>4
<1>6. x \in Nat /\ x # 0 /\ x \notin S
  BY <1>5 DEF Rest
<1>7. x - 1 \in Nat /\ x - 1 < x /\ (x - 1) + 1 = x
  BY <1>6
<1>8. x - 1 \notin S
  BY <1>6, <1>7
<1>9. x - 1 \in Rest
  BY <1>7, <1>8 DEF Rest
<1> QED BY <1>1, <1>5, <1>6, <1>7, <1>9

\* The first values, up to n, of the function that starts with z and goes on
\* with G.
Approximates(f, n, z, G) ==
    f[0] = z /\ \A k \in 0..n : k < n => f[k + 1] = G[<<k, f[k]>>]

\* The function on Nat, with values in T, that starts with z and goes on with G.
Recursive(T, z, G) == z \in T /\ G \in [Nat \X T -> T]
Follows(f, T, z, G) ==
    f \in [Nat -> T] /\ f[0] = z /\ \A k \in Nat : f[k + 1] = G[<<k, f[k]>>]

LEMMA RecursionExists ==
    ASSUME NEW T, NEW z, NEW G, Recursive(T, z, G)
    PROVE  \E f : Follows(f, T, z, G)
<1> USE DEF Recursive
<1> DEFINE A(n) == {f \in [Nat -> T] : Approximates(f, n, z, G)}
           S == {n \in Nat : A(n) # {}}
           U == {n \in Nat : \A f, g \in [Nat -> T] :
                    Approximates(f, n, z, G) /\ Approximates(g, n, z, G) => f[n] = g[n]}
<1>1. \A n \in Nat : n \in S
  <2>1. 0 \in S
    <3>1. [k \in Nat |-> z] \in A(0)
      BY DEF Approximates
    <3> QED BY <3>1
  <2>2. ASSUME NEW n \in S PROVE n + 1 \in S
    <3>1. PICK f \in [Nat -> T] : Approximates(f, n, z, G)
      OBVIOUS
    <3> DEFINE g == [f EXCEPT ![n + 1] = G[<<n, f[n]>>]]
    <3>2. n \in Nat /\ <<n, f[n]>> \in Nat \X T
      OBVIOUS
    <3>3. g \in [Nat -> T]
      BY <3>2
    <3>4. \A k \in Nat : k # n + 1 => g[k] = f[k]
      OBVIOUS
    <3>5. g[n + 1] = G[<<n, f[n]>>]
      BY <3>2
    <3> HIDE DEF g
    <3>6. Approximates(g, n + 1, z, G)
      BY <3>1, <3>2, <3>4, <3>5 DEF Approximates
    <3> QED BY <3>2, <3>3, <3>6
  <2> HIDE DEF S
  <2>3. S \in SUBSET Nat
    BY DEF S
  <2> QED BY <2>1, <2>2, <2>3, SetInduction
<1>2. \A n \in Nat : n \in U
  <2>1. 0 \in U
    BY DEF Approximates
  <2>2. ASSUME NEW n \in U PROVE n + 1 \in U
    <3> SUFFICES ASSUME NEW f \in [Nat -> T], NEW g \in [Nat -> T],
                        Approximates(f, n + 1, z, G), Approximates(g, n + 1, z, G)
                 PROVE  f[n + 1] = g[n + 1]
      OBVIOUS
    <3>1. n \in Nat
      OBVIOUS
    <3>2. Approximates(f, n, z, G) /\ Approximates(g, n, z, G)
      BY <3>1 DEF Approximates
    <3>3. f[n] = g[n]
      BY <3>2
    <3>4. n \in 0..(n + 1) /\ n < n + 1
      BY <3>1
    <3>5. f[n + 1] = G[<<n, f[n]>>] /\ g[n + 1] = G[<<n, g[n]>>]
      BY <3>4 DEF Approximates
    <3> QED BY <3>3, <3>5
  <2> HIDE DEF U
  <2>3. U \in SUBSET Nat
    BY DEF U
  <2> QED BY <2>1, <2>2, <2>3, SetInduction
<1> DEFINE F(n) == CHOOSE f \in [Nat -> T] : Approximates(f, n, z, G)
           h == [n \in Nat |-> F(n)[n]]
<1>3. ASSUME NEW n \in Nat PROVE F(n) \in [Nat -> T] /\ Approximates(F(n), n, z, G)
  <2>1. \E f \in [Nat -> T] : Approximates(f, n, z, G)
    BY <1>1
  <2> HIDE DEF A, S
  <2> QED BY <2>1
<1> HIDE DEF F
<1>4. h \in [Nat -> T]
  BY <1>3
<1>5. h[0] = z
  BY <1>3 DEF Approximates
<1>6. ASSUME NEW n \in Nat PROVE h[n + 1] = G[<<n, h[n]>>]
  <2>1. Approximates(F(n + 1), n, z, G)
    BY <1>3 DEF Approximates
  <2>2. F(n + 1)[n] = F(n)[n]
    BY <1>2, <1>3, <2>1
  <2>3. F(n + 1)[n + 1] = G[<<n, F(n + 1)[n]>>]
    BY <1>3 DEF Approximates
  <2> QED BY <2>2, <2>3
<1> QED BY <1>4, <1>5, <1>6 DEF Follows

----------------------------------------------------------------------------
(* Numbers: slots and indexes.                                             *)

LEMMA DivMod ==
    \A i \in Nat, d \in Nat \ {0} :
        i % d \in 0..(d - 1) /\ i \div d \in Nat /\ i = d * (i \div d) + (i % d)
OBVIOUS

LEMMA DivUnique ==
    \A d \in Nat \ {0}, q, r \in Nat :
        r < d => (d * q + r) % d = r /\ (d * q + r) \div d = q
OBVIOUS

LEMMA ModSmall == \A i \in Nat, d \in Nat \ {0} : i < d => i % d = i /\ i \div d = 0
OBVIOUS

LEMMA ModOfProduct ==
    ASSUME NEW a \in Nat \ {0}, NEW b \in Nat \ {0}, NEW i \in Nat
    PROVE  i % (a * b) = (a * ((i \div a) % b)) + (i % a)
<1> DEFINE q == i \div a
           r == i % a
           s == q \div b
           t == q % b
<1>1. q \in Nat /\ r \in 0..(a - 1) /\ i = a * q + r
  BY DivMod
<1>2. s \in Nat /\ t \in 0..(b - 1) /\ q = b * s + t
  BY <1>1, DivMod
<1> HIDE DEF q, r, s, t
<1>3. a * b \in Nat \ {0}
  OBVIOUS
<1>4. (a * t) + r \in Nat /\ (a * t) + r < a * b
  <2>1. a * t <= a * (b - 1)
    BY <1>2
  <2>2. a * (b - 1) = (a * b) - a
    OBVIOUS
  <2>3. a * t \in Nat /\ a * b \in Nat
    BY <1>2
  <2> QED BY <1>1, <2>1, <2>2, <2>3
<1>5. i = ((a * b) * s) + ((a * t) + r)
  BY <1>1, <1>2
<1>6. i % (a * b) = (a * t) + r
  BY <1>2, <1>3, <1>4, <1>5, DivUnique
<1> QED BY <1>3, <1>6 DEF q, r, t

\* A number below a * b begins with a digit below b.
LEMMA DivBelow ==
    ASSUME NEW a \in Nat \ {0}, NEW b \in Nat \ {0}, NEW i \in Nat, i < a * b
    PROVE  i \div a < b
<1>1. i \div a \in Nat /\ i % a \in Nat /\ i = a * (i \div a) + (i % a)
  BY DivMod
<1> DEFINE q == i \div a
<1> HIDE DEF q
<1>2. ASSUME q >= b PROVE FALSE
  <2>1. q \in Nat
    BY <1>1 DEF q
  <2>2. a * q >= a * b
    BY <1>2, <2>1
  <2> QED BY <1>1, <2>1, <2>2 DEF q
<1> QED BY <1>1, <1>2 DEF q

LEMMA SpanIs ==
    ASSUME Sizes
    PROVE  /\ Span(0) = LeafSize
           /\ \A h \in Nat : Span(h + 1) = Span(h) * InnerSize
           /\ \A h \in Nat : Span(h) \in Nat \ {0}
<1> DEFINE G == [p \in Nat \X Nat |-> p[2] * InnerSize]
           E(f) == [k \in Nat |-> IF k = 0 THEN LeafSize ELSE f[k - 1] * InnerSize]
           span == CHOOSE f : f = E(f)
<1>1. \E f : f = E(f)
  <2>1. Recursive(Nat, LeafSize, G)
    BY DEF Sizes, Recursive
  <2>2. PICK f : Follows(f, Nat, LeafSize, G)
    BY <2>1, RecursionExists
  <2> USE DEF Follows
  <2>3. ASSUME NEW k \in Nat PROVE f[k] = E(f)[k]
    <3>1. CASE k = 0
      BY <2>2, <3>1
    <3>2. CASE k # 0
      <4>1. k - 1 \in Nat /\ (k - 1) + 1 = k
        BY <3>2
      <4>2. f[k] = G[<<k - 1, f[k - 1]>>]
        BY <2>2, <4>1
      <4> QED BY <2>2, <3>2, <4>1, <4>2
    <3> QED BY <3>1, <3>2
  <2>4. f = E(f)
    BY <2>2, <2>3
  <2> QED BY <2>4
<1>2. span = E(span)
  BY <1>1
<1>3. \A h : Span(h) = span[h]
  BY DEF Span
<1> HIDE DEF span
<1>4. span[0] = LeafSize /\ \A h \in Nat : span[h + 1] = span[h] * InnerSize
  BY <1>2
<1> DEFINE S == {h \in Nat : span[h] \in Nat \ {0}}
<1>5. \A h \in Nat : h \in S
  <2>1. 0 \in S /\ S \in SUBSET Nat
    BY <1>4 DEF Sizes
  <2>2. ASSUME NEW h \in S PROVE h + 1 \in S
    BY <1>4 DEF Sizes
  <2> HIDE DEF S
  <2> QED BY <2>1, <2>2, SetInduction
<1> QED BY <1>3, <1>4, <1>5

\* The indexes i and j are in the same place below a node of height h.
SamePlace(h, i, j) == i % Span(h) = j % Span(h)

LEMMA SlotIs ==
    ASSUME Sizes, NEW h \in Nat, NEW i \in Nat
    PROVE  /\ SlotAt(h, i) \in Nat
           /\ SlotAt(0, i) = i % LeafSize
           /\ SlotAt(h + 1, i) = (i \div Span(h)) % InnerSize
<1>1. /\ LeafSize \in Nat \ {0} /\ InnerSize \in Nat \ {0}
      /\ \A k \in Nat : Span(k) \in Nat \ {0}
  BY SpanIs DEF Sizes
<1>2. CASE h = 0
  BY <1>1, <1>2, DivMod DEF SlotAt
<1>3. CASE h # 0
  <2>1. h - 1 \in Nat /\ Span(h - 1) \in Nat \ {0}
    BY <1>1, <1>3
  <2>2. i \div Span(h - 1) \in Nat
    BY <2>1, DivMod
  <2>3. (i \div Span(h - 1)) % InnerSize \in Nat
    BY <1>1, <2>2, DivMod
  <2> QED BY <1>3, <2>3 DEF SlotAt
<1>4. h + 1 # 0 /\ (h + 1) - 1 = h
  OBVIOUS
<1> QED BY <1>2, <1>3, <1>4 DEF SlotAt

\* The place is the slot and the place below it.
LEMMA SamePlaceSplit ==
    ASSUME Sizes, NEW h \in Nat, NEW i \in Nat, NEW j \in Nat
    PROVE  /\ SamePlace(0, i, j) <=> SlotAt(0, i) = SlotAt(0, j)
           /\ SamePlace(h + 1, i, j) <=>
                 SlotAt(h + 1, i) = SlotAt(h + 1, j) /\ SamePlace(h, i, j)
<1>1. SamePlace(0, i, j) <=> SlotAt(0, i) = SlotAt(0, j)
  <2>1. Span(0) = LeafSize
    BY SpanIs
  <2>2. SlotAt(0, i) = i % LeafSize /\ SlotAt(0, j) = j % LeafSize
    BY SlotIs
  <2> QED BY <2>1, <2>2 DEF SamePlace
<1> DEFINE a == Span(h)
           b == InnerSize
           q(x) == (x \div a) % b
           r(x) == x % a
<1>2. a \in Nat \ {0} /\ b \in Nat \ {0} /\ Span(h + 1) = a * b
  BY SpanIs DEF Sizes
<1> HIDE DEF a, b
<1>3. ASSUME NEW x \in Nat
      PROVE  q(x) \in Nat /\ r(x) \in Nat /\ r(x) < a /\ x % (a * b) = (a * q(x)) + r(x)
  <2>1. x \div a \in Nat /\ x % a \in 0..(a - 1)
    BY <1>2, DivMod
  <2>2. (x \div a) % b \in Nat
    BY <1>2, <2>1, DivMod
  <2>3. x % (a * b) = (a * ((x \div a) % b)) + (x % a)
    BY <1>2, ModOfProduct
  <2> QED BY <1>2, <2>1, <2>2, <2>3
<1>4. i % (a * b) = j % (a * b) <=> q(i) = q(j) /\ r(i) = r(j)
  <2> HIDE DEF q, r
  <2>1. ASSUME i % (a * b) = j % (a * b) PROVE q(i) = q(j) /\ r(i) = r(j)
    <3>1. (a * q(i)) + r(i) = (a * q(j)) + r(j)
      BY <1>3, <2>1
    <3>2. ((a * q(i)) + r(i)) % a = r(i) /\ ((a * q(i)) + r(i)) \div a = q(i)
      BY <1>2, <1>3, DivUnique
    <3>3. ((a * q(j)) + r(j)) % a = r(j) /\ ((a * q(j)) + r(j)) \div a = q(j)
      BY <1>2, <1>3, DivUnique
    <3> QED BY <3>1, <3>2, <3>3
  <2> QED BY <1>3, <2>1
<1>5. SamePlace(h + 1, i, j) <=> q(i) = q(j) /\ r(i) = r(j)
  BY <1>2, <1>4 DEF SamePlace
<1>6. SlotAt(h + 1, i) = q(i) /\ SlotAt(h + 1, j) = q(j)
  BY SlotIs DEF a, b
<1>7. SamePlace(h, i, j) <=> r(i) = r(j)
  BY DEF SamePlace, a
<1> QED BY <1>1, <1>5, <1>6, <1>7

\* Places are counted from 0 to the span.
LEMMA PlaceIn ==
    ASSUME Sizes, NEW h \in Nat, NEW i \in Nat
    PROVE  /\ i % Span(h) \in 0..(Span(h) - 1)
           /\ SamePlace(h, i, i % Span(h))
           /\ i < Span(h) => i % Span(h) = i
<1>1. Span(h) \in Nat \ {0}
  BY SpanIs
<1>2. i % Span(h) \in 0..(Span(h) - 1) /\ i % Span(h) \in Nat /\ i % Span(h) < Span(h)
  BY <1>1, DivMod
<1>3. (i % Span(h)) % Span(h) = i % Span(h)
  BY <1>1, <1>2, ModSmall
<1> QED BY <1>1, <1>2, <1>3, ModSmall DEF SamePlace

\* Below child 0 are the indexes that need a height less.
LEMMA FirstSlot ==
    ASSUME Sizes, NEW h \in Nat, NEW i \in Nat, i < Span(h + 1)
    PROVE  SlotAt(h + 1, i) = 0 <=> i < Span(h)
<1> DEFINE a == Span(h)
           q == i \div a
<1>1. a \in Nat \ {0} /\ InnerSize \in Nat \ {0} /\ i < a * InnerSize
  BY SpanIs DEF Sizes
<1>2. q \in Nat /\ q < InnerSize /\ i % a \in 0..(a - 1) /\ i = a * q + (i % a)
  BY <1>1, DivMod, DivBelow
<1>3. q % InnerSize = q
  BY <1>1, <1>2, ModSmall
<1>4. SlotAt(h + 1, i) = q
  BY <1>3, SlotIs
<1>5. i < a => q = 0
  BY <1>1, ModSmall
<1>6. q = 0 => i < a
  BY <1>1, <1>2
<1> QED BY <1>4, <1>5, <1>6

LEMMA ProductSteps ==
    ASSUME NEW a \in Nat \ {0}, NEW b \in Nat, NEW s \in Nat
    PROVE  /\ a * s \in Nat
           /\ s < b => (a * s) + a <= a * b
           /\ s # 0 => a <= a * s
<1>1. a * s \in Nat
  OBVIOUS
<1>2. ASSUME s < b PROVE (a * s) + a <= a * b
  <2> DEFINE d == b - (s + 1)
  <2>1. d \in Nat /\ b = (s + 1) + d
    BY <1>2
  <2> HIDE DEF d
  <2>2. a * b = ((a * s) + a) + (a * d) /\ a * d \in Nat
    BY <2>1
  <2> QED BY <1>1, <2>2
<1>3. ASSUME s # 0 PROVE a <= a * s
  <2> DEFINE d == s - 1
  <2>1. d \in Nat /\ s = 1 + d
    BY <1>3
  <2> HIDE DEF d
  <2>2. a * s = a + (a * d) /\ a * d \in Nat
    BY <2>1
  <2> QED BY <2>2
<1> QED BY <1>1, <1>2, <1>3

\* There is an index in slot s and, below it, in the place of j.
\* Index l of those below slot s.
LEMMA PlaceExact ==
    ASSUME Sizes, NEW h \in Nat, NEW s \in Nat, s < InnerSize, NEW l \in Nat, l < Span(h),
           NEW x, x = (Span(h) * s) + l
    PROVE  /\ x \in Nat /\ x < Span(h + 1) /\ (s # 0 => ~ (x < Span(h)))
           /\ SlotAt(h + 1, x) = s /\ x % Span(h) = l
<1> DEFINE a == Span(h)
<1>1. a \in Nat \ {0} /\ InnerSize \in Nat \ {0} /\ Span(h + 1) = a * InnerSize
  BY SpanIs DEF Sizes
<1>2. l \in Nat /\ l < a /\ x = (a * s) + l
  OBVIOUS
<1>3. x % a = l /\ x \div a = s
  <2>1. (a * s + l) % a = l /\ (a * s + l) \div a = s
    <3> HIDE DEF a
    <3> QED BY <1>1, <1>2, DivUnique
  <2> QED BY <1>2, <2>1
<1>4. /\ a * s \in Nat
      /\ (a * s) + a <= a * InnerSize
      /\ s # 0 => a <= a * s
  <2> HIDE DEF a
  <2> QED BY <1>1, ProductSteps
<1> DEFINE low == a * s
           high == a * InnerSize
<1>5. x \in Nat /\ x < high /\ (s # 0 => ~ (x < a))
  <2>1. x = low + l /\ low \in Nat /\ low + a <= high /\ (s # 0 => a <= low)
    BY <1>2, <1>4, Zenon
  <2>2. high \in Nat /\ a \in Nat
    BY <1>1
  <2>3. l \in Nat /\ l < a
    BY <1>2
  <2>4. \A y \in Nat : y + l \in Nat /\ y + l < y + a /\ y <= y + l
    BY <2>2, <2>3
  <2>5. \A y, z \in Nat : y + a <= z => y + l < z
    BY <2>2, <2>3
  <2>6. \A y \in Nat : a <= y => ~ (y + l < a)
    BY <2>2, <2>3
  <2> HIDE DEF low, high, a
  <2>7. x \in Nat /\ x < high
    BY <2>1, <2>2, <2>4, <2>5
  <2>8. ASSUME s # 0 PROVE ~ (x < a)
    BY <2>1, <2>6, <2>8
  <2> QED BY <2>7, <2>8
<1> HIDE DEF high
<1>6. SlotAt(h + 1, x) = s
  <2>1. SlotAt(h + 1, x) = (x \div a) % InnerSize
    BY <1>5, SlotIs
  <2>2. s % InnerSize = s
    BY <1>1, ModSmall
  <2> QED BY <1>3, <2>1, <2>2
<1> QED BY <1>1, <1>3, <1>5, <1>6 DEF high

LEMMA PlaceAt ==
    ASSUME Sizes, NEW h \in Nat, NEW s \in Nat, s < InnerSize, NEW j \in Nat
    PROVE  \E x \in Nat : /\ x < Span(h + 1) /\ (s # 0 => ~ (x < Span(h)))
                          /\ SlotAt(h + 1, x) = s /\ SamePlace(h, j, x)
<1> DEFINE a == Span(h)
           l == j % a
           x == (a * s) + l
<1>1. l \in Nat /\ l < a
  <2>1. a \in Nat \ {0}
    BY SpanIs
  <2>2. l \in 0..(a - 1)
    <3> HIDE DEF a
    <3> QED BY <2>1, DivMod
  <2> HIDE DEF a, l
  <2> QED BY <2>1, <2>2
<1>2. x = (Span(h) * s) + l
  OBVIOUS
<1> HIDE DEF x
<1>3. /\ x \in Nat /\ x < Span(h + 1) /\ (s # 0 => ~ (x < Span(h)))
      /\ SlotAt(h + 1, x) = s /\ x % Span(h) = l
  <2> HIDE DEF l
  <2> QED BY <1>1, <1>2, PlaceExact
<1> QED BY <1>3 DEF SamePlace

LEMMA ProductGrows == \A a \in Nat \ {0}, b \in Nat \ {0, 1} : a < a * b
<1> SUFFICES ASSUME NEW a \in Nat \ {0}, NEW b \in Nat \ {0, 1} PROVE a < a * b
  OBVIOUS
<1>1. PICK c \in Nat \ {0} : b = c + 1
  <2>1. b - 1 \in Nat \ {0} /\ b = (b - 1) + 1
    OBVIOUS
  <2> QED BY <2>1
<1>2. a * b = (a * c) + a
  BY <1>1
<1>3. a * c \in Nat \ {0}
  OBVIOUS
<1> QED BY <1>2, <1>3

\* Spans grow, and cover every index in the end.
LEMMA SpanGrows ==
    ASSUME Sizes
    PROVE  /\ \A h \in Nat : Span(h) < Span(h + 1)
           /\ \A h \in Nat : h < Span(h)
<1>1. InnerSize \in Nat /\ InnerSize >= 2 /\ LeafSize \in Nat /\ LeafSize > 0
  BY DEF Sizes
<1>2. ASSUME NEW h \in Nat PROVE Span(h) < Span(h + 1)
  <2>1. Span(h) \in Nat /\ Span(h) > 0 /\ Span(h + 1) = Span(h) * InnerSize
    BY SpanIs
  <2> QED BY <1>1, <2>1, ProductGrows
<1> DEFINE S == {h \in Nat : h < Span(h)}
<1>3. \A h \in Nat : h \in S
  <2>1. 0 \in S
    BY <1>1, SpanIs
  <2>2. ASSUME NEW h \in S PROVE h + 1 \in S
    <3>1. h \in Nat /\ h < Span(h) /\ Span(h) \in Nat /\ Span(h + 1) \in Nat
      BY SpanIs
    <3> QED BY <1>2, <3>1
  <2> HIDE DEF S
  <2>3. S \in SUBSET Nat
    BY DEF S
  <2> QED BY <2>1, <2>2, <2>3, SetInduction
<1> QED BY <1>2, <1>3

----------------------------------------------------------------------------
(* Partial functions on the numbers, nodes and heaps.  V is the set of the   *)
(* values, None one of them.                                                 *)

Maps(S) == UNION {[D -> S] : D \in SUBSET Nat}

LEMMA MapIs ==
    ASSUME NEW S, NEW f
    PROVE  f \in Maps(S) <=>
              /\ f = [x \in DOMAIN f |-> f[x]]
              /\ DOMAIN f \subseteq Nat
              /\ \A x \in DOMAIN f : f[x] \in S
<1>1. ASSUME f \in Maps(S)
      PROVE  /\ f = [x \in DOMAIN f |-> f[x]]
             /\ DOMAIN f \subseteq Nat
             /\ \A x \in DOMAIN f : f[x] \in S
  <2>1. PICK D \in SUBSET Nat : f \in [D -> S]
    BY <1>1 DEF Maps
  <2> QED BY <2>1
<1>2. ASSUME f = [x \in DOMAIN f |-> f[x]], DOMAIN f \subseteq Nat,
             \A x \in DOMAIN f : f[x] \in S
      PROVE  f \in Maps(S)
  <2>1. f \in [DOMAIN f -> S]
    BY <1>2
  <2> QED BY <1>2, <2>1 DEF Maps
<1> QED BY <1>1, <1>2

\* g is f with x at s; g is f without s.
IsWith(g, f, s, x) ==
    /\ DOMAIN g = DOMAIN f \cup {s}
    /\ g[s] = x
    /\ \A t \in DOMAIN f : t # s => g[t] = f[t]
IsWithout(g, f, s) ==
    /\ DOMAIN g = DOMAIN f \ {s}
    /\ \A t \in DOMAIN f : t # s => g[t] = f[t]

LEMMA WithIs ==
    ASSUME NEW S, NEW f, f \in Maps(S), NEW s, s \in Nat, NEW x, x \in S
    PROVE  With(f, s, x) \in Maps(S) /\ IsWith(With(f, s, x), f, s, x)
<1>1. /\ f = [y \in DOMAIN f |-> f[y]]
      /\ DOMAIN f \subseteq Nat
      /\ \A y \in DOMAIN f : f[y] \in S
  BY MapIs
<1> DEFINE g == With(f, s, x)
<1>2. /\ g = [t \in DOMAIN g |-> g[t]]
      /\ DOMAIN g = DOMAIN f \cup {s}
      /\ g[s] = x
      /\ \A t \in DOMAIN f : t # s => g[t] = f[t]
  BY DEF With
<1> HIDE DEF g
<1>3. DOMAIN g \subseteq Nat /\ \A t \in DOMAIN g : g[t] \in S
  BY <1>1, <1>2
<1>4. g \in Maps(S)
  BY <1>2, <1>3, MapIs
<1> QED BY <1>2, <1>4 DEF g, IsWith

LEMMA WithoutIs ==
    ASSUME NEW S, NEW f, f \in Maps(S), NEW s
    PROVE  Without(f, s) \in Maps(S) /\ IsWithout(Without(f, s), f, s)
<1>1. /\ f = [y \in DOMAIN f |-> f[y]]
      /\ DOMAIN f \subseteq Nat
      /\ \A y \in DOMAIN f : f[y] \in S
  BY MapIs
<1> DEFINE g == Without(f, s)
<1>2. /\ g = [t \in DOMAIN g |-> g[t]]
      /\ DOMAIN g = DOMAIN f \ {s}
      /\ \A t \in DOMAIN f : t # s => g[t] = f[t]
  BY DEF Without, Restrict
<1> HIDE DEF g
<1>3. DOMAIN g \subseteq Nat /\ \A t \in DOMAIN g : g[t] \in S
  BY <1>1, <1>2
<1>4. g \in Maps(S)
  BY <1>2, <1>3, MapIs
<1> QED BY <1>2, <1>4 DEF g, IsWithout

NodeSet(V) == [epoch : Nat, used : Int, vals : Maps(V), kids : Maps(Nat)]

\* The children of a node exist.
Closed(m) == \A x \in DOMAIN m : \A s \in DOMAIN m[x].kids : m[x].kids[s] \in DOMAIN m
Finite(m) == IsFiniteSet(DOMAIN m) /\ Nil \notin DOMAIN m
Heap(V)   == {m \in Maps(NodeSet(V)) : Finite(m)}

LEMMA NodeIs ==
    ASSUME NEW V, NEW x \in NodeSet(V)
    PROVE  x.epoch \in Nat /\ x.used \in Int /\ x.vals \in Maps(V) /\ x.kids \in Maps(Nat)
BY DEF NodeSet

\* A node with another epoch, other values, other children.
Stamped(x, e)     == [x EXCEPT !.epoch = e]
Refilled(x, u, f) == [x EXCEPT !.used = u, !.vals = f]
Relinked(x, u, g) == [x EXCEPT !.used = u, !.kids = g]

Has(x, e, u, f, g) == x.epoch = e /\ x.used = u /\ x.vals = f /\ x.kids = g

LEMMA StampedIs ==
    ASSUME NEW V, NEW x, x \in NodeSet(V), NEW e \in Nat
    PROVE  Stamped(x, e) \in NodeSet(V) /\ Has(Stamped(x, e), e, x.used, x.vals, x.kids)
BY DEF NodeSet, Stamped, Has

LEMMA RefilledIs ==
    ASSUME NEW V, NEW x, x \in NodeSet(V), NEW u, u \in Int, NEW f, f \in Maps(V)
    PROVE  Refilled(x, u, f) \in NodeSet(V) /\ Has(Refilled(x, u, f), x.epoch, u, f, x.kids)
BY DEF NodeSet, Refilled, Has

LEMMA RelinkedIs ==
    ASSUME NEW V, NEW x, x \in NodeSet(V), NEW u, u \in Int, NEW g, g \in Maps(Nat)
    PROVE  Relinked(x, u, g) \in NodeSet(V) /\ Has(Relinked(x, u, g), x.epoch, u, x.vals, g)
BY DEF NodeSet, Relinked, Has

LEMMA BlankIs ==
    ASSUME NEW V
    PROVE  Blank \in NodeSet(V) /\ Blank.vals = << >> /\ Blank.kids = << >>
<1>1. DOMAIN << >> = {} /\ << >> = [x \in {} |-> 0]
  OBVIOUS
<1>2. << >> \in Maps(V) /\ << >> \in Maps(Nat)
  <2>1. << >> = [x \in DOMAIN << >> |-> << >>[x]]
    OBVIOUS
  <2> QED BY <1>1, <2>1, MapIs
<1>3. 0 \in Nat /\ 0 \in Int
  OBVIOUS
<1> QED BY <1>2, <1>3 DEF Blank, NodeSet

LEMMA HeapIs ==
    ASSUME NEW V, NEW m \in Heap(V)
    PROVE  /\ DOMAIN m \subseteq Nat \ {Nil}
           /\ IsFiniteSet(DOMAIN m)
           /\ \A x \in DOMAIN m : m[x] \in NodeSet(V)
           /\ \A x \in DOMAIN m \cup {Nil} : NodeAt(m, x) \in NodeSet(V)
<1>1. m \in Maps(NodeSet(V)) /\ Finite(m)
  BY DEF Heap
<1>2. DOMAIN m \subseteq Nat /\ \A x \in DOMAIN m : m[x] \in NodeSet(V)
  BY <1>1, MapIs
<1>3. \A x \in DOMAIN m \cup {Nil} : NodeAt(m, x) \in NodeSet(V)
  BY <1>2, BlankIs DEF NodeAt
<1> QED BY <1>1, <1>2, <1>3 DEF Finite

----------------------------------------------------------------------------
(* The recursive definitions, one level at a time.                         *)

LEMMA KidIs ==
    ASSUME NEW V, NEW m \in Heap(V), Closed(m), NEW x \in DOMAIN m \cup {Nil}, NEW s
    PROVE  Kid(NodeAt(m, x), s) \in DOMAIN m \cup {Nil}
<1>1. CASE x = Nil
  BY <1>1, BlankIs DEF Kid, NodeAt
<1>2. CASE x # Nil
  BY <1>2 DEF Kid, NodeAt, Closed
<1> QED BY <1>1, <1>2

LEMMA GetUnfold ==
    ASSUME Sizes, NEW V, None \in V, NEW m \in Heap(V), Closed(m), NEW i \in Nat
    PROVE  /\ \A k \in Nat : GetBelow(m, Nil, k, i) = None
           /\ \A x \in DOMAIN m : GetBelow(m, x, 0, i) = Val(m[x], SlotAt(0, i))
           /\ \A k \in Nat, x \in DOMAIN m :
                 GetBelow(m, x, k + 1, i) = GetBelow(m, Kid(m[x], SlotAt(k + 1, i)), k, i)
<1> DEFINE D == DOMAIN m \cup {Nil}
           Z == [x \in D |-> IF x = Nil THEN None ELSE Val(m[x], SlotAt(0, i))]
           N(k, g) == [x \in D |-> IF x = Nil THEN None
                                   ELSE g[Kid(m[x], SlotAt(k, i))]]
           E(f) == [k \in Nat |->
                      [x \in D |-> IF x = Nil THEN None
                                   ELSE IF k = 0 THEN Val(m[x], SlotAt(0, i))
                                   ELSE f[k - 1][Kid(m[x], SlotAt(k, i))]]]
           get == CHOOSE f : f = E(f)
           T == [D -> V]
           G == [p \in Nat \X T |-> N(p[1] + 1, p[2])]
<1>1. \A x \in DOMAIN m : x # Nil /\ m[x] \in NodeSet(V) /\ NodeAt(m, x) = m[x]
  BY HeapIs DEF NodeAt
<1>2. \A x \in DOMAIN m : \A s : Kid(m[x], s) \in D /\ Val(m[x], s) \in V
  <2> SUFFICES ASSUME NEW x \in DOMAIN m, NEW s
               PROVE  Kid(m[x], s) \in D /\ Val(m[x], s) \in V
    OBVIOUS
  <2>1. Kid(m[x], s) \in D
    BY <1>1, KidIs
  <2>2. m[x].vals \in Maps(V)
    BY <1>1, NodeIs
  <2>3. Val(m[x], s) \in V
    BY <2>2, MapIs DEF Val
  <2> QED BY <2>1, <2>3
<1>3. \E f : f = E(f)
  <2>1. Z \in T
    BY <1>2
  <2>2. ASSUME NEW k \in Nat, NEW g \in T PROVE N(k + 1, g) \in T
    BY <1>2
  <2>3. G \in [Nat \X T -> T]
    BY <2>2
  <2>4. \A k \in Nat, g \in T : G[<<k, g>>] = N(k + 1, g)
    OBVIOUS
  <2> HIDE DEF T, G, Z, N
  <2>5. PICK f : Follows(f, T, Z, G)
    BY <2>1, <2>3, RecursionExists DEF Recursive
  <2>6. f \in [Nat -> T] /\ f[0] = Z /\ \A k \in Nat : f[k + 1] = N(k + 1, f[k])
    BY <2>4, <2>5 DEF Follows
  <2>7. ASSUME NEW k \in Nat PROVE f[k] = E(f)[k]
    <3>1. CASE k = 0
      BY <2>6, <3>1 DEF Z
    <3>2. CASE k # 0
      <4>1. k - 1 \in Nat /\ (k - 1) + 1 = k
        BY <3>2
      <4>2. f[k] = N(k, f[k - 1])
        BY <2>6, <4>1
      <4> QED BY <3>2, <4>2 DEF N
    <3> QED BY <3>1, <3>2
  <2>8. f = E(f)
    BY <2>6, <2>7
  <2> QED BY <2>8
<1>4. get = E(get)
  BY <1>3
<1>5. \A x, k : GetBelow(m, x, k, i) = get[k][x]
  BY DEF GetBelow
<1> HIDE DEF get
<1>6. \A k \in Nat : get[k][Nil] = None
  BY <1>4
<1>7. \A x \in DOMAIN m : get[0][x] = Val(m[x], SlotAt(0, i))
  BY <1>1, <1>4
<1>8. ASSUME NEW k \in Nat, NEW x \in DOMAIN m
      PROVE  get[k + 1][x] = get[k][Kid(m[x], SlotAt(k + 1, i))]
  <2>1. k + 1 \in Nat /\ k + 1 # 0 /\ (k + 1) - 1 = k
    OBVIOUS
  <2> QED BY <1>1, <1>4, <2>1
<1> QED BY <1>5, <1>6, <1>7, <1>8

\* The nodes below n, of height h, of the children of x.
Below(m, x, h) == UNION {Nodes(m, m[x].kids[s], h) : s \in DOMAIN m[x].kids}

LEMMA NodesUnfold ==
    ASSUME NEW V, NEW m \in Heap(V), Closed(m)
    PROVE  /\ \A k \in Nat : Nodes(m, Nil, k) = {}
           /\ \A x \in DOMAIN m : Nodes(m, x, 0) = {x}
           /\ \A k \in Nat, x \in DOMAIN m : Nodes(m, x, k + 1) = {x} \cup Below(m, x, k)
<1> DEFINE D == DOMAIN m \cup {Nil}
           Z == [x \in D |-> IF x = Nil THEN {} ELSE {x}]
           U(g, x) == UNION {g[m[x].kids[s]] : s \in DOMAIN m[x].kids}
           N(g) == [x \in D |-> IF x = Nil THEN {} ELSE {x} \cup U(g, x)]
           E(f) == [k \in Nat |->
                      [x \in D |-> IF x = Nil THEN {}
                                   ELSE IF k = 0 THEN {x}
                                   ELSE {x} \cup UNION {f[k - 1][m[x].kids[s]]
                                                           : s \in DOMAIN m[x].kids}]]
           below == CHOOSE f : f = E(f)
           T == [D -> SUBSET D]
           G == [p \in Nat \X T |-> N(p[2])]
<1>1. \A x \in DOMAIN m : x # Nil /\ \A s \in DOMAIN m[x].kids : m[x].kids[s] \in D
  BY HeapIs DEF Closed
<1>2. \E f : f = E(f)
  <2>1. Z \in T
    OBVIOUS
  <2>2. ASSUME NEW g \in T PROVE N(g) \in T
    BY <1>1
  <2>3. G \in [Nat \X T -> T]
    BY <2>2
  <2>4. \A k \in Nat, g \in T : G[<<k, g>>] = N(g)
    OBVIOUS
  <2> HIDE DEF T, G, Z, N
  <2>5. PICK f : Follows(f, T, Z, G)
    BY <2>1, <2>3, RecursionExists DEF Recursive
  <2>6. f \in [Nat -> T] /\ f[0] = Z /\ \A k \in Nat : f[k + 1] = N(f[k])
    BY <2>4, <2>5 DEF Follows
  <2>7. ASSUME NEW k \in Nat PROVE f[k] = E(f)[k]
    <3>1. CASE k = 0
      BY <2>6, <3>1 DEF Z
    <3>2. CASE k # 0
      <4>1. k - 1 \in Nat /\ (k - 1) + 1 = k
        BY <3>2
      <4>2. f[k] = N(f[k - 1])
        BY <2>6, <4>1
      <4> QED BY <3>2, <4>2 DEF N
    <3> QED BY <3>1, <3>2
  <2>8. f = E(f)
    BY <2>6, <2>7
  <2> QED BY <2>8
<1>3. below = E(below)
  BY <1>2
<1>4. \A x, k : Nodes(m, x, k) = below[k][x]
  BY DEF Nodes
<1> HIDE DEF below
<1>5. \A k \in Nat : below[k][Nil] = {}
  BY <1>3
<1>6. \A x \in DOMAIN m : below[0][x] = {x}
  BY <1>1, <1>3
<1>7. ASSUME NEW k \in Nat, NEW x \in DOMAIN m
      PROVE  below[k + 1][x] = {x} \cup U(below[k], x)
  <2>1. k + 1 \in Nat /\ k + 1 # 0 /\ (k + 1) - 1 = k
    OBVIOUS
  <2>2. E(below)[k + 1] = N(below[k])
    BY <2>1
  <2>3. N(below[k])[x] = {x} \cup U(below[k], x)
    BY <1>1
  <2> QED BY <1>3, <2>2, <2>3
<1>8. ASSUME NEW k \in Nat, NEW x \in DOMAIN m
      PROVE  Below(m, x, k) = U(below[k], x)
  BY <1>4 DEF Below
<1> QED BY <1>4, <1>5, <1>6, <1>7, <1>8

LEMMA NodesIn ==
    ASSUME NEW V, NEW m \in Heap(V), Closed(m), NEW k \in Nat, NEW x \in DOMAIN m \cup {Nil}
    PROVE  Nodes(m, x, k) \subseteq DOMAIN m
<1> DEFINE S == {h \in Nat : \A y \in DOMAIN m \cup {Nil} : Nodes(m, y, h) \subseteq DOMAIN m}
<1>1. 0 \in S
  BY NodesUnfold
<1>2. ASSUME NEW h \in S PROVE h + 1 \in S
  <2>1. h \in Nat /\ h + 1 \in Nat
    OBVIOUS
  <2>2. ASSUME NEW y \in DOMAIN m PROVE Nodes(m, y, h + 1) \subseteq DOMAIN m
    <3>1. \A s \in DOMAIN m[y].kids : Nodes(m, m[y].kids[s], h) \subseteq DOMAIN m
      BY DEF Closed
    <3>2. Below(m, y, h) \subseteq DOMAIN m
      BY <3>1 DEF Below
    <3> QED BY <2>1, <3>2, NodesUnfold
  <2>3. Nodes(m, Nil, h + 1) \subseteq DOMAIN m
    BY <2>1, NodesUnfold
  <2> QED BY <2>1, <2>2, <2>3
<1> HIDE DEF S
<1>3. S \in SUBSET Nat
  BY DEF S
<1>4. k \in S
  BY <1>1, <1>2, <1>3, SetInduction
<1> QED BY <1>4 DEF S

\* What x counts and has below it at height h is as it should be.
Exact(m, x, h) == m[x].used = Cardinality(Filled(m, x, h)) /\ m[x].used # 0

LEMMA WholeUnfold ==
    ASSUME NEW m
    PROVE  /\ \A x : x \in Whole(m, 0) <=> x \in DOMAIN m /\ Exact(m, x, 0)
           /\ \A k \in Nat : \A x :
                 x \in Whole(m, k + 1) <=>
                    /\ x \in DOMAIN m
                    /\ Exact(m, x, k + 1)
                    /\ Apart(m, x, k)
                    /\ \A s \in DOMAIN m[x].kids : m[x].kids[s] \in Whole(m, k)
<1> DEFINE D == DOMAIN m
           Z == [x \in D |-> Exact(m, x, 0)]
           B(k, g, x) == /\ Exact(m, x, k)
                         /\ Apart(m, x, k - 1)
                         /\ \A s \in DOMAIN m[x].kids :
                               m[x].kids[s] \in DOMAIN m /\ g[m[x].kids[s]]
           N(k, g) == [x \in D |-> B(k, g, x)]
           E(f) == [k \in Nat |->
                      [x \in D |->
                         /\ m[x].used = Cardinality(Filled(m, x, k))
                         /\ m[x].used # 0
                         /\ k # 0 => /\ Apart(m, x, k - 1)
                                     /\ \A s \in DOMAIN m[x].kids :
                                           /\ m[x].kids[s] \in DOMAIN m
                                           /\ f[k - 1][m[x].kids[s]]]]
           whole == CHOOSE f : f = E(f)
           T == [D -> BOOLEAN]
           G == [p \in Nat \X T |-> N(p[1] + 1, p[2])]
<1>1. ASSUME NEW f, NEW k \in Nat
      PROVE  E(f)[k] = IF k = 0 THEN Z ELSE N(k, f[k - 1])
  <2>1. CASE k = 0
    BY <2>1 DEF Exact
  <2>2. CASE k # 0
    BY <2>2 DEF Exact
  <2> QED BY <2>1, <2>2
<1>2. \E f : f = E(f)
  <2>1. Z \in T
    BY DEF Exact
  <2>2. ASSUME NEW k \in Nat, NEW g \in T PROVE N(k + 1, g) \in T
    <3>1. ASSUME NEW x \in D PROVE B(k + 1, g, x) \in BOOLEAN
      BY DEF Exact
    <3> HIDE DEF B
    <3> QED BY <3>1
  <2> HIDE DEF N
  <2>3. G \in [Nat \X T -> T]
    BY <2>2
  <2>4. \A k \in Nat, g \in T : G[<<k, g>>] = N(k + 1, g)
    OBVIOUS
  <2> HIDE DEF T, G, Z
  <2>5. PICK f : Follows(f, T, Z, G)
    BY <2>1, <2>3, RecursionExists DEF Recursive
  <2>6. f \in [Nat -> T] /\ f[0] = Z /\ \A k \in Nat : f[k + 1] = N(k + 1, f[k])
    BY <2>4, <2>5 DEF Follows
  <2>7. ASSUME NEW k \in Nat PROVE f[k] = E(f)[k]
    <3> HIDE DEF E
    <3>1. CASE k = 0
      BY <1>1, <2>6, <3>1
    <3>2. CASE k # 0
      <4>1. k - 1 \in Nat /\ (k - 1) + 1 = k
        BY <3>2
      <4>2. f[k] = N(k, f[k - 1])
        BY <2>6, <4>1
      <4> QED BY <1>1, <3>2, <4>2
    <3> QED BY <3>1, <3>2
  <2>8. f = E(f)
    BY <2>6, <2>7
  <2> QED BY <2>8
<1>3. whole = E(whole)
  BY <1>2
<1>4. \A k, x : x \in Whole(m, k) <=> x \in D /\ whole[k][x]
  BY DEF Whole
<1> HIDE DEF whole, E, N
<1>5. whole[0] = Z
  BY <1>1, <1>3
<1>6. ASSUME NEW k \in Nat PROVE whole[k + 1] = N(k + 1, whole[k])
  <2>1. k + 1 \in Nat /\ k + 1 # 0 /\ (k + 1) - 1 = k
    OBVIOUS
  <2>2. E(whole)[k + 1] = N(k + 1, whole[k])
    BY <1>1, <2>1
  <2> QED BY <1>3, <2>2
<1>7. \A x : x \in Whole(m, 0) <=> x \in DOMAIN m /\ Exact(m, x, 0)
  BY <1>4, <1>5, Zenon DEF Z
<1>8. ASSUME NEW k \in Nat, NEW x
      PROVE  x \in Whole(m, k + 1) <=>
                    /\ x \in DOMAIN m
                    /\ Exact(m, x, k + 1)
                    /\ Apart(m, x, k)
                    /\ \A s \in DOMAIN m[x].kids : m[x].kids[s] \in Whole(m, k)
  <2>1. x \in Whole(m, k + 1) <=> x \in D /\ N(k + 1, whole[k])[x]
    BY <1>4, <1>6, Zenon
  <2>2. x \in D => (N(k + 1, whole[k])[x] <=> B(k + 1, whole[k], x))
    BY Zenon DEF N
  <2>3. (k + 1) - 1 = k
    OBVIOUS
  <2>4. B(k + 1, whole[k], x) <=>
           /\ Exact(m, x, k + 1)
           /\ Apart(m, x, k)
           /\ \A s \in DOMAIN m[x].kids : m[x].kids[s] \in DOMAIN m /\ whole[k][m[x].kids[s]]
    BY <2>3
  <2> HIDE DEF B
  <2>5. \A s : m[x].kids[s] \in Whole(m, k) <=>
                 m[x].kids[s] \in DOMAIN m /\ whole[k][m[x].kids[s]]
    BY <1>4, Zenon
  <2> QED BY <2>1, <2>2, <2>4, <2>5, Zenon
<1> QED BY <1>7, <1>8, Zenon

----------------------------------------------------------------------------
(* Nodes that are the same in two heaps.                                   *)

Keeps(m, o, S) == \A x \in S : x \in DOMAIN o /\ o[x] = m[x]

\* What is below n at height k is the same in o as in m.
Same(m, o, n, k) ==
    /\ Nodes(o, n, k) = Nodes(m, n, k)
    /\ \A i \in Nat : GetBelow(o, n, k, i) = GetBelow(m, n, k, i)
    /\ n \in Whole(m, k) => n \in Whole(o, k)

LEMMA SameFilled ==
    ASSUME Sizes, NEW m, NEW o, NEW n, NEW p, NEW k \in Nat,
           \A i \in Nat : GetBelow(o, p, k, i) = GetBelow(m, n, k, i)
    PROVE  Filled(o, p, k) = Filled(m, n, k)
<1>1. Span(k) \in Nat \ {0}
  BY SpanIs
<1>2. 0..(Span(k) - 1) \subseteq Nat
  BY <1>1
<1> QED BY <1>2 DEF Filled

LEMMA FrameIs ==
    ASSUME Sizes, NEW V, None \in V, NEW m \in Heap(V), NEW o \in Heap(V),
           Closed(m), Closed(o)
    PROVE  \A k \in Nat : \A n \in DOMAIN m \cup {Nil} :
              Keeps(m, o, Nodes(m, n, k)) => Same(m, o, n, k)
<1> DEFINE P(n, h) == Keeps(m, o, Nodes(m, n, h)) => Same(m, o, n, h)
           S == {h \in Nat : \A n \in DOMAIN m \cup {Nil} : P(n, h)}
<1>1. ASSUME NEW h \in Nat PROVE P(Nil, h)
  <2>1. Nil \notin Whole(m, h)
    <3>1. Nil \notin DOMAIN m
      BY HeapIs
    <3>2. CASE h = 0
      BY <3>1, <3>2, WholeUnfold
    <3>3. CASE h # 0
      <4>1. h - 1 \in Nat /\ (h - 1) + 1 = h
        BY <3>3
      <4> QED BY <3>1, <4>1, WholeUnfold
    <3> QED BY <3>2, <3>3
  <2>2. Nodes(m, Nil, h) = {} /\ Nodes(o, Nil, h) = {}
    BY NodesUnfold
  <2>3. ASSUME NEW i \in Nat
        PROVE  GetBelow(m, Nil, h, i) = None /\ GetBelow(o, Nil, h, i) = None
    <3>1. GetBelow(m, Nil, h, i) = None
      BY GetUnfold
    <3>2. GetBelow(o, Nil, h, i) = None
      BY GetUnfold
    <3> QED BY <3>1, <3>2
  <2> QED BY <2>1, <2>2, <2>3 DEF Same
<1>2. ASSUME NEW n \in DOMAIN m, Keeps(m, o, Nodes(m, n, 0)) PROVE Same(m, o, n, 0)
  <2>1. n \in DOMAIN o /\ o[n] = m[n]
    BY <1>2, NodesUnfold DEF Keeps
  <2>2. Nodes(o, n, 0) = Nodes(m, n, 0)
    <3>1. Nodes(o, n, 0) = {n}
      BY <2>1, NodesUnfold
    <3>2. Nodes(m, n, 0) = {n}
      BY NodesUnfold
    <3> QED BY <3>1, <3>2
  <2>3. ASSUME NEW i \in Nat PROVE GetBelow(o, n, 0, i) = GetBelow(m, n, 0, i)
    <3>1. GetBelow(o, n, 0, i) = Val(o[n], SlotAt(0, i))
      BY <2>1, GetUnfold
    <3>2. GetBelow(m, n, 0, i) = Val(m[n], SlotAt(0, i))
      BY GetUnfold
    <3> QED BY <2>1, <3>1, <3>2
  <2>4. Filled(o, n, 0) = Filled(m, n, 0)
    BY <2>3, SameFilled
  <2>5. n \in Whole(m, 0) => n \in Whole(o, 0)
    BY <2>1, <2>4, WholeUnfold DEF Exact
  <2> QED BY <2>2, <2>3, <2>5 DEF Same
<1>3. ASSUME NEW h \in S, NEW n \in DOMAIN m, Keeps(m, o, Nodes(m, n, h + 1))
      PROVE  Same(m, o, n, h + 1)
  <2>1. h \in Nat /\ h + 1 \in Nat
    OBVIOUS
  <2>2. Nodes(m, n, h + 1) = {n} \cup Below(m, n, h)
    BY <2>1, NodesUnfold
  <2>3. n \in DOMAIN o /\ o[n] = m[n]
    BY <1>3, <2>2 DEF Keeps
  <2>4. ASSUME NEW s \in DOMAIN m[n].kids PROVE Same(m, o, m[n].kids[s], h)
    <3>1. m[n].kids[s] \in DOMAIN m
      BY DEF Closed
    <3>2. Keeps(m, o, Nodes(m, m[n].kids[s], h))
      BY <1>3, <2>2 DEF Keeps, Below
    <3> QED BY <3>1, <3>2
  <2>5. Nodes(o, n, h + 1) = Nodes(m, n, h + 1)
    <3>1. Below(o, n, h) = Below(m, n, h)
      BY <2>3, <2>4 DEF Below, Same
    <3>2. Nodes(o, n, h + 1) = {n} \cup Below(o, n, h)
      BY <2>1, <2>3, NodesUnfold
    <3> QED BY <2>2, <3>1, <3>2
  <2>6. ASSUME NEW i \in Nat PROVE GetBelow(o, n, h + 1, i) = GetBelow(m, n, h + 1, i)
    <3> DEFINE s == SlotAt(h + 1, i)
    <3>1. /\ GetBelow(o, n, h + 1, i) = GetBelow(o, Kid(m[n], s), h, i)
          /\ GetBelow(m, n, h + 1, i) = GetBelow(m, Kid(m[n], s), h, i)
      BY <2>1, <2>3, GetUnfold
    <3> HIDE DEF s
    <3>2. CASE s \in DOMAIN m[n].kids
      BY <2>4, <3>1, <3>2 DEF Kid, Same
    <3>3. CASE s \notin DOMAIN m[n].kids
      <4>1. Kid(m[n], s) = Nil
        BY <3>3 DEF Kid
      <4> QED BY <2>1, <3>1, <4>1, GetUnfold
    <3> QED BY <3>2, <3>3
  <2>7. ASSUME n \in Whole(m, h + 1) PROVE n \in Whole(o, h + 1)
    <3>1. /\ Exact(m, n, h + 1)
          /\ Apart(m, n, h)
          /\ \A s \in DOMAIN m[n].kids : m[n].kids[s] \in Whole(m, h)
      BY <2>1, <2>7, WholeUnfold
    <3>2. Filled(o, n, h + 1) = Filled(m, n, h + 1)
      BY <2>1, <2>6, SameFilled
    <3>3. Exact(o, n, h + 1)
      BY <2>3, <3>1, <3>2 DEF Exact
    <3>4. Apart(o, n, h)
      BY <2>3, <2>4, <3>1 DEF Apart, Same
    <3>5. \A s \in DOMAIN o[n].kids : o[n].kids[s] \in Whole(o, h)
      BY <2>3, <2>4, <3>1 DEF Same
    <3> QED BY <2>1, <2>3, <3>3, <3>4, <3>5, WholeUnfold
  <2> QED BY <2>5, <2>6, <2>7 DEF Same
<1>4. 0 \in S
  BY <1>1, <1>2
<1>5. ASSUME NEW h \in S PROVE h + 1 \in S
  <2>1. h + 1 \in Nat
    OBVIOUS
  <2>2. \A n \in DOMAIN m : P(n, h + 1)
    BY <1>3
  <2> QED BY <1>1, <2>1, <2>2
<1> HIDE DEF S
<1>6. S \in SUBSET Nat
  BY DEF S
<1>7. \A k \in Nat : k \in S
  BY <1>4, <1>5, <1>6, SetInduction
<1> QED BY <1>7 DEF S

----------------------------------------------------------------------------
(* One level of Get, for every node, and the places it tells apart.        *)

LEMMA GetNext ==
    ASSUME Sizes, NEW V, None \in V, NEW m \in Heap(V), Closed(m), NEW i \in Nat,
           NEW n \in DOMAIN m \cup {Nil}
    PROVE  /\ GetBelow(m, n, 0, i) = Val(NodeAt(m, n), SlotAt(0, i))
           /\ \A k \in Nat :
                 GetBelow(m, n, k + 1, i) =
                     GetBelow(m, Kid(NodeAt(m, n), SlotAt(k + 1, i)), k, i)
<1>1. CASE n = Nil
  <2>1. \A s : Val(NodeAt(m, n), s) = None /\ Kid(NodeAt(m, n), s) = Nil
    BY <1>1, BlankIs DEF NodeAt, Val, Kid
  <2>2. \A k \in Nat : k + 1 \in Nat /\ GetBelow(m, n, k + 1, i) = None /\ GetBelow(m, Nil, k, i) = None
    BY <1>1, GetUnfold
  <2>3. 0 \in Nat /\ GetBelow(m, n, 0, i) = None
    BY <1>1, GetUnfold
  <2> QED BY <2>1, <2>2, <2>3
<1>2. CASE n # Nil
  <2>1. n \in DOMAIN m /\ NodeAt(m, n) = m[n]
    BY <1>2 DEF NodeAt
  <2> QED BY <2>1, GetUnfold
<1> QED BY <1>1, <1>2

LEMMA SameGet ==
    ASSUME Sizes, NEW V, None \in V, NEW m \in Heap(V), Closed(m), NEW i \in Nat,
           NEW j \in Nat
    PROVE  \A k \in Nat : \A n \in DOMAIN m \cup {Nil} :
              SamePlace(k, i, j) => GetBelow(m, n, k, i) = GetBelow(m, n, k, j)
<1> DEFINE S == {k \in Nat : \A n \in DOMAIN m \cup {Nil} :
                    SamePlace(k, i, j) => GetBelow(m, n, k, i) = GetBelow(m, n, k, j)}
<1>1. 0 \in S
  <2>1. ASSUME NEW n \in DOMAIN m \cup {Nil}, SamePlace(0, i, j)
        PROVE  GetBelow(m, n, 0, i) = GetBelow(m, n, 0, j)
    <3>1. SlotAt(0, i) = SlotAt(0, j)
      BY <2>1, SamePlaceSplit
    <3> QED BY <3>1, GetNext
  <2> QED BY <2>1
<1>2. ASSUME NEW k \in S PROVE k + 1 \in S
  <2>1. k \in Nat /\ k + 1 \in Nat
    OBVIOUS
  <2>2. ASSUME NEW n \in DOMAIN m \cup {Nil}, SamePlace(k + 1, i, j)
        PROVE  GetBelow(m, n, k + 1, i) = GetBelow(m, n, k + 1, j)
    <3> DEFINE s == SlotAt(k + 1, i)
               c == Kid(NodeAt(m, n), s)
    <3>1. SlotAt(k + 1, j) = s /\ SamePlace(k, i, j)
      BY <2>1, <2>2, SamePlaceSplit
    <3>2. c \in DOMAIN m \cup {Nil}
      BY KidIs
    <3>3. GetBelow(m, c, k, i) = GetBelow(m, c, k, j)
      BY <3>1, <3>2
    <3> QED BY <2>1, <3>1, <3>3, GetNext
  <2> QED BY <2>1, <2>2
<1> HIDE DEF S
<1>3. S \in SUBSET Nat
  BY DEF S
<1>4. \A k \in Nat : k \in S
  BY <1>1, <1>2, <1>3, SetInduction
<1> QED BY <1>4 DEF S

----------------------------------------------------------------------------
(* Counting: what is below a node once one place holds val.                *)

One(val) == IF val = None THEN 0 ELSE 1

Expected(m, n, k, i, val, j) == IF SamePlace(k, i, j) THEN val ELSE GetBelow(m, n, k, j)

Wanted(m, n, k, i, val) ==
    {x \in 0..(Span(k) - 1) : Expected(m, n, k, i, val, x) # None}

LEMMA CountOne ==
    ASSUME NEW F, IsFiniteSet(F), NEW x, NEW W, NEW old, NEW val,
           x \in F <=> old # None,
           W = IF val = None THEN F \ {x} ELSE F \cup {x}
    PROVE  /\ IsFiniteSet(W)
           /\ Cardinality(W) = (Cardinality(F) + One(val)) - One(old)
<1>1. Cardinality(F) \in Nat
  BY FS_CardinalityType
<1>2. CASE val = None
  BY <1>1, <1>2, FS_RemoveElement DEF One
<1>3. CASE val # None
  BY <1>1, <1>3, FS_AddElement DEF One
<1> QED BY <1>2, <1>3

\* The write changes the count by one at most, and a count of zero means there is
\* nothing left.
Tallied(m, n, k, i, val) ==
    /\ Cardinality(Filled(m, n, k)) \in Nat
    /\ Cardinality(Wanted(m, n, k, i, val)) =
          (Cardinality(Filled(m, n, k)) + One(val)) - One(GetBelow(m, n, k, i))
    /\ Cardinality(Wanted(m, n, k, i, val)) = 0 =>
          \A j \in Nat : Expected(m, n, k, i, val, j) = None

LEMMA CountIs ==
    ASSUME Sizes, NEW V, None \in V, NEW m \in Heap(V), Closed(m), NEW i \in Nat,
           NEW n, n \in DOMAIN m \cup {Nil}, NEW k, k \in Nat, NEW val
    PROVE  Tallied(m, n, k, i, val)
<1> DEFINE F == Filled(m, n, k)
           W == Wanted(m, n, k, i, val)
           x == i % Span(k)
           I == 0..(Span(k) - 1)
<1>1. Span(k) \in Nat \ {0} /\ I \subseteq Nat /\ IsFiniteSet(I)
  <2>1. Span(k) \in Nat \ {0}
    BY SpanIs
  <2>2. IsFiniteSet(I)
    BY <2>1, FS_Interval
  <2> QED BY <2>1, <2>2
<1>2. IsFiniteSet(F) /\ Cardinality(F) \in Nat
  <2>1. F \in SUBSET I
    BY DEF Filled
  <2>2. IsFiniteSet(F)
    BY <1>1, <2>1, FS_Subset
  <2> QED BY <2>2, FS_CardinalityType
<1>3. x \in I /\ SamePlace(k, i, x)
  BY PlaceIn
<1>4. \A y \in I : SamePlace(k, i, y) <=> y = x
  <2>1. \A y \in I : y \in Nat /\ y < Span(k)
    BY <1>1
  <2>2. \A y \in I : y % Span(k) = y
    BY <2>1, PlaceIn
  <2> QED BY <2>2 DEF SamePlace
<1>5. x \in F <=> GetBelow(m, n, k, i) # None
  <2>1. x \in Nat
    BY <1>1, <1>3
  <2>2. GetBelow(m, n, k, i) = GetBelow(m, n, k, x)
    BY <1>3, <2>1, SameGet
  <2> QED BY <1>3, <2>2 DEF Filled
<1>6. \A y \in I : y \in F <=> GetBelow(m, n, k, y) # None
  BY DEF Filled
<1>7. \A y : y \in W <=> y \in I /\ (IF y = x THEN val # None ELSE y \in F)
  <2>1. \A y : y \in W <=> y \in I /\ Expected(m, n, k, i, val, y) # None
    BY DEF Wanted
  <2> QED BY <1>4, <1>6, <2>1 DEF Expected
<1>8. F \subseteq I
  BY DEF Filled
<1> HIDE DEF F, W, x
<1>9. W = IF val = None THEN F \ {x} ELSE F \cup {x}
  BY <1>3, <1>7, <1>8
<1>10. /\ IsFiniteSet(W)
       /\ Cardinality(W) = (Cardinality(F) + One(val)) - One(GetBelow(m, n, k, i))
  BY <1>2, <1>5, <1>9, CountOne
<1>11. ASSUME Cardinality(W) = 0, NEW j \in Nat PROVE Expected(m, n, k, i, val, j) = None
  <2> DEFINE y == j % Span(k)
  <2>1. y \in I /\ SamePlace(k, j, y)
    BY PlaceIn
  <2>2. y \in Nat
    BY <1>1, <2>1
  <2>3. W = {}
    BY <1>10, <1>11, FS_EmptySet
  <2>4. Expected(m, n, k, i, val, y) = None
    BY <2>1, <2>3 DEF W, Wanted
  <2>5. GetBelow(m, n, k, j) = GetBelow(m, n, k, y)
    BY <2>1, <2>2, SameGet
  <2>6. SamePlace(k, i, j) <=> SamePlace(k, i, y)
    BY <2>1 DEF SamePlace
  <2> QED BY <2>4, <2>5, <2>6 DEF Expected
<1> QED BY <1>2, <1>10, <1>11 DEF F, W, Tallied

\* A node with what is wanted below it counts what is wanted.
LEMMA FilledIsWanted ==
    ASSUME Sizes, NEW m, NEW n, NEW k \in Nat, NEW i \in Nat, NEW val, NEW o, NEW p,
           \A j \in Nat : GetBelow(o, p, k, j) = Expected(m, n, k, i, val, j)
    PROVE  Filled(o, p, k) = Wanted(m, n, k, i, val)
<1>1. Span(k) \in Nat \ {0}
  BY SpanIs
<1>2. 0..(Span(k) - 1) \subseteq Nat
  BY <1>1
<1> QED BY <1>2 DEF Filled, Wanted

----------------------------------------------------------------------------
(* New nodes.                                                              *)

LEMMA LeastExists ==
    ASSUME NEW S, S \subseteq Nat, S # {}
    PROVE  \E x \in S : \A y \in S : x <= y
<1> DEFINE R == OpToRel(<, Nat)
<1>1. \A x, y \in Nat : <<x, y>> \in R <=> x < y
  BY DEF OpToRel
<1>2. IsWellFoundedOn(R, Nat)
  BY NatLessThanWellFounded
<1> HIDE DEF R
<1>3. PICK x \in S : \A y \in S : ~ (<<y, x>> \in R)
  BY <1>2, WFMin, Zenon
<1>4. \A y \in S : x \in Nat /\ y \in Nat /\ ~ (y < x)
  BY <1>1, <1>3
<1>5. \A y \in S : x <= y
  BY <1>4
<1> QED BY <1>5

LEMMA FreshIs ==
    ASSUME NEW m, Finite(m), DOMAIN m \subseteq Nat
    PROVE  Fresh(m) \in Nat \ {Nil} /\ Fresh(m) \notin DOMAIN m
<1> DEFINE c == Cardinality(DOMAIN m)
           names == 1..(c + 1)
           unused == names \ DOMAIN m
<1>1. IsFiniteSet(DOMAIN m) /\ c \in Nat
  BY FS_CardinalityType DEF Finite
<1>2. unused # {}
  <2> SUFFICES ASSUME names \subseteq DOMAIN m PROVE FALSE
    OBVIOUS
  <2>1. Cardinality(names) <= c
    BY <1>1, FS_Subset
  <2>2. Cardinality(names) = c + 1
    <3>1. 1 \in Int /\ c + 1 \in Int /\ ~ (1 > c + 1)
      BY <1>1
    <3>2. Cardinality(names) = ((c + 1) - 1) + 1
      BY <3>1, FS_Interval
    <3> QED BY <1>1, <3>2
  <2> QED BY <1>1, <2>1, <2>2
<1>3. unused \subseteq Nat \ {0}
  BY <1>1
<1>4. Fresh(m) = CHOOSE x \in unused : \A y \in unused : x <= y
  BY DEF Fresh
<1> HIDE DEF c, names
<1>5. \E x \in unused : \A y \in unused : x <= y
  <2> HIDE DEF unused
  <2> QED BY <1>2, <1>3, LeastExists
<1>6. Fresh(m) \in unused
  <2> HIDE DEF unused
  <2> QED BY <1>4, <1>5
<1> QED BY <1>3, <1>6 DEF Nil

\* The node r.node of r.heap is node; no other differs from m.  It is n, of the
\* writer's epoch, or new.
OwnOk(m, e, n, node, r) ==
    /\ r.node \in Nat \ {Nil}
    /\ DOMAIN r.heap = DOMAIN m \cup {r.node}
    /\ r.heap[r.node] = Stamped(node, e)
    /\ \A x \in DOMAIN m : x # r.node => r.heap[x] = m[x]
    /\ r.node \in DOMAIN m => r.node = n /\ m[n].epoch = e

LEMMA OwnIs ==
    ASSUME NEW V, NEW m, m \in Heap(V), NEW e \in Nat, NEW n, n \in Nat,
           NEW node, node \in NodeSet(V)
    PROVE  Own(m, e, n, node).heap \in Heap(V) /\ OwnOk(m, e, n, node, Own(m, e, n, node))
<1> DEFINE at == IF n # Nil /\ m[n].epoch = e THEN n ELSE Fresh(m)
           new == Stamped(node, e)
           r == Own(m, e, n, node)
           o == With(m, at, new)
<1>1. r.heap = o /\ r.node = at
  BY DEF Own, Stamped
<1>2. /\ m \in Maps(NodeSet(V)) /\ Finite(m)
      /\ DOMAIN m \subseteq Nat
  BY HeapIs DEF Heap
<1>3. /\ at \in Nat /\ at \in Nat \ {Nil}
      /\ at \in DOMAIN m => at = n /\ m[n].epoch = e
  <2>1. Fresh(m) \in Nat \ {Nil} /\ Fresh(m) \notin DOMAIN m
    BY <1>2, FreshIs
  <2> QED BY <2>1
<1>4. new \in NodeSet(V)
  BY StampedIs
<1> HIDE DEF at, new, r
<1>5. /\ o \in Maps(NodeSet(V))
      /\ DOMAIN o = DOMAIN m \cup {at}
      /\ o[at] = new
      /\ \A x \in DOMAIN m : x # at => o[x] = m[x]
  <2>1. o \in Maps(NodeSet(V)) /\ IsWith(o, m, at, new)
    BY <1>2, <1>3, <1>4, WithIs
  <2> QED BY <2>1 DEF IsWith
<1> HIDE DEF o
<1>6. Finite(o)
  <2>1. IsFiniteSet(DOMAIN m \cup {at})
    BY <1>2, FS_AddElement DEF Finite
  <2> QED BY <1>2, <1>3, <1>5, <2>1 DEF Finite
<1>7. o \in Heap(V)
  BY <1>5, <1>6 DEF Heap
<1>8. OwnOk(m, e, n, node, r)
  BY <1>1, <1>3, <1>5 DEF OwnOk, new
<1> QED BY <1>1, <1>7, <1>8 DEF r

----------------------------------------------------------------------------
(* Put, one level at a time.                                               *)

Results(V) == {r \in [heap : Heap(V), node : Nat] : r.node \in DOMAIN r.heap \cup {Nil}}

LEMMA ResultIs ==
    ASSUME NEW V, NEW h, h \in Heap(V), NEW n, n \in DOMAIN h \cup {Nil}
    PROVE  [heap |-> h, node |-> n] \in Results(V)
<1>1. n \in Nat
  BY HeapIs DEF Nil
<1> HIDE DEF Nil
<1> QED BY <1>1 DEF Results

LEMMA OwnResult ==
    ASSUME NEW V, NEW m, m \in Heap(V), NEW e \in Nat, NEW n, n \in Nat,
           NEW node, node \in NodeSet(V)
    PROVE  Own(m, e, n, node) \in Results(V)
<1> DEFINE r == Own(m, e, n, node)
<1>1. r = [heap |-> r.heap, node |-> r.node]
  BY DEF Own
<1>2. r.heap \in Heap(V) /\ OwnOk(m, e, n, node, r)
  BY OwnIs
<1>3. r.node \in DOMAIN r.heap
  BY <1>2 DEF OwnOk
<1> HIDE DEF r
<1> QED BY <1>1, <1>2, <1>3, ResultIs DEF r

\* What a leaf is to be, and what a directory node is to be.
LeafVals(old, s, val) == IF val = None THEN Without(old.vals, s) ELSE With(old.vals, s, val)
InnerKids(old, s, c)  == IF c = Nil THEN Without(old.kids, s) ELSE With(old.kids, s, c)

LEMMA LeafValsIs ==
    ASSUME NEW V, None \in V, NEW old \in NodeSet(V), NEW s, s \in Nat, NEW val \in V
    PROVE  /\ LeafVals(old, s, val) \in Maps(V)
           /\ IF val = None THEN IsWithout(LeafVals(old, s, val), old.vals, s)
                            ELSE IsWith(LeafVals(old, s, val), old.vals, s, val)
<1>1. old.vals \in Maps(V)
  BY NodeIs
<1> QED BY <1>1, WithIs, WithoutIs DEF LeafVals

LEMMA InnerKidsIs ==
    ASSUME NEW V, NEW old \in NodeSet(V), NEW s, s \in Nat, NEW c, c \in Nat
    PROVE  /\ InnerKids(old, s, c) \in Maps(Nat)
           /\ IF c = Nil THEN IsWithout(InnerKids(old, s, c), old.kids, s)
                         ELSE IsWith(InnerKids(old, s, c), old.kids, s, c)
<1>1. old.kids \in Maps(Nat)
  BY NodeIs
<1> QED BY <1>1, WithIs, WithoutIs DEF InnerKids

LeafUsed(old, s, val) == (old.used + One(val)) - One(Val(old, s))
LeafNode(old, s, val) == Refilled(old, LeafUsed(old, s, val), LeafVals(old, s, val))

LEMMA SetLeafIs ==
    ASSUME NEW m, NEW e, NEW n, NEW s, NEW val
    PROVE  SetLeaf(m, e, n, s, val) =
              IF LeafUsed(NodeAt(m, n), s, val) = 0 THEN [heap |-> m, node |-> Nil]
              ELSE Own(m, e, n, LeafNode(NodeAt(m, n), s, val))
BY DEF SetLeaf, LeafNode, LeafUsed, LeafVals, Refilled, One

InnerUsed(m, n, s, b) ==
    (NodeAt(m, n).used + NodeAt(b.heap, b.node).used) - NodeAt(m, Kid(NodeAt(m, n), s)).used
InnerNode(m, n, s, b) ==
    Relinked(NodeAt(m, n), InnerUsed(m, n, s, b), InnerKids(NodeAt(m, n), s, b.node))

LEMMA SetInnerIs ==
    ASSUME NEW m, NEW e, NEW n, NEW s, NEW b
    PROVE  SetInner(m, e, n, s, b) =
              IF InnerUsed(m, n, s, b) = 0 THEN [heap |-> b.heap, node |-> Nil]
              ELSE Own(b.heap, e, n, InnerNode(m, n, s, b))
BY DEF SetInner, InnerNode, InnerUsed, InnerKids, Relinked

LEMMA OldIs ==
    ASSUME NEW V, NEW m \in Heap(V), NEW n \in DOMAIN m \cup {Nil}
    PROVE  NodeAt(m, n) \in NodeSet(V) /\ n \in Nat /\ NodeAt(m, n).used \in Int
<1>1. n \in Nat
  BY HeapIs DEF Nil
<1>2. NodeAt(m, n) \in NodeSet(V)
  BY HeapIs
<1> QED BY <1>1, <1>2, NodeIs

LEMMA LeafNodeIs ==
    ASSUME NEW V, None \in V, NEW m \in Heap(V), NEW n \in DOMAIN m \cup {Nil},
           NEW s, s \in Nat, NEW val \in V
    PROVE  /\ LeafUsed(NodeAt(m, n), s, val) \in Int
           /\ LeafNode(NodeAt(m, n), s, val) \in NodeSet(V)
<1> DEFINE old == NodeAt(m, n)
<1>1. old \in NodeSet(V) /\ old.used \in Int
  BY OldIs
<1> HIDE DEF old
<1>2. LeafUsed(old, s, val) \in Int
  BY <1>1 DEF LeafUsed, One
<1>3. LeafVals(old, s, val) \in Maps(V)
  BY <1>1, LeafValsIs
<1>4. LeafNode(old, s, val) \in NodeSet(V)
  BY <1>1, <1>2, <1>3, RefilledIs DEF LeafNode
<1> QED BY <1>2, <1>4 DEF old

LEMMA InnerNodeIs ==
    ASSUME NEW V, NEW m \in Heap(V), Closed(m), NEW n \in DOMAIN m \cup {Nil},
           NEW s, s \in Nat, NEW b, b \in Results(V)
    PROVE  /\ b.heap \in Heap(V) /\ b.node \in DOMAIN b.heap \cup {Nil} /\ b.node \in Nat
           /\ InnerUsed(m, n, s, b) \in Int
           /\ InnerNode(m, n, s, b) \in NodeSet(V)
<1> DEFINE old == NodeAt(m, n)
           c == Kid(old, s)
<1>1. b.heap \in Heap(V) /\ b.node \in DOMAIN b.heap \cup {Nil} /\ b.node \in Nat
  BY DEF Results
<1>2. old \in NodeSet(V) /\ old.used \in Int
  BY OldIs
<1>3. NodeAt(b.heap, b.node).used \in Int
  <2> DEFINE h == b.heap
             x == b.node
  <2>1. h \in Heap(V) /\ x \in DOMAIN h \cup {Nil}
    BY <1>1
  <2> HIDE DEF h, x
  <2>2. NodeAt(h, x).used \in Int
    BY <2>1, OldIs
  <2> QED BY <2>2 DEF h, x
<1>4. c \in DOMAIN m \cup {Nil}
  BY KidIs
<1>5. NodeAt(m, c).used \in Int
  <2> HIDE DEF c
  <2> QED BY <1>4, OldIs
<1>6. InnerUsed(m, n, s, b) \in Int
  BY <1>2, <1>3, <1>5 DEF InnerUsed
<1>7. InnerKids(old, s, b.node) \in Maps(Nat)
  <2> DEFINE x == b.node
  <2>1. x \in Nat
    BY <1>1
  <2> HIDE DEF x, old
  <2>2. InnerKids(old, s, x) \in Maps(Nat)
    BY <1>2, <2>1, InnerKidsIs
  <2> QED BY <2>2 DEF x
<1>8. InnerNode(m, n, s, b) \in NodeSet(V)
  <2> DEFINE u == InnerUsed(m, n, s, b)
             f == InnerKids(old, s, b.node)
  <2>1. InnerNode(m, n, s, b) = Relinked(old, u, f)
    BY DEF InnerNode
  <2> HIDE DEF u, f, old
  <2>2. Relinked(old, u, f) \in NodeSet(V)
    BY <1>2, <1>6, <1>7, RelinkedIs DEF u, f
  <2> QED BY <2>1, <2>2
<1> QED BY <1>1, <1>6, <1>8

LEMMA LeafResult ==
    ASSUME NEW V, None \in V, NEW m \in Heap(V), NEW e \in Nat,
           NEW n \in DOMAIN m \cup {Nil}, NEW s, s \in Nat, NEW val \in V
    PROVE  SetLeaf(m, e, n, s, val) \in Results(V)
<1>1. [heap |-> m, node |-> Nil] \in Results(V)
  BY ResultIs
<1>2. Own(m, e, n, LeafNode(NodeAt(m, n), s, val)) \in Results(V)
  <2> DEFINE q == LeafNode(NodeAt(m, n), s, val)
  <2>1. n \in Nat /\ q \in NodeSet(V)
    BY LeafNodeIs, OldIs
  <2> HIDE DEF q
  <2>2. Own(m, e, n, q) \in Results(V)
    BY <2>1, OwnResult
  <2> QED BY <2>2 DEF q
<1> QED BY <1>1, <1>2, SetLeafIs

LEMMA InnerResult ==
    ASSUME NEW V, NEW m \in Heap(V), Closed(m), NEW e \in Nat,
           NEW n \in DOMAIN m \cup {Nil}, NEW s, s \in Nat, NEW b, b \in Results(V)
    PROVE  SetInner(m, e, n, s, b) \in Results(V)
<1> DEFINE h == b.heap
           q == InnerNode(m, n, s, b)
<1>1. h \in Heap(V) /\ q \in NodeSet(V)
  BY InnerNodeIs
<1>2. n \in Nat
  BY OldIs
<1>3. SetInner(m, e, n, s, b) =
         IF InnerUsed(m, n, s, b) = 0 THEN [heap |-> h, node |-> Nil] ELSE Own(h, e, n, q)
  BY SetInnerIs
<1> HIDE DEF h, q
<1>4. [heap |-> h, node |-> Nil] \in Results(V)
  BY <1>1, ResultIs
<1>5. Own(h, e, n, q) \in Results(V)
  BY <1>1, <1>2, OwnResult
<1> QED BY <1>3, <1>4, <1>5

LEMMA PutUnfold ==
    ASSUME Sizes, NEW V, None \in V, NEW m \in Heap(V), Closed(m), NEW e \in Nat,
           NEW i \in Nat, NEW val \in V
    PROVE  /\ \A k \in Nat : \A x \in DOMAIN m \cup {Nil} : Put(m, e, x, k, i, val) \in Results(V)
           /\ \A x \in DOMAIN m \cup {Nil} :
                 Put(m, e, x, 0, i, val) = SetLeaf(m, e, x, SlotAt(0, i), val)
           /\ \A k \in Nat : \A x \in DOMAIN m \cup {Nil} :
                 Put(m, e, x, k + 1, i, val) =
                    SetInner(m, e, x, SlotAt(k + 1, i),
                             Put(m, e, Kid(NodeAt(m, x), SlotAt(k + 1, i)), k, i, val))
<1> DEFINE D == DOMAIN m \cup {Nil}
           Z == [x \in D |-> SetLeaf(m, e, x, SlotAt(0, i), val)]
           N(k, g) == [x \in D |-> SetInner(m, e, x, SlotAt(k, i),
                                            g[Kid(NodeAt(m, x), SlotAt(k, i))])]
           E(f) == [k \in Nat |->
                      [x \in D |->
                         IF k = 0 THEN SetLeaf(m, e, x, SlotAt(0, i), val)
                         ELSE SetInner(m, e, x, SlotAt(k, i),
                                       f[k - 1][Kid(NodeAt(m, x), SlotAt(k, i))])]]
           put == CHOOSE f : f = E(f)
           R == Results(V)
           T == [D -> R]
           G == [p \in Nat \X T |-> N(p[1] + 1, p[2])]
<1>1. \A x \in D : \A s : Kid(NodeAt(m, x), s) \in D
  BY KidIs
<1>2. \A k \in Nat : SlotAt(k, i) \in Nat
  BY SlotIs
<1>3. \E f : f \in [Nat -> T] /\ f = E(f)
  <2>1. Z \in T
    <3>1. \A x \in D : SetLeaf(m, e, x, SlotAt(0, i), val) \in R
      BY <1>2, LeafResult
    <3> HIDE DEF R
    <3> QED BY <3>1
  <2>2. ASSUME NEW k \in Nat, NEW g \in T PROVE N(k + 1, g) \in T
    <3>1. ASSUME NEW x \in D
          PROVE  SetInner(m, e, x, SlotAt(k + 1, i),
                          g[Kid(NodeAt(m, x), SlotAt(k + 1, i))]) \in R
      <4> DEFINE s == SlotAt(k + 1, i)
                 b == g[Kid(NodeAt(m, x), s)]
      <4>1. s \in Nat
        <5>1. k + 1 \in Nat
          OBVIOUS
        <5> QED BY <1>2, <5>1
      <4>2. b \in R
        <5> HIDE DEF R, s
        <5> QED BY <1>1
      <4> HIDE DEF s, b
      <4>3. SetInner(m, e, x, s, b) \in R
        BY <4>1, <4>2, InnerResult
      <4> QED BY <4>3 DEF s, b
    <3> HIDE DEF R
    <3> QED BY <3>1
  <2>3. G \in [Nat \X T -> T]
    BY <2>2
  <2>4. \A k \in Nat, g \in T : G[<<k, g>>] = N(k + 1, g)
    OBVIOUS
  <2> HIDE DEF T, G, Z, N
  <2>5. PICK f : Follows(f, T, Z, G)
    BY <2>1, <2>3, RecursionExists DEF Recursive
  <2>6. f \in [Nat -> T] /\ f[0] = Z /\ \A k \in Nat : f[k + 1] = N(k + 1, f[k])
    BY <2>4, <2>5 DEF Follows
  <2>7. ASSUME NEW k \in Nat PROVE f[k] = E(f)[k]
    <3>1. CASE k = 0
      BY <2>6, <3>1 DEF Z
    <3>2. CASE k # 0
      <4>1. k - 1 \in Nat /\ (k - 1) + 1 = k
        BY <3>2
      <4>2. f[k] = N(k, f[k - 1])
        BY <2>6, <4>1
      <4> QED BY <3>2, <4>2 DEF N
    <3> QED BY <3>1, <3>2
  <2>8. f = E(f)
    BY <2>6, <2>7
  <2> QED BY <2>6, <2>8
<1>4. put = E(put)
  BY <1>3
<1>5. \A x, k : Put(m, e, x, k, i, val) = put[k][x]
  BY DEF Put
<1> HIDE DEF put, R, T
<1>6. \A x \in D : put[0][x] = SetLeaf(m, e, x, SlotAt(0, i), val)
  BY <1>4
<1>7. ASSUME NEW k \in Nat, NEW x \in D
      PROVE  put[k + 1][x] = SetInner(m, e, x, SlotAt(k + 1, i),
                                      put[k][Kid(NodeAt(m, x), SlotAt(k + 1, i))])
  <2>1. k + 1 \in Nat /\ k + 1 # 0 /\ (k + 1) - 1 = k
    OBVIOUS
  <2>2. E(put)[k + 1] = N(k + 1, put[k])
    BY <2>1
  <2>3. N(k + 1, put[k])[x] = SetInner(m, e, x, SlotAt(k + 1, i),
                                       put[k][Kid(NodeAt(m, x), SlotAt(k + 1, i))])
    OBVIOUS
  <2> QED BY <1>4, <2>2, <2>3
<1> HIDE DEF E, Z, N, G
<1>8. \A k \in Nat : \A x \in D : put[k][x] \in R
  <2> DEFINE S == {k \in Nat : \A x \in D : put[k][x] \in R}
  <2>1. 0 \in S
    BY <1>2, <1>6, LeafResult DEF R
  <2>2. ASSUME NEW k \in S PROVE k + 1 \in S
    <3>1. k \in Nat /\ k + 1 \in Nat
      OBVIOUS
    <3>2. ASSUME NEW x \in D PROVE put[k + 1][x] \in R
      <4> DEFINE s == SlotAt(k + 1, i)
                 b == put[k][Kid(NodeAt(m, x), s)]
      <4>1. s \in Nat
        BY <1>2, <3>1
      <4>2. b \in R
        BY <1>1
      <4>3. put[k + 1][x] = SetInner(m, e, x, s, b)
        BY <1>7, <3>1
      <4> HIDE DEF s, b
      <4> QED BY <4>1, <4>2, <4>3, InnerResult DEF R
    <3> QED BY <3>1, <3>2
  <2> HIDE DEF S
  <2>3. S \in SUBSET Nat
    BY DEF S
  <2>4. \A k \in Nat : k \in S
    BY <2>1, <2>2, <2>3, SetInduction
  <2> QED BY <2>4 DEF S
<1> QED BY <1>5, <1>6, <1>7, <1>8 DEF R

----------------------------------------------------------------------------
(* What Put does.                                                          *)

\* From m to o, nodes are new or among ns, of the writer's epoch before; those
\* that are not as they were have it after.
Wrote(m, o, e, ns) ==
    /\ DOMAIN m \subseteq DOMAIN o
    /\ \A x \in DOMAIN o :
          \/ x \in DOMAIN m /\ o[x] = m[x]
          \/ o[x].epoch = e /\ (x \in DOMAIN m => x \in ns /\ m[x].epoch = e)

\* The result r of a Put of val at i below n.
PutOk(m, e, n, k, i, val, r) ==
    /\ Closed(r.heap)
    /\ Wrote(m, r.heap, e, Nodes(m, n, k))
    /\ Nodes(r.heap, r.node, k) \subseteq Nodes(m, n, k) \cup (DOMAIN r.heap \ DOMAIN m)
    /\ \A j \in Nat : GetBelow(r.heap, r.node, k, j) = Expected(m, n, k, i, val, j)
    /\ r.node = Nil \/ r.node \in Whole(r.heap, k)

\* n counts what is below it.
LEMMA UsedIs ==
    ASSUME Sizes, NEW V, None \in V, NEW m, m \in Heap(V), Closed(m), NEW k \in Nat, NEW n,
           n = Nil \/ n \in Whole(m, k)
    PROVE  /\ n \in DOMAIN m \cup {Nil}
           /\ NodeAt(m, n).used = Cardinality(Filled(m, n, k))
<1>1. CASE n = Nil
  <2>1. Filled(m, n, k) = {}
    <3>1. Span(k) \in Nat \ {0}
      BY SpanIs
    <3>2. \A i \in 0..(Span(k) - 1) : i \in Nat
      BY <3>1
    <3>3. \A i \in 0..(Span(k) - 1) : GetBelow(m, n, k, i) = None
      BY <1>1, <3>2, GetUnfold
    <3> QED BY <3>3 DEF Filled
  <2>2. Blank.used = 0
    BY DEF Blank
  <2> QED BY <1>1, <2>1, <2>2, FS_EmptySet DEF NodeAt
<1>2. CASE n # Nil
  <2>1. n \in DOMAIN m /\ Exact(m, n, k)
    <3>1. CASE k = 0
      BY <1>2, <3>1, WholeUnfold
    <3>2. CASE k # 0
      <4>1. k - 1 \in Nat /\ (k - 1) + 1 = k
        BY <3>2
      <4> QED BY <1>2, <4>1, WholeUnfold
    <3> QED BY <3>1, <3>2
  <2> QED BY <1>2, <2>1 DEF Exact, NodeAt
<1> QED BY <1>1, <1>2

\* The children of what was at n are nodes.
LEMMA OldKids ==
    ASSUME NEW V, NEW m, m \in Heap(V), Closed(m), NEW n, n \in DOMAIN m \cup {Nil}
    PROVE  \A t \in DOMAIN NodeAt(m, n).kids : NodeAt(m, n).kids[t] \in DOMAIN m
<1>1. CASE n = Nil
  <2>1. NodeAt(m, n).kids = << >>
    BY <1>1, BlankIs DEF NodeAt
  <2> QED BY <2>1
<1>2. CASE n # Nil
  BY <1>2 DEF NodeAt, Closed
<1> QED BY <1>1, <1>2

LEMMA LeafOk ==
    ASSUME Sizes, NEW V, None \in V, NEW m \in Heap(V), Closed(m), NEW e \in Nat, NEW n,
           n = Nil \/ n \in Whole(m, 0), NEW i \in Nat, NEW val \in V
    PROVE  PutOk(m, e, n, 0, i, val, SetLeaf(m, e, n, SlotAt(0, i), val))
<1> DEFINE s   == SlotAt(0, i)
           old == NodeAt(m, n)
           u   == LeafUsed(old, s, val)
           q   == LeafNode(old, s, val)
           r   == SetLeaf(m, e, n, s, val)
           o   == r.heap
           p   == r.node
<1> SUFFICES PutOk(m, e, n, 0, i, val, r)
  OBVIOUS
<1>1. n \in DOMAIN m \cup {Nil} /\ old.used = Cardinality(Filled(m, n, 0))
  BY UsedIs
<1>2. s \in Nat
  BY SlotIs
<1>3. old \in NodeSet(V) /\ n \in Nat /\ q \in NodeSet(V) /\ u \in Int
  BY <1>1, <1>2, OldIs, LeafNodeIs
<1>4. u = Cardinality(Wanted(m, n, 0, i, val))
  <2>1. Val(old, s) = GetBelow(m, n, 0, i)
    BY <1>1, GetNext
  <2>2. Cardinality(Wanted(m, n, 0, i, val)) =
           (Cardinality(Filled(m, n, 0)) + One(val)) - One(GetBelow(m, n, 0, i))
    <3>1. Tallied(m, n, 0, i, val)
      BY <1>1, CountIs
    <3> QED BY <3>1 DEF Tallied
  <2> QED BY <1>1, <2>1, <2>2 DEF LeafUsed
<1>5. CASE u = 0
  <2>1. o = m /\ p = Nil
    BY <1>5, SetLeafIs
  <2>2. Wrote(m, m, e, Nodes(m, n, 0))
    BY DEF Wrote
  <2>3. Nodes(m, Nil, 0) = {} /\ \A j \in Nat : GetBelow(m, Nil, 0, j) = None
    BY GetUnfold, NodesUnfold
  <2>4. \A j \in Nat : Expected(m, n, 0, i, val, j) = None
    <3>1. Tallied(m, n, 0, i, val)
      BY <1>1, CountIs
    <3> QED BY <1>4, <1>5, <3>1 DEF Tallied
  <2> HIDE DEF r
  <2> QED BY <2>1, <2>2, <2>3, <2>4 DEF PutOk
<1>6. CASE u # 0
  <2>1. r = Own(m, e, n, q)
    BY <1>6, SetLeafIs
  <2> HIDE DEF u, q, r
  <2>2. o \in Heap(V) /\ OwnOk(m, e, n, q, r)
    BY <1>3, <2>1, OwnIs
  <2>3. /\ p \in Nat \ {Nil}
        /\ DOMAIN o = DOMAIN m \cup {p}
        /\ o[p] = Stamped(q, e)
        /\ \A x \in DOMAIN m : x # p => o[x] = m[x]
        /\ p \in DOMAIN m => p = n /\ m[n].epoch = e
    BY <2>2 DEF OwnOk
  <2>4. o[p].epoch = e /\ o[p].used = u /\ o[p].kids = old.kids /\ o[p].vals = LeafVals(old, s, val)
    <3> DEFINE f == LeafVals(old, s, val)
    <3>1. f \in Maps(V)
      BY <1>2, <1>3, LeafValsIs
    <3>2. q = Refilled(old, u, f)
      BY DEF q, LeafNode, u
    <3> HIDE DEF f, old
    <3>3. Has(q, old.epoch, u, f, old.kids)
      BY <1>3, <3>1, <3>2, RefilledIs
    <3>4. Has(o[p], e, q.used, q.vals, q.kids)
      BY <1>3, <2>3, StampedIs
    <3> QED BY <3>3, <3>4 DEF Has, f
  <2>5. \A t : Val(o[p], t) = IF t = s THEN val ELSE Val(old, t)
    <3>1. IF val = None THEN IsWithout(LeafVals(old, s, val), old.vals, s)
                        ELSE IsWith(LeafVals(old, s, val), old.vals, s, val)
      BY <1>2, <1>3, LeafValsIs
    <3> HIDE DEF o, p, s, old
    <3>2. CASE val = None
      BY <2>4, <3>1, <3>2 DEF Val, IsWithout
    <3>3. CASE val # None
      BY <2>4, <3>1, <3>3 DEF Val, IsWith
    <3> QED BY <3>2, <3>3
  <2>6. Closed(o)
    <3>1. \A t \in DOMAIN old.kids : old.kids[t] \in DOMAIN m
      BY <1>1, OldKids
    <3> HIDE DEF o, p, old
    <3> QED BY <2>3, <2>4, <3>1 DEF Closed
  <2> HIDE DEF o, p
  <2>7. Wrote(m, o, e, Nodes(m, n, 0))
    <3>1. p \in DOMAIN m => p \in Nodes(m, n, 0)
      BY <2>3, NodesUnfold
    <3> QED BY <2>3, <2>4, <3>1 DEF Wrote
  <2>8. Nodes(o, p, 0) \subseteq Nodes(m, n, 0) \cup (DOMAIN o \ DOMAIN m)
    <3>1. Nodes(o, p, 0) = {p}
      BY <2>2, <2>3, <2>6, NodesUnfold DEF o
    <3>2. p \in DOMAIN m => p \in Nodes(m, n, 0)
      BY <2>3, NodesUnfold
    <3> QED BY <2>3, <3>1, <3>2
  <2>9. ASSUME NEW j \in Nat PROVE GetBelow(o, p, 0, j) = Expected(m, n, 0, i, val, j)
    <3>1. GetBelow(o, p, 0, j) = Val(o[p], SlotAt(0, j))
      BY <2>2, <2>3, <2>6, GetUnfold DEF o
    <3>2. GetBelow(m, n, 0, j) = Val(old, SlotAt(0, j))
      BY <1>1, GetNext
    <3>3. SamePlace(0, i, j) <=> s = SlotAt(0, j)
      BY SamePlaceSplit
    <3> QED BY <2>5, <3>1, <3>2, <3>3 DEF Expected
  <2>10. p \in Whole(o, 0)
    <3>1. Filled(o, p, 0) = Wanted(m, n, 0, i, val)
      BY <2>9, FilledIsWanted
    <3> QED BY <1>4, <1>6, <2>3, <2>4, <3>1, WholeUnfold DEF Exact
  <2> QED BY <2>6, <2>7, <2>8, <2>9, <2>10 DEF PutOk, o, p
<1> QED BY <1>5, <1>6

\* The trees below n, slot by slot: whole, part of n's, and apart.
Parts(m, n, k) ==
    \A t : /\ Kid(NodeAt(m, n), t) = Nil \/ Kid(NodeAt(m, n), t) \in Whole(m, k)
           /\ Nodes(m, Kid(NodeAt(m, n), t), k) \subseteq Nodes(m, n, k + 1) \ {n}
           /\ \A w : w # t => Nodes(m, Kid(NodeAt(m, n), t), k)
                                \cap Nodes(m, Kid(NodeAt(m, n), w), k) = {}

LEMMA PartsIs ==
    ASSUME Sizes, NEW V, None \in V, NEW m \in Heap(V), Closed(m), NEW k \in Nat, NEW n,
           n = Nil \/ n \in Whole(m, k + 1)
    PROVE  Parts(m, n, k)
<1>1. Nodes(m, Nil, k) = {}
  BY NodesUnfold
<1>2. CASE n = Nil
  <2>1. \A t : Kid(NodeAt(m, n), t) = Nil
    BY <1>2, BlankIs DEF NodeAt, Kid
  <2> QED BY <1>1, <2>1 DEF Parts
<1>3. CASE n # Nil
  <2>1. /\ n \in DOMAIN m
        /\ Apart(m, n, k)
        /\ \A t \in DOMAIN m[n].kids : m[n].kids[t] \in Whole(m, k)
    BY <1>3, WholeUnfold
  <2>2. Nodes(m, n, k + 1) = {n} \cup Below(m, n, k)
    BY <2>1, NodesUnfold
  <2>3. NodeAt(m, n) = m[n]
    BY <1>3 DEF NodeAt
  <2> DEFINE x(t) == Kid(m[n], t)
  <2>4. \A t : IF t \in DOMAIN m[n].kids THEN x(t) = m[n].kids[t] ELSE x(t) = Nil
    BY DEF Kid
  <2> HIDE DEF x
  <2>5. ASSUME NEW t PROVE Nodes(m, x(t), k) \subseteq Nodes(m, n, k + 1) \ {n}
    <3>1. CASE t \in DOMAIN m[n].kids
      <4>1. Nodes(m, x(t), k) \subseteq Below(m, n, k)
        BY <2>4, <3>1 DEF Below
      <4>2. n \notin Nodes(m, x(t), k)
        BY <2>1, <2>4, <3>1 DEF Apart
      <4> QED BY <2>2, <4>1, <4>2
    <3>2. CASE t \notin DOMAIN m[n].kids
      BY <1>1, <2>4, <3>2
    <3> QED BY <3>1, <3>2
  <2>6. ASSUME NEW t, NEW w, w # t PROVE Nodes(m, x(t), k) \cap Nodes(m, x(w), k) = {}
    <3>1. CASE t \in DOMAIN m[n].kids /\ w \in DOMAIN m[n].kids
      BY <2>1, <2>4, <2>6, <3>1 DEF Apart
    <3>2. CASE t \notin DOMAIN m[n].kids \/ w \notin DOMAIN m[n].kids
      BY <1>1, <2>4, <3>2
    <3> QED BY <3>1, <3>2
  <2>7. \A t : x(t) = Nil \/ x(t) \in Whole(m, k)
    BY <2>1, <2>4
  <2> QED BY <2>3, <2>5, <2>6, <2>7 DEF Parts, x
<1> QED BY <1>2, <1>3

\* set adds what came below and takes what was: the values wanted below n.
LEMMA InnerCount ==
    ASSUME Sizes, NEW V, None \in V, NEW m \in Heap(V), Closed(m), NEW k \in Nat, NEW n,
           n = Nil \/ n \in Whole(m, k + 1), NEW i \in Nat, NEW val \in V, NEW e,
           NEW b, b \in Results(V),
           PutOk(m, e, Kid(NodeAt(m, n), SlotAt(k + 1, i)), k, i, val, b)
    PROVE  InnerUsed(m, n, SlotAt(k + 1, i), b) = Cardinality(Wanted(m, n, k + 1, i, val))
<1> DEFINE s == SlotAt(k + 1, i)
           c == Kid(NodeAt(m, n), s)
           h == b.heap
           y == b.node
<1>1. k + 1 \in Nat
  OBVIOUS
<1>2. n \in DOMAIN m \cup {Nil} /\ NodeAt(m, n).used = Cardinality(Filled(m, n, k + 1))
  BY <1>1, UsedIs
<1>3. c = Nil \/ c \in Whole(m, k)
  BY PartsIs DEF Parts
<1>4. h \in Heap(V) /\ Closed(h) /\ (y = Nil \/ y \in Whole(h, k))
      /\ \A j \in Nat : GetBelow(h, y, k, j) = Expected(m, c, k, i, val, j)
  BY DEF PutOk, Results
<1> HIDE DEF c, h, y
<1>5. c \in DOMAIN m \cup {Nil} /\ NodeAt(m, c).used = Cardinality(Filled(m, c, k))
  BY <1>3, UsedIs
<1>6. NodeAt(h, y).used = Cardinality(Filled(h, y, k))
  BY <1>4, UsedIs
<1>7. Filled(h, y, k) = Wanted(m, c, k, i, val)
  BY <1>4, FilledIsWanted
<1>8. /\ Cardinality(Filled(m, c, k)) \in Nat
      /\ Cardinality(Wanted(m, c, k, i, val)) =
            (Cardinality(Filled(m, c, k)) + One(val)) - One(GetBelow(m, c, k, i))
  <2>1. Tallied(m, c, k, i, val)
    BY <1>5, CountIs
  <2> QED BY <2>1 DEF Tallied
<1>9. /\ Cardinality(Filled(m, n, k + 1)) \in Nat
      /\ Cardinality(Wanted(m, n, k + 1, i, val)) =
            (Cardinality(Filled(m, n, k + 1)) + One(val)) - One(GetBelow(m, n, k + 1, i))
  <2>1. Tallied(m, n, k + 1, i, val)
    <3> DEFINE K == k + 1
    <3>1. K \in Nat
      OBVIOUS
    <3> HIDE DEF K
    <3>2. Tallied(m, n, K, i, val)
      BY <1>1, <1>2, <3>1, CountIs
    <3> QED BY <3>2 DEF K
  <2> QED BY <2>1 DEF Tallied
<1>10. GetBelow(m, n, k + 1, i) = GetBelow(m, c, k, i)
  BY <1>2, GetNext DEF c
<1>11. InnerUsed(m, n, s, b) = (NodeAt(m, n).used + NodeAt(h, y).used) - NodeAt(m, c).used
  BY DEF InnerUsed, c, h, y
<1>12. One(val) \in Int /\ One(GetBelow(m, c, k, i)) \in Int
  BY DEF One
<1> QED BY <1>2, <1>5, <1>6, <1>7, <1>8, <1>9, <1>10, <1>11, <1>12

\* The trees that are to be below the new node, slot by slot.
NewKid(m, n, s, y, t) == IF t = s THEN y ELSE Kid(NodeAt(m, n), t)

\* What they are in the heap h that Put has left below slot s.
NewParts(m, n, k, s, h, y) ==
    \A t : /\ NewKid(m, n, s, y, t) \in DOMAIN h \cup {Nil}
           /\ NewKid(m, n, s, y, t) = Nil \/ NewKid(m, n, s, y, t) \in Whole(h, k)
           /\ Nodes(h, NewKid(m, n, s, y, t), k) \subseteq
                 Nodes(m, Kid(NodeAt(m, n), t), k) \cup (IF t = s THEN DOMAIN h \ DOMAIN m ELSE {})

LEMMA NewPartsIs ==
    ASSUME Sizes, NEW V, None \in V, NEW m \in Heap(V), Closed(m), NEW k \in Nat, NEW n,
           n = Nil \/ n \in Whole(m, k + 1), NEW i \in Nat, NEW val \in V, NEW e, NEW s,
           NEW h \in Heap(V), NEW y, y \in DOMAIN h \cup {Nil},
           PutOk(m, e, Kid(NodeAt(m, n), s), k, i, val, [heap |-> h, node |-> y])
    PROVE  /\ NewParts(m, n, k, s, h, y)
           /\ \A t : t # s => Same(m, h, Kid(NodeAt(m, n), t), k)
<1> DEFINE c == Kid(NodeAt(m, n), s)
<1>1. Parts(m, n, k)
  BY PartsIs
<1>2. /\ Closed(h)
      /\ Wrote(m, h, e, Nodes(m, c, k))
      /\ Nodes(h, y, k) \subseteq Nodes(m, c, k) \cup (DOMAIN h \ DOMAIN m)
      /\ y = Nil \/ y \in Whole(h, k)
  BY DEF PutOk
<1>3. n \in DOMAIN m \cup {Nil}
  <2>1. k + 1 \in Nat
    OBVIOUS
  <2> QED BY <2>1, UsedIs
<1>4. ASSUME NEW t, t # s PROVE Same(m, h, Kid(NodeAt(m, n), t), k)
  <2> DEFINE x == Kid(NodeAt(m, n), t)
  <2>1. x \in DOMAIN m \cup {Nil}
    BY <1>3, KidIs
  <2>2. Nodes(m, x, k) \cap Nodes(m, c, k) = {}
    BY <1>1, <1>4 DEF Parts
  <2> HIDE DEF x, c
  <2>3. Nodes(m, x, k) \subseteq DOMAIN m
    BY <2>1, NodesIn
  <2>4. Keeps(m, h, Nodes(m, x, k))
    BY <1>2, <2>2, <2>3 DEF Keeps, Wrote
  <2> QED BY <1>2, <2>1, <2>4, FrameIs DEF x
<1>5. ASSUME NEW t
      PROVE  LET z == NewKid(m, n, s, y, t)
             IN  /\ z \in DOMAIN h \cup {Nil}
                 /\ z = Nil \/ z \in Whole(h, k)
                 /\ Nodes(h, z, k) \subseteq
                       Nodes(m, Kid(NodeAt(m, n), t), k) \cup (IF t = s THEN DOMAIN h \ DOMAIN m ELSE {})
  <2>1. CASE t = s
    BY <1>2, <2>1 DEF NewKid
  <2>2. CASE t # s
    <3> DEFINE x == Kid(NodeAt(m, n), t)
    <3>1. NewKid(m, n, s, y, t) = x
      BY <2>2 DEF NewKid
    <3>2. x \in DOMAIN m \cup {Nil} /\ (x = Nil \/ x \in Whole(m, k))
      BY <1>1, <1>3, KidIs DEF Parts
    <3>3. Same(m, h, x, k)
      BY <1>4, <2>2
    <3> HIDE DEF x
    <3>4. DOMAIN m \subseteq DOMAIN h
      BY <1>2 DEF Wrote
    <3> QED BY <2>2, <3>1, <3>2, <3>3, <3>4 DEF Same, x
  <2> QED BY <2>1, <2>2
<1> QED BY <1>4, <1>5 DEF NewParts

LEMMA InnerOk ==
    ASSUME Sizes, NEW V, None \in V, NEW m \in Heap(V), Closed(m), NEW e \in Nat,
           NEW k \in Nat, NEW n, n = Nil \/ n \in Whole(m, k + 1), NEW i \in Nat,
           NEW val \in V, NEW b, b \in Results(V),
           PutOk(m, e, Kid(NodeAt(m, n), SlotAt(k + 1, i)), k, i, val, b)
    PROVE  PutOk(m, e, n, k + 1, i, val, SetInner(m, e, n, SlotAt(k + 1, i), b))
<1> DEFINE s   == SlotAt(k + 1, i)
           old == NodeAt(m, n)
           c   == Kid(old, s)
           h   == b.heap
           y   == b.node
           u   == InnerUsed(m, n, s, b)
           q   == InnerNode(m, n, s, b)
           r   == SetInner(m, e, n, s, b)
           o   == r.heap
           p   == r.node
           z(t) == NewKid(m, n, s, y, t)
<1> SUFFICES PutOk(m, e, n, k + 1, i, val, r)
  OBVIOUS
<1>1. k + 1 \in Nat /\ n \in DOMAIN m \cup {Nil} /\ s \in Nat
  <2>1. k + 1 \in Nat
    OBVIOUS
  <2> QED BY <2>1, UsedIs, SlotIs
<1>2. /\ old \in NodeSet(V) /\ n \in Nat
      /\ h \in Heap(V) /\ y \in DOMAIN h \cup {Nil} /\ y \in Nat
      /\ u \in Int /\ q \in NodeSet(V)
  BY <1>1, InnerNodeIs, OldIs
<1>3. u = Cardinality(Wanted(m, n, k + 1, i, val))
  BY InnerCount
<1>4. u = 0 => r = [heap |-> h, node |-> Nil]
  BY SetInnerIs
<1>5. u # 0 => r = Own(h, e, n, q)
  BY SetInnerIs
<1>6. q = Relinked(old, u, InnerKids(old, s, y))
  BY DEF InnerNode
<1>7. PutOk(m, e, c, k, i, val, [heap |-> h, node |-> y])
  BY DEF PutOk
<1> HIDE DEF h, y, u, q, r
<1>8. /\ Closed(h)
      /\ Wrote(m, h, e, Nodes(m, c, k))
      /\ \A j \in Nat : GetBelow(h, y, k, j) = Expected(m, c, k, i, val, j)
  BY <1>7 DEF PutOk
<1>9. Parts(m, n, k)
  BY PartsIs
<1>10. NewParts(m, n, k, s, h, y) /\ \A t : t # s => Same(m, h, Kid(old, t), k)
  BY <1>2, <1>7, NewPartsIs
<1>11. Nodes(m, c, k) \subseteq Nodes(m, n, k + 1) \ {n}
  BY <1>9 DEF Parts
<1> HIDE DEF s, c, old
<1>12. CASE u = 0
  <2>1. o = h /\ p = Nil
    BY <1>4, <1>12
  <2>2. Wrote(m, h, e, Nodes(m, n, k + 1))
    BY <1>8, <1>11 DEF Wrote
  <2>3. Nodes(h, Nil, k + 1) = {} /\ \A j \in Nat : GetBelow(h, Nil, k + 1, j) = None
    BY <1>1, <1>2, <1>8, GetUnfold, NodesUnfold
  <2>4. \A j \in Nat : Expected(m, n, k + 1, i, val, j) = None
    <3>1. Cardinality(Wanted(m, n, k + 1, i, val)) = 0
      BY <1>3, <1>12
    <3> DEFINE K == k + 1
    <3> HIDE DEF K, o, p
    <3>2. K \in Nat /\ Cardinality(Wanted(m, n, K, i, val)) = 0
      BY <1>1, <3>1 DEF K
    <3>3. \A j \in Nat : Expected(m, n, K, i, val, j) = None
      <4>1. Tallied(m, n, K, i, val)
        BY <1>1, <3>2, CountIs
      <4> QED BY <3>2, <4>1 DEF Tallied
    <3> QED BY <3>3 DEF K
  <2> HIDE DEF o, p
  <2>5. /\ Closed(o)
        /\ Wrote(m, o, e, Nodes(m, n, k + 1))
        /\ Nodes(o, p, k + 1) = {}
        /\ \A j \in Nat : GetBelow(o, p, k + 1, j) = Expected(m, n, k + 1, i, val, j)
    BY <1>8, <2>1, <2>2, <2>3, <2>4
  <2> QED BY <2>1, <2>5 DEF PutOk, o, p
<1>13. CASE u # 0
  <2>1. o \in Heap(V) /\ OwnOk(h, e, n, q, r)
    BY <1>2, <1>5, <1>13, OwnIs
  <2>2. /\ p \in Nat \ {Nil}
        /\ DOMAIN o = DOMAIN h \cup {p}
        /\ o[p] = Stamped(q, e)
        /\ \A x \in DOMAIN h : x # p => o[x] = h[x]
        /\ p \in DOMAIN h => p = n /\ h[n].epoch = e
    BY <2>1 DEF OwnOk
  <2> HIDE DEF o, p
  <2>3. o[p].epoch = e /\ o[p].used = u /\ o[p].kids = InnerKids(old, s, y)
    <3> DEFINE f == InnerKids(old, s, y)
    <3>1. f \in Maps(Nat)
      BY <1>1, <1>2, InnerKidsIs
    <3>2. Has(q, old.epoch, u, old.vals, f)
      BY <1>2, <1>6, <3>1, RelinkedIs
    <3>3. Has(o[p], e, q.used, q.vals, q.kids)
      BY <1>2, <2>2, StampedIs
    <3> QED BY <3>2, <3>3 DEF Has
  <2>4. DOMAIN m \subseteq DOMAIN h
    BY <1>8 DEF Wrote
  <2>5. /\ \A t : Kid(o[p], t) = z(t)
        /\ \A t \in DOMAIN o[p].kids : o[p].kids[t] = z(t) /\ z(t) \in DOMAIN h
    <3>1. IF y = Nil THEN IsWithout(InnerKids(old, s, y), old.kids, s)
                     ELSE IsWith(InnerKids(old, s, y), old.kids, s, y)
      BY <1>1, <1>2, InnerKidsIs
    <3>2. \A t \in DOMAIN old.kids : old.kids[t] \in DOMAIN h
      BY <1>1, <2>4, OldKids DEF old
    <3>3. \A t : z(t) = IF t = s THEN y
                        ELSE IF t \in DOMAIN old.kids THEN old.kids[t] ELSE Nil
      BY DEF NewKid, Kid, old
    <3> HIDE DEF z
    <3>4. CASE y = Nil
      BY <2>3, <3>1, <3>2, <3>3, <3>4 DEF Kid, IsWithout
    <3>5. CASE y # Nil
      BY <1>2, <2>3, <3>1, <3>2, <3>3, <3>5 DEF Kid, IsWith
    <3> QED BY <3>4, <3>5
  <2>6. Closed(o)
    <3> HIDE DEF z
    <3> QED BY <1>8, <2>2, <2>5 DEF Closed
  <2>7. ASSUME NEW t
        PROVE  /\ z(t) \in DOMAIN h \cup {Nil}
               /\ z(t) = Nil \/ z(t) \in Whole(h, k)
               /\ Nodes(h, z(t), k) \subseteq
                    Nodes(m, Kid(old, t), k) \cup (IF t = s THEN DOMAIN h \ DOMAIN m ELSE {})
    BY <1>10 DEF NewParts, old
  <2> HIDE DEF z
  <2>8. ASSUME NEW t PROVE p \notin Nodes(h, z(t), k)
    <3>1. CASE p \in DOMAIN h
      <4>1. p = n /\ n \in DOMAIN m
        BY <1>1, <2>2, <3>1
      <4>2. n \notin Nodes(m, Kid(old, t), k)
        BY <1>9 DEF Parts, old
      <4> QED BY <2>7, <4>1, <4>2
    <3>2. CASE p \notin DOMAIN h
      <4>1. Nodes(h, z(t), k) \subseteq DOMAIN h
        BY <1>2, <1>8, <2>7, NodesIn
      <4> QED BY <3>2, <4>1
    <3> QED BY <3>1, <3>2
  <2>9. ASSUME NEW t PROVE Same(h, o, z(t), k)
    <3>1. Nodes(h, z(t), k) \subseteq DOMAIN h
      BY <1>2, <1>8, <2>7, NodesIn
    <3>2. Keeps(h, o, Nodes(h, z(t), k))
      BY <2>2, <2>8, <3>1 DEF Keeps
    <3> QED BY <1>2, <1>8, <2>1, <2>6, <2>7, <3>2, FrameIs DEF o
  <2>10. p \in DOMAIN m => p = n /\ m[n].epoch = e /\ n \in Nodes(m, n, k + 1)
    <3> SUFFICES ASSUME p \in DOMAIN m
                 PROVE  p = n /\ m[n].epoch = e /\ n \in Nodes(m, n, k + 1)
      OBVIOUS
    <3>1. p = n /\ n \in DOMAIN m /\ h[n].epoch = e
      BY <2>2, <2>4
    <3>2. n \notin Nodes(m, c, k)
      BY <1>11
    <3>3. h[n] = m[n]
      BY <1>8, <2>4, <3>1, <3>2 DEF Wrote
    <3>4. n \in Nodes(m, n, k + 1)
      BY <3>1, NodesUnfold
    <3> QED BY <3>1, <3>3, <3>4
  <2>11. Wrote(m, o, e, Nodes(m, n, k + 1))
    <3>1. ASSUME NEW x \in DOMAIN o
          PROVE  \/ x \in DOMAIN m /\ o[x] = m[x]
                 \/ o[x].epoch = e /\ (x \in DOMAIN m => x \in Nodes(m, n, k + 1) /\ m[x].epoch = e)
      <4>1. CASE x = p
        BY <2>3, <2>10, <4>1
      <4>2. CASE x # p
        <5>1. x \in DOMAIN h /\ o[x] = h[x]
          BY <2>2, <4>2
        <5> QED BY <1>8, <1>11, <5>1 DEF Wrote
      <4> QED BY <4>1, <4>2
    <3>2. DOMAIN m \subseteq DOMAIN o
      BY <2>2, <2>4
    <3> QED BY <3>1, <3>2 DEF Wrote
  <2>12. \A t : Nodes(o, z(t), k) \subseteq
                  Nodes(m, Kid(old, t), k) \cup (IF t = s THEN DOMAIN h \ DOMAIN m ELSE {})
    BY <2>7, <2>9 DEF Same
  <2>13. Nodes(o, p, k + 1) \subseteq Nodes(m, n, k + 1) \cup (DOMAIN o \ DOMAIN m)
    <3>1. Nodes(o, p, k + 1) = {p} \cup Below(o, p, k)
      BY <2>1, <2>2, <2>6, NodesUnfold DEF o
    <3>2. \A t : Nodes(m, Kid(old, t), k) \subseteq Nodes(m, n, k + 1)
      BY <1>9 DEF Parts, old
    <3>3. \A t \in DOMAIN o[p].kids :
             Nodes(o, o[p].kids[t], k) \subseteq Nodes(m, n, k + 1) \cup (DOMAIN h \ DOMAIN m)
      BY <2>5, <2>12, <3>2
    <3>4. Below(o, p, k) \subseteq Nodes(m, n, k + 1) \cup (DOMAIN h \ DOMAIN m)
      BY <3>3 DEF Below
    <3> QED BY <2>2, <2>10, <3>1, <3>4
  <2>14. ASSUME NEW j \in Nat
         PROVE  GetBelow(o, p, k + 1, j) = Expected(m, n, k + 1, i, val, j)
    <3> DEFINE t == SlotAt(k + 1, j)
    <3>1. GetBelow(o, p, k + 1, j) = GetBelow(o, z(t), k, j)
      BY <2>1, <2>2, <2>5, <2>6, GetUnfold DEF o
    <3>2. GetBelow(o, z(t), k, j) = GetBelow(h, z(t), k, j)
      BY <2>9 DEF Same
    <3>3. GetBelow(m, n, k + 1, j) = GetBelow(m, Kid(old, t), k, j)
      BY <1>1, GetNext DEF old
    <3>4. SamePlace(k + 1, i, j) <=> s = t /\ SamePlace(k, i, j)
      BY SamePlaceSplit DEF s
    <3> HIDE DEF t
    <3>5. CASE t = s
      <4>1. z(t) = y /\ Kid(old, t) = c
        BY <3>5 DEF z, NewKid, c
      <4>2. GetBelow(h, y, k, j) = Expected(m, c, k, i, val, j)
        BY <1>8
      <4> QED BY <3>1, <3>2, <3>3, <3>4, <3>5, <4>1, <4>2 DEF Expected
    <3>6. CASE t # s
      <4>1. z(t) = Kid(old, t)
        BY <3>6 DEF z, NewKid, old
      <4>2. GetBelow(h, Kid(old, t), k, j) = GetBelow(m, Kid(old, t), k, j)
        BY <1>10, <3>6 DEF Same
      <4> QED BY <3>1, <3>2, <3>3, <3>4, <3>6, <4>1, <4>2 DEF Expected
    <3> QED BY <3>5, <3>6
  <2>15. p \in Whole(o, k + 1)
    <3>1. Filled(o, p, k + 1) = Wanted(m, n, k + 1, i, val)
      BY <1>1, <2>14, FilledIsWanted
    <3>2. p \in DOMAIN o /\ Exact(o, p, k + 1)
      BY <1>3, <1>13, <2>2, <2>3, <3>1 DEF Exact
    <3>3. \A t \in DOMAIN o[p].kids : o[p].kids[t] \in Whole(o, k)
      <4>1. \A t \in DOMAIN o[p].kids : z(t) \in Whole(h, k)
        <5>1. Nil \notin DOMAIN h
          BY <1>2, HeapIs
        <5> QED BY <2>5, <2>7, <5>1
      <4> QED BY <2>5, <2>9, <4>1 DEF Same
    <3>4. Apart(o, p, k)
      <4>1. \A t : p \notin Nodes(o, z(t), k)
        BY <2>8, <2>9 DEF Same
      <4>2. ASSUME NEW t, NEW w, t # w PROVE Nodes(o, z(t), k) \cap Nodes(o, z(w), k) = {}
        <5>1. Nodes(m, Kid(old, t), k) \cap Nodes(m, Kid(old, w), k) = {}
          BY <1>9, <4>2 DEF Parts, old
        <5>2. \A x : Nodes(m, Kid(old, x), k) \subseteq DOMAIN m
          <6>1. \A x : Kid(old, x) \in DOMAIN m \cup {Nil}
            BY <1>1, KidIs DEF old
          <6> QED BY <6>1, NodesIn
        <5> QED BY <2>12, <4>2, <5>1, <5>2
      <4> QED BY <2>5, <4>1, <4>2 DEF Apart
    <3> QED BY <3>2, <3>3, <3>4, WholeUnfold
  <2> QED BY <2>6, <2>11, <2>13, <2>14, <2>15 DEF PutOk, o, p
<1> QED BY <1>12, <1>13

LEMMA PutIs ==
    ASSUME Sizes, NEW V, None \in V, NEW m \in Heap(V), Closed(m), NEW e \in Nat,
           NEW i \in Nat, NEW val \in V
    PROVE  \A k \in Nat : \A n : n = Nil \/ n \in Whole(m, k) =>
              /\ Put(m, e, n, k, i, val) \in Results(V)
              /\ PutOk(m, e, n, k, i, val, Put(m, e, n, k, i, val))
<1> DEFINE P(k, n) == n = Nil \/ n \in Whole(m, k) =>
                         PutOk(m, e, n, k, i, val, Put(m, e, n, k, i, val))
           S == {k \in Nat : \A n : P(k, n)}
<1>1. 0 \in S
  <2>1. ASSUME NEW n, n = Nil \/ n \in Whole(m, 0)
        PROVE  PutOk(m, e, n, 0, i, val, Put(m, e, n, 0, i, val))
    <3>1. n \in DOMAIN m \cup {Nil}
      BY <2>1, UsedIs
    <3>2. Put(m, e, n, 0, i, val) = SetLeaf(m, e, n, SlotAt(0, i), val)
      BY <3>1, PutUnfold
    <3> QED BY <2>1, <3>2, LeafOk
  <2> QED BY <2>1
<1>2. ASSUME NEW k \in S PROVE k + 1 \in S
  <2>1. k \in Nat /\ k + 1 \in Nat
    OBVIOUS
  <2>2. ASSUME NEW n, n = Nil \/ n \in Whole(m, k + 1)
        PROVE  PutOk(m, e, n, k + 1, i, val, Put(m, e, n, k + 1, i, val))
    <3> DEFINE s == SlotAt(k + 1, i)
               c == Kid(NodeAt(m, n), s)
               b == Put(m, e, c, k, i, val)
    <3>1. n \in DOMAIN m \cup {Nil}
      BY <2>1, <2>2, UsedIs
    <3>2. Put(m, e, n, k + 1, i, val) = SetInner(m, e, n, s, b)
      BY <2>1, <3>1, PutUnfold
    <3>3. c \in DOMAIN m \cup {Nil} /\ (c = Nil \/ c \in Whole(m, k))
      BY <2>1, <2>2, <3>1, KidIs, PartsIs DEF Parts
    <3>4. b \in Results(V)
      BY <2>1, <3>3, PutUnfold
    <3>5. PutOk(m, e, c, k, i, val, b)
      BY <3>3
    <3> HIDE DEF b
    <3>6. PutOk(m, e, n, k + 1, i, val, SetInner(m, e, n, s, b))
      BY <2>1, <2>2, <3>4, <3>5, InnerOk
    <3> QED BY <3>2, <3>6
  <2> QED BY <2>1, <2>2
<1> HIDE DEF S
<1>3. S \in SUBSET Nat
  BY DEF S
<1>4. \A k \in Nat : k \in S
  BY <1>1, <1>2, <1>3, SetInduction
<1>5. ASSUME NEW k \in Nat, NEW n, n = Nil \/ n \in Whole(m, k)
      PROVE  Put(m, e, n, k, i, val) \in Results(V)
  BY <1>5, UsedIs, PutUnfold
<1> QED BY <1>4, <1>5 DEF S

\* One step of Put, and what it counts, at one node: K is the height above k.
\* K is the height of the nodes over those of height k.
Over(K, k) == K \in Nat /\ k \in Nat /\ K = k + 1

\* val may be put at i of m by the writer of epoch e.
Putting(V, m, e, i, val) ==
    /\ Sizes /\ None \in V /\ m \in Heap(V) /\ Closed(m)
    /\ e \in Nat /\ i \in Nat /\ val \in V

LEMMA PutStart ==
    ASSUME NEW V, NEW m, NEW e, NEW i, NEW val, Putting(V, m, e, i, val),
           NEW n, n \in DOMAIN m \cup {Nil}
    PROVE  Put(m, e, n, 0, i, val) = SetLeaf(m, e, n, SlotAt(0, i), val)
BY PutUnfold DEF Putting

LEMMA PutStep ==
    ASSUME NEW V, NEW m, NEW e, NEW i, NEW val, Putting(V, m, e, i, val),
           NEW n, n \in DOMAIN m \cup {Nil}, NEW k, NEW K, Over(K, k)
    PROVE  Put(m, e, n, K, i, val) =
              SetInner(m, e, n, SlotAt(K, i),
                       Put(m, e, Kid(NodeAt(m, n), SlotAt(K, i)), k, i, val))
BY PutUnfold DEF Putting, Over

LEMMA PutDone ==
    ASSUME NEW V, NEW m, NEW e, NEW i, NEW val, Putting(V, m, e, i, val),
           NEW k, k \in Nat, NEW n, n = Nil \/ n \in Whole(m, k)
    PROVE  /\ Put(m, e, n, k, i, val) \in Results(V)
           /\ PutOk(m, e, n, k, i, val, Put(m, e, n, k, i, val))
BY PutIs DEF Putting

LEMMA PutCount ==
    ASSUME NEW V, NEW m, NEW e, NEW i, NEW val, Putting(V, m, e, i, val),
           NEW k, NEW K, Over(K, k), NEW n, n = Nil \/ n \in Whole(m, K),
           NEW c, c = Kid(NodeAt(m, n), SlotAt(K, i)), c = Nil \/ c \in Whole(m, k)
    PROVE  InnerUsed(m, n, SlotAt(K, i), Put(m, e, c, k, i, val)) =
              Cardinality(Wanted(m, n, K, i, val))
<1>1. /\ Put(m, e, c, k, i, val) \in Results(V)
      /\ PutOk(m, e, c, k, i, val, Put(m, e, c, k, i, val))
  BY PutIs DEF Putting, Over
<1> QED BY <1>1, InnerCount DEF Putting, Over

\* If a write leaves nothing at n, it leaves nothing below it.
LEMMA NoneLeft ==
    ASSUME NEW V, NEW m, NEW e, NEW i, Putting(V, m, e, i, None), NEW k, NEW K, Over(K, k),
           NEW n, n = Nil \/ n \in Whole(m, K),
           NEW c, c = Kid(NodeAt(m, n), SlotAt(K, i)), c = Nil \/ c \in Whole(m, k),
           Put(m, e, n, K, i, None).node = Nil
    PROVE  Put(m, e, c, k, i, None).node = Nil
<1> DEFINE r == Put(m, e, n, K, i, None)
           b == Put(m, e, c, k, i, None)
           h == b.heap
           x == b.node
           s == SlotAt(K, i)
<1>1. /\ Sizes /\ None \in V /\ m \in Heap(V) /\ Closed(m) /\ i \in Nat
      /\ K \in Nat /\ k \in Nat /\ K = k + 1
  BY DEF Putting, Over
<1>2. /\ r \in Results(V) /\ PutOk(m, e, n, K, i, None, r)
      /\ b \in Results(V) /\ PutOk(m, e, c, k, i, None, b)
  BY <1>1, PutDone
<1>3. n \in DOMAIN m \cup {Nil} /\ c \in DOMAIN m \cup {Nil}
  BY <1>1, UsedIs
<1>4. s \in Nat /\ s < InnerSize
  <2>1. s = (i \div Span(k)) % InnerSize /\ Span(k) \in Nat \ {0} /\ InnerSize \in Nat \ {0}
    BY <1>1, SlotIs, SpanIs DEF Sizes
  <2>2. i \div Span(k) \in Nat
    BY <1>1, <2>1, DivMod
  <2>3. (i \div Span(k)) % InnerSize \in 0..(InnerSize - 1)
    BY <2>1, <2>2, DivMod
  <2> QED BY <2>1, <2>3
<1>5. r.heap \in Heap(V) /\ Closed(r.heap) /\ r.node = Nil /\ h \in Heap(V) /\ Closed(h)
  BY <1>2 DEF Results, PutOk
<1> HIDE DEF r, b
<1>6. \A j \in Nat : Expected(m, n, K, i, None, j) = None
  <2>1. \A j \in Nat : GetBelow(r.heap, r.node, K, j) = Expected(m, n, K, i, None, j)
    BY <1>2 DEF PutOk
  <2>2. \A j \in Nat : GetBelow(r.heap, Nil, K, j) = None
    BY <1>1, <1>5, GetUnfold
  <2> QED BY <1>5, <2>1, <2>2
<1>7. ASSUME x # Nil PROVE FALSE
  <2>1. x \in Whole(h, k)
    BY <1>2, <1>7 DEF PutOk
  <2>2. Exact(h, x, k)
    <3>1. CASE k = 0
      BY <2>1, <3>1, WholeUnfold
    <3>2. CASE k # 0
      <4>1. k - 1 \in Nat /\ (k - 1) + 1 = k
        BY <1>1, <3>2
      <4>2. x \in Whole(h, (k - 1) + 1) => Exact(h, x, (k - 1) + 1)
        BY <4>1, WholeUnfold
      <4> QED BY <2>1, <4>1, <4>2
    <3> QED BY <3>1, <3>2
  <2>3. PICK j \in Nat : GetBelow(h, x, k, j) # None
    <3>1. Filled(h, x, k) # {}
      BY <2>2, FS_EmptySet DEF Exact
    <3>2. Span(k) \in Nat \ {0}
      BY <1>1, SpanIs
    <3> QED BY <3>1, <3>2 DEF Filled
  <2>4. GetBelow(h, x, k, j) = Expected(m, c, k, i, None, j)
    BY <1>2 DEF PutOk
  <2>5. ~ SamePlace(k, i, j) /\ GetBelow(m, c, k, j) # None
    BY <2>3, <2>4 DEF Expected
  <2>6. PICK y \in Nat : SlotAt(k + 1, y) = s /\ SamePlace(k, j, y)
    BY <1>1, <1>4, PlaceAt
  <2>7. GetBelow(m, c, k, y) = GetBelow(m, c, k, j)
    BY <1>1, <1>3, <2>6, SameGet
  <2>8. GetBelow(m, n, k + 1, y) = GetBelow(m, Kid(NodeAt(m, n), SlotAt(k + 1, y)), k, y)
    BY <1>1, <1>3, GetNext
  <2>9. GetBelow(m, n, K, y) # None
    BY <1>1, <2>5, <2>6, <2>7, <2>8
  <2>10. ~ SamePlace(K, i, y)
    <3>1. ~ SamePlace(k, i, y)
      BY <2>5, <2>6 DEF SamePlace
    <3> QED BY <1>1, <3>1, SamePlaceSplit
  <2> QED BY <1>6, <2>9, <2>10 DEF Expected
<1> QED BY <1>7 DEF b, x

----------------------------------------------------------------------------
(* Growing: one level more, child 0 the old root, until i has a place.     *)

\* From the vector v of m to w of o: nothing is overwritten, and every index is
\* where it was.
GrownOk(m, v, o, w, e) ==
    /\ Closed(o)
    /\ Wrote(m, o, e, {})
    /\ IsVec(o, w)
    /\ v.height <= w.height
    /\ Nodes(o, w.root, w.height) \subseteq
          Nodes(m, v.root, v.height) \cup (DOMAIN o \ DOMAIN m)
    /\ \A j \in Nat : Get(o, w, j) = Get(m, v, j)

LEMMA SpanMonotone ==
    ASSUME Sizes
    PROVE  \A h, k \in Nat : h <= k => Span(h) <= Span(k)
<1> DEFINE S == {d \in Nat : \A h \in Nat : Span(h) <= Span(h + d)}
<1>1. 0 \in S
  <2>1. \A h \in Nat : h + 0 = h /\ Span(h) \in Nat
    BY SpanIs
  <2> QED BY <2>1
<1>2. ASSUME NEW d \in S PROVE d + 1 \in S
  <2>1. d \in Nat /\ d + 1 \in Nat
    OBVIOUS
  <2>2. ASSUME NEW h \in Nat PROVE Span(h) <= Span(h + (d + 1))
    <3>1. h + d \in Nat /\ h + (d + 1) = (h + d) + 1
      BY <2>1
    <3>2. Span(h) <= Span(h + d)
      OBVIOUS
    <3>3. Span(h + d) < Span((h + d) + 1)
      BY <3>1, SpanGrows
    <3>4. Span(h) \in Nat /\ Span(h + d) \in Nat /\ Span((h + d) + 1) \in Nat
      BY <3>1, SpanIs
    <3> QED BY <3>1, <3>2, <3>3, <3>4
  <2> QED BY <2>1, <2>2
<1> HIDE DEF S
<1>3. S \in SUBSET Nat
  BY DEF S
<1>4. \A d \in Nat : d \in S
  BY <1>1, <1>2, <1>3, SetInduction
<1>5. ASSUME NEW h \in Nat, NEW k \in Nat, h <= k PROVE Span(h) <= Span(k)
  <2>1. k - h \in Nat /\ h + (k - h) = k
    BY <1>5
  <2> QED BY <1>4, <2>1 DEF S
<1> QED BY <1>5

LEMMA HeightForIs ==
    ASSUME Sizes, NEW i \in Nat
    PROVE  HeightFor(i) \in Nat /\ i < Span(HeightFor(i))
<1> DEFINE H == {h \in 0..i : i < Span(h)}
<1>1. H \subseteq Nat /\ H # {}
  <2>1. i \in 0..i /\ i < Span(i)
    BY SpanGrows
  <2> QED BY <2>1
<1>2. \A h : h \in H <=> h \in 0..i /\ i < Span(h)
  OBVIOUS
<1> HIDE DEF H
<1>3. PICK h \in H : \A k \in H : h <= k
  BY <1>1, LeastExists
<1>4. h \in 0..i /\ i < Span(h) /\ \A k \in 0..i : i < Span(k) => h <= k
  BY <1>2, <1>3
<1>5. HeightFor(i) \in 0..i /\ i < Span(HeightFor(i))
  BY <1>4 DEF HeightFor
<1> QED BY <1>5

LEMMA TallerOk ==
    ASSUME Sizes, NEW V, None \in V, NEW m, m \in Heap(V), Closed(m), NEW e \in Nat,
           NEW v, IsVec(m, v)
    PROVE  /\ Taller(m, e, v).heap \in Heap(V)
           /\ GrownOk(m, v, Taller(m, e, v).heap, Taller(m, e, v).vec, e)
           /\ Taller(m, e, v).vec.height = v.height + 1
<1> DEFINE n == v.root
           k == v.height
           q == [Blank EXCEPT !.used = m[n].used, !.kids = With(@, 0, n)]
           r == Own(m, e, Nil, q)
           o == IF n = Nil THEN m ELSE r.heap
           p == IF n = Nil THEN Nil ELSE r.node
           w == [root |-> p, height |-> k + 1]
           t == Taller(m, e, v)
<1>1. t.heap = o /\ t.vec = w
  BY DEF Taller
<1> SUFFICES o \in Heap(V) /\ GrownOk(m, v, o, w, e)
  BY <1>1
<1>2. k \in Nat /\ k + 1 \in Nat /\ (n = Nil \/ n \in Whole(m, k))
  BY DEF IsVec
<1>3. n \in DOMAIN m \cup {Nil} /\ NodeAt(m, n).used = Cardinality(Filled(m, n, k))
  BY <1>2, UsedIs
<1>4. Span(k) \in Nat /\ Span(k + 1) \in Nat /\ Span(k) < Span(k + 1)
  BY <1>2, SpanIs, SpanGrows
<1>5. w.root = p /\ w.height = k + 1 /\ w = [root |-> w.root, height |-> w.height]
  OBVIOUS
<1>6. k <= k + 1
  BY <1>2
<1> HIDE DEF t, w, k, n
<1>7. CASE n = Nil
  <2>1. o = m /\ p = Nil
    BY <1>7
  <2>2. \A j \in Nat : Get(m, w, j) = None /\ Get(m, v, j) = None
    BY <1>2, <1>5, <1>7, <2>1, GetUnfold DEF Get, n, k
  <2>3. Nodes(m, Nil, k + 1) = {}
    BY <1>2, NodesUnfold
  <2>4. Wrote(m, m, e, {})
    BY DEF Wrote
  <2>5. IsVec(m, w)
    BY <1>2, <1>5, <2>1 DEF IsVec
  <2> QED BY <1>5, <1>6, <2>1, <2>2, <2>3, <2>4, <2>5 DEF GrownOk, n, k
<1>8. CASE n # Nil
  <2>1. n \in DOMAIN m /\ NodeAt(m, n) = m[n] /\ n \in Nat /\ m[n].used \in Int
    BY <1>3, <1>8, OldIs DEF NodeAt
  <2>2. q \in NodeSet(V) /\ q.used = m[n].used /\ IsWith(q.kids, << >>, 0, n)
    <3> DEFINE f == With(<< >>, 0, n)
               u == m[n].used
    <3>1. Blank \in NodeSet(V) /\ Blank.kids = << >> /\ Blank.kids \in Maps(Nat)
      BY BlankIs, NodeIs
    <3>2. q = Relinked(Blank, u, f)
      BY DEF Relinked, Blank
    <3>3. f \in Maps(Nat) /\ IsWith(f, << >>, 0, n)
      BY <2>1, <3>1, WithIs
    <3>4. u \in Int
      BY <2>1
    <3> HIDE DEF q, f, u
    <3>5. q \in NodeSet(V) /\ Has(q, Blank.epoch, u, Blank.vals, f)
      BY <3>1, <3>2, <3>3, <3>4, RelinkedIs
    <3> QED BY <3>3, <3>5 DEF Has, u
  <2>3. o = r.heap /\ p = r.node /\ Nil \in Nat
    BY <1>8 DEF Nil
  <2> HIDE DEF q
  <2>4. r.heap \in Heap(V) /\ OwnOk(m, e, Nil, q, r)
    BY <2>2, <2>3, OwnIs
  <2> HIDE DEF o, p, r
  <2>5. /\ o \in Heap(V)
        /\ p \in Nat \ {Nil} /\ p \notin DOMAIN m
        /\ DOMAIN o = DOMAIN m \cup {p}
        /\ o[p] = Stamped(q, e)
        /\ \A x \in DOMAIN m : o[x] = m[x]
    BY <2>3, <2>4 DEF OwnOk
  <2>6. o[p].epoch = e /\ o[p].used = m[n].used /\ IsWith(o[p].kids, << >>, 0, n)
    <3>1. Has(o[p], e, q.used, q.vals, q.kids)
      BY <2>2, <2>5, StampedIs
    <3> QED BY <2>2, <3>1 DEF Has
  <2>7. DOMAIN o[p].kids = {0} /\ o[p].kids[0] = n
    BY <2>6 DEF IsWith
  <2>8. Closed(o)
    BY <2>1, <2>5, <2>7 DEF Closed
  <2>9. Same(m, o, n, k)
    <3>1. Nodes(m, n, k) \subseteq DOMAIN m
      BY <1>2, <1>3, NodesIn
    <3>2. Keeps(m, o, Nodes(m, n, k))
      BY <2>5, <3>1 DEF Keeps
    <3> QED BY <1>2, <2>1, <2>5, <2>8, <3>2, FrameIs
  <2>10. Nodes(o, p, k + 1) = {p} \cup Nodes(m, n, k)
    <3>1. Nodes(o, p, k + 1) = {p} \cup Below(o, p, k)
      BY <1>2, <2>5, <2>8, NodesUnfold
    <3>2. Below(o, p, k) = Nodes(o, n, k)
      BY <2>7 DEF Below
    <3> QED BY <2>9, <3>1, <3>2 DEF Same
  <2>11. ASSUME NEW j \in Nat, j < Span(k + 1)
         PROVE  GetBelow(o, p, k + 1, j) = IF j < Span(k) THEN GetBelow(m, n, k, j) ELSE None
    <3> DEFINE s == SlotAt(k + 1, j)
    <3>1. GetBelow(o, p, k + 1, j) = GetBelow(o, Kid(o[p], s), k, j)
      BY <1>2, <2>5, <2>8, GetUnfold
    <3>2. s = 0 <=> j < Span(k)
      BY <1>2, <2>11, FirstSlot
    <3> HIDE DEF s
    <3>3. CASE s = 0
      <4>1. Kid(o[p], s) = n
        BY <2>7, <3>3 DEF Kid
      <4>2. GetBelow(o, n, k, j) = GetBelow(m, n, k, j)
        BY <2>9 DEF Same
      <4> QED BY <3>1, <3>2, <3>3, <4>1, <4>2
    <3>4. CASE s # 0
      <4>1. Kid(o[p], s) = Nil
        BY <2>7, <3>4 DEF Kid
      <4>2. GetBelow(o, Nil, k, j) = None
        BY <1>2, <2>5, <2>8, GetUnfold
      <4> QED BY <3>1, <3>2, <3>4, <4>1, <4>2
    <3> QED BY <3>3, <3>4
  <2>12. Filled(o, p, k + 1) = Filled(m, n, k)
    <3> DEFINE I == 0..(Span(k) - 1)
               J == 0..(Span(k + 1) - 1)
    <3>1. \A j : j \in I <=> j \in J /\ j < Span(k)
      BY <1>4
    <3>2. \A j \in J : j \in Nat /\ j < Span(k + 1)
      BY <1>4
    <3> HIDE DEF I, J
    <3>3. \A j \in J : GetBelow(o, p, k + 1, j) = IF j \in I THEN GetBelow(m, n, k, j) ELSE None
      BY <2>11, <3>1, <3>2
    <3>4. \A j : j \in Filled(o, p, k + 1) <=> j \in J /\ GetBelow(o, p, k + 1, j) # None
      BY DEF Filled, J
    <3>5. \A j : j \in Filled(m, n, k) <=> j \in I /\ GetBelow(m, n, k, j) # None
      BY DEF Filled, I
    <3>6. Filled(o, p, k + 1) \subseteq J /\ Filled(m, n, k) \subseteq I
      BY <3>4, <3>5
    <3>7. \A j : j \in Filled(o, p, k + 1) <=> j \in Filled(m, n, k)
      BY <3>1, <3>3, <3>4, <3>5
    <3> QED BY <3>7
  <2>13. p \in Whole(o, k + 1)
    <3>1. Exact(o, p, k + 1)
      <4>1. Exact(m, n, k)
        <5>1. CASE k = 0
          BY <1>2, <1>8, <5>1, WholeUnfold
        <5>2. CASE k # 0
          <6>1. k - 1 \in Nat /\ (k - 1) + 1 = k
            BY <1>2, <5>2
          <6> QED BY <1>2, <1>8, <6>1, WholeUnfold
        <5> QED BY <5>1, <5>2
      <4> QED BY <2>6, <2>12, <4>1 DEF Exact
    <3>2. Apart(o, p, k)
      <4>1. p \notin Nodes(o, n, k)
        <5>1. Nodes(m, n, k) \subseteq DOMAIN m
          BY <1>2, <1>3, NodesIn
        <5> QED BY <2>5, <2>9, <5>1 DEF Same
      <4> QED BY <2>7, <4>1 DEF Apart
    <3>3. \A s \in DOMAIN o[p].kids : o[p].kids[s] \in Whole(o, k)
      BY <1>2, <1>8, <2>7, <2>9 DEF Same
    <3> QED BY <1>2, <2>5, <3>1, <3>2, <3>3, WholeUnfold
  <2>14. ASSUME NEW j \in Nat PROVE Get(o, w, j) = Get(m, v, j)
    <3>1. Get(o, w, j) = IF j < Span(k + 1) THEN GetBelow(o, p, k + 1, j) ELSE None
      BY <1>5 DEF Get
    <3>2. Get(m, v, j) = IF j < Span(k) THEN GetBelow(m, n, k, j) ELSE None
      BY DEF Get, n, k
    <3> QED BY <1>4, <2>11, <3>1, <3>2
  <2>15. Wrote(m, o, e, {})
    BY <2>5, <2>6 DEF Wrote
  <2>16. IsVec(o, w)
    BY <1>2, <1>5, <2>13 DEF IsVec
  <2>17. Nodes(o, p, k + 1) \subseteq Nodes(m, n, k) \cup (DOMAIN o \ DOMAIN m)
    BY <2>5, <2>10
  <2> QED BY <1>5, <1>6, <2>5, <2>8, <2>14, <2>15, <2>16, <2>17 DEF GrownOk, n, k
<1> QED BY <1>7, <1>8

LEMMA GrownTwice ==
    ASSUME NEW m, NEW v, NEW o, NEW w, NEW p, NEW x, NEW e,
           GrownOk(m, v, o, w, e), GrownOk(o, w, p, x, e), IsVec(m, v)
    PROVE  GrownOk(m, v, p, x, e)
<1>1. Closed(p) /\ IsVec(p, x) /\ v.height <= x.height
  BY DEF GrownOk, IsVec
<1>2. Wrote(m, p, e, {})
  BY DEF GrownOk, Wrote
<1>3. Nodes(p, x.root, x.height) \subseteq Nodes(m, v.root, v.height) \cup (DOMAIN p \ DOMAIN m)
  BY DEF GrownOk, Wrote
<1>4. \A j \in Nat : Get(p, x, j) = Get(m, v, j)
  BY DEF GrownOk
<1> QED BY <1>1, <1>2, <1>3, <1>4 DEF GrownOk

LEMMA GrownNot ==
    ASSUME NEW m, NEW v, NEW e, Closed(m), IsVec(m, v)
    PROVE  GrownOk(m, v, m, v, e)
BY DEF GrownOk, Wrote, IsVec

\* The levels that Grow adds, as Grow has them.
Growing(V) == {g \in [heap : Heap(V), vec : [root : Nat, height : Nat]] :
                   g.vec.root \in DOMAIN g.heap \cup {Nil}}

LEMMA GrowingIs ==
    ASSUME NEW V, NEW h, h \in Heap(V), NEW v,
           v = [root |-> v.root, height |-> v.height], v.height \in Nat,
           v.root \in DOMAIN h \cup {Nil}
    PROVE  [heap |-> h, vec |-> v] \in Growing(V)
<1> DEFINE g == [heap |-> h, vec |-> v]
<1>1. v.root \in Nat
  BY HeapIs DEF Nil
<1>2. v \in [root : Nat, height : Nat]
  BY <1>1
<1>3. g.heap = h /\ g.vec = v
  OBVIOUS
<1>4. g \in [heap : Heap(V), vec : [root : Nat, height : Nat]]
  BY <1>2
<1> HIDE DEF g
<1> QED BY <1>3, <1>4 DEF Growing, g

LEMMA TallerType ==
    ASSUME NEW V, NEW g, g \in Growing(V), NEW e \in Nat
    PROVE  Taller(g.heap, e, g.vec) \in Growing(V)
<1> DEFINE m == g.heap
           n == g.vec.root
           q == [Blank EXCEPT !.used = m[n].used, !.kids = With(@, 0, n)]
           r == Own(m, e, Nil, q)
           o == IF n = Nil THEN m ELSE r.heap
           p == IF n = Nil THEN Nil ELSE r.node
           w == [root |-> p, height |-> g.vec.height + 1]
<1>1. m \in Heap(V) /\ n \in DOMAIN m \cup {Nil} /\ g.vec.height + 1 \in Nat
  BY DEF Growing
<1>2. Taller(m, e, g.vec) = [heap |-> o, vec |-> w]
  BY DEF Taller
<1>3. w = [root |-> w.root, height |-> w.height] /\ w.root = p /\ w.height \in Nat
  BY <1>1
<1> HIDE DEF w, m, n
<1>4. n # Nil => r.heap \in Heap(V) /\ r.node \in DOMAIN r.heap
  <2> SUFFICES ASSUME n # Nil PROVE r.heap \in Heap(V) /\ r.node \in DOMAIN r.heap
    OBVIOUS
  <2>1. n \in Nat /\ m[n].used \in Int
    BY <1>1, OldIs DEF NodeAt
  <2>2. q \in NodeSet(V)
    <3> DEFINE f == With(<< >>, 0, n)
               u == m[n].used
    <3>1. Blank \in NodeSet(V) /\ Blank.kids = << >> /\ Blank.kids \in Maps(Nat)
      BY BlankIs, NodeIs
    <3>2. q = Relinked(Blank, u, f)
      BY DEF Relinked, Blank
    <3>3. f \in Maps(Nat)
      BY <2>1, <3>1, WithIs
    <3>4. u \in Int
      BY <2>1
    <3> HIDE DEF q, f, u
    <3> QED BY <3>1, <3>2, <3>3, <3>4, RelinkedIs
  <2>3. Nil \in Nat
    BY DEF Nil
  <2> HIDE DEF q
  <2>4. r.heap \in Heap(V) /\ OwnOk(m, e, Nil, q, r)
    BY <1>1, <2>2, <2>3, OwnIs
  <2> QED BY <2>4 DEF OwnOk
<1> HIDE DEF r
<1>5. o \in Heap(V) /\ p \in DOMAIN o \cup {Nil}
  BY <1>1, <1>4
<1> HIDE DEF o, p
<1>6. [heap |-> o, vec |-> w] \in Growing(V)
  BY <1>3, <1>5, GrowingIs
<1> QED BY <1>2, <1>6 DEF m

\* What Grow makes, one level after the other.
Levels(m, e, v, grow) ==
    /\ grow[0] = [heap |-> m, vec |-> v]
    /\ \A k \in Nat : grow[k + 1] = Taller(grow[k].heap, e, grow[k].vec)

LEMMA GrowUnfold ==
    ASSUME Sizes, NEW V, None \in V, NEW m \in Heap(V), Closed(m), NEW e \in Nat,
           NEW v, IsVec(m, v), NEW i \in Nat
    PROVE  \E grow : /\ Levels(m, e, v, grow)
                     /\ Grow(m, e, v, i) = IF v.height < HeightFor(i)
                                           THEN grow[HeightFor(i) - v.height] ELSE grow[0]
<1> DEFINE Z == [heap |-> m, vec |-> v]
           N(g) == Taller(g.heap, e, g.vec)
           E(f) == [k \in Nat |-> IF k = 0 THEN [heap |-> m, vec |-> v]
                                  ELSE Taller(f[k - 1].heap, e, f[k - 1].vec)]
           grow == CHOOSE f : f = E(f)
           T == Growing(V)
           G == [p \in Nat \X T |-> N(p[2])]
           H == HeightFor(i)
<1>1. v.height \in Nat
  BY DEF IsVec
<1>2. \E f : f = E(f)
  <2>1. Z \in T
    <3>1. v.root \in DOMAIN m \cup {Nil}
      BY <1>1, UsedIs DEF IsVec
    <3> QED BY <1>1, <3>1, GrowingIs DEF IsVec
  <2>2. \A g \in T : N(g) \in T
    BY TallerType
  <2> HIDE DEF T, N
  <2>3. G \in [Nat \X T -> T]
    BY <2>2
  <2>4. \A k \in Nat, g \in T : G[<<k, g>>] = N(g)
    OBVIOUS
  <2> HIDE DEF G, Z
  <2>5. PICK f : Follows(f, T, Z, G)
    BY <2>1, <2>3, RecursionExists DEF Recursive
  <2>6. f \in [Nat -> T] /\ f[0] = Z /\ \A k \in Nat : f[k + 1] = N(f[k])
    BY <2>4, <2>5 DEF Follows
  <2>7. ASSUME NEW k \in Nat PROVE f[k] = E(f)[k]
    <3>1. CASE k = 0
      BY <2>6, <3>1 DEF Z
    <3>2. CASE k # 0
      <4>1. k - 1 \in Nat /\ (k - 1) + 1 = k
        BY <3>2
      <4>2. f[k] = N(f[k - 1])
        BY <2>6, <4>1
      <4> QED BY <3>2, <4>2 DEF N
    <3> QED BY <3>1, <3>2
  <2>8. f = E(f)
    BY <2>6, <2>7
  <2> QED BY <2>8
<1>3. grow = E(grow)
  BY <1>2
<1>4. Grow(m, e, v, i) = IF v.height < H THEN grow[H - v.height] ELSE grow[0]
  BY DEF Grow
<1> HIDE DEF grow, H
<1>5. grow[0] = Z
  BY <1>3
<1>6. \A k \in Nat : grow[k + 1] = Taller(grow[k].heap, e, grow[k].vec)
  <2>1. \A k \in Nat : k + 1 \in Nat /\ k + 1 # 0 /\ (k + 1) - 1 = k
    OBVIOUS
  <2> QED BY <1>3, <2>1
<1> QED BY <1>4, <1>5, <1>6 DEF Levels, Z, H

LEMMA GrowOk ==
    ASSUME Sizes, NEW V, None \in V, NEW m \in Heap(V), Closed(m), NEW e \in Nat,
           NEW v, IsVec(m, v), NEW i \in Nat
    PROVE  /\ Grow(m, e, v, i).heap \in Heap(V)
           /\ GrownOk(m, v, Grow(m, e, v, i).heap, Grow(m, e, v, i).vec, e)
           /\ i < Span(Grow(m, e, v, i).vec.height)
<1> DEFINE Z == [heap |-> m, vec |-> v]
           H == HeightFor(i)
<1>1. v.height \in Nat /\ H \in Nat /\ i < Span(H)
  BY HeightForIs DEF IsVec
<1> HIDE DEF H
<1>2. PICK grow : /\ Levels(m, e, v, grow)
                  /\ Grow(m, e, v, i) = IF v.height < H THEN grow[H - v.height] ELSE grow[0]
  BY GrowUnfold DEF H
<1>4. Grow(m, e, v, i) = IF v.height < H THEN grow[H - v.height] ELSE grow[0]
  BY <1>2
<1>5. grow[0] = Z
  BY <1>2 DEF Levels
<1>6. \A k \in Nat : grow[k + 1] = Taller(grow[k].heap, e, grow[k].vec)
  BY <1>2 DEF Levels
<1> DEFINE P(k) == /\ grow[k].heap \in Heap(V)
                   /\ GrownOk(m, v, grow[k].heap, grow[k].vec, e)
                   /\ grow[k].vec.height = v.height + k
           S == {k \in Nat : P(k)}
<1>7. \A k \in Nat : k \in S
  <2>1. 0 \in S
    BY <1>1, <1>5, GrownNot
  <2>2. ASSUME NEW k \in S PROVE k + 1 \in S
    <3> DEFINE o == grow[k].heap
               w == grow[k].vec
               p == Taller(o, e, w).heap
               x == Taller(o, e, w).vec
    <3>1. k \in Nat /\ k + 1 \in Nat /\ v.height + (k + 1) = (v.height + k) + 1
      BY <1>1
    <3>2. o \in Heap(V) /\ GrownOk(m, v, o, w, e) /\ w.height = v.height + k
      OBVIOUS
    <3>3. grow[k + 1].heap = p /\ grow[k + 1].vec = x
      BY <1>6, <3>1
    <3> HIDE DEF o, w, S
    <3>4. Closed(o) /\ IsVec(o, w)
      BY <3>2 DEF GrownOk
    <3>5. p \in Heap(V) /\ GrownOk(o, w, p, x, e) /\ x.height = w.height + 1
      BY <3>2, <3>4, TallerOk
    <3> HIDE DEF p, x
    <3>6. GrownOk(m, v, p, x, e)
      BY <3>2, <3>5, GrownTwice
    <3> QED BY <3>1, <3>2, <3>3, <3>5, <3>6 DEF S
  <2> HIDE DEF S
  <2>3. S \in SUBSET Nat
    BY DEF S
  <2> QED BY <2>1, <2>2, <2>3, SetInduction
<1>8. \A k \in Nat : P(k)
  BY <1>7
<1> HIDE DEF P, S
<1>9. CASE v.height < H
  <2> DEFINE d == H - v.height
  <2>1. d \in Nat /\ v.height + d = H /\ Grow(m, e, v, i) = grow[d]
    BY <1>1, <1>4, <1>9
  <2> HIDE DEF d
  <2>2. P(d)
    BY <1>8, <2>1
  <2> QED BY <1>1, <2>1, <2>2 DEF P
<1>10. CASE ~ (v.height < H)
  <2>1. H <= v.height /\ Grow(m, e, v, i) = grow[0] /\ v.height + 0 = v.height
    BY <1>1, <1>4, <1>10
  <2>2. P(0)
    BY <1>8
  <2>3. Span(H) <= Span(v.height) /\ Span(H) \in Nat /\ Span(v.height) \in Nat
    BY <1>1, <2>1, SpanMonotone, SpanIs
  <2>4. i < Span(v.height)
    BY <1>1, <2>3
  <2> QED BY <2>1, <2>2, <2>4 DEF P
<1> QED BY <1>9, <1>10

----------------------------------------------------------------------------
(* Set.                                                                    *)

\* The vector w of o is v of m with val at i, written by the owner of epoch e.
Updated(m, v, o, w, e, i, val) ==
    /\ Closed(o)
    /\ IsVec(o, w)
    /\ w.root = Nil => w.height = 0 \/ w = v
    /\ Wrote(m, o, e, Nodes(m, v.root, v.height))
    /\ Nodes(o, w.root, w.height) \subseteq
          Nodes(m, v.root, v.height) \cup (DOMAIN o \ DOMAIN m)
    /\ \A j \in Nat : Get(o, w, j) = IF j = i THEN val ELSE Get(m, v, j)

\* Set is the update of a function of which Get is the application: it changes
\* the value at i and no other.  It keeps vectors whole, each node with the
\* count of the values below it and none empty, and writes only to new nodes and
\* to nodes of the vector that its writer owns (pvec.go: Set, set, grow).
THEOREM SetIsUpdate ==
    ASSUME Sizes, NEW V, None \in V, NEW m \in Heap(V), Closed(m), NEW e \in Nat,
           NEW v, IsVec(m, v), NEW i \in Nat, NEW val \in V
    PROVE  /\ Set(m, e, v, i, val).heap \in Heap(V)
           /\ Updated(m, v, Set(m, e, v, i, val).heap, Set(m, e, v, i, val).vec, e, i, val)
<1> DEFINE a == Set(m, e, v, i, val)
<1> SUFFICES a.heap \in Heap(V) /\ Updated(m, v, a.heap, a.vec, e, i, val)
  OBVIOUS
<1>1. CASE val = None /\ Get(m, v, i) = None
  <2>1. a.heap = m /\ a.vec = v
    BY <1>1 DEF Set
  <2>2. Wrote(m, m, e, Nodes(m, v.root, v.height))
    BY DEF Wrote
  <2> HIDE DEF a
  <2> QED BY <1>1, <2>1, <2>2 DEF Updated
<1>2. CASE ~ (val = None /\ Get(m, v, i) = None)
  <2> DEFINE g == IF val = None THEN [heap |-> m, vec |-> v] ELSE Grow(m, e, v, i)
             h == g.heap
             x == g.vec
             k == x.height
             n == x.root
             r == Put(h, e, n, k, i, val)
             o == r.heap
             p == r.node
             w == IF p = Nil THEN Empty ELSE [x EXCEPT !.root = p]
  <2>1. a.heap = o /\ a.vec = w
    BY <1>2 DEF Set, Stored, Rooted
  <2> HIDE DEF a
  <2>2. h \in Heap(V) /\ GrownOk(m, v, h, x, e) /\ i < Span(k)
    <3>1. CASE val = None
      <4>1. h = m /\ x = v
        BY <3>1
      <4>2. i < Span(v.height)
        BY <1>2, <3>1 DEF Get
      <4> QED BY <4>1, <4>2, GrownNot
    <3>2. CASE val # None
      <4>1. g = Grow(m, e, v, i)
        BY <3>2
      <4> HIDE DEF g
      <4> QED BY <4>1, GrowOk
    <3> QED BY <3>1, <3>2
  <2> HIDE DEF g, h, x
  <2>3. /\ Closed(h)
        /\ Wrote(m, h, e, {})
        /\ IsVec(h, x)
        /\ Nodes(h, n, k) \subseteq Nodes(m, v.root, v.height) \cup (DOMAIN h \ DOMAIN m)
        /\ \A j \in Nat : Get(h, x, j) = Get(m, v, j)
    BY <2>2 DEF GrownOk
  <2>4. x = [root |-> n, height |-> k] /\ k \in Nat /\ (n = Nil \/ n \in Whole(h, k))
    BY <2>3 DEF IsVec
  <2> HIDE DEF n, k
  <2>5. r \in Results(V) /\ PutOk(h, e, n, k, i, val, r)
    BY <2>2, <2>3, <2>4, PutIs
  <2> HIDE DEF r
  <2>6. /\ o \in Heap(V) /\ Closed(o)
        /\ Wrote(h, o, e, Nodes(h, n, k))
        /\ Nodes(o, p, k) \subseteq Nodes(h, n, k) \cup (DOMAIN o \ DOMAIN h)
        /\ \A j \in Nat : GetBelow(o, p, k, j) = Expected(h, n, k, i, val, j)
        /\ p = Nil \/ p \in Whole(o, k)
    BY <2>5 DEF PutOk, Results
  <2> HIDE DEF o, p
  <2>7. Span(k) \in Nat /\ Nil \notin DOMAIN o
    BY <2>4, <2>6, SpanIs, HeapIs
  <2>8. /\ w = [root |-> w.root, height |-> w.height] /\ w.height \in Nat
        /\ w.root = p
        /\ p = Nil => w.height = 0
        /\ p # Nil => w.height = k
    BY <2>4 DEF Empty
  <2> HIDE DEF w
  <2>9. IsVec(o, w)
    BY <2>6, <2>8 DEF IsVec
  <2>10. Wrote(m, o, e, Nodes(m, v.root, v.height))
    <3>1. DOMAIN m \subseteq DOMAIN h /\ DOMAIN h \subseteq DOMAIN o
      BY <2>3, <2>6 DEF Wrote
    <3>2. \A y \in DOMAIN m : h[y] = m[y]
      BY <2>3, <3>1 DEF Wrote
    <3>3. \A y \in DOMAIN h \ DOMAIN m : h[y].epoch = e
      BY <2>3 DEF Wrote
    <3>4. ASSUME NEW y \in DOMAIN o
          PROVE  \/ y \in DOMAIN m /\ o[y] = m[y]
                 \/ /\ o[y].epoch = e
                    /\ y \in DOMAIN m => y \in Nodes(m, v.root, v.height) /\ m[y].epoch = e
      <4>1. \/ y \in DOMAIN h /\ o[y] = h[y]
            \/ o[y].epoch = e /\ (y \in DOMAIN h => y \in Nodes(h, n, k) /\ h[y].epoch = e)
        BY <2>6 DEF Wrote
      <4>2. CASE y \in DOMAIN m
        <5>1. y \in Nodes(h, n, k) => y \in Nodes(m, v.root, v.height)
          BY <2>3, <4>2
        <5> QED BY <3>1, <3>2, <4>1, <4>2, <5>1
      <4>3. CASE y \notin DOMAIN m
        BY <3>3, <4>1, <4>3
      <4> QED BY <4>2, <4>3
    <3> QED BY <3>1, <3>4 DEF Wrote
  <2>11. Nodes(o, w.root, w.height) \subseteq
            Nodes(m, v.root, v.height) \cup (DOMAIN o \ DOMAIN m)
    <3>1. DOMAIN m \subseteq DOMAIN h /\ DOMAIN h \subseteq DOMAIN o
      BY <2>3, <2>6 DEF Wrote
    <3>2. CASE p = Nil
      <4>1. Nodes(o, Nil, w.height) = {}
        BY <2>6, <2>8, NodesUnfold
      <4> QED BY <2>8, <3>2, <4>1
    <3>3. CASE p # Nil
      BY <2>3, <2>6, <2>8, <3>1, <3>3
    <3> QED BY <3>2, <3>3
  <2>12. ASSUME NEW j \in Nat PROVE Get(o, w, j) = IF j = i THEN val ELSE Get(m, v, j)
    <3>1. Get(m, v, j) = IF j < Span(k) THEN GetBelow(h, n, k, j) ELSE None
      BY <2>3 DEF Get, n, k
    <3>2. j < Span(k) => (SamePlace(k, i, j) <=> i = j)
      BY <2>2, <2>4, PlaceIn DEF SamePlace
    <3>3. Get(o, w, j) = IF j < Span(k) THEN GetBelow(o, p, k, j) ELSE None
      <4>1. CASE p = Nil
        <5>1. GetBelow(o, Nil, k, j) = None /\ GetBelow(o, Nil, w.height, j) = None
          BY <2>4, <2>6, <2>8, GetUnfold
        <5> QED BY <2>8, <4>1, <5>1 DEF Get
      <4>2. CASE p # Nil
        BY <2>8, <4>2 DEF Get
      <4> QED BY <4>1, <4>2
    <3>4. CASE j < Span(k)
      <4>1. Get(o, w, j) = Expected(h, n, k, i, val, j)
        BY <2>6, <3>3, <3>4
      <4> QED BY <3>1, <3>2, <3>4, <4>1 DEF Expected
    <3>5. CASE ~ (j < Span(k))
      <4>1. j # i
        BY <2>2, <3>5
      <4> QED BY <3>1, <3>3, <3>5, <4>1
    <3> QED BY <3>4, <3>5
  <2>13. Updated(m, v, o, w, e, i, val)
    BY <2>6, <2>8, <2>9, <2>10, <2>11, <2>12 DEF Updated
  <2> QED BY <2>1, <2>6, <2>13
<1> QED BY <1>1, <1>2

\* A vector that has no node of the writer's epoch is after a Set what it was,
\* whatever nodes it shares with the vector that was set: the vectors of
\* snapshots and of published versions are such vectors.
THEOREM SetIsPersistent ==
    ASSUME Sizes, NEW V, None \in V, NEW m \in Heap(V), Closed(m), NEW e \in Nat,
           NEW v, IsVec(m, v), NEW i \in Nat, NEW val \in V,
           NEW w, IsVec(m, w), \A x \in Nodes(m, w.root, w.height) : m[x].epoch # e
    PROVE  /\ IsVec(Set(m, e, v, i, val).heap, w)
           /\ \A j \in Nat : Get(Set(m, e, v, i, val).heap, w, j) = Get(m, w, j)
<1> DEFINE o == Set(m, e, v, i, val).heap
<1>1. o \in Heap(V) /\ Closed(o) /\ Wrote(m, o, e, Nodes(m, v.root, v.height))
  BY SetIsUpdate DEF Updated
<1> HIDE DEF o
<1>2. w.height \in Nat /\ w.root \in DOMAIN m \cup {Nil}
  BY UsedIs DEF IsVec
<1>3. Keeps(m, o, Nodes(m, w.root, w.height))
  <2>1. Nodes(m, w.root, w.height) \subseteq DOMAIN m
    BY <1>2, NodesIn
  <2> QED BY <1>1, <2>1 DEF Keeps, Wrote
<1>4. Same(m, o, w.root, w.height)
  BY <1>1, <1>2, <1>3, FrameIs
<1>5. IsVec(o, w) /\ \A j \in Nat : Get(o, w, j) = Get(m, w, j)
  BY <1>4 DEF IsVec, Same, Get
<1> QED BY <1>5 DEF o

----------------------------------------------------------------------------
(* What is below a node, and how high it is.                               *)

LEMMA WholeIn ==
    ASSUME NEW m
    PROVE  \A k \in Nat : \A n \in Whole(m, k) : n \in DOMAIN m /\ Exact(m, n, k)
<1> SUFFICES ASSUME NEW k \in Nat, NEW n \in Whole(m, k)
             PROVE  n \in DOMAIN m /\ Exact(m, n, k)
  OBVIOUS
<1>1. CASE k = 0
  BY <1>1, WholeUnfold
<1>2. CASE k # 0
  <2>1. k - 1 \in Nat /\ (k - 1) + 1 = k
    BY <1>2
  <2>2. n \in Whole(m, (k - 1) + 1) =>
           n \in DOMAIN m /\ Exact(m, n, (k - 1) + 1)
    BY <2>1, WholeUnfold
  <2> QED BY <2>1, <2>2
<1> QED BY <1>1, <1>2

\* A node is among those at and below it.
LEMMA OwnNode ==
    ASSUME NEW V, NEW m \in Heap(V), Closed(m)
    PROVE  \A k \in Nat : \A n \in DOMAIN m : n \in Nodes(m, n, k)
<1> SUFFICES ASSUME NEW k \in Nat, NEW n \in DOMAIN m PROVE n \in Nodes(m, n, k)
  OBVIOUS
<1>1. CASE k = 0
  BY <1>1, NodesUnfold
<1>2. CASE k # 0
  <2>1. k - 1 \in Nat /\ (k - 1) + 1 = k
    BY <1>2
  <2>2. n \in Nodes(m, n, (k - 1) + 1)
    BY <2>1, NodesUnfold
  <2> QED BY <2>1, <2>2
<1> QED BY <1>1, <1>2

\* What is the same in two heaps is the same vector.
LEMMA SameVec ==
    ASSUME Sizes, NEW V, None \in V, NEW m \in Heap(V), NEW o \in Heap(V),
           Closed(m), Closed(o), NEW v, IsVec(m, v),
           Keeps(m, o, Nodes(m, v.root, v.height))
    PROVE  /\ IsVec(o, v)
           /\ Nodes(o, v.root, v.height) = Nodes(m, v.root, v.height)
           /\ \A j \in Nat : Get(o, v, j) = Get(m, v, j)
<1>1. v.height \in Nat /\ v.root \in DOMAIN m \cup {Nil}
  BY UsedIs DEF IsVec
<1>2. Same(m, o, v.root, v.height)
  BY <1>1, FrameIs
<1> QED BY <1>2 DEF IsVec, Same, Get

----------------------------------------------------------------------------
(* Heaps without nodes that have both values and children: what is below a   *)
(* node then follows from the nodes alone, and so does its height.           *)

Proper(m) == \A x \in DOMAIN m : DOMAIN m[x].vals = {} \/ DOMAIN m[x].kids = {}

\* A leaf has a value, a directory node a child.
LEMMA WholeHolds ==
    ASSUME Sizes, NEW V, None \in V, NEW m \in Heap(V), Closed(m)
    PROVE  /\ \A n \in Whole(m, 0) : DOMAIN m[n].vals # {}
           /\ \A k \in Nat : \A n \in Whole(m, k + 1) : DOMAIN m[n].kids # {}
<1>1. ASSUME NEW k \in Nat, NEW n \in Whole(m, k)
      PROVE  n \in DOMAIN m /\ \E i \in Nat : GetBelow(m, n, k, i) # None
  <2>1. n \in DOMAIN m /\ Exact(m, n, k)
    BY WholeIn, Zenon
  <2>2. m[n].used # 0 /\ m[n].used = Cardinality(Filled(m, n, k))
    BY <2>1 DEF Exact
  <2>3. Filled(m, n, k) # {}
    BY <2>2, FS_EmptySet
  <2>4. Span(k) \in Nat
    BY SpanIs
  <2>5. \E i \in 0..(Span(k) - 1) : GetBelow(m, n, k, i) # None
    BY <2>3 DEF Filled
  <2> QED BY <2>1, <2>4, <2>5
<1>2. ASSUME NEW n \in Whole(m, 0) PROVE DOMAIN m[n].vals # {}
  <2>1. PICK i \in Nat : GetBelow(m, n, 0, i) # None
    BY <1>1
  <2>2. n \in DOMAIN m /\ GetBelow(m, n, 0, i) = Val(m[n], SlotAt(0, i))
    BY <1>1, GetUnfold
  <2> QED BY <2>1, <2>2 DEF Val
<1>3. ASSUME NEW k \in Nat, NEW n \in Whole(m, k + 1) PROVE DOMAIN m[n].kids # {}
  <2>1. k + 1 \in Nat
    OBVIOUS
  <2>2. n \in DOMAIN m /\ \E i \in Nat : GetBelow(m, n, k + 1, i) # None
    BY <1>1, <2>1
  <2>3. PICK i \in Nat : GetBelow(m, n, k + 1, i) # None
    BY <2>2
  <2>4. GetBelow(m, n, k + 1, i) = GetBelow(m, Kid(m[n], SlotAt(k + 1, i)), k, i)
    BY <2>2, GetUnfold
  <2>5. GetBelow(m, Nil, k, i) = None
    BY GetUnfold
  <2> QED BY <2>3, <2>4, <2>5 DEF Kid
<1> QED BY <1>2, <1>3

LEMMA WholeProper ==
    ASSUME Sizes, NEW V, None \in V, NEW m \in Heap(V), Closed(m), Proper(m)
    PROVE  /\ \A n \in Whole(m, 0) : DOMAIN m[n].kids = {}
           /\ \A k \in Nat : \A n \in Whole(m, k + 1) : DOMAIN m[n].vals = {}
<1>1. \A k \in Nat : \A n \in Whole(m, k) : n \in DOMAIN m
  BY WholeIn
<1>2. ASSUME NEW n \in Whole(m, 0) PROVE DOMAIN m[n].kids = {}
  <2>1. n \in DOMAIN m /\ DOMAIN m[n].vals # {}
    BY <1>1, WholeHolds
  <2> QED BY <2>1 DEF Proper
<1>3. ASSUME NEW k \in Nat, NEW n \in Whole(m, k + 1) PROVE DOMAIN m[n].vals = {}
  <2>1. k + 1 \in Nat
    OBVIOUS
  <2>2. n \in DOMAIN m /\ DOMAIN m[n].kids # {}
    BY <1>1, <2>1, WholeHolds
  <2> QED BY <2>2 DEF Proper
<1> QED BY <1>2, <1>3

\* No node is a tree of two heights.
LEMMA HeightIs ==
    ASSUME Sizes, NEW V, None \in V, NEW m \in Heap(V), Closed(m), Proper(m)
    PROVE  \A h, k \in Nat : \A n : n \in Whole(m, h) /\ n \in Whole(m, k) => h = k
<1> DEFINE P(h) == \A k \in Nat : \A n : n \in Whole(m, h) /\ n \in Whole(m, k) => h = k
           S == {h \in Nat : P(h)}
<1>1. \A h \in Nat : h \in S
  <2>1. 0 \in S
    <3> SUFFICES ASSUME NEW k \in Nat, k # 0, NEW n, n \in Whole(m, 0), n \in Whole(m, k)
                 PROVE  FALSE
      OBVIOUS
    <3>1. k - 1 \in Nat /\ (k - 1) + 1 = k
      OBVIOUS
    <3>2. DOMAIN m[n].kids # {}
      BY <3>1, WholeHolds
    <3> QED BY <3>2, WholeProper
  <2>2. ASSUME NEW h \in S PROVE h + 1 \in S
    <3>0. h \in Nat /\ h + 1 \in Nat /\ P(h)
      OBVIOUS
    <3> SUFFICES ASSUME NEW k \in Nat, NEW n, n \in Whole(m, h + 1), n \in Whole(m, k)
                 PROVE  h + 1 = k
      BY <3>0
    <3>1. DOMAIN m[n].kids # {}
      BY <3>0, WholeHolds
    <3>2. k # 0
      BY <3>1, WholeProper
    <3>3. k - 1 \in Nat /\ (k - 1) + 1 = k
      BY <3>2
    <3>4. PICK s : s \in DOMAIN m[n].kids
      BY <3>1
    <3>5. m[n].kids[s] \in Whole(m, h) /\ m[n].kids[s] \in Whole(m, k - 1)
      BY <3>0, <3>3, <3>4, WholeUnfold
    <3>6. h = k - 1
      BY <3>0, <3>3, <3>5
    <3> QED BY <3>3, <3>6
  <2> HIDE DEF S
  <2>3. S \in SUBSET Nat
    BY DEF S
  <2> QED BY <2>1, <2>2, <2>3, SetInduction
<1> QED BY <1>1

\* The children of a node are among those below what the node is below.
LEMMA NodesClosed ==
    ASSUME Sizes, NEW V, None \in V, NEW m \in Heap(V), Closed(m), Proper(m)
    PROVE  \A k \in Nat : \A n \in Whole(m, k) : \A x \in Nodes(m, n, k) :
              \A s \in DOMAIN m[x].kids : m[x].kids[s] \in Nodes(m, n, k)
<1> DEFINE P(k, n) == \A x \in Nodes(m, n, k) :
              \A s \in DOMAIN m[x].kids : m[x].kids[s] \in Nodes(m, n, k)
           S == {k \in Nat : \A n \in Whole(m, k) : P(k, n)}
<1>0. \A k \in Nat : \A n \in Whole(m, k) : n \in DOMAIN m
  BY WholeIn
<1>1. \A k \in Nat : k \in S
  <2>1. 0 \in S
    <3>1. ASSUME NEW n \in Whole(m, 0) PROVE P(0, n)
      <4>1. Nodes(m, n, 0) = {n} /\ DOMAIN m[n].kids = {}
        BY <1>0, WholeProper, NodesUnfold
      <4> QED BY <4>1
    <3> QED BY <3>1
  <2>2. ASSUME NEW k \in S PROVE k + 1 \in S
    <3>0. k \in Nat /\ k + 1 \in Nat /\ \A n \in Whole(m, k) : P(k, n)
      OBVIOUS
    <3> HIDE DEF P
    <3> SUFFICES ASSUME NEW n \in Whole(m, k + 1) PROVE P(k + 1, n)
      BY <3>0
    <3>1. n \in DOMAIN m /\ \A s \in DOMAIN m[n].kids : m[n].kids[s] \in Whole(m, k)
      BY <1>0, <3>0, WholeUnfold
    <3>2. Nodes(m, n, k + 1) = {n} \cup Below(m, n, k)
      BY <3>0, <3>1, NodesUnfold
    <3>3. ASSUME NEW s \in DOMAIN m[n].kids
          PROVE  m[n].kids[s] \in Nodes(m, m[n].kids[s], k)
      BY <1>0, <3>0, <3>1, OwnNode
    <3> SUFFICES ASSUME NEW x \in Nodes(m, n, k + 1), NEW s \in DOMAIN m[x].kids
                 PROVE  m[x].kids[s] \in Nodes(m, n, k + 1)
      BY DEF P
    <3>4. CASE x = n
      <4>1. m[n].kids[s] \in Below(m, n, k)
        BY <3>3, <3>4 DEF Below
      <4> QED BY <3>2, <3>4, <4>1
    <3>5. CASE x # n
      <4>1. x \in Below(m, n, k)
        BY <3>2, <3>5
      <4>2. PICK t \in DOMAIN m[n].kids : x \in Nodes(m, m[n].kids[t], k)
        BY <4>1 DEF Below
      <4>3. m[x].kids[s] \in Nodes(m, m[n].kids[t], k)
        BY <3>0, <3>1, <4>2 DEF P
      <4>4. m[x].kids[s] \in Below(m, n, k)
        BY <4>3 DEF Below
      <4> QED BY <3>2, <4>4
    <3> QED BY <3>4, <3>5
  <2> HIDE DEF S
  <2>3. S \in SUBSET Nat
    BY DEF S
  <2> QED BY <2>1, <2>2, <2>3, SetInduction
<1> QED BY <1>1

----------------------------------------------------------------------------
(* Set keeps a heap proper.                                                *)

LEMMA OwnProper ==
    ASSUME NEW V, NEW m, m \in Heap(V), Proper(m), NEW e \in Nat, NEW n, n \in Nat,
           NEW node, node \in NodeSet(V), DOMAIN node.vals = {} \/ DOMAIN node.kids = {}
    PROVE  Proper(Own(m, e, n, node).heap)
<1> DEFINE r == Own(m, e, n, node)
<1>1. OwnOk(m, e, n, node, r)
  BY OwnIs
<1> HIDE DEF r
<1>2. /\ DOMAIN r.heap = DOMAIN m \cup {r.node}
      /\ r.heap[r.node] = Stamped(node, e)
      /\ \A x \in DOMAIN m : x # r.node => r.heap[x] = m[x]
  BY <1>1 DEF OwnOk
<1>3. Stamped(node, e).vals = node.vals /\ Stamped(node, e).kids = node.kids
  BY StampedIs DEF Has
<1>4. Proper(r.heap)
  BY <1>2, <1>3 DEF Proper
<1> QED BY <1>4 DEF r

LEMMA LeafProper ==
    ASSUME Sizes, NEW V, None \in V, NEW m \in Heap(V), Closed(m), Proper(m), NEW e \in Nat,
           NEW n, n = Nil \/ n \in Whole(m, 0), NEW s, s \in Nat, NEW val \in V
    PROVE  Proper(SetLeaf(m, e, n, s, val).heap)
<1> DEFINE old == NodeAt(m, n)
           q == LeafNode(old, s, val)
<1>1. n \in DOMAIN m \cup {Nil}
  BY WholeIn
<1>2. n \in Nat /\ q \in NodeSet(V)
  BY <1>1, LeafNodeIs, OldIs
<1>3. DOMAIN old.kids = {}
  <2>1. CASE n = Nil
    BY <2>1, BlankIs DEF NodeAt
  <2>2. CASE n # Nil
    BY <2>2, WholeProper DEF NodeAt
  <2> QED BY <2>1, <2>2
<1>4. q.kids = old.kids
  <2>1. old \in NodeSet(V) /\ LeafUsed(old, s, val) \in Int /\ LeafVals(old, s, val) \in Maps(V)
    BY <1>1, OldIs, LeafNodeIs, LeafValsIs
  <2>2. q = Refilled(old, LeafUsed(old, s, val), LeafVals(old, s, val))
    BY DEF LeafNode
  <2> HIDE DEF q, old
  <2> QED BY <2>1, <2>2, RefilledIs DEF Has
<1> HIDE DEF q
<1>5. Proper(Own(m, e, n, q).heap)
  BY <1>2, <1>3, <1>4, OwnProper
<1>6. SetLeaf(m, e, n, s, val) =
         IF LeafUsed(old, s, val) = 0 THEN [heap |-> m, node |-> Nil] ELSE Own(m, e, n, q)
  BY SetLeafIs DEF q
<1> QED BY <1>5, <1>6

LEMMA InnerProper ==
    ASSUME Sizes, NEW V, None \in V, NEW m \in Heap(V), Closed(m), Proper(m), NEW e \in Nat,
           NEW k \in Nat, NEW n, n = Nil \/ n \in Whole(m, k + 1), NEW s, s \in Nat,
           NEW b, b \in Results(V), Proper(b.heap)
    PROVE  Proper(SetInner(m, e, n, s, b).heap)
<1> DEFINE old == NodeAt(m, n)
           h == b.heap
           q == InnerNode(m, n, s, b)
<1>1. n \in DOMAIN m \cup {Nil}
  BY WholeIn
<1>2. n \in Nat /\ q \in NodeSet(V) /\ h \in Heap(V)
  BY <1>1, InnerNodeIs, OldIs
<1>3. DOMAIN old.vals = {}
  <2>1. CASE n = Nil
    BY <2>1, BlankIs DEF NodeAt
  <2>2. CASE n # Nil
    BY <2>2, WholeProper DEF NodeAt
  <2> QED BY <2>1, <2>2
<1>4. q.vals = old.vals
  BY DEF InnerNode, Relinked
<1>5. SetInner(m, e, n, s, b) =
         IF InnerUsed(m, n, s, b) = 0 THEN [heap |-> h, node |-> Nil] ELSE Own(h, e, n, q)
  BY SetInnerIs
<1>6. Proper(h)
  OBVIOUS
<1> HIDE DEF q, h, old
<1>7. Proper(Own(h, e, n, q).heap)
  BY <1>2, <1>3, <1>4, <1>6, OwnProper
<1> QED BY <1>5, <1>6, <1>7

LEMMA PutProper ==
    ASSUME Sizes, NEW V, None \in V, NEW m \in Heap(V), Closed(m), Proper(m), NEW e \in Nat,
           NEW i \in Nat, NEW val \in V
    PROVE  \A k \in Nat : \A n : n = Nil \/ n \in Whole(m, k) =>
              Proper(Put(m, e, n, k, i, val).heap)
<1> DEFINE P(k) == \A n : n = Nil \/ n \in Whole(m, k) => Proper(Put(m, e, n, k, i, val).heap)
           S == {k \in Nat : P(k)}
<1>0. \A k \in Nat : \A n : n = Nil \/ n \in Whole(m, k) => n \in DOMAIN m \cup {Nil}
  BY WholeIn
<1>1. \A k \in Nat : k \in S
  <2>1. 0 \in S
    <3> SUFFICES ASSUME NEW n, n = Nil \/ n \in Whole(m, 0)
                 PROVE  Proper(Put(m, e, n, 0, i, val).heap)
      OBVIOUS
    <3>1. Put(m, e, n, 0, i, val) = SetLeaf(m, e, n, SlotAt(0, i), val)
      BY <1>0, PutUnfold
    <3>2. SlotAt(0, i) \in Nat
      BY SlotIs
    <3>3. Proper(SetLeaf(m, e, n, SlotAt(0, i), val).heap)
      BY <3>2, LeafProper
    <3> QED BY <3>1, <3>3
  <2>2. ASSUME NEW k \in S PROVE k + 1 \in S
    <3>0. k \in Nat /\ k + 1 \in Nat /\ P(k)
      OBVIOUS
    <3> SUFFICES ASSUME NEW n, n = Nil \/ n \in Whole(m, k + 1)
                 PROVE  Proper(Put(m, e, n, k + 1, i, val).heap)
      BY <3>0
    <3> DEFINE s == SlotAt(k + 1, i)
               c == Kid(NodeAt(m, n), s)
               b == Put(m, e, c, k, i, val)
    <3>1. n \in DOMAIN m \cup {Nil}
      BY <1>0, <3>0
    <3>2. Put(m, e, n, k + 1, i, val) = SetInner(m, e, n, s, b)
      BY <3>0, <3>1, PutUnfold
    <3>3. s \in Nat
      BY <3>0, SlotIs
    <3>4. c = Nil \/ c \in Whole(m, k)
      <4>1. CASE n = Nil
        BY <4>1, BlankIs DEF NodeAt, Kid
      <4>2. CASE n # Nil
        BY <3>0, <4>2, WholeUnfold DEF NodeAt, Kid
      <4> QED BY <4>1, <4>2
    <3>5. c \in DOMAIN m \cup {Nil}
      BY <1>0, <3>0, <3>4
    <3> HIDE DEF c, s, S
    <3>6. b \in Results(V)
      BY <3>0, <3>5, PutUnfold
    <3>7. Proper(b.heap)
      BY <3>0, <3>4
    <3> HIDE DEF b
    <3>8. Proper(SetInner(m, e, n, s, b).heap)
      BY <3>0, <3>3, <3>6, <3>7, InnerProper
    <3> QED BY <3>2, <3>8
  <2> HIDE DEF S
  <2>3. S \in SUBSET Nat
    BY DEF S
  <2> QED BY <2>1, <2>2, <2>3, SetInduction
<1> QED BY <1>1

LEMMA TallerProper ==
    ASSUME NEW V, NEW m, m \in Heap(V), Proper(m), NEW e \in Nat, NEW v,
           v.root \in DOMAIN m \cup {Nil}
    PROVE  Proper(Taller(m, e, v).heap)
<1> DEFINE n == v.root
           q == [Blank EXCEPT !.used = m[n].used, !.kids = With(@, 0, n)]
           r == Own(m, e, Nil, q)
<1>1. Taller(m, e, v).heap = IF n = Nil THEN m ELSE r.heap
  BY DEF Taller
<1>2. n # Nil => Proper(r.heap)
  <2> SUFFICES ASSUME n # Nil PROVE Proper(r.heap)
    OBVIOUS
  <2> HIDE DEF n
  <2>1. n \in DOMAIN m \cup {Nil}
    BY DEF n
  <2>2. n \in Nat /\ m[n].used \in Int
    BY <2>1, OldIs DEF NodeAt
  <2>3. q \in NodeSet(V) /\ q.vals = Blank.vals
    <3> DEFINE f == With(<< >>, 0, n)
               u == m[n].used
    <3>1. Blank \in NodeSet(V) /\ Blank.kids = << >> /\ Blank.kids \in Maps(Nat)
      BY BlankIs, NodeIs
    <3>2. q = Relinked(Blank, u, f)
      BY DEF Relinked, Blank
    <3>3. f \in Maps(Nat)
      BY <2>2, <3>1, WithIs
    <3>4. u \in Int
      BY <2>2
    <3> HIDE DEF q, f, u
    <3>5. Relinked(Blank, u, f) \in NodeSet(V) /\ Has(Relinked(Blank, u, f), Blank.epoch, u, Blank.vals, f)
      BY <3>1, <3>3, <3>4, RelinkedIs
    <3> QED BY <3>2, <3>5 DEF Has
  <2>4. DOMAIN q.vals = {} /\ Nil \in Nat
    BY <2>3, BlankIs DEF Nil
  <2> HIDE DEF q
  <2> QED BY <2>3, <2>4, OwnProper
<1> QED BY <1>1, <1>2

LEMMA SetProper ==
    ASSUME Sizes, NEW V, None \in V, NEW m \in Heap(V), Closed(m), Proper(m), NEW e \in Nat,
           NEW v, IsVec(m, v), NEW i \in Nat, NEW val \in V
    PROVE  Proper(Set(m, e, v, i, val).heap)
<1>0. v.height \in Nat
  BY DEF IsVec
<1>1. Proper(Grow(m, e, v, i).heap)
  <2> DEFINE H == HeightFor(i)
  <2>1. PICK grow : /\ Levels(m, e, v, grow)
                    /\ Grow(m, e, v, i) = IF v.height < H THEN grow[H - v.height] ELSE grow[0]
    BY GrowUnfold
  <2>2. H \in Nat
    BY HeightForIs
  <2> HIDE DEF H
  <2> DEFINE P(k) == /\ grow[k].heap \in Heap(V)
                     /\ GrownOk(m, v, grow[k].heap, grow[k].vec, e)
                     /\ Proper(grow[k].heap)
             S == {k \in Nat : P(k)}
  <2>3. \A k \in Nat : k \in S
    <3>1. 0 \in S
      <4>1. grow[0].heap = m /\ grow[0].vec = v
        BY <2>1 DEF Levels
      <4> QED BY <4>1, GrownNot
    <3>2. ASSUME NEW k \in S PROVE k + 1 \in S
      <4> DEFINE o == grow[k].heap
                 w == grow[k].vec
                 p == Taller(o, e, w).heap
                 x == Taller(o, e, w).vec
      <4>1. k \in Nat /\ k + 1 \in Nat /\ o \in Heap(V) /\ GrownOk(m, v, o, w, e) /\ Proper(o)
        OBVIOUS
      <4>2. grow[k + 1].heap = p /\ grow[k + 1].vec = x
        BY <2>1, <4>1 DEF Levels
      <4> HIDE DEF o, w, S
      <4>3. Closed(o) /\ IsVec(o, w)
        BY <4>1 DEF GrownOk
      <4>4. w.root \in DOMAIN o \cup {Nil}
        BY <4>1, <4>3, UsedIs DEF IsVec
      <4>5. p \in Heap(V) /\ GrownOk(o, w, p, x, e)
        BY <4>1, <4>3, TallerOk
      <4>6. Proper(p)
        BY <4>1, <4>4, TallerProper
      <4> HIDE DEF p, x
      <4>7. GrownOk(m, v, p, x, e)
        BY <4>1, <4>5, GrownTwice
      <4> QED BY <4>1, <4>2, <4>5, <4>6, <4>7 DEF S
    <3> HIDE DEF S
    <3>3. S \in SUBSET Nat
      BY DEF S
    <3> QED BY <3>1, <3>2, <3>3, SetInduction
  <2>4. \A k \in Nat : Proper(grow[k].heap)
    BY <2>3
  <2>5. v.height < H => H - v.height \in Nat
    BY <1>0, <2>2
  <2> QED BY <2>1, <2>4, <2>5
<1>2. CASE val = None /\ Get(m, v, i) = None
  BY <1>2 DEF Set
<1>3. CASE ~ (val = None /\ Get(m, v, i) = None)
  <2> DEFINE g == IF val = None THEN [heap |-> m, vec |-> v] ELSE Grow(m, e, v, i)
             h == g.heap
             x == g.vec
             r == Put(h, e, x.root, x.height, i, val)
  <2>1. Set(m, e, v, i, val).heap = r.heap
    BY <1>3 DEF Set, Stored, Rooted
  <2>2. h \in Heap(V) /\ GrownOk(m, v, h, x, e) /\ Proper(h)
    <3>1. CASE val = None
      <4>1. h = m /\ x = v
        BY <3>1
      <4> QED BY <4>1, GrownNot
    <3>2. CASE val # None
      <4>1. g = Grow(m, e, v, i)
        BY <3>2
      <4> HIDE DEF g
      <4> QED BY <1>1, <4>1, GrowOk
    <3> QED BY <3>1, <3>2
  <2> HIDE DEF g, h, x
  <2>3. Closed(h) /\ IsVec(h, x)
    BY <2>2 DEF GrownOk
  <2>4. x.height \in Nat /\ (x.root = Nil \/ x.root \in Whole(h, x.height))
    BY <2>3 DEF IsVec
  <2>5. Proper(r.heap)
    BY <2>2, <2>3, <2>4, PutProper
  <2> QED BY <2>1, <2>5
<1> QED BY <1>2, <1>3

----------------------------------------------------------------------------
(* What the users of row vectors need.                                     *)

\* A heap that loses nodes is well formed if those that are left have their children.
LEMMA SweptOk ==
    ASSUME NEW V, NEW m \in Heap(V), Closed(m), Proper(m), NEW L, L \subseteq DOMAIN m,
           \A x \in L : \A s \in DOMAIN m[x].kids : m[x].kids[s] \in L
    PROVE  /\ [x \in L |-> m[x]] \in Heap(V)
           /\ Closed([x \in L |-> m[x]]) /\ Proper([x \in L |-> m[x]])
<1> DEFINE o == [x \in L |-> m[x]]
<1>1. /\ DOMAIN o = L /\ \A x \in L : o[x] = m[x]
      /\ o = [x \in DOMAIN o |-> o[x]]
  OBVIOUS
<1> HIDE DEF o
<1>2. /\ DOMAIN m \subseteq Nat \ {Nil} /\ IsFiniteSet(DOMAIN m)
      /\ \A x \in DOMAIN m : m[x] \in NodeSet(V)
  BY HeapIs
<1>3. o \in Maps(NodeSet(V))
  <2>1. DOMAIN o \subseteq Nat /\ \A x \in DOMAIN o : o[x] \in NodeSet(V)
    BY <1>1, <1>2
  <2> QED BY <1>1, <2>1, MapIs
<1>4. Finite(o)
  <2>1. IsFiniteSet(L)
    BY <1>2, FS_Subset
  <2> QED BY <1>1, <1>2, <2>1 DEF Finite
<1>5. Closed(o) /\ Proper(o)
  BY <1>1 DEF Closed, Proper
<1> QED BY <1>3, <1>4, <1>5 DEF Heap, o

LEMMA EmptyHeap == ASSUME NEW V PROVE << >> \in Heap(V) /\ Closed(<< >>) /\ Proper(<< >>)
<1> DEFINE m == << >>
<1>1. DOMAIN m = {} /\ m = [x \in DOMAIN m |-> m[x]]
  OBVIOUS
<1> HIDE DEF m
<1>2. m \in Maps(NodeSet(V))
  BY <1>1, MapIs
<1>3. Finite(m)
  BY <1>1, FS_EmptySet DEF Finite
<1> QED BY <1>1, <1>2, <1>3 DEF m, Heap, Closed, Proper

LEMMA EmptyVec ==
    ASSUME Sizes, NEW V, None \in V, NEW m \in Heap(V), Closed(m)
    PROVE  /\ IsVec(m, Empty)
           /\ \A j \in Nat : Get(m, Empty, j) = None
<1>1. Empty.root = Nil /\ Empty.height = 0
  BY DEF Empty
<1>2. \A j \in Nat : GetBelow(m, Nil, 0, j) = None
  BY GetUnfold
<1> QED BY <1>1, <1>2 DEF Empty, IsVec, Get

\* The nodes of a vector.
LEMMA VecNodes ==
    ASSUME Sizes, NEW V, None \in V, NEW m \in Heap(V), Closed(m), Proper(m), NEW v, IsVec(m, v)
    PROVE  /\ v.root \in DOMAIN m \cup {Nil}
           /\ Nodes(m, v.root, v.height) \subseteq DOMAIN m
           /\ \A x \in Nodes(m, v.root, v.height) : \A s \in DOMAIN m[x].kids :
                 m[x].kids[s] \in Nodes(m, v.root, v.height)
<1>1. v.height \in Nat /\ (v.root = Nil \/ v.root \in Whole(m, v.height))
  BY DEF IsVec
<1>2. v.root \in DOMAIN m \cup {Nil}
  BY <1>1, WholeIn
<1>3. Nodes(m, v.root, v.height) \subseteq DOMAIN m
  BY <1>1, <1>2, NodesIn
<1>4. CASE v.root = Nil
  BY <1>1, <1>2, <1>3, <1>4, NodesUnfold
<1>5. CASE v.root # Nil
  BY <1>1, <1>2, <1>3, <1>5, NodesClosed
<1> QED BY <1>2, <1>3, <1>4, <1>5

\* Vectors with the same root hold the same.
LEMMA RootDecides ==
    ASSUME Sizes, NEW V, None \in V, NEW m \in Heap(V), Closed(m), Proper(m),
           NEW v, IsVec(m, v), NEW w, IsVec(m, w), v.root = w.root
    PROVE  \A j \in Nat : Get(m, v, j) = Get(m, w, j)
<1>1. /\ v.height \in Nat /\ (v.root = Nil \/ v.root \in Whole(m, v.height))
      /\ w.height \in Nat /\ (w.root = Nil \/ w.root \in Whole(m, w.height))
  BY DEF IsVec
<1>2. CASE v.root = Nil
  <2>1. \A k, j \in Nat : GetBelow(m, Nil, k, j) = None
    BY GetUnfold
  <2> QED BY <1>1, <1>2, <2>1 DEF Get
<1>3. CASE v.root # Nil
  <2>1. v.height = w.height
    BY <1>1, <1>3, HeightIs
  <2> QED BY <2>1 DEF Get
<1> QED BY <1>2, <1>3

LEMMA UpdatedMeans ==
    ASSUME NEW m, NEW v, NEW o, NEW w, NEW e, NEW i, NEW val, Updated(m, v, o, w, e, i, val)
    PROVE  /\ Closed(o) /\ IsVec(o, w)
           /\ DOMAIN m \subseteq DOMAIN o
           /\ \A x \in DOMAIN o :
                 \/ x \in DOMAIN m /\ o[x] = m[x]
                 \/ o[x].epoch = e /\
                    (x \in DOMAIN m => x \in Nodes(m, v.root, v.height) /\ m[x].epoch = e)
           /\ Nodes(o, w.root, w.height) \subseteq
                 Nodes(m, v.root, v.height) \cup (DOMAIN o \ DOMAIN m)
           /\ \A j \in Nat : Get(o, w, j) = IF j = i THEN val ELSE Get(m, v, j)
BY DEF Updated, Wrote
=============================================================================
