-------------------------- MODULE RowWritesProofs --------------------------
(* Theorems about RowWrites, for any objects, keys, indexes and row ids.     *)
(*                                                                           *)
(* While DeletePrefix runs, the rows it has visited are still in the index   *)
(* it will cut.  Left out of that index they make a table like any other,    *)
(* which is the idea of the proof: on the settled table a visit is a Delete, *)
(* and the cut is no step at all.                                            *)
EXTENDS RowWrites, WellFoundedInduction, FiniteSetTheorems, TLAPS

\* What the code needs of a DeletePrefix to keep the table whole: it cuts where
\* it scans, or nowhere, and each row has one value in its index.
PrefixAssumption ==
    \A q \in PrefixQuery :
        /\ q.cut = q.scan \/ q.cut = {}
        /\ q.index # "id" => \A o \in Obj : Len(vals[q.index][o]) <= 1

\* A DeleteAll that meets each row once.
OnceAssumption ==
    \A q \in AllQuery : q.index # "id" =>
        \A o \in Obj : \A k, l \in Elems(Keys(q.index, o)) :
            k[1] \in q.scan /\ l[1] \in q.scan => k = l

----------------------------------------------------------------------------
(* A table whose parts agree.                                                *)

\* Rows are under their own primary keys, and the secondary indexes are as
\* IndexSound and IndexComplete say.
Indexed(rows, entry) ==
    /\ \A p \in Pk : rows[p] # NoObj => pkOf[rows[p]] = p
    /\ \A i \in Sec, k \in Key : entry[i][k] # NoObj =>
          /\ rows[pkOf[entry[i][k]]] = entry[i][k]
          /\ k \in Elems(Keys(i, entry[i][k]))
    /\ \A i \in Sec \ Unique, p \in Pk :
          \A k \in Elems(KeysOf(i, rows[p])) : entry[i][k] = rows[p]

\* A row has the id at which the row vector has the row, and nothing else has one.
Numbered(rows, t) ==
    /\ \A p \in Pk : rows[p] = NoObj <=> t.ids[p] = NoId
    /\ \A p \in Pk : rows[p] # NoObj => t.at[t.ids[p]] = rows[p]
    /\ \A n \in Id : t.at[n] # NoObj => t.ids[pkOf[t.at[n]]] = n

\* Ids in use, free ids and bitmaps follow from the row vector.
Counted(t) ==
    /\ t.all = {n \in Id : t.at[n] # NoObj}
    /\ t.all \cap t.free = {}
    /\ t.all \cup t.free = {n \in Id : n < t.next}
    /\ \A b \in Bm, v \in Val : t.bits[b][v] = {n \in Id : v \in ValsOf(b, t.at[n])}

Whole(rows, entry, t) ==
    Indexed(rows, entry) /\ (Bm # {} => Numbered(rows, t) /\ Counted(t))

\* Lists of keys.
KeySeq == Seq(Key)

USE ObjAssumption

----------------------------------------------------------------------------
(* Keys.                                                                     *)

LEMMA KeysType ==
    ASSUME NEW i \in Sec, NEW o \in Obj
    PROVE  /\ Keys(i, o) \in Seq(Key)
           /\ Elems(Keys(i, o)) \subseteq Key
<1>1. vals[i][o] \in Seq(Val) /\ pkOf[o] \in Pk
  <2>1. vals[i] \in [Obj -> Seq(Val)]
    BY IndexAssumption
  <2> QED BY <2>1
<1>2. DOMAIN vals[i][o] = 1..Len(vals[i][o]) /\ Len(vals[i][o]) \in Nat
  BY <1>1
<1>3. \A j \in 1..Len(vals[i][o]) : vals[i][o][j] \in Val
  BY <1>1
<1>4. ASSUME NEW v \in Val PROVE <<v>> \in Key /\ <<v, pkOf[o]>> \in Key
  BY <1>1 DEF Key
<1>5. \A j \in 1..Len(vals[i][o]) :
         (IF i \in Unique THEN <<vals[i][o][j]>> ELSE <<vals[i][o][j], pkOf[o]>>) \in Key
  BY <1>3, <1>4
<1>6. Keys(i, o) \in [1..Len(vals[i][o]) -> Key]
  BY <1>2, <1>5 DEF Keys
<1>7. Keys(i, o) \in Seq(Key)
  BY <1>2, <1>6
<1> QED BY <1>2, <1>6, <1>7 DEF Elems

LEMMA KeysOfType ==
    ASSUME NEW i \in Sec, NEW o \in MaybeObj
    PROVE  /\ KeysOf(i, o) \in Seq(Key)
           /\ Elems(KeysOf(i, o)) \subseteq Key
           /\ o = NoObj => Elems(KeysOf(i, o)) = {}
<1>1. CASE o = NoObj
  BY <1>1 DEF KeysOf, Elems
<1>2. CASE o \in Obj
  BY <1>2, KeysType DEF KeysOf
<1> QED BY <1>1, <1>2 DEF MaybeObj

\* In an index that is not unique a key belongs to one row.
LEMMA KeyOfOneRow ==
    ASSUME NEW i \in Sec \ Unique, NEW o \in Obj, NEW x \in Obj,
           NEW k \in Elems(Keys(i, o)), k \in Elems(Keys(i, x))
    PROVE  pkOf[o] = pkOf[x]
<1>1. ASSUME NEW y \in Obj, k \in Elems(Keys(i, y)) PROVE k[2] = pkOf[y]
  <2>1. PICK j \in DOMAIN Keys(i, y) : k = Keys(i, y)[j]
    BY <1>1 DEF Elems
  <2>2. j \in DOMAIN vals[i][y]
    BY <2>1 DEF Keys
  <2>3. k = <<vals[i][y][j], pkOf[y]>>
    BY <2>1, <2>2 DEF Keys
  <2> QED BY <2>3
<1> QED BY <1>1

\* The entries f of one index, with the keys new instead of old.
EntryMap == [Key -> MaybeObj]
IsMoved(g, f, new, old, o) ==
    /\ g \in EntryMap
    /\ \A k \in Key : g[k] = IF k \in Elems(new) THEN o
                             ELSE IF k \in Elems(old) THEN NoObj ELSE f[k]

\* What Moved does, position by position, is to take the old keys out and to
\* put the new ones in.
LEMMA MovedIs ==
    ASSUME NEW f, f \in EntryMap, NEW new, new \in KeySeq, NEW old, old \in KeySeq,
           NEW o, o \in MaybeObj
    PROVE  IsMoved(Moved(f, new, old, o), f, new, old, o)
<1> USE DEF EntryMap
<1>1. DOMAIN new = 1..Len(new) /\ DOMAIN old = 1..Len(old) /\ Len(new) \in Nat
  BY DEF KeySeq
<1>2. ASSUME NEW k \in Key, k \notin Elems(new)
      PROVE  k \in Gone(new, old) <=> k \in Elems(old)
  <2>1. \A j \in DOMAIN old : old[j] = k => j > Len(new) \/ new[j] # old[j]
    BY <1>1, <1>2 DEF Elems
  <2> QED BY <2>1 DEF Gone, Elems
<1>3. Moved(f, new, old, o) \in [Key -> MaybeObj]
  BY DEF Moved, MaybeObj
<1> QED BY <1>2, <1>3 DEF Moved, IsMoved

----------------------------------------------------------------------------
(* A row o takes the place of another, or one of them is none.               *)

\* The same for the keys of two rows.
LEMMA MovedAt ==
    ASSUME NEW f \in [Key -> MaybeObj], NEW i \in Sec,
           NEW o \in MaybeObj, NEW e \in MaybeObj
    PROVE  LET g == Moved(f, KeysOf(i, o), KeysOf(i, e), o)
           IN  /\ g \in [Key -> MaybeObj]
               /\ \A k \in Key : g[k] = IF k \in Elems(KeysOf(i, o)) THEN o
                                         ELSE IF k \in Elems(KeysOf(i, e)) THEN NoObj
                                         ELSE f[k]
<1> DEFINE new == KeysOf(i, o)
           old == KeysOf(i, e)
           g   == Moved(f, new, old, o)
<1> SUFFICES /\ g \in [Key -> MaybeObj]
             /\ \A k \in Key : g[k] = IF k \in Elems(new) THEN o
                                       ELSE IF k \in Elems(old) THEN NoObj ELSE f[k]
  OBVIOUS
<1>1. new \in KeySeq /\ old \in KeySeq
  BY KeysOfType DEF KeySeq
<1> HIDE DEF new, old
<1>2. IsMoved(Moved(f, new, old, o), f, new, old, o)
  <2>1. f \in EntryMap
    BY DEF EntryMap
  <2> HIDE DEF g
  <2> QED BY <1>1, <2>1, MovedIs
<1> QED BY <1>2 DEF IsMoved, EntryMap

\* o is stored at p.
Stored(rows, p, o) == [rows EXCEPT ![p] = o]

\* o takes the place of e in the secondary indexes.
Replaced(entry, o, e) ==
    [i \in Sec |-> Moved(entry[i], KeysOf(i, o), KeysOf(i, e), o)]

\* So the secondary indexes stay sound and complete.
LEMMA IndexedStays ==
    ASSUME NEW rows \in [Pk -> MaybeObj], NEW entry \in [Sec -> [Key -> MaybeObj]],
           Indexed(rows, entry),
           NEW p \in Pk, NEW o \in MaybeObj, o # NoObj => pkOf[o] = p
    PROVE  /\ Replaced(entry, o, rows[p]) \in [Sec -> [Key -> MaybeObj]]
           /\ Indexed(Stored(rows, p, o), Replaced(entry, o, rows[p]))
<1> DEFINE entry2 == Replaced(entry, o, rows[p])
           rows2 == Stored(rows, p, o)
<1>1. rows[p] \in MaybeObj /\ rows2 \in [Pk -> MaybeObj] /\ NoObj \in MaybeObj
  BY DEF MaybeObj, Stored
<1>2. ASSUME NEW i \in Sec
      PROVE  /\ entry2[i] \in [Key -> MaybeObj]
             /\ \A k \in Key : entry2[i][k] =
                    IF k \in Elems(KeysOf(i, o)) THEN o
                    ELSE IF k \in Elems(KeysOf(i, rows[p])) THEN NoObj
                    ELSE entry[i][k]
  <2> DEFINE m == Moved(entry[i], KeysOf(i, o), KeysOf(i, rows[p]), o)
  <2>1. /\ m \in [Key -> MaybeObj]
        /\ \A k \in Key : m[k] = IF k \in Elems(KeysOf(i, o)) THEN o
                                  ELSE IF k \in Elems(KeysOf(i, rows[p])) THEN NoObj
                                  ELSE entry[i][k]
    BY <1>1, MovedAt
  <2>2. entry2[i] = m
    BY DEF Replaced
  <2> HIDE DEF entry2, m
  <2> QED BY <2>1, <2>2
<1>3. entry2 \in [Sec -> [Key -> MaybeObj]]
  <2> DEFINE F(i) == Moved(entry[i], KeysOf(i, o), KeysOf(i, rows[p]), o)
  <2>1. entry2 = [i \in Sec |-> F(i)]
    BY DEF Replaced
  <2> HIDE DEF F, entry2
  <2>2. \A i \in Sec : F(i) \in [Key -> MaybeObj]
    BY <1>2, <2>1
  <2> QED BY <2>1, <2>2
<1>4. \A q \in Pk : rows2[q] = IF q = p THEN o ELSE rows[q]
  BY DEF Stored
<1> HIDE DEF rows2, entry2
<1>5. \A q \in Pk : rows2[q] # NoObj => pkOf[rows2[q]] = q
  BY <1>4 DEF Indexed
<1>6. ASSUME NEW i \in Sec, NEW k \in Key, entry2[i][k] # NoObj
      PROVE  /\ rows2[pkOf[entry2[i][k]]] = entry2[i][k]
             /\ k \in Elems(Keys(i, entry2[i][k]))
  <2>1. CASE k \in Elems(KeysOf(i, o))
    <3>1. o # NoObj
      BY <2>1, KeysOfType
    <3> QED BY <1>2, <1>4, <2>1, <3>1 DEF KeysOf
  <2>2. CASE k \notin Elems(KeysOf(i, o))
    <3>1. entry2[i][k] = entry[i][k] /\ k \notin Elems(KeysOf(i, rows[p]))
      BY <1>2, <1>6, <2>2
    <3>2. /\ rows[pkOf[entry[i][k]]] = entry[i][k]
          /\ k \in Elems(Keys(i, entry[i][k]))
      BY <1>6, <3>1 DEF Indexed
    <3>3. entry[i][k] \in Obj
      BY <1>6, <3>1 DEF MaybeObj
    <3>4. pkOf[entry[i][k]] # p
      BY <1>6, <3>1, <3>2 DEF KeysOf
    <3> QED BY <1>4, <3>1, <3>2, <3>3, <3>4
  <2> QED BY <2>1, <2>2
<1>7. ASSUME NEW i \in Sec \ Unique, NEW q \in Pk, NEW k \in Elems(KeysOf(i, rows2[q]))
      PROVE  entry2[i][k] = rows2[q]
  <2>1. k \in Key /\ rows2[q] # NoObj /\ rows2[q] \in Obj /\ k \in Elems(Keys(i, rows2[q]))
    BY <1>1, <1>7, KeysOfType DEF KeysOf, MaybeObj, rows2
  <2>2. CASE q = p
    <3>1. rows2[q] = o /\ k \in Elems(KeysOf(i, o))
      BY <1>4, <1>7, <2>2
    <3>2. k \in Key
      BY <2>1
    <3> QED BY <1>2, <3>1, <3>2
  <2>3. CASE q # p
    <3>1. rows2[q] = rows[q] /\ entry[i][k] = rows[q]
      BY <1>4, <1>7, <2>3 DEF Indexed
    <3>2. pkOf[rows[q]] = q
      BY <2>1, <3>1 DEF Indexed
    <3>3. ASSUME NEW x \in MaybeObj, x # NoObj => pkOf[x] = p
          PROVE  k \notin Elems(KeysOf(i, x))
      <4>1. CASE x = NoObj
        BY <4>1, KeysOfType
      <4>2. CASE x \in Obj
        BY <2>1, <2>3, <3>1, <3>2, <3>3, <4>2, KeyOfOneRow DEF KeysOf
      <4> QED BY <4>1, <4>2 DEF MaybeObj
    <3>4. rows[p] # NoObj => pkOf[rows[p]] = p
      BY DEF Indexed
    <3>5. k \notin Elems(KeysOf(i, o)) /\ k \notin Elems(KeysOf(i, rows[p]))
      BY <1>1, <3>3, <3>4
    <3> QED BY <1>2, <2>1, <3>1, <3>5
  <2> QED BY <2>2, <2>3
<1>8. Indexed(rows2, entry2)
  BY <1>5, <1>6, <1>7 DEF Indexed
<1> QED BY <1>3, <1>8 DEF rows2, entry2

----------------------------------------------------------------------------
(* Row ids.                                                                  *)

\* The least of a set of numbers is one of them and below the others.
LEMMA SetMinIs ==
    ASSUME NEW S \in SUBSET Nat, S # {}
    PROVE  SetMin(S) \in S /\ \A n \in S : SetMin(S) <= n
<1> DEFINE R == OpToRel(<, Nat)
<1>1. \A x, y \in Nat : <<x, y>> \in R <=> x < y
  BY DEF OpToRel
<1>2. IsWellFoundedOn(R, Nat)
  BY NatLessThanWellFounded
<1> HIDE DEF R
<1>3. S \subseteq Nat /\ S # {}
  OBVIOUS
<1>4. \E x \in S : \A y \in S : ~ (<<y, x>> \in R)
  BY <1>2, <1>3, WFMin, Zenon
<1>5. PICK x \in S : \A y \in S : ~ (<<y, x>> \in R)
  BY <1>4
<1>6. ASSUME NEW y \in S PROVE x <= y
  <2>1. x \in Nat /\ y \in Nat
    OBVIOUS
  <2>2. ~ (y < x)
    BY <1>1, <1>5, <2>1, Zenon
  <2> QED BY <2>1, <2>2
<1> QED BY <1>6 DEF SetMin

\* Unless the ids have run out, the number after an id is an id.
LEMMA NextId ==
    ASSUME NEW n \in Id
    PROVE  /\ (n + 1) % IdSpace \in Id
           /\ (n + 1) % IdSpace # 0 => (n + 1) % IdSpace = n + 1 /\ n + 1 \in Id
<1>1. n \in Nat /\ n < IdSpace
  BY IdAssumption DEF Id
<1>2. CASE n + 1 = IdSpace
  <2>1. (n + 1) % IdSpace = 0
    BY <1>2, IdAssumption
  <2> QED BY <2>1, IdAssumption DEF Id
<1>3. CASE n + 1 < IdSpace
  <2>1. (n + 1) % IdSpace = n + 1
    BY <1>1, <1>3, IdAssumption
  <2> QED BY <1>1, <1>3, <2>1, IdAssumption DEF Id
<1> QED BY <1>1, <1>2, <1>3, IdAssumption

\* The id of a write: at it the row vector has the row that is replaced.
LEMMA RowIdIs ==
    ASSUME NEW rows \in [Pk -> MaybeObj], NEW t \in Table, Bm # {},
           Numbered(rows, t), Counted(t),
           NEW p \in Pk, ~BitmapPanic(t, rows[p], p)
    PROVE  /\ RowId(t, rows[p], p) \in Id
           /\ t.at[RowId(t, rows[p], p)] = rows[p]
           /\ rows[p] # NoObj => t.ids[p] = RowId(t, rows[p], p)
           /\ rows[p] = NoObj /\ t.free # {} => RowId(t, rows[p], p) \in t.free
           /\ rows[p] = NoObj /\ t.free = {} =>
                 /\ RowId(t, rows[p], p) = t.next
                 /\ (t.next + 1) % IdSpace = t.next + 1
<1>0. t.ids \in [Pk -> Id \cup {NoId}] /\ t.free \subseteq Id /\ t.next \in Id
  BY DEF Table
<1>1. CASE rows[p] # NoObj
  BY <1>0, <1>1 DEF RowId, Numbered, BitmapPanic
<1>2. CASE rows[p] = NoObj /\ t.free # {}
  <2>1. SetMin(t.free) \in t.free
    BY <1>0, <1>2, SetMinIs, IdAssumption DEF Id
  <2>2. SetMin(t.free) \in Id /\ SetMin(t.free) \notin t.all
    BY <1>0, <2>1 DEF Counted
  <2>3. t.at[SetMin(t.free)] = NoObj
    BY <2>2 DEF Counted
  <2> QED BY <1>2, <2>1, <2>2, <2>3 DEF RowId
<1>3. CASE rows[p] = NoObj /\ t.free = {}
  <2>1. (t.next + 1) % IdSpace # 0
    BY <1>3 DEF BitmapPanic, Exhausted
  <2>2. ~ (t.next < t.next)
    BY <1>0, IdAssumption DEF Id
  <2>3. t.next \notin t.all
    BY <1>0, <2>2 DEF Counted
  <2>4. t.at[t.next] = NoObj
    BY <1>0, <2>3 DEF Counted
  <2> QED BY <1>0, <1>3, <2>1, <2>4, NextId DEF RowId
<1> QED BY <1>1, <1>2, <1>3

\* What applyBitmaps does to each part of the table.
Effect(t, o, e, p, id, u) ==
    /\ u \in Table
    /\ u.rows = t.rows /\ u.entry = t.entry
    /\ u.ids = [t.ids EXCEPT ![p] = IF o = NoObj THEN NoId ELSE id]
    /\ u.all = IF o = NoObj THEN t.all \ {id} ELSE t.all \cup {id}
    /\ u.free = IF o = NoObj THEN t.free \cup {id} ELSE t.free \ {id}
    /\ u.next = IF e = NoObj /\ t.free = {} THEN (t.next + 1) % IdSpace ELSE t.next
    /\ u.at = [t.at EXCEPT ![id] = o]
    /\ \A b \in Bm, v \in Val : u.bits[b][v] =
          IF v \in ValsOf(b, e) \ ValsOf(b, o) THEN t.bits[b][v] \ {id}
          ELSE IF v \in ValsOf(b, o) \ ValsOf(b, e) THEN t.bits[b][v] \cup {id}
          ELSE t.bits[b][v]

LEMMA RebittedIs ==
    ASSUME NEW t \in Table, NEW o \in MaybeObj, NEW e \in MaybeObj, NEW p \in Pk,
           Bm # {}, ~BitmapPanic(t, e, p), RowId(t, e, p) \in Id
    PROVE  Effect(t, o, e, p, RowId(t, e, p), Rebitted(t, o, e, p))
<1> DEFINE id == RowId(t, e, p)
           u  == Rebitted(t, o, e, p)
<1> DEFINE r == Renumbered(t, o, e, p, id)
           B(b, v) == IF v \in ValsOf(b, e) \ ValsOf(b, o) THEN r.bits[b][v] \ {id}
                      ELSE IF v \in ValsOf(b, o) \ ValsOf(b, e) THEN r.bits[b][v] \cup {id}
                      ELSE r.bits[b][v]
<1>1. u = [r EXCEPT !.bits = [b \in Bm |-> [v \in Val |-> B(b, v)]]]
  BY DEF Rebitted
<1>2. t.next \in Id => (t.next + 1) % IdSpace \in Id
  BY NextId
<1>3. /\ r \in Table
      /\ r.rows = t.rows /\ r.entry = t.entry /\ r.bits = t.bits
      /\ r.ids = [t.ids EXCEPT ![p] = IF o = NoObj THEN NoId ELSE id]
      /\ r.all = IF o = NoObj THEN t.all \ {id} ELSE t.all \cup {id}
      /\ r.free = IF o = NoObj THEN t.free \cup {id} ELSE t.free \ {id}
      /\ r.next = IF e = NoObj /\ t.free = {} THEN (t.next + 1) % IdSpace ELSE t.next
      /\ r.at = [t.at EXCEPT ![id] = o]
  BY <1>2 DEF Renumbered, Table
<1> HIDE DEF r
<1>4. \A b \in Bm, v \in Val : B(b, v) \in SUBSET Id
  BY <1>3 DEF Table
<1>5. \A b \in Bm, v \in Val : B(b, v) =
          IF v \in ValsOf(b, e) \ ValsOf(b, o) THEN t.bits[b][v] \ {id}
          ELSE IF v \in ValsOf(b, o) \ ValsOf(b, e) THEN t.bits[b][v] \cup {id}
          ELSE t.bits[b][v]
  BY <1>3
<1> HIDE DEF B
<1> DEFINE bits == [b \in Bm |-> [v \in Val |-> B(b, v)]]
<1>6. /\ bits \in [Bm -> [Val -> SUBSET Id]]
      /\ \A b \in Bm, v \in Val : bits[b][v] = B(b, v)
  BY <1>4
<1>7. u = [r EXCEPT !.bits = bits]
  BY <1>1
<1> HIDE DEF bits
<1>8. /\ u \in Table
      /\ u.rows = r.rows /\ u.entry = r.entry /\ u.ids = r.ids /\ u.all = r.all
      /\ u.free = r.free /\ u.next = r.next /\ u.at = r.at
      /\ \A b \in Bm, v \in Val : u.bits[b][v] = B(b, v)
  <2>1. u \in Table /\ u.bits = bits
    BY <1>3, <1>6, <1>7 DEF Table
  <2>2. /\ u.rows = r.rows /\ u.entry = r.entry /\ u.ids = r.ids /\ u.all = r.all
        /\ u.free = r.free /\ u.next = r.next /\ u.at = r.at
    BY <1>3, <1>7 DEF Table
  <2> QED BY <1>6, <2>1, <2>2
<1>9. \A b \in Bm, v \in Val : u.bits[b][v] =
          IF v \in ValsOf(b, e) \ ValsOf(b, o) THEN t.bits[b][v] \ {id}
          ELSE IF v \in ValsOf(b, o) \ ValsOf(b, e) THEN t.bits[b][v] \cup {id}
          ELSE t.bits[b][v]
  BY <1>8, <1>5
<1> HIDE DEF u, id
<1>10. Effect(t, o, e, p, id, u)
  BY <1>3, <1>8, <1>9 DEF Effect
<1> QED BY <1>10 DEF u, id

\* The row ids and the bitmaps.
LEMMA NumberedStays ==
    ASSUME NEW rows \in [Pk -> MaybeObj], NEW t \in Table, Bm # {},
           \A q \in Pk : rows[q] # NoObj => pkOf[rows[q]] = q,
           Numbered(rows, t), Counted(t),
           NEW p \in Pk, NEW o \in MaybeObj, o # NoObj => pkOf[o] = p,
           o # NoObj \/ rows[p] # NoObj,
           ~BitmapPanic(t, rows[p], p)
    PROVE  LET u == Rebitted(t, o, rows[p], p)
           IN  /\ u \in Table /\ u.rows = t.rows /\ u.entry = t.entry
               /\ Numbered(Stored(rows, p, o), u)
               /\ Counted(u)
<1> DEFINE id == RowId(t, rows[p], p)
           u == Rebitted(t, o, rows[p], p)
           rows2 == Stored(rows, p, o)
<1>1. /\ id \in Id /\ t.at[id] = rows[p]
      /\ rows[p] # NoObj => t.ids[p] = id
      /\ rows[p] = NoObj /\ t.free # {} => id \in t.free
      /\ rows[p] = NoObj /\ t.free = {} => id = t.next /\ (t.next + 1) % IdSpace = t.next + 1
  BY RowIdIs
<1>2. rows[p] \in MaybeObj /\ NoId \notin Id
  BY IdAssumption DEF Id
<1> HIDE DEF id
<1>3. Effect(t, o, rows[p], p, id, u)
  BY <1>1, <1>2, RebittedIs DEF id
<1> HIDE DEF u
<1>4. /\ t.ids \in [Pk -> Id \cup {NoId}] /\ t.at \in [Id -> MaybeObj]
      /\ t.all \subseteq Id /\ t.free \subseteq Id /\ t.next \in Nat
      /\ t.bits \in [Bm -> [Val -> SUBSET Id]]
  BY IdAssumption DEF Table, Id
<1>5. /\ \A q \in Pk : rows2[q] = IF q = p THEN o ELSE rows[q]
      /\ \A q \in Pk : u.ids[q] = IF q # p THEN t.ids[q] ELSE IF o = NoObj THEN NoId ELSE id
      /\ \A n \in Id : u.at[n] = IF n = id THEN o ELSE t.at[n]
  BY <1>1, <1>3, <1>4 DEF Effect, Stored
<1> HIDE DEF rows2
<1>6. Numbered(rows2, u)
  <2>1. \A q \in Pk : rows2[q] = NoObj <=> u.ids[q] = NoId
    BY <1>1, <1>2, <1>5 DEF Numbered
  <2>2. ASSUME NEW q \in Pk, rows2[q] # NoObj PROVE u.at[u.ids[q]] = rows2[q]
    <3>1. CASE q = p
      BY <1>1, <1>5, <2>2, <3>1
    <3>2. CASE q # p
      <4>1. rows[q] # NoObj /\ u.ids[q] = t.ids[q] /\ t.at[t.ids[q]] = rows[q]
        BY <1>5, <2>2, <3>2 DEF Numbered
      <4>2. t.ids[q] \in Id
        BY <1>4, <4>1 DEF Numbered
      <4>3. t.ids[q] # id
        BY <1>1, <3>2, <4>1
      <4> QED BY <1>5, <3>2, <4>1, <4>2, <4>3
    <3> QED BY <3>1, <3>2
  <2>3. ASSUME NEW n \in Id, u.at[n] # NoObj PROVE u.ids[pkOf[u.at[n]]] = n
    <3>1. CASE n = id
      BY <1>5, <2>3, <3>1
    <3>2. CASE n # id
      <4>1. t.at[n] # NoObj /\ u.at[n] = t.at[n] /\ t.ids[pkOf[t.at[n]]] = n
        BY <1>5, <2>3, <3>2 DEF Numbered
      <4>2. pkOf[t.at[n]] \in Pk
        BY <1>4, <4>1 DEF MaybeObj
      <4>3. pkOf[t.at[n]] # p
        BY <1>1, <1>2, <3>2, <4>1 DEF Numbered
      <4> QED BY <1>5, <4>1, <4>2, <4>3
    <3> QED BY <3>1, <3>2
  <2> QED BY <2>1, <2>2, <2>3 DEF Numbered
<1>7. Counted(u)
  <2>1. u.all = {n \in Id : u.at[n] # NoObj}
    BY <1>1, <1>3, <1>4, <1>5 DEF Counted, Effect
  <2>2. u.all \cap u.free = {}
    BY <1>3 DEF Counted, Effect
  <2>3. u.all \cup u.free = {n \in Id : n < u.next}
    <3>1. CASE rows[p] = NoObj /\ t.free = {}
      <4>1. o # NoObj /\ id = t.next /\ u.next = t.next + 1
        BY <1>1, <1>3, <3>1 DEF Effect
      <4>2. \A n \in Id : n < t.next + 1 <=> n < t.next \/ n = t.next
        BY <1>4, IdAssumption DEF Id
      <4> QED BY <1>1, <1>3, <1>4, <3>1, <4>1, <4>2 DEF Counted, Effect
    <3>2. CASE ~ (rows[p] = NoObj /\ t.free = {})
      <4>1. id \in t.all \cup t.free
        BY <1>1, <1>4, <3>2 DEF Counted
      <4>2. u.all \cup u.free = t.all \cup t.free /\ u.next = t.next
        BY <1>3, <3>2, <4>1 DEF Effect
      <4> QED BY <4>2 DEF Counted
    <3> QED BY <3>1, <3>2
  <2>4. ASSUME NEW b \in Bm, NEW v \in Val
        PROVE  u.bits[b][v] = {n \in Id : v \in ValsOf(b, u.at[n])}
    <3>1. t.bits[b][v] = {n \in Id : v \in ValsOf(b, t.at[n])}
      BY DEF Counted
    <3>2. u.bits[b][v] =
            IF v \in ValsOf(b, rows[p]) \ ValsOf(b, o) THEN t.bits[b][v] \ {id}
            ELSE IF v \in ValsOf(b, o) \ ValsOf(b, rows[p]) THEN t.bits[b][v] \cup {id}
            ELSE t.bits[b][v]
      BY <1>3 DEF Effect
    <3> QED BY <1>1, <1>5, <3>1, <3>2
  <2> QED BY <2>1, <2>2, <2>3, <2>4 DEF Counted
<1> QED BY <1>3, <1>6, <1>7 DEF rows2, Effect, u

\* Together: a row o takes the place of another, in a table whose rows and
\* index entries may be elsewhere.
LEMMA WholeStays ==
    ASSUME NEW rows \in [Pk -> MaybeObj], NEW entry \in [Sec -> [Key -> MaybeObj]],
           NEW t \in Table, Whole(rows, entry, t),
           NEW p \in Pk, NEW o \in MaybeObj, o # NoObj => pkOf[o] = p,
           o # NoObj \/ rows[p] # NoObj,
           ~BitmapPanic(t, rows[p], p),
           NEW s \in Table,
           s.ids = t.ids /\ s.all = t.all /\ s.free = t.free,
           s.next = t.next /\ s.at = t.at /\ s.bits = t.bits
    PROVE  LET u == Rebitted(s, o, rows[p], p)
               entry2 == Replaced(entry, o, rows[p])
           IN  /\ u \in Table /\ u.rows = s.rows /\ u.entry = s.entry
               /\ entry2 \in [Sec -> [Key -> MaybeObj]]
               /\ Whole(Stored(rows, p, o), entry2, u)
<1> DEFINE u == Rebitted(s, o, rows[p], p)
           entry2 == Replaced(entry, o, rows[p])
           rows2 == Stored(rows, p, o)
<1>1. Indexed(rows, entry)
  BY DEF Whole
<1>2. entry2 \in [Sec -> [Key -> MaybeObj]] /\ Indexed(rows2, entry2)
  BY <1>1, IndexedStays
<1>3. /\ u \in Table /\ u.rows = s.rows /\ u.entry = s.entry
      /\ Bm # {} => Numbered(rows2, u) /\ Counted(u)
  <2>1. CASE Bm = {}
    BY <2>1 DEF Rebitted
  <2>2. CASE Bm # {}
    <3>1. Numbered(rows, s) /\ Counted(s)
      BY <2>2 DEF Whole, Numbered, Counted
    <3>2. ~BitmapPanic(s, rows[p], p)
      BY DEF BitmapPanic, Exhausted
    <3>3. \A q \in Pk : rows[q] # NoObj => pkOf[rows[q]] = q
      BY <1>1 DEF Indexed
    <3> QED BY <2>2, <3>1, <3>2, <3>3, NumberedStays
  <2> QED BY <2>1, <2>2
<1> QED BY <1>2, <1>3 DEF Whole

----------------------------------------------------------------------------
(* The inductive invariant.                                                  *)

\* An entry the loop of DeletePrefix has visited, or would have.
Visited(e) == e[1][1] \in query.scan /\ e \notin todo

\* The table without what the loop of DeletePrefix has visited and will cut.
SettledRows ==
    [p \in Pk |-> IF /\ pc = "deletePrefix" /\ query.index = "id"
                     /\ Visited(<<<<p>>, tab.rows[p]>>)
                  THEN NoObj ELSE tab.rows[p]]

SettledEntry ==
    [i \in Sec |-> [k \in Key |->
        IF /\ pc = "deletePrefix" /\ query.index = i
           /\ Visited(<<k, tab.entry[i][k]>>)
        THEN NoObj ELSE tab.entry[i][k]]]

TableTypes ==
    /\ root \in Table
    /\ tab \in Table
    /\ pc \in {"idle", "open", "deleteAll", "deletePrefix", "panic"}
    /\ \A e \in todo : e[2] \in Obj

\* Where the loop of DeletePrefix is: what it has still to visit is there and
\* alive; what it has visited has left the primary index, unless that is the one
\* it will cut.
PrefixLoop ==
    pc = "deletePrefix" =>
        /\ query \in PrefixQuery
        /\ result \in {"none", "found"}
        /\ result = "none" => todo = Entries(tab, query.index, query.scan)
        /\ todo \subseteq Entries(tab, query.index, query.scan)
        /\ \A e \in todo : SettledRows[pkOf[e[2]]] = e[2]
        /\ \A p \in Pk : tab.rows[p] # NoObj => pkOf[tab.rows[p]] = p
        /\ query.index # "id" =>
              \A e \in Entries(tab, query.index, query.scan) \ todo :
                  tab.rows[pkOf[e[2]]] = NoObj

IInv ==
    /\ TableTypes
    /\ Whole(root.rows, root.entry, root)
    /\ pc # "panic" => Whole(SettledRows, SettledEntry, tab)
    /\ NoPanic
    /\ PrefixLoop

\* Where the loop of DeleteAll is: every entry that matches is still to be
\* visited, and no two of them are of one row.
AllLoop ==
    pc = "deleteAll" =>
        /\ query \in AllQuery
        /\ Entries(tab, query.index, query.scan) \subseteq todo
        /\ \A e \in todo :
              /\ e = <<e[1], e[2]>>
              /\ tab.rows[pkOf[e[2]]] = e[2]
              /\ IF query.index = "id" THEN e[1] = <<pkOf[e[2]]>>
                 ELSE e[1] \in Elems(Keys(query.index, e[2])) /\ e[1][1] \in query.scan

----------------------------------------------------------------------------
(* Facts about the settled table.                                            *)

\* An entry of the primary index, and one of a secondary index.
LEMMA EntriesAre ==
    ASSUME NEW t, NEW i \in Index, NEW S, NEW e
    PROVE  /\ i = "id" =>
                (e \in Entries(t, i, S) <=>
                    \E p \in Pk : p \in S /\ t.rows[p] # NoObj /\ e = <<<<p>>, t.rows[p]>>)
           /\ i # "id" =>
                (e \in Entries(t, i, S) <=>
                    \E k \in Key : /\ k[1] \in S /\ t.entry[i][k] # NoObj
                                   /\ e = <<k, t.entry[i][k]>>)
BY DEF Entries

LEMMA EntriesType ==
    ASSUME NEW t \in Table, NEW i \in Index, NEW S, NEW e \in Entries(t, i, S)
    PROVE  e[2] \in Obj
<1>1. t.rows \in [Pk -> MaybeObj] /\ t.entry \in [Sec -> [Key -> MaybeObj]]
  BY DEF Table
<1>2. CASE i = "id"
  <2>1. PICK p \in Pk : t.rows[p] # NoObj /\ e = <<<<p>>, t.rows[p]>>
    BY <1>2 DEF Entries
  <2>2. t.rows[p] \in Obj
    BY <1>1, <2>1 DEF MaybeObj
  <2> QED BY <2>1, <2>2
<1>3. CASE i # "id"
  <2>1. i \in Sec
    BY <1>3 DEF Index
  <2>2. PICK k \in Key : t.entry[i][k] # NoObj /\ e = <<k, t.entry[i][k]>>
    BY <1>3, EntriesAre
  <2>3. t.entry[i][k] \in Obj
    BY <1>1, <2>1, <2>2 DEF MaybeObj
  <2> QED BY <2>2, <2>3
<1> QED BY <1>2, <1>3

LEMMA SettledType ==
    ASSUME tab \in Table
    PROVE  /\ SettledRows \in [Pk -> MaybeObj]
           /\ SettledEntry \in [Sec -> [Key -> MaybeObj]]
BY DEF SettledRows, SettledEntry, Table, MaybeObj

\* Outside the loop of DeletePrefix, and where it begins, nothing is settled.
LEMMA SettledIsTable ==
    ASSUME tab \in Table,
           \/ pc # "deletePrefix"
           \/ query.index \in Index /\ todo = Entries(tab, query.index, query.scan)
    PROVE  SettledRows = tab.rows /\ SettledEntry = tab.entry
<1>1. tab.rows \in [Pk -> MaybeObj] /\ tab.entry \in [Sec -> [Key -> MaybeObj]]
  BY DEF Table
<1>2. CASE pc # "deletePrefix"
  BY <1>1, <1>2 DEF SettledRows, SettledEntry
<1>3. CASE query.index \in Index /\ todo = Entries(tab, query.index, query.scan)
  <2>1. ASSUME NEW p \in Pk PROVE SettledRows[p] = tab.rows[p]
    <3>1. CASE query.index = "id" /\ p \in query.scan /\ tab.rows[p] # NoObj
      BY <1>3, <3>1, EntriesAre DEF SettledRows, Visited
    <3>2. CASE ~ (query.index = "id" /\ p \in query.scan /\ tab.rows[p] # NoObj)
      <4>1. Visited(<<<<p>>, tab.rows[p]>>) => p \in query.scan
        BY DEF Visited
      <4> QED BY <3>2, <4>1 DEF SettledRows
    <3> QED BY <3>1, <3>2
  <2>2. ASSUME NEW i \in Sec, NEW k \in Key PROVE SettledEntry[i][k] = tab.entry[i][k]
    <3>1. i # "id"
      BY IndexAssumption
    <3>2. CASE query.index = i /\ k[1] \in query.scan /\ tab.entry[i][k] # NoObj
      <4>1. <<k, tab.entry[i][k]>> \in todo
        BY <1>3, <3>1, <3>2, EntriesAre
      <4> QED BY <3>1, <4>1 DEF SettledEntry, Visited
    <3>3. CASE ~ (query.index = i /\ k[1] \in query.scan /\ tab.entry[i][k] # NoObj)
      <4>1. Visited(<<k, tab.entry[i][k]>>) => k[1] \in query.scan
        BY DEF Visited
      <4> QED BY <3>3, <4>1 DEF SettledEntry
    <3> QED BY <3>2, <3>3
  <2>3. SettledRows = tab.rows
    BY <1>1, <2>1 DEF SettledRows
  <2>4. SettledEntry = tab.entry
    <3>1. \A i \in Sec : SettledEntry[i] = tab.entry[i]
      BY <1>1, <2>2 DEF SettledEntry
    <3> QED BY <1>1, <3>1 DEF SettledEntry
  <2> QED BY <2>3, <2>4
<1> QED BY <1>2, <1>3

----------------------------------------------------------------------------
(* The writes.                                                               *)

\* A row that is there has an id, so only a new row can find none.
LEMMA PanicIs ==
    ASSUME NEW rows, NEW entry, NEW t, Whole(rows, entry, t),
           NEW p \in Pk, BitmapPanic(t, rows[p], p)
    PROVE  Exhausted(t) /\ rows[p] = NoObj
BY DEF BitmapPanic, Whole, Numbered

\* deleteFromIndexes, for a row of a table whose rows and entries may be elsewhere.
LEMMA DroppedIs ==
    ASSUME NEW rows \in [Pk -> MaybeObj], NEW entry \in [Sec -> [Key -> MaybeObj]],
           NEW t \in Table, Whole(rows, entry, t),
           NEW o \in Obj, rows[pkOf[o]] = o, NEW target
    PROVE  LET u == Dropped(t, o, target)
           IN  /\ ~BitmapPanic(t, o, pkOf[o])
               /\ u \in Table
               /\ u.rows = IF target = "id" THEN t.rows
                           ELSE Stored(t.rows, pkOf[o], NoObj)
               /\ u.entry = Reindexed(t.entry, NoObj, o, target)
               /\ Replaced(entry, NoObj, o) \in [Sec -> [Key -> MaybeObj]]
               /\ Whole(Stored(rows, pkOf[o], NoObj), Replaced(entry, NoObj, o), u)
<1> DEFINE p == pkOf[o]
           rows2  == IF target = "id" THEN t.rows ELSE Stored(t.rows, p, NoObj)
           entry2 == Reindexed(t.entry, NoObj, o, target)
           s == [t EXCEPT !.rows = rows2, !.entry = entry2]
<1>1. p \in Pk /\ NoObj \in MaybeObj /\ o \in MaybeObj /\ o # NoObj
  BY DEF MaybeObj
<1>2. ~BitmapPanic(t, o, p)
  <2>1. rows[p] = o
    OBVIOUS
  <2> HIDE DEF p
  <2>2. SUFFICES ASSUME BitmapPanic(t, rows[p], p) PROVE FALSE
    BY <2>1
  <2> QED BY <1>1, <2>1, <2>2, PanicIs, Zenon
<1>3. t.rows \in [Pk -> MaybeObj] /\ t.entry \in [Sec -> [Key -> MaybeObj]]
  BY DEF Table
<1>4. rows2 \in [Pk -> MaybeObj]
  BY <1>1, <1>3 DEF Stored
<1>5. entry2 \in [Sec -> [Key -> MaybeObj]]
  <2> DEFINE F(i) == IF i = target THEN t.entry[i]
                     ELSE Moved(t.entry[i], KeysOf(i, NoObj), KeysOf(i, o), NoObj)
  <2>1. ASSUME NEW i \in Sec PROVE F(i) \in [Key -> MaybeObj]
    <3>1. t.entry[i] \in [Key -> MaybeObj]
      BY <1>3
    <3>2. Moved(t.entry[i], KeysOf(i, NoObj), KeysOf(i, o), NoObj) \in [Key -> MaybeObj]
      BY <1>1, <3>1, MovedAt
    <3> QED BY <3>1, <3>2
  <2>2. entry2 = [i \in Sec |-> F(i)]
    BY DEF Reindexed
  <2> HIDE DEF F, entry2
  <2> QED BY <2>1, <2>2
<1>6. Dropped(t, o, target) = Rebitted(s, NoObj, o, p)
  BY DEF Dropped, Stored
<1> HIDE DEF rows2, entry2
<1>7. /\ s \in Table /\ s.rows = rows2 /\ s.entry = entry2
      /\ s.ids = t.ids /\ s.all = t.all /\ s.free = t.free
      /\ s.next = t.next /\ s.at = t.at /\ s.bits = t.bits
  BY <1>4, <1>5 DEF Table
<1> HIDE DEF s, p
<1>8. /\ Rebitted(s, NoObj, o, p) \in Table
      /\ Rebitted(s, NoObj, o, p).rows = s.rows /\ Rebitted(s, NoObj, o, p).entry = s.entry
      /\ Replaced(entry, NoObj, o) \in [Sec -> [Key -> MaybeObj]]
      /\ Whole(Stored(rows, p, NoObj), Replaced(entry, NoObj, o), Rebitted(s, NoObj, o, p))
  <2>1. rows[p] = o
    BY DEF p
  <2> QED BY <1>1, <1>2, <1>7, <2>1, WholeStays
<1> QED BY <1>2, <1>6, <1>7, <1>8 DEF p, rows2, entry2

\* Insert: the row is put in, or no id is left for it.
LEMMA InsertKeeps ==
    ASSUME tab \in Table, Whole(tab.rows, tab.entry, tab),
           NEW o \in Obj, Insert(o)
    PROVE  /\ tab' \in Table
           /\ pc' \in {"open", "panic"}
           /\ pc' = "panic" => Exhausted(tab')
           /\ pc' = "open" => Whole(tab'.rows, tab'.entry, tab')
<1> DEFINE p == pkOf[o]
           e == tab.rows[p]
           rows2 == Stored(tab.rows, p, o)
           entry2 == Reindexed(tab.entry, o, e, "none")
           s == [tab EXCEPT !.rows = rows2, !.entry = entry2]
           moved == Replaced(tab.entry, o, e)
<1>1. tab.rows \in [Pk -> MaybeObj] /\ tab.entry \in [Sec -> [Key -> MaybeObj]]
  BY DEF Table
<1>2. p \in Pk /\ o \in MaybeObj /\ e \in MaybeObj /\ o # NoObj
  BY <1>1 DEF MaybeObj
<1>3. /\ tab' = Rebitted(s, o, e, p)
      /\ pc' = IF BitmapPanic(tab, e, p) THEN "panic" ELSE "open"
  BY DEF Insert, Stored
<1>4. entry2 = moved
  BY IndexAssumption DEF Reindexed, Replaced
<1>5. rows2 \in [Pk -> MaybeObj]
  BY <1>1, <1>2 DEF Stored
<1>6. moved \in [Sec -> [Key -> MaybeObj]]
  <2>1. pkOf[o] = p /\ Indexed(tab.rows, tab.entry)
    BY DEF Whole
  <2> HIDE DEF p
  <2> QED BY <1>1, <1>2, <2>1, IndexedStays
<1> HIDE DEF rows2, entry2, moved
<1>7. /\ s \in Table /\ s.rows = rows2 /\ s.entry = moved
      /\ s.ids = tab.ids /\ s.all = tab.all /\ s.free = tab.free
      /\ s.next = tab.next /\ s.at = tab.at /\ s.bits = tab.bits
  BY <1>4, <1>5, <1>6 DEF Table
<1> HIDE DEF s, p, e
<1>8. CASE BitmapPanic(tab, e, p)
  <2>1. BitmapPanic(s, e, p)
    BY <1>7, <1>8 DEF BitmapPanic, Exhausted
  <2>2. tab' = s
    BY <1>3, <2>1 DEF Rebitted
  <2>3. Exhausted(tab)
    <3>1. BitmapPanic(tab, tab.rows[p], p)
      BY <1>8 DEF e
    <3> QED BY <1>2, <3>1, PanicIs, Zenon
  <2> QED BY <1>3, <1>7, <1>8, <2>2, <2>3 DEF Exhausted
<1>9. CASE ~BitmapPanic(tab, e, p)
  <2>1. /\ tab' \in Table /\ tab'.rows = s.rows /\ tab'.entry = s.entry
        /\ Whole(rows2, moved, tab')
    BY <1>1, <1>2, <1>3, <1>7, <1>9, WholeStays DEF e, p, rows2, moved
  <2> QED BY <1>3, <1>7, <1>9, <2>1
<1> QED BY <1>8, <1>9

\* What a row's departure leaves of a secondary index.
LEMMA ReplacedAt ==
    ASSUME NEW entry \in [Sec -> [Key -> MaybeObj]], NEW o \in Obj,
           NEW i \in Sec, NEW k \in Key
    PROVE  Replaced(entry, NoObj, o)[i][k] =
              IF k \in Elems(Keys(i, o)) THEN NoObj ELSE entry[i][k]
<1>1. NoObj \in MaybeObj /\ o \in MaybeObj /\ o # NoObj
  BY DEF MaybeObj
<1>2. Replaced(entry, NoObj, o)[i] = Moved(entry[i], KeysOf(i, NoObj), KeysOf(i, o), NoObj)
  BY DEF Replaced
<1>3. Elems(KeysOf(i, NoObj)) = {} /\ KeysOf(i, o) = Keys(i, o)
  BY <1>1, KeysOfType DEF KeysOf
<1>4. Moved(entry[i], KeysOf(i, NoObj), KeysOf(i, o), NoObj)[k] =
         IF k \in Elems(KeysOf(i, NoObj)) THEN NoObj
         ELSE IF k \in Elems(KeysOf(i, o)) THEN NoObj ELSE entry[i][k]
  BY <1>1, MovedAt
<1> QED BY <1>2, <1>3, <1>4

LEMMA ReplacedType ==
    ASSUME NEW entry \in [Sec -> [Key -> MaybeObj]], NEW o \in Obj
    PROVE  Replaced(entry, NoObj, o) \in [Sec -> [Key -> MaybeObj]]
<1> DEFINE F(i) == Moved(entry[i], KeysOf(i, NoObj), KeysOf(i, o), NoObj)
<1>1. NoObj \in MaybeObj /\ o \in MaybeObj
  BY DEF MaybeObj
<1>2. \A i \in Sec : F(i) \in [Key -> MaybeObj]
  BY <1>1, MovedAt
<1>3. Replaced(entry, NoObj, o) = [i \in Sec |-> F(i)]
  BY DEF Replaced
<1> HIDE DEF F
<1> QED BY <1>2, <1>3

\* Delete: the row is taken out, or there is none.
LEMMA DeleteKeeps ==
    ASSUME tab \in Table, Whole(tab.rows, tab.entry, tab),
           NEW p \in Pk, NEW next, NEW rest, DeleteRow(p, next, rest)
    PROVE  /\ tab' \in Table
           /\ Whole(tab'.rows, tab'.entry, tab')
           /\ tab.rows[p] = NoObj => pc' = "open" /\ todo' = {}
           /\ tab.rows[p] # NoObj =>
                 /\ pc' = next /\ todo' = rest
                 /\ tab'.rows = Stored(tab.rows, p, NoObj)
                 /\ tab'.entry = Replaced(tab.entry, NoObj, tab.rows[p])
<1> DEFINE o == tab.rows[p]
<1>1. tab.rows \in [Pk -> MaybeObj] /\ tab.entry \in [Sec -> [Key -> MaybeObj]]
  BY DEF Table
<1>2. CASE o = NoObj
  BY <1>2 DEF DeleteRow
<1>3. CASE o # NoObj
  <2>1. o \in Obj /\ pkOf[o] = p
    BY <1>1, <1>3 DEF Whole, Indexed, MaybeObj
  <2>2. /\ tab' = Dropped(tab, o, "none") /\ todo' = rest
        /\ pc' = IF BitmapPanic(tab, o, p) THEN "panic" ELSE next
    BY <1>3 DEF DeleteRow
  <2>3. Reindexed(tab.entry, NoObj, o, "none") = Replaced(tab.entry, NoObj, o)
    BY IndexAssumption DEF Reindexed, Replaced
  <2>4. tab.rows[pkOf[o]] = o
    BY <2>1
  <2> HIDE DEF o
  <2>5. /\ ~BitmapPanic(tab, o, p)
        /\ tab' \in Table
        /\ tab'.rows = Stored(tab.rows, p, NoObj)
        /\ tab'.entry = Replaced(tab.entry, NoObj, o)
        /\ Whole(Stored(tab.rows, p, NoObj), Replaced(tab.entry, NoObj, o), tab')
    BY <1>1, <2>1, <2>2, <2>3, <2>4, DroppedIs
  <2> QED BY <1>3, <2>2, <2>5 DEF o
<1> QED BY <1>2, <1>3

\* A visit of DeletePrefix's loop over the primary index.
LEMMA VisitPrimary ==
    ASSUME tab \in Table, tab' \in Table, query' = query, query.index = "id",
           pc = "deletePrefix", pc' = "deletePrefix", PrefixLoop,
           NEW e \in todo, e[2] \in Obj, todo' = todo \ {e},
           tab'.rows = tab.rows,
           tab'.entry = Reindexed(tab.entry, NoObj, e[2], "id")
    PROVE  /\ SettledRows' = Stored(SettledRows, pkOf[e[2]], NoObj)
           /\ SettledEntry' = Replaced(SettledEntry, NoObj, e[2])
<1> DEFINE o == e[2]
           p == pkOf[o]
<1>1. PICK x \in Pk : x \in query.scan /\ tab.rows[x] # NoObj /\ e = <<<<x>>, tab.rows[x]>>
  <2>1. e \in Entries(tab, "id", query.scan)
    BY DEF PrefixLoop
  <2> QED BY <2>1 DEF Entries
<1>2. p = x
  BY <1>1 DEF PrefixLoop
<1>3. ASSUME NEW q \in Pk
      PROVE  SettledRows'[q] = IF q = p THEN NoObj ELSE SettledRows[q]
  <2>1. e = <<<<q>>, tab.rows[q]>> <=> q = p
    BY <1>1, <1>2
  <2>2. (<<<<q>>, tab.rows[q]>>)[1][1] = q
    OBVIOUS
  <2> QED BY <1>1, <1>2, <2>1, <2>2 DEF SettledRows, Visited
<1>4. SettledRows' = Stored(SettledRows, p, NoObj)
  BY <1>3, SettledType DEF SettledRows, Stored
<1>5. SettledEntry = tab.entry /\ SettledEntry' = tab'.entry
  <2>1. \A i \in Sec : query.index # i
    BY IndexAssumption
  <2>2. tab.entry \in [Sec -> [Key -> MaybeObj]] /\ tab'.entry \in [Sec -> [Key -> MaybeObj]]
    BY DEF Table
  <2>3. \A i \in Sec : /\ tab.entry[i] = [k \in Key |-> tab.entry[i][k]]
                       /\ tab'.entry[i] = [k \in Key |-> tab'.entry[i][k]]
    BY <2>2
  <2>4. SettledEntry = [i \in Sec |-> tab.entry[i]]
    BY <2>1, <2>3 DEF SettledEntry
  <2>5. SettledEntry' = [i \in Sec |-> tab'.entry[i]]
    BY <2>1, <2>3 DEF SettledEntry
  <2> QED BY <2>2, <2>4, <2>5
<1>6. Reindexed(tab.entry, NoObj, o, "id") = Replaced(tab.entry, NoObj, o)
  BY IndexAssumption DEF Reindexed, Replaced
<1> QED BY <1>4, <1>5, <1>6

\* In an index with one value for each row a row has the key it was found at.
LEMMA OneKey ==
    ASSUME PrefixAssumption, query \in PrefixQuery, query.index \in Sec,
           NEW o \in Obj, NEW k \in Elems(Keys(query.index, o))
    PROVE  Elems(Keys(query.index, o)) = {k}
<1> DEFINE n == Len(vals[query.index][o])
<1>1. n <= 1
  BY IndexAssumption DEF PrefixAssumption
<1>2. DOMAIN Keys(query.index, o) = 1..n /\ n \in Nat
  <2>1. vals[query.index][o] \in Seq(Val)
    <3>1. vals[query.index] \in [Obj -> Seq(Val)]
      BY IndexAssumption
    <3> QED BY <3>1
  <2> QED BY <2>1 DEF Keys
<1> HIDE DEF n
<1>3. \A j \in DOMAIN Keys(query.index, o) : j = 1
  BY <1>1, <1>2
<1> QED BY <1>3 DEF Elems

\* A visit of DeletePrefix's loop over a secondary index.
LEMMA VisitSecondary ==
    ASSUME PrefixAssumption, query \in PrefixQuery,
           tab \in Table, tab' \in Table, query' = query, query.index \in Sec,
           pc = "deletePrefix", pc' = "deletePrefix", PrefixLoop,
           Indexed(SettledRows, SettledEntry),
           NEW e \in todo, e[2] \in Obj, todo' = todo \ {e},
           tab'.rows = Stored(tab.rows, pkOf[e[2]], NoObj),
           tab'.entry = Reindexed(tab.entry, NoObj, e[2], query.index)
    PROVE  /\ SettledRows' = Stored(SettledRows, pkOf[e[2]], NoObj)
           /\ SettledEntry' = Replaced(SettledEntry, NoObj, e[2])
           /\ e[1] \in Key
           /\ Elems(Keys(query.index, e[2])) = {e[1]}
           /\ tab'.entry[query.index] = tab.entry[query.index]
<1> DEFINE o == e[2]
           p == pkOf[o]
           i == query.index
<1>1. i # "id" /\ i \in Index
  BY IndexAssumption DEF Index
<1>2. PICK k \in Key : k[1] \in query.scan /\ tab.entry[i][k] # NoObj /\ e = <<k, tab.entry[i][k]>>
  <2>1. e \in Entries(tab, i, query.scan)
    BY DEF PrefixLoop
  <2> QED BY <1>1, <2>1 DEF Entries
<1>3. /\ tab.rows \in [Pk -> MaybeObj] /\ tab'.rows \in [Pk -> MaybeObj]
      /\ tab.entry \in [Sec -> [Key -> MaybeObj]] /\ tab'.entry \in [Sec -> [Key -> MaybeObj]]
  BY DEF Table
<1>4. SettledRows = tab.rows /\ SettledRows' = tab'.rows
  BY <1>1, <1>3 DEF SettledRows
<1>5. SettledEntry[i][k] = o
  BY <1>2 DEF SettledEntry, Visited
<1>6. Elems(Keys(i, o)) = {k}
  <2>1. k \in Elems(Keys(i, o))
    BY <1>2, <1>5 DEF Indexed
  <2> QED BY <2>1, OneKey
<1>7. tab'.entry[i] = tab.entry[i]
  BY DEF Reindexed
<1>8. ASSUME NEW j \in Sec, j # i
      PROVE  SettledEntry'[j] = Replaced(SettledEntry, NoObj, o)[j]
  <2>1. tab'.entry[j] = Moved(tab.entry[j], KeysOf(j, NoObj), KeysOf(j, o), NoObj)
    BY <1>8 DEF Reindexed
  <2>2. SettledEntry[j] = tab.entry[j] /\ SettledEntry'[j] = tab'.entry[j]
    BY <1>3, <1>8 DEF SettledEntry
  <2> QED BY <2>1, <2>2 DEF Replaced
<1>9. ASSUME NEW l \in Key
      PROVE  SettledEntry'[i][l] = IF l = k THEN NoObj ELSE SettledEntry[i][l]
  <2>1. e = <<l, tab.entry[i][l]>> <=> l = k
    BY <1>2
  <2>2. (<<l, tab.entry[i][l]>>)[1] = l
    OBVIOUS
  <2> QED BY <1>2, <1>7, <2>1, <2>2 DEF SettledEntry, Visited
<1>10. /\ SettledEntry \in [Sec -> [Key -> MaybeObj]]
       /\ SettledEntry' \in [Sec -> [Key -> MaybeObj]]
       /\ Replaced(SettledEntry, NoObj, o) \in [Sec -> [Key -> MaybeObj]]
  <2>1. SettledEntry \in [Sec -> [Key -> MaybeObj]]
    BY SettledType
  <2>2. SettledEntry' \in [Sec -> [Key -> MaybeObj]]
    BY <1>3 DEF SettledEntry, MaybeObj
  <2>3. Replaced(SettledEntry, NoObj, o) \in [Sec -> [Key -> MaybeObj]]
    BY <2>1, ReplacedType
  <2> QED BY <2>1, <2>2, <2>3
<1>11. SettledEntry'[i] = Replaced(SettledEntry, NoObj, o)[i]
  <2>1. ASSUME NEW l \in Key
        PROVE  SettledEntry'[i][l] = Replaced(SettledEntry, NoObj, o)[i][l]
    <3>1. Replaced(SettledEntry, NoObj, o)[i][l] =
             IF l \in Elems(Keys(i, o)) THEN NoObj ELSE SettledEntry[i][l]
      BY <1>10, ReplacedAt
    <3> QED BY <1>6, <1>9, <3>1
  <2>2. /\ SettledEntry'[i] \in [Key -> MaybeObj]
        /\ Replaced(SettledEntry, NoObj, o)[i] \in [Key -> MaybeObj]
    BY <1>10
  <2> QED BY <2>1, <2>2
<1>12. SettledEntry' = Replaced(SettledEntry, NoObj, o)
  <2>1. \A j \in Sec : SettledEntry'[j] = Replaced(SettledEntry, NoObj, o)[j]
    BY <1>8, <1>11
  <2> QED BY <1>10, <2>1
<1> QED BY <1>2, <1>4, <1>6, <1>7, <1>12

\* Where the loop of DeletePrefix visits a row, the settled table loses it.
LEMMA PrefixRowKeeps ==
    ASSUME PrefixAssumption, tab \in Table, \A e \in todo : e[2] \in Obj,
           Whole(SettledRows, SettledEntry, tab), PrefixLoop, DeletePrefixRow
    PROVE  /\ tab' \in Table
           /\ pc' = "deletePrefix"
           /\ \A e \in todo' : e[2] \in Obj
           /\ Whole(SettledRows', SettledEntry', tab')
           /\ PrefixLoop'
<1>1. PICK e \in todo :
        /\ todo' = todo \ {e}
        /\ tab' = Dropped(tab, e[2], query.index)
        /\ pc' = IF BitmapPanic(tab, e[2], pkOf[e[2]]) THEN "panic" ELSE "deletePrefix"
  BY DEF DeletePrefixRow
<1>2. pc = "deletePrefix" /\ result' = "found" /\ query' = query
  BY DEF DeletePrefixRow
<1> DEFINE o == e[2]
           p == pkOf[o]
<1>3. o \in Obj /\ p \in Pk /\ SettledRows[p] = o
  BY <1>2 DEF PrefixLoop
<1>4. query \in PrefixQuery /\ query.index \in Index
  BY <1>2, QueryAssumption DEF PrefixLoop
<1>5. SettledRows \in [Pk -> MaybeObj] /\ SettledEntry \in [Sec -> [Key -> MaybeObj]]
  BY SettledType
<1>6. /\ ~BitmapPanic(tab, o, p)
      /\ tab' \in Table
      /\ tab'.rows = IF query.index = "id" THEN tab.rows ELSE Stored(tab.rows, p, NoObj)
      /\ tab'.entry = Reindexed(tab.entry, NoObj, o, query.index)
      /\ Whole(Stored(SettledRows, p, NoObj), Replaced(SettledEntry, NoObj, o), tab')
  BY <1>1, <1>3, <1>5, DroppedIs
<1>7. pc' = "deletePrefix" /\ todo' \subseteq todo /\ e \notin todo'
  BY <1>1, <1>6
<1>8. /\ SettledRows' = Stored(SettledRows, p, NoObj)
      /\ SettledEntry' = Replaced(SettledEntry, NoObj, o)
  <2>1. CASE query.index = "id"
    BY <1>1, <1>2, <1>3, <1>6, <1>7, <2>1, VisitPrimary
  <2>2. CASE query.index # "id"
    <3>1. query.index \in Sec
      BY <1>4, <2>2 DEF Index
    <3>2. Indexed(SettledRows, SettledEntry)
      BY DEF Whole
    <3> QED BY <1>1, <1>2, <1>3, <1>4, <1>6, <1>7, <2>2, <3>1, <3>2, VisitSecondary
  <2> QED BY <2>1, <2>2
<1>9. \A q \in Pk : SettledRows'[q] = IF q = p THEN NoObj ELSE SettledRows[q]
  BY <1>3, <1>5, <1>8 DEF Stored
<1>10. tab.rows \in [Pk -> MaybeObj] /\ tab'.rows \in [Pk -> MaybeObj]
  BY <1>6 DEF Table
<1>11. \A q \in Pk : tab'.rows[q] = tab.rows[q] \/ tab'.rows[q] = NoObj
  BY <1>6, <1>10 DEF Stored
<1>12. \A q \in Pk : tab'.rows[q] # NoObj => pkOf[tab'.rows[q]] = q
  BY <1>2, <1>11 DEF PrefixLoop
\* No other entry to visit is of this row.
<1>13. ASSUME NEW d \in todo, d # e PROVE pkOf[d[2]] # p
  <2>1. SUFFICES ASSUME pkOf[d[2]] = p PROVE FALSE
    OBVIOUS
  <2>2. d[2] = o
    BY <1>2, <1>3, <2>1 DEF PrefixLoop
  <2>3. /\ d \in Entries(tab, query.index, query.scan)
        /\ e \in Entries(tab, query.index, query.scan)
    BY <1>2 DEF PrefixLoop
  <2>4. CASE query.index = "id"
    <3>1. PICK x \in Pk : tab.rows[x] # NoObj /\ d = <<<<x>>, tab.rows[x]>>
      BY <2>3, <2>4 DEF Entries
    <3>2. PICK y \in Pk : tab.rows[y] # NoObj /\ e = <<<<y>>, tab.rows[y]>>
      BY <2>3, <2>4 DEF Entries
    <3>3. x = p /\ y = p
      BY <1>2, <2>1, <3>1, <3>2 DEF PrefixLoop
    <3> QED BY <1>13, <3>1, <3>2, <3>3
  <2>5. CASE query.index # "id"
    <3>1. query.index \in Sec
      BY <1>4, <2>5 DEF Index
    <3>2. PICK k \in Key : tab.entry[query.index][k] # NoObj /\ d = <<k, tab.entry[query.index][k]>>
      BY <2>3, <2>5 DEF Entries
    <3>3. PICK l \in Key : tab.entry[query.index][l] # NoObj /\ e = <<l, tab.entry[query.index][l]>>
      BY <2>3, <2>5 DEF Entries
    <3>4. SettledEntry[query.index][k] = o /\ SettledEntry[query.index][l] = o
      BY <2>2, <3>1, <3>2, <3>3 DEF SettledEntry, Visited
    <3>5. o # NoObj
      BY <1>3
    <3>6. k \in Elems(Keys(query.index, o)) /\ l \in Elems(Keys(query.index, o))
      BY <3>1, <3>4, <3>5 DEF Whole, Indexed
    <3>7. k = l
      BY <1>3, <1>4, <3>1, <3>6, OneKey
    <3> QED BY <1>13, <2>2, <3>2, <3>3, <3>7
  <2> QED BY <2>4, <2>5
<1>14. Entries(tab', query.index, query.scan) = Entries(tab, query.index, query.scan)
  <2>1. CASE query.index = "id"
    BY <1>6, <2>1 DEF Entries
  <2>2. CASE query.index # "id"
    <3>1. tab'.entry[query.index] = tab.entry[query.index]
      BY <1>4, <1>6, <2>2 DEF Index, Reindexed
    <3> QED BY <2>2, <3>1 DEF Entries
  <2> QED BY <2>1, <2>2
<1>15. \A d \in todo' : SettledRows'[pkOf[d[2]]] = d[2]
  BY <1>2, <1>7, <1>9, <1>13 DEF PrefixLoop
<1>16. query.index # "id" =>
         \A d \in Entries(tab, query.index, query.scan) \ todo' :
             tab'.rows[pkOf[d[2]]] = NoObj
  <2>1. SUFFICES ASSUME query.index # "id",
                        NEW d \in Entries(tab, query.index, query.scan) \ todo'
                 PROVE  tab'.rows[pkOf[d[2]]] = NoObj
    OBVIOUS
  <2>2. pkOf[d[2]] \in Pk
    BY <1>4, EntriesType
  <2>3. CASE d = e
    BY <1>3, <1>6, <1>10, <2>1, <2>3 DEF Stored
  <2>4. CASE d # e
    <3>1. d \notin todo
      BY <1>1, <2>4
    <3>2. tab.rows[pkOf[d[2]]] = NoObj
      BY <1>2, <2>1, <3>1 DEF PrefixLoop
    <3> QED BY <1>11, <2>2, <3>2
  <2> QED BY <2>3, <2>4
<1>17. PrefixLoop'
  <2>1. todo' \subseteq Entries(tab, query.index, query.scan)
    BY <1>2, <1>7 DEF PrefixLoop
  <2> QED BY <1>2, <1>4, <1>12, <1>14, <1>15, <1>16, <2>1 DEF PrefixLoop
<1> QED BY <1>6, <1>7, <1>8, <1>17

\* The cut, once nothing is left to visit, leaves the settled table.
LEMMA CutKeeps ==
    ASSUME PrefixAssumption, tab \in Table,
           Whole(SettledRows, SettledEntry, tab), PrefixLoop, DeletePrefixCut
    PROVE  /\ tab' \in Table
           /\ pc' \in {"open", "panic"}
           /\ pc' = "panic" => result' = "mismatch"
           /\ pc' = "open" => Whole(tab'.rows, tab'.entry, tab')
<1>1. /\ pc = "deletePrefix" /\ todo = {}
      /\ tab' = Cut(tab, query.index, query.cut)
      /\ pc' = IF Entries(tab, query.index, query.cut) # {} THEN "open" ELSE "panic"
      /\ result' = IF Entries(tab, query.index, query.cut) # {} THEN "ok" ELSE "mismatch"
  BY DEF DeletePrefixCut
<1>2. query \in PrefixQuery /\ query.index \in Index
  BY <1>1, QueryAssumption DEF PrefixLoop
<1>3. tab.rows \in [Pk -> MaybeObj] /\ tab.entry \in [Sec -> [Key -> MaybeObj]]
  BY DEF Table
<1>4. tab' \in Table
  <2>1. CASE query.index = "id"
    <3>1. [p \in Pk |-> IF p \in query.cut THEN NoObj ELSE tab.rows[p]] \in [Pk -> MaybeObj]
      BY <1>3 DEF MaybeObj
    <3> QED BY <1>1, <2>1, <3>1 DEF Cut, Table
  <2>2. CASE query.index # "id"
    <3>1. query.index \in Sec
      BY <1>2, <2>2 DEF Index
    <3> DEFINE g == [k \in Key |-> IF k[1] \in query.cut THEN NoObj
                                   ELSE tab.entry[query.index][k]]
    <3>2. g \in [Key -> MaybeObj]
      BY <1>3, <3>1 DEF MaybeObj
    <3>3. tab' = [tab EXCEPT !.entry[query.index] = g]
      BY <1>1, <2>2 DEF Cut
    <3> DEFINE entry2 == [tab.entry EXCEPT ![query.index] = g]
    <3>4. entry2 \in [Sec -> [Key -> MaybeObj]]
      BY <1>3, <3>1, <3>2
    <3>5. tab' = [tab EXCEPT !.entry = entry2]
      BY <3>3
    <3> HIDE DEF entry2
    <3> QED BY <3>4, <3>5 DEF Table
  <2> QED BY <2>1, <2>2
<1>5. ASSUME pc' = "open" PROVE Whole(tab'.rows, tab'.entry, tab')
  <2>1. query.cut = query.scan
    <3>1. query.cut # {}
      BY <1>1, <1>5 DEF Entries
    <3> QED BY <1>2, <3>1 DEF PrefixAssumption
  <2>2. tab'.rows \in [Pk -> MaybeObj] /\ tab'.entry \in [Sec -> [Key -> MaybeObj]]
    BY <1>4 DEF Table
  <2>3. /\ tab'.rows = SettledRows /\ tab'.entry = SettledEntry
        /\ tab'.ids = tab.ids /\ tab'.all = tab.all /\ tab'.free = tab.free
        /\ tab'.next = tab.next /\ tab'.at = tab.at /\ tab'.bits = tab.bits
    <3>1. CASE query.index = "id"
      <4>1. tab'.rows = SettledRows
        BY <1>1, <1>3, <2>1, <3>1 DEF Cut, Table, SettledRows, Visited
      <4>2. tab'.entry = SettledEntry
        <5>1. \A i \in Sec : query.index # i
          BY <3>1, IndexAssumption
        <5>2. tab'.entry = tab.entry
          BY <1>1, <3>1 DEF Cut, Table
        <5> QED BY <1>3, <5>1, <5>2 DEF SettledEntry
      <4> QED BY <1>1, <3>1, <4>1, <4>2 DEF Cut, Table
    <3>2. CASE query.index # "id"
      <4>1. query.index \in Sec
        BY <1>2, <3>2 DEF Index
      <4>2. tab' = [tab EXCEPT !.entry[query.index] =
                      [k \in Key |-> IF k[1] \in query.cut THEN NoObj ELSE @[k]]]
        BY <1>1, <3>2 DEF Cut
      <4>3. tab'.rows = SettledRows
        <5>1. tab'.rows = tab.rows
          BY <4>2 DEF Table
        <5> QED BY <1>3, <3>2, <5>1 DEF SettledRows
      <4>4. ASSUME NEW i \in Sec PROVE tab'.entry[i] = SettledEntry[i]
        <5>1. CASE i = query.index
          <6>1. tab'.entry[i] = [k \in Key |-> IF k[1] \in query.scan THEN NoObj
                                               ELSE tab.entry[i][k]]
            BY <1>3, <2>1, <4>1, <4>2, <5>1 DEF Table
          <6>2. ASSUME NEW k \in Key PROVE tab'.entry[i][k] = SettledEntry[i][k]
            BY <1>1, <5>1, <6>1 DEF SettledEntry, Visited
          <6>3. tab'.entry[i] \in [Key -> MaybeObj] /\ SettledEntry[i] \in [Key -> MaybeObj]
            BY <2>2, SettledType
          <6> QED BY <6>2, <6>3
        <5>2. CASE i # query.index
          BY <1>3, <4>2, <5>2 DEF Table, SettledEntry
        <5> QED BY <5>1, <5>2
      <4>5. tab'.entry = SettledEntry
        BY <2>2, <4>4, SettledType
      <4> QED BY <4>2, <4>3, <4>5 DEF Table
    <3> QED BY <3>1, <3>2
  <2> QED BY <2>3 DEF Whole, Numbered, Counted
<1> QED BY <1>1, <1>4, <1>5

----------------------------------------------------------------------------
(* The invariant is inductive.                                               *)

LEMMA EmptyIsWhole == Empty \in Table /\ Whole(Empty.rows, Empty.entry, Empty)
<1>1. 0 \in Id /\ \A n \in Id : ~ (n < 0)
  BY IdAssumption DEF Id
<1>2. Empty \in Table
  BY <1>1 DEF Empty, Table, MaybeObj
<1>3. Indexed(Empty.rows, Empty.entry)
  <2>1. ASSUME NEW i \in Sec PROVE Elems(KeysOf(i, NoObj)) = {}
    BY KeysOfType DEF MaybeObj
  <2> QED BY <2>1 DEF Empty, Indexed
<1>4. Numbered(Empty.rows, Empty)
  BY DEF Empty, Numbered
<1>5. Counted(Empty)
  BY <1>1 DEF Empty, Counted, ValsOf
<1> QED BY <1>2, <1>3, <1>4, <1>5 DEF Whole

LEMMA InitIInv == Init => IInv
<1> SUFFICES ASSUME Init PROVE IInv
  OBVIOUS
<1>1. root = Empty /\ tab = Empty /\ pc = "idle" /\ todo = {}
  BY DEF Init
<1>2. TableTypes
  BY <1>1, EmptyIsWhole DEF TableTypes
<1>3. SettledRows = tab.rows /\ SettledEntry = tab.entry
  BY <1>1, <1>2, SettledIsTable DEF TableTypes
<1>4. Whole(root.rows, root.entry, root) /\ Whole(SettledRows, SettledEntry, tab)
  BY <1>1, <1>3, EmptyIsWhole
<1> QED BY <1>1, <1>2, <1>4 DEF IInv, NoPanic, PrefixLoop

\* Outside the loop of DeletePrefix the settled table is the table.
LEMMA TableIsWhole ==
    ASSUME IInv, pc \notin {"deletePrefix", "panic"}
    PROVE  Whole(tab.rows, tab.entry, tab)
<1>1. SettledRows = tab.rows /\ SettledEntry = tab.entry
  BY SettledIsTable DEF IInv, TableTypes
<1> QED BY <1>1 DEF IInv

\* A step that leaves DeletePrefix's loop alone keeps the invariant.
LEMMA IInvKept ==
    ASSUME IInv, tab' \in Table, root' \in Table,
           pc' \in {"idle", "open", "deleteAll", "panic"},
           \A e \in todo' : e[2] \in Obj,
           Whole(root'.rows, root'.entry, root'),
           pc' # "panic" => Whole(tab'.rows, tab'.entry, tab'),
           NoPanic'
    PROVE  IInv'
<1>1. SettledRows' = tab'.rows /\ SettledEntry' = tab'.entry
  <2>1. /\ SettledRows' = [p \in Pk |-> tab'.rows[p]]
        /\ SettledEntry' = [i \in Sec |-> [k \in Key |-> tab'.entry[i][k]]]
    BY DEF SettledRows, SettledEntry
  <2>2. tab'.rows \in [Pk -> MaybeObj] /\ tab'.entry \in [Sec -> [Key -> MaybeObj]]
    BY DEF Table
  <2> QED BY <2>1, <2>2
<1>2. TableTypes'
  BY DEF TableTypes
<1>3. PrefixLoop'
  BY DEF PrefixLoop
<1> QED BY <1>1, <1>2, <1>3 DEF IInv

\* The same of the next state.
LEMMA SettledIsTableNext ==
    (/\ tab \in Table
     /\ query.index \in Index /\ todo = Entries(tab, query.index, query.scan)
     => SettledRows = tab.rows /\ SettledEntry = tab.entry)'
<1>1. /\ tab \in Table
      /\ query.index \in Index /\ todo = Entries(tab, query.index, query.scan)
      => SettledRows = tab.rows /\ SettledEntry = tab.entry
  BY SettledIsTable
<1> QED BY <1>1, PTL

\* A loop begins.
LEMMA StartKeeps ==
    ASSUME IInv, NEW q, NEW loop, Start(q, loop),
           \/ loop = "deleteAll" /\ q \in AllQuery
           \/ loop = "deletePrefix" /\ q \in PrefixQuery
    PROVE  IInv'
<1>1. /\ pc = "open" /\ query' = q /\ todo' = Entries(tab, q.index, q.scan)
      /\ pc' = loop /\ result' = "none" /\ root' = root /\ tab' = tab
  BY DEF Start, Call
<1>2. tab \in Table /\ root \in Table /\ q.index \in Index
  BY QueryAssumption DEF IInv, TableTypes
<1>3. \A e \in todo' : e[2] \in Obj
  BY <1>1, <1>2, EntriesType
<1>4. Whole(tab'.rows, tab'.entry, tab') /\ Whole(root'.rows, root'.entry, root')
  BY <1>1, TableIsWhole DEF IInv
<1>5. NoPanic'
  BY <1>1 DEF NoPanic
<1>6. CASE loop = "deleteAll"
  BY <1>1, <1>2, <1>3, <1>4, <1>5, <1>6, IInvKept
<1>7. CASE loop = "deletePrefix"
  <2>1. SettledRows' = tab'.rows /\ SettledEntry' = tab'.entry
    BY <1>1, <1>2, SettledIsTableNext
  <2>2. tab.rows = SettledRows
    BY <1>1, <1>2, SettledIsTable
  <2>3. Entries(tab', query'.index, query'.scan) = todo'
    BY <1>1
  <2>4. \A p \in Pk : tab'.rows[p] # NoObj => pkOf[tab'.rows[p]] = p
    BY <1>4 DEF Whole, Indexed
  <2>5. ASSUME NEW e \in todo' PROVE SettledRows'[pkOf[e[2]]] = e[2]
    <3>1. e \in Entries(tab', q.index, q.scan)
      BY <1>1
    <3>2. CASE q.index = "id"
      <4>1. PICK p \in Pk : tab'.rows[p] # NoObj /\ e = <<<<p>>, tab'.rows[p]>>
        BY <3>1, <3>2 DEF Entries
      <4> QED BY <2>1, <2>4, <4>1
    <3>3. CASE q.index # "id"
      <4>1. q.index \in Sec
        BY <1>2, <3>3 DEF Index
      <4>2. PICK k \in Key : tab'.entry[q.index][k] # NoObj /\ e = <<k, tab'.entry[q.index][k]>>
        BY <3>1, <3>3 DEF Entries
      <4> QED BY <1>4, <2>1, <4>1, <4>2 DEF Whole, Indexed
    <3> QED BY <3>2, <3>3
  <2>6. PrefixLoop'
    BY <1>1, <1>7, <2>3, <2>4, <2>5 DEF PrefixLoop
  <2>7. TableTypes'
    BY <1>1, <1>2, <1>3, <1>7 DEF TableTypes
  <2> QED BY <1>4, <1>5, <2>1, <2>6, <2>7 DEF IInv
<1> QED BY <1>6, <1>7

LEMMA NextIInv ==
    ASSUME PrefixAssumption, IInv, [Next]_vars
    PROVE  IInv'
<1>1. tab \in Table /\ root \in Table /\ Whole(root.rows, root.entry, root)
  BY DEF IInv, TableTypes
<1>2. \A e \in todo : e[2] \in Obj
  BY DEF IInv, TableTypes
<1>3. CASE Begin
  <2>1. root' = root /\ tab' = root /\ pc' = "open" /\ todo' = todo
    BY <1>3 DEF Begin
  <2> QED BY <1>1, <1>2, <2>1, IInvKept DEF NoPanic
<1>4. ASSUME NEW o \in Obj, Insert(o) PROVE IInv'
  <2>1. pc = "open" /\ root' = root /\ todo' = todo
    BY <1>4 DEF Insert, Call
  <2>2. Whole(tab.rows, tab.entry, tab)
    BY <2>1, TableIsWhole
  <2>3. /\ tab' \in Table
        /\ pc' \in {"open", "panic"}
        /\ pc' = "panic" => Exhausted(tab')
        /\ pc' = "open" => Whole(tab'.rows, tab'.entry, tab')
    BY <1>1, <1>4, <2>2, InsertKeeps
  <2>4. NoPanic'
    BY <2>3 DEF NoPanic
  <2> QED BY <1>1, <1>2, <2>1, <2>3, <2>4, IInvKept
<1>5. ASSUME NEW o \in Obj, InsertFails(o) PROVE IInv'
  <2>1. pc = "open" /\ pc' = pc /\ root' = root /\ todo' = todo
    BY <1>5 DEF InsertFails, Call
  <2>2. tab' = tab
    <3>1. tab.rows \in [Pk -> MaybeObj] /\ pkOf[o] \in Pk
      BY <1>1 DEF Table
    <3>2. [[tab.rows EXCEPT ![pkOf[o]] = o] EXCEPT ![pkOf[o]] = tab.rows[pkOf[o]]] = tab.rows
      BY <3>1
    <3>3. tab' = [tab EXCEPT !.rows = tab.rows]
      BY <1>5, <3>2 DEF InsertFails
    <3> QED BY <1>1, <3>3 DEF Table
  <2>3. Whole(tab.rows, tab.entry, tab)
    BY <2>1, TableIsWhole
  <2> QED BY <1>1, <1>2, <2>1, <2>2, <2>3, IInvKept DEF NoPanic
<1>6. ASSUME NEW p \in Pk, Delete(p) PROVE IInv'
  <2>1. pc = "open" /\ root' = root /\ DeleteRow(p, "open", {})
    BY <1>6 DEF Delete, Call
  <2>2. Whole(tab.rows, tab.entry, tab)
    BY <2>1, TableIsWhole
  <2>3. /\ tab' \in Table /\ Whole(tab'.rows, tab'.entry, tab')
        /\ pc' = "open" /\ todo' = {}
    BY <1>1, <2>1, <2>2, DeleteKeeps
  <2> QED BY <1>1, <2>1, <2>3, IInvKept DEF NoPanic
<1>7. ASSUME NEW q \in AllQuery, DeleteAll(q) PROVE IInv'
  BY <1>7, StartKeeps DEF DeleteAll
<1>8. ASSUME NEW q \in PrefixQuery, DeletePrefix(q) PROVE IInv'
  BY <1>8, StartKeeps DEF DeletePrefix
<1>9. CASE DeleteAllRow
  <2>1. PICK e \in todo : DeleteRow(pkOf[e[2]], "deleteAll", todo \ {e})
    BY <1>9 DEF DeleteAllRow
  <2>2. pc = "deleteAll" /\ root' = root /\ pkOf[e[2]] \in Pk
    BY <1>2, <1>9 DEF DeleteAllRow
  <2>3. Whole(tab.rows, tab.entry, tab)
    BY <2>2, TableIsWhole
  <2>4. /\ tab' \in Table /\ Whole(tab'.rows, tab'.entry, tab')
        /\ pc' \in {"open", "deleteAll"} /\ todo' \subseteq todo
    BY <1>1, <2>1, <2>2, <2>3, DeleteKeeps
  <2> QED BY <1>1, <1>2, <2>2, <2>4, IInvKept DEF NoPanic
<1>10. CASE DeleteAllReturns
  <2>1. pc = "deleteAll" /\ pc' = "open" /\ root' = root /\ tab' = tab /\ todo' = todo
    BY <1>10 DEF DeleteAllReturns
  <2>2. Whole(tab.rows, tab.entry, tab)
    BY <2>1, TableIsWhole
  <2> QED BY <1>1, <1>2, <2>1, <2>2, IInvKept DEF NoPanic
<1>11. CASE DeletePrefixRow
  <2>1. root' = root /\ pc = "deletePrefix"
    BY <1>11 DEF DeletePrefixRow
  <2>2. /\ tab' \in Table
        /\ pc' = "deletePrefix"
        /\ \A e \in todo' : e[2] \in Obj
        /\ Whole(SettledRows', SettledEntry', tab')
        /\ PrefixLoop'
    BY <1>1, <1>2, <1>11, <2>1, PrefixRowKeeps DEF IInv
  <2> QED BY <1>1, <2>1, <2>2 DEF IInv, TableTypes, NoPanic
<1>12. CASE DeletePrefixCut
  <2>1. root' = root /\ todo' = todo /\ pc = "deletePrefix"
    BY <1>12 DEF DeletePrefixCut
  <2>2. /\ tab' \in Table
        /\ pc' \in {"open", "panic"}
        /\ pc' = "panic" => result' = "mismatch"
        /\ pc' = "open" => Whole(tab'.rows, tab'.entry, tab')
    BY <1>1, <1>12, <2>1, CutKeeps DEF IInv
  <2> QED BY <1>1, <1>2, <2>1, <2>2, IInvKept DEF NoPanic
<1>13. CASE DeletePrefixFindsNone
  <2>1. /\ pc = "deletePrefix" /\ result = "none" /\ pc' = "open"
        /\ root' = root /\ tab' = tab /\ todo' = todo
    BY <1>13 DEF DeletePrefixFindsNone
  <2>2. query.index \in Index /\ todo = Entries(tab, query.index, query.scan)
    BY <2>1, QueryAssumption DEF IInv, PrefixLoop
  <2>3. SettledRows = tab.rows /\ SettledEntry = tab.entry
    BY <1>1, <2>2, SettledIsTable
  <2>4. Whole(tab.rows, tab.entry, tab)
    BY <2>1, <2>3 DEF IInv
  <2> QED BY <1>1, <1>2, <2>1, <2>4, IInvKept DEF NoPanic
<1>14. CASE TrackChanges
  <2>1. pc = "open" /\ pc' = pc /\ root' = root /\ tab' = tab /\ todo' = todo
    BY <1>14 DEF TrackChanges, Call
  <2>2. Whole(tab.rows, tab.entry, tab)
    BY <2>1, TableIsWhole
  <2> QED BY <1>1, <1>2, <2>1, <2>2, IInvKept DEF NoPanic
<1>15. CASE Changes
  <2>1. pc \in {"open", "idle"} /\ pc' = pc /\ root' = root /\ tab' = tab /\ todo' = todo
    BY <1>15 DEF Changes
  <2>2. Whole(tab.rows, tab.entry, tab)
    BY <2>1, TableIsWhole
  <2> QED BY <1>1, <1>2, <2>1, <2>2, IInvKept DEF NoPanic
<1>16. CASE Commit
  <2>1. pc = "open" /\ pc' = "idle" /\ root' = tab /\ tab' = tab /\ todo' = todo
    BY <1>16 DEF Commit
  <2>2. Whole(tab.rows, tab.entry, tab)
    BY <2>1, TableIsWhole
  <2> QED BY <1>1, <1>2, <2>1, <2>2, IInvKept DEF NoPanic
<1>17. CASE Abort
  <2>1. pc' = "idle" /\ root' = root /\ tab' = root /\ todo' = todo
    BY <1>17 DEF Abort
  <2> QED BY <1>1, <1>2, <2>1, IInvKept DEF NoPanic
<1>18. CASE UNCHANGED vars
  BY <1>18 DEF vars, IInv, TableTypes, NoPanic, PrefixLoop, SettledRows, SettledEntry,
               Visited
<1> QED
  BY <1>3, <1>4, <1>5, <1>6, <1>7, <1>8, <1>9, <1>10, <1>11, <1>12, <1>13, <1>14, <1>15,
     <1>16, <1>17, <1>18 DEF Next, Done

\* Under PrefixAssumption every part of the invariant holds throughout.
THEOREM Inductive == PrefixAssumption => (Spec => []IInv)
<1> SUFFICES ASSUME PrefixAssumption PROVE Spec => []IInv
  OBVIOUS
<1>1. IInv /\ [Next]_vars => IInv'
  BY NextIInv
<1>2. Init => IInv
  BY InitIInv
<1> QED BY <1>1, <1>2, PTL DEF Spec

----------------------------------------------------------------------------
(* What follows from the invariant.                                          *)

LEMMA IInvIndexSound == IInv => IndexSound
<1> SUFFICES ASSUME IInv, AtRest,
                    NEW i \in Sec, NEW k \in Key, tab.entry[i][k] # NoObj
             PROVE  /\ tab.rows[pkOf[tab.entry[i][k]]] = tab.entry[i][k]
                    /\ k \in Elems(Keys(i, tab.entry[i][k]))
  BY DEF IndexSound
<1> QED BY TableIsWhole DEF AtRest, Whole, Indexed

LEMMA IInvIndexComplete == IInv => IndexComplete
<1> SUFFICES ASSUME IInv, AtRest,
                    NEW i \in Sec \ Unique, NEW p \in Pk,
                    NEW k \in Elems(KeysOf(i, tab.rows[p]))
             PROVE  tab.entry[i][k] = tab.rows[p]
  BY DEF IndexComplete
<1> QED BY TableIsWhole DEF AtRest, Whole, Indexed

LEMMA IInvRowIdsExact == IInv => RowIdsExact
<1> SUFFICES ASSUME IInv, AtRest, Bm # {} PROVE RowIdsExact
  BY DEF RowIdsExact
<1> DEFINE present == {p \in Pk : tab.rows[p] # NoObj}
<1>1. Numbered(tab.rows, tab) /\ Counted(tab) /\ Indexed(tab.rows, tab.entry)
  BY TableIsWhole DEF AtRest, Whole
<1>2. /\ tab.ids \in [Pk -> Id \cup {NoId}] /\ tab.at \in [Id -> MaybeObj]
      /\ NoId \notin Id
  BY IdAssumption DEF IInv, TableTypes, Table, Id
\* A row is at its id, and an id that is in use is that of a row.
<1>3. ASSUME NEW p \in present
      PROVE  tab.ids[p] \in Id /\ tab.at[tab.ids[p]] = tab.rows[p] /\ pkOf[tab.rows[p]] = p
  BY <1>1, <1>2 DEF Numbered, Indexed
<1>4. ASSUME NEW n \in Id, tab.at[n] # NoObj
      PROVE  \E p \in present : tab.ids[p] = n /\ tab.rows[p] = tab.at[n]
  <2>1. pkOf[tab.at[n]] \in Pk /\ tab.ids[pkOf[tab.at[n]]] = n
    BY <1>1, <1>2, <1>4 DEF Numbered, MaybeObj
  <2>2. pkOf[tab.at[n]] \in present
    BY <1>1, <1>2, <2>1 DEF Numbered
  <2> QED BY <1>3, <2>1, <2>2
<1>5. \A p, q \in present : p # q => tab.ids[p] # tab.ids[q]
  BY <1>3
<1>6. tab.all = {tab.ids[p] : p \in present}
  <2>1. ASSUME NEW n PROVE n \in tab.all <=> n \in {tab.ids[p] : p \in present}
    BY <1>1, <1>3, <1>4 DEF Counted
  <2> QED BY <2>1
<1>7. \A n \in Id \ tab.all : tab.at[n] = NoObj
  BY <1>1 DEF Counted
<1>8. ASSUME NEW b \in Bm, NEW v \in Val
      PROVE  tab.bits[b][v] =
                {tab.ids[p] : p \in {x \in present : v \in ValsOf(b, tab.rows[x])}}
  <2> DEFINE S == {tab.ids[p] : p \in {x \in present : v \in ValsOf(b, tab.rows[x])}}
  <2>1. tab.bits[b][v] = {n \in Id : v \in ValsOf(b, tab.at[n])}
    BY <1>1 DEF Counted
  <2>2. \A n \in Id : tab.at[n] = NoObj => v \notin ValsOf(b, tab.at[n])
    BY DEF ValsOf
  <2>3. ASSUME NEW n \in tab.bits[b][v] PROVE n \in S
    BY <1>4, <2>1, <2>2
  <2>4. ASSUME NEW n \in S PROVE n \in tab.bits[b][v]
    BY <1>3, <2>1
  <2> QED BY <2>3, <2>4
<1>9. \A p \in Pk : p \in present <=> tab.ids[p] # NoId
  BY <1>1 DEF Numbered
<1>10. tab.all \cap tab.free = {} /\ tab.all \cup tab.free = {n \in Id : n < tab.next}
  BY <1>1 DEF Counted
<1>11. \A p \in present : tab.at[tab.ids[p]] = tab.rows[p]
  BY <1>3
<1> HIDE DEF present
<1> QED BY <1>5, <1>6, <1>7, <1>8, <1>9, <1>10, <1>11 DEF RowIdsExact, present

----------------------------------------------------------------------------
(* DeleteAll.                                                                *)

\* The loop begins with the entries of a whole table.
LEMMA AllBegins ==
    ASSUME IInv, NEW q \in AllQuery, DeleteAll(q)
    PROVE  AllLoop'
<1>1. /\ pc = "open" /\ query' = q /\ tab' = tab
      /\ todo' = Entries(tab, q.index, q.scan)
  BY DEF DeleteAll, Start, Call
<1>2. q.index \in Index
  BY QueryAssumption
<1>3. Whole(tab.rows, tab.entry, tab)
  BY <1>1, TableIsWhole
<1>4. ASSUME NEW e \in todo'
      PROVE  /\ e = <<e[1], e[2]>>
             /\ tab.rows[pkOf[e[2]]] = e[2]
             /\ IF q.index = "id" THEN e[1] = <<pkOf[e[2]]>>
                ELSE e[1] \in Elems(Keys(q.index, e[2])) /\ e[1][1] \in q.scan
  <2>1. e \in Entries(tab, q.index, q.scan)
    BY <1>1
  <2>2. CASE q.index = "id"
    <3>1. PICK p \in Pk : tab.rows[p] # NoObj /\ e = <<<<p>>, tab.rows[p]>>
      BY <2>1, <2>2 DEF Entries
    <3>2. pkOf[tab.rows[p]] = p
      BY <1>3, <3>1 DEF Whole, Indexed
    <3> QED BY <2>2, <3>1, <3>2
  <2>3. CASE q.index # "id"
    <3>1. q.index \in Sec
      BY <1>2, <2>3 DEF Index
    <3>2. PICK k \in Key : /\ k[1] \in q.scan /\ tab.entry[q.index][k] # NoObj
                           /\ e = <<k, tab.entry[q.index][k]>>
      BY <2>1, <2>3 DEF Entries
    <3>3. /\ tab.rows[pkOf[tab.entry[q.index][k]]] = tab.entry[q.index][k]
          /\ k \in Elems(Keys(q.index, tab.entry[q.index][k]))
      BY <1>3, <3>1, <3>2 DEF Whole, Indexed
    <3> QED BY <2>3, <3>2, <3>3
  <2> QED BY <2>2, <2>3
<1> QED BY <1>1, <1>4 DEF AllLoop

\* A row is deleted: its only entry to visit was this one.
LEMMA AllRowKeeps ==
    ASSUME OnceAssumption, IInv, AllLoop, DeleteAllRow
    PROVE  pc' = "deleteAll" /\ AllLoop'
<1>1. PICK e \in todo : DeleteRow(pkOf[e[2]], "deleteAll", todo \ {e})
  BY DEF DeleteAllRow
<1>2. pc = "deleteAll" /\ query' = query /\ tab \in Table
  BY DEF DeleteAllRow, IInv, TableTypes
<1> DEFINE o == e[2]
           p == pkOf[o]
           i == query.index
<1>3. o \in Obj /\ p \in Pk /\ o # NoObj /\ tab.rows[p] = o
  BY <1>2 DEF IInv, TableTypes, AllLoop
<1>4. Whole(tab.rows, tab.entry, tab)
  BY <1>2, TableIsWhole
<1>5. /\ pc' = "deleteAll" /\ todo' = todo \ {e}
      /\ tab'.rows = Stored(tab.rows, p, NoObj)
      /\ tab'.entry = Replaced(tab.entry, NoObj, o)
      /\ tab' \in Table
      /\ Whole(tab'.rows, tab'.entry, tab')
  BY <1>1, <1>2, <1>3, <1>4, DeleteKeeps
<1>6. i \in Index /\ query \in AllQuery
  BY <1>2, QueryAssumption DEF AllLoop
<1>7. \A x \in Pk : tab'.rows[x] = IF x = p THEN NoObj ELSE tab.rows[x]
  <2>1. tab.rows \in [Pk -> MaybeObj]
    BY <1>2 DEF Table
  <2> QED BY <1>3, <1>5, <2>1 DEF Stored
<1>8. ASSUME NEW d \in todo, d # e PROVE pkOf[d[2]] # p
  <2>1. SUFFICES ASSUME pkOf[d[2]] = p PROVE d[1] = e[1] /\ d[2] = e[2]
    BY <1>2, <1>8 DEF AllLoop
  <2>2. d[2] = o
    BY <1>2, <1>3, <2>1 DEF AllLoop
  <2>3. CASE i = "id"
    BY <1>2, <2>2, <2>3 DEF AllLoop
  <2>4. CASE i # "id"
    <3>1. /\ d[1] \in Elems(Keys(i, o)) /\ d[1][1] \in query.scan
          /\ e[1] \in Elems(Keys(i, o)) /\ e[1][1] \in query.scan
      BY <1>2, <2>2, <2>4 DEF AllLoop
    <3> QED BY <1>3, <1>6, <2>2, <2>4, <3>1 DEF OnceAssumption
  <2> QED BY <2>3, <2>4
<1>9. ASSUME NEW d \in Entries(tab', i, query.scan)
      PROVE  d \in Entries(tab, i, query.scan) /\ d # e
  <2>1. CASE i = "id"
    <3>1. PICK x \in Pk : /\ x \in query.scan /\ tab'.rows[x] # NoObj
                          /\ d = <<<<x>>, tab'.rows[x]>>
      BY <2>1 DEF Entries
    <3>2. x # p /\ tab'.rows[x] = tab.rows[x]
      BY <1>7, <3>1
    <3>3. d \in Entries(tab, i, query.scan)
      BY <2>1, <3>1, <3>2 DEF Entries
    <3>4. e[1] = <<p>>
      BY <1>2, <2>1 DEF AllLoop
    <3> QED BY <3>1, <3>2, <3>3, <3>4
  <2>2. CASE i # "id"
    <3>1. i \in Sec
      BY <1>6, <2>2 DEF Index
    <3>2. PICK k \in Key : /\ k[1] \in query.scan /\ tab'.entry[i][k] # NoObj
                           /\ d = <<k, tab'.entry[i][k]>>
      BY <2>2 DEF Entries
    <3>3. tab'.rows[pkOf[d[2]]] = d[2] /\ d[2] # NoObj
      BY <1>5, <3>1, <3>2 DEF Whole, Indexed
    <3>4. d # e
      BY <1>3, <1>7, <3>3
    <3>5. tab'.entry[i][k] = tab.entry[i][k]
      <4>1. tab.entry \in [Sec -> [Key -> MaybeObj]]
        BY <1>2 DEF Table
      <4>2. tab'.entry[i][k] = IF k \in Elems(Keys(i, o)) THEN NoObj ELSE tab.entry[i][k]
        BY <1>3, <1>5, <3>1, <4>1, ReplacedAt
      <4> QED BY <3>2, <4>2
    <3>6. d \in Entries(tab, i, query.scan)
      BY <2>2, <3>2, <3>5 DEF Entries
    <3> QED BY <3>4, <3>6
  <2> QED BY <2>1, <2>2
<1>10. Entries(tab', i, query.scan) \subseteq todo'
  BY <1>2, <1>5, <1>9 DEF AllLoop
<1>11. ASSUME NEW d \in todo' PROVE tab'.rows[pkOf[d[2]]] = d[2]
  <2>1. d \in todo /\ d # e /\ pkOf[d[2]] \in Pk
    BY <1>5 DEF IInv, TableTypes
  <2> QED BY <1>2, <1>7, <1>8, <2>1 DEF AllLoop
<1> QED BY <1>2, <1>5, <1>6, <1>10, <1>11 DEF AllLoop

LEMMA NextAllLoop ==
    ASSUME OnceAssumption, IInv, AllLoop, [Next]_vars
    PROVE  AllLoop'
<1>1. ASSUME NEW q \in AllQuery, DeleteAll(q) PROVE AllLoop'
  BY <1>1, AllBegins
<1>2. CASE DeleteAllRow
  BY <1>2, AllRowKeeps
<1>3. CASE UNCHANGED vars
  BY <1>3 DEF vars, AllLoop
\* No other action enters the loop or is taken in it.
<1>4. ASSUME NEW o \in Obj, Insert(o) \/ InsertFails(o) PROVE AllLoop'
  BY <1>4 DEF Insert, InsertFails, Call, AllLoop
<1>5. ASSUME NEW p \in Pk, Delete(p) PROVE AllLoop'
  BY <1>5 DEF Delete, DeleteRow, Call, AllLoop
<1>6. ASSUME NEW q \in PrefixQuery, DeletePrefix(q) PROVE AllLoop'
  BY <1>6 DEF DeletePrefix, Start, AllLoop
<1>7. CASE Begin \/ DeleteAllReturns \/ DeletePrefixRow \/ DeletePrefixCut
           \/ DeletePrefixFindsNone
  BY <1>7 DEF Begin, DeleteAllReturns, DeletePrefixRow, DeletePrefixCut,
              DeletePrefixFindsNone, AllLoop
<1>8. CASE TrackChanges \/ Changes \/ Commit \/ Abort
  BY <1>8 DEF TrackChanges, Changes, Commit, Abort, Call, AllLoop
<1> QED BY <1>1, <1>2, <1>3, <1>4, <1>5, <1>6, <1>7, <1>8 DEF Next, Done

\* When the loop of DeleteAll ends, nothing that matches is left.
LEMMA AllReturns ==
    ASSUME OnceAssumption, IInv, AllLoop, [Next]_vars, pc = "deleteAll", pc' = "open"
    PROVE  Entries(tab', query.index, query.scan) = {}
<1>1. CASE DeleteAllReturns
  <2>1. todo = {} /\ tab' = tab
    BY <1>1 DEF DeleteAllReturns
  <2> QED BY <2>1 DEF AllLoop
<1>2. CASE DeleteAllRow
  BY <1>2, AllRowKeeps
<1>3. CASE UNCHANGED vars
  BY <1>3 DEF vars
<1> QED
  BY <1>1, <1>2, <1>3
     DEF Next, Done, Begin, Insert, InsertFails, Delete, DeleteAll, DeletePrefix, Start, Call,
         DeletePrefixRow, DeletePrefixCut, DeletePrefixFindsNone, TrackChanges, Changes,
         Commit, Abort

----------------------------------------------------------------------------
(* DeletePrefix.                                                             *)

\* What the loop found when it ends is gone, in a whole table.
LEMMA PrefixReturns ==
    ASSUME PrefixAssumption, IInv, [Next]_vars, pc = "deletePrefix", pc' = "open"
    PROVE  /\ \A e \in Entries(tab, query.index, query.scan) :
                  tab'.rows[pkOf[e[2]]] = NoObj
           /\ \A i \in Sec, k \in Key : tab'.entry[i][k] # NoObj =>
                  tab'.rows[pkOf[tab'.entry[i][k]]] # NoObj
<1>1. DeletePrefixCut \/ DeletePrefixFindsNone
  <2>1. CASE DeletePrefixRow
    BY <2>1, PrefixRowKeeps DEF IInv, TableTypes
  <2>2. CASE UNCHANGED vars
    BY <2>2 DEF vars
  <2> QED
    BY <2>1, <2>2
       DEF Next, Done, Begin, Insert, InsertFails, Delete, DeleteAll, DeletePrefix, Start,
           Call, DeleteAllRow, DeleteAllReturns, TrackChanges, Changes, Commit, Abort
<1>2. IInv'
  BY NextIInv
<1>3. \A i \in Sec, k \in Key : tab'.entry[i][k] # NoObj =>
          tab'.rows[pkOf[tab'.entry[i][k]]] # NoObj
  <2>1. tab' \in Table /\ Whole(SettledRows', SettledEntry', tab')
    BY <1>2 DEF IInv, TableTypes
  <2>2. tab'.rows \in [Pk -> MaybeObj] /\ tab'.entry \in [Sec -> [Key -> MaybeObj]]
    BY <2>1 DEF Table
  <2>3. /\ SettledRows' = [p \in Pk |-> tab'.rows[p]]
        /\ SettledEntry' = [i \in Sec |-> [k \in Key |-> tab'.entry[i][k]]]
    BY DEF SettledRows, SettledEntry
  <2>4. SettledRows' = tab'.rows /\ SettledEntry' = tab'.entry
    BY <2>2, <2>3
  <2> QED BY <2>1, <2>4 DEF Whole, Indexed
<1>4. CASE DeletePrefixFindsNone
  <2>1. Entries(tab, query.index, query.scan) = {}
    BY <1>4 DEF DeletePrefixFindsNone, IInv, PrefixLoop
  <2> QED BY <1>3, <2>1
<1>5. CASE DeletePrefixCut
  <2>1. /\ todo = {} /\ tab' = Cut(tab, query.index, query.cut)
        /\ Entries(tab, query.index, query.cut) # {}
    BY <1>5 DEF DeletePrefixCut
  <2>2. /\ query \in PrefixQuery /\ tab \in Table /\ query.index \in Index
        /\ \A p \in Pk : tab.rows[p] # NoObj => pkOf[tab.rows[p]] = p
        /\ query.index # "id" => \A e \in Entries(tab, query.index, query.scan) :
                                     tab.rows[pkOf[e[2]]] = NoObj
    BY <2>1, QueryAssumption DEF IInv, TableTypes, PrefixLoop
  <2>3. query.cut = query.scan
    <3>1. query.cut # {}
      BY <2>1 DEF Entries
    <3> QED BY <2>2, <3>1 DEF PrefixAssumption
  <2>4. ASSUME NEW e \in Entries(tab, query.index, query.scan)
        PROVE  tab'.rows[pkOf[e[2]]] = NoObj
    <3>1. CASE query.index = "id"
      <4>1. PICK p \in Pk : p \in query.scan /\ tab.rows[p] # NoObj /\ e = <<<<p>>, tab.rows[p]>>
        BY <3>1 DEF Entries
      <4>2. tab'.rows = [q \in Pk |-> IF q \in query.scan THEN NoObj ELSE tab.rows[q]]
        BY <2>1, <2>2, <2>3, <3>1 DEF Cut, Table
      <4> QED BY <2>2, <4>1, <4>2
    <3>2. CASE query.index # "id"
      <4>1. tab'.rows = tab.rows
        BY <2>1, <2>2, <3>2 DEF Cut, Table
      <4> QED BY <2>2, <3>2, <4>1
    <3> QED BY <3>1, <3>2
  <2> QED BY <1>3, <2>4
<1> QED BY <1>1, <1>4, <1>5

----------------------------------------------------------------------------
(* The theorems.                                                             *)

\* No index entry is left behind (IndexSound): each refers to the row stored under
\* its primary key, at a key that row has.
THEOREM EntriesReferToRows == PrefixAssumption => (Spec => []IndexSound)
BY Inductive, IInvIndexSound, PTL

\* Every row is found through each of its keys in every index that is not unique
\* (IndexComplete).
THEOREM RowsAreFound == PrefixAssumption => (Spec => []IndexComplete)
BY Inductive, IInvIndexComplete, PTL

\* Row ids, free ids and bitmaps agree with the rows (RowIdsExact).
THEOREM RowIdsAgree == PrefixAssumption => (Spec => []RowIdsExact)
BY Inductive, IInvRowIdsExact, PTL

\* A call panics only when the row ids have run out or a raw prefix cuts nothing
\* (NoPanic): no row is ever without a row id.
THEOREM NoOtherPanic == PrefixAssumption => (Spec => []NoPanic)
<1>1. IInv => NoPanic
  BY DEF IInv
<1> QED BY <1>1, Inductive, PTL

\* When DeletePrefix returns, the rows it found are gone and no index refers to a
\* row that is gone (DeletePrefixDeletesRows).
THEOREM DeletePrefixDeletes == PrefixAssumption => (Spec => DeletePrefixDeletesRows)
<1> SUFFICES ASSUME PrefixAssumption PROVE Spec => DeletePrefixDeletesRows
  OBVIOUS
<1>1. IInv /\ [Next]_vars =>
        [pc = "deletePrefix" /\ pc' = "open" =>
           /\ \A e \in Entries(tab, query.index, query.scan) :
                  tab'.rows[pkOf[e[2]]] = NoObj
           /\ \A i \in Sec, k \in Key : tab'.entry[i][k] # NoObj =>
                  tab'.rows[pkOf[tab'.entry[i][k]]] # NoObj]_vars
  BY PrefixReturns
<1> QED BY <1>1, Inductive, PTL DEF Spec, DeletePrefixDeletesRows

\* When DeleteAll returns, nothing matches its query any more
\* (DeleteAllDeletesAll), if it meets each row once.
THEOREM DeleteAllDeletes ==
    PrefixAssumption /\ OnceAssumption => (Spec => DeleteAllDeletesAll)
<1> SUFFICES ASSUME PrefixAssumption, OnceAssumption PROVE Spec => DeleteAllDeletesAll
  OBVIOUS
<1>1. IInv /\ AllLoop /\ [Next]_vars => AllLoop'
  BY NextAllLoop
<1>2. Init => AllLoop
  BY DEF Init, AllLoop
<1>3. IInv /\ AllLoop /\ [Next]_vars =>
        [pc = "deleteAll" /\ pc' = "open"
           => Entries(tab', query.index, query.scan) = {}]_vars
  BY AllReturns
<1> QED BY <1>1, <1>2, <1>3, Inductive, PTL DEF Spec, DeleteAllDeletesAll

-----------------------------------------------------------------------------
(* The list of changes: TypeOK, which the list takes part in, and that the   *)
(* list is the net effect of what the transaction did.                       *)

\* A change, and a list of changes.
ChangeRec == [pk : Pk, before : MaybeObj, after : MaybeObj]
ChangeSeq == Seq(ChangeRec)

\* The first change of each object.
FirstOf(cs) ==
    {j \in DOMAIN cs : \A m \in DOMAIN cs : cs[m].pk = cs[j].pk => j <= m}

----------------------------------------------------------------------------
(* Positions: the elements of a finite set of numbers can be counted off.    *)

\* How many elements of S there are up to j.
RankIn(S, j) == Cardinality({m \in S : m <= j})

\* No two elements have the same rank.
LEMMA RankGrows ==
    ASSUME NEW S \in SUBSET Nat, IsFiniteSet(S),
           NEW j \in S, NEW k \in S, j < k
    PROVE  RankIn(S, j) # RankIn(S, k)
<1> DEFINE A == {m \in S : m <= j}
           B == {m \in S : m <= k}
<1>0. j \in Nat /\ k \in Nat /\ \A m \in S : m \in Nat
  OBVIOUS
<1>1. A \in SUBSET B /\ B \in SUBSET S /\ k \in B /\ k \notin A
  <2>1. \A m \in S : m <= j => m <= k
    BY <1>0
  <2>2. k <= k /\ ~ (k <= j)
    BY <1>0
  <2> QED BY <2>1, <2>2
<1> HIDE DEF A, B
<1>2. IsFiniteSet(B)
  BY <1>1, FS_Subset
<1>3. Cardinality(B) = Cardinality(A) => B = A
  BY <1>1, <1>2, FS_Subset
<1> QED BY <1>1, <1>3 DEF RankIn, A, B

LEMMA RankType ==
    ASSUME NEW S \in SUBSET Nat, IsFiniteSet(S), NEW j \in S
    PROVE  RankIn(S, j) \in 1..Cardinality(S)
<1> DEFINE A == {m \in S : m <= j}
<1>1. A \in SUBSET S /\ j \in A
  OBVIOUS
<1> HIDE DEF A
<1>2. IsFiniteSet(A) /\ Cardinality(A) <= Cardinality(S)
  BY <1>1, FS_Subset
<1>3. Cardinality(A) \in Nat /\ Cardinality(S) \in Nat
  BY <1>2, FS_CardinalityType
<1>4. Cardinality(A) # 0
  BY <1>1, <1>2, FS_EmptySet
<1> QED BY <1>2, <1>3, <1>4 DEF RankIn, A

\* Every rank is that of an element.
LEMMA RankOfSome ==
    ASSUME NEW S \in SUBSET Nat, IsFiniteSet(S), NEW n \in 1..Cardinality(S)
    PROVE  \E j \in S : RankIn(S, j) = n
<1> DEFINE N == 1..Cardinality(S)
           rank == [j \in S |-> RankIn(S, j)]
<1>1. Cardinality(S) \in Nat
  BY FS_CardinalityType
<1>2. IsFiniteSet(N) /\ Cardinality(N) = Cardinality(S)
  BY <1>1, FS_Interval
<1>3. rank \in [S -> N]
  BY RankType
<1>4. \A j, k \in S : rank[j] = rank[k] => j = k
  <2> SUFFICES ASSUME NEW j \in S, NEW k \in S, rank[j] = rank[k] PROVE j = k
    OBVIOUS
  <2>1. ~ (j < k) /\ ~ (k < j)
    BY RankGrows
  <2> QED BY <2>1
<1> HIDE DEF rank, N
<1>5. rank \in Injection(S, N)
  BY <1>3, <1>4 DEF Injection, IsInjective
<1>6. rank \in Surjection(S, N)
  BY <1>2, <1>5, FS_Injection
<1>7. n \in N
  BY DEF N
<1>8. PICK j \in S : rank[j] = n
  BY <1>6, <1>7 DEF Surjection
<1> QED BY <1>8 DEF rank

----------------------------------------------------------------------------
(* A list that is net of what happened between two states of the rows: an    *)
(* object without a change is as it was, the first change of an object is    *)
(* from the row it was, the last one to the row it is.                       *)

Net(cs, was, is) ==
    /\ \A p \in Pk : (\A j \in DOMAIN cs : cs[j].pk # p) => is[p] = was[p]
    /\ \A j \in FirstOf(cs) : cs[j].before = was[cs[j].pk]
    /\ \A j \in LastOf(cs) : cs[j].after = is[cs[j].pk]
    /\ \A j \in DOMAIN cs : cs[j].before # NoObj \/ cs[j].after # NoObj

LEMMA ChangeSeqIs ==
    ASSUME NEW cs \in ChangeSeq
    PROVE  /\ Len(cs) \in Nat
           /\ DOMAIN cs = 1..Len(cs)
           /\ \A j \in DOMAIN cs : /\ cs[j].pk \in Pk
                                   /\ cs[j].before \in MaybeObj
                                   /\ cs[j].after \in MaybeObj
<1>1. Len(cs) \in Nat /\ DOMAIN cs = 1..Len(cs)
  BY DEF ChangeSeq
<1>2. \A j \in DOMAIN cs : cs[j] \in ChangeRec
  BY DEF ChangeSeq
<1> QED BY <1>1, <1>2 DEF ChangeRec

LEMMA AppendIs ==
    ASSUME NEW cs \in ChangeSeq, NEW p \in Pk, NEW e \in MaybeObj, NEW o \in MaybeObj
    PROVE  LET ds == Append(cs, Change(p, e, o))
           IN  /\ ds \in ChangeSeq
               /\ DOMAIN ds = 1..(Len(cs) + 1)
               /\ \A j \in DOMAIN cs : ds[j] = cs[j]
               /\ ds[Len(cs) + 1] = Change(p, e, o)
<1>1. Change(p, e, o) \in ChangeRec
  BY DEF Change, ChangeRec
<1> DEFINE c == Change(p, e, o)
<1> HIDE DEF c
<1>2. c \in ChangeRec
  BY <1>1 DEF c
<1>3. LET ds == Append(cs, c)
      IN  /\ ds \in ChangeSeq
          /\ DOMAIN ds = 1..(Len(cs) + 1)
          /\ \A j \in DOMAIN cs : ds[j] = cs[j]
          /\ ds[Len(cs) + 1] = c
  BY <1>2 DEF ChangeSeq
<1> QED BY <1>3 DEF c

\* A write appends its change.
LEMMA NetAppend ==
    ASSUME NEW cs \in ChangeSeq, NEW was \in [Pk -> MaybeObj], NEW is \in [Pk -> MaybeObj],
           Net(cs, was, is),
           NEW p \in Pk, NEW o \in MaybeObj, is[p] # NoObj \/ o # NoObj
    PROVE  Net(Append(cs, Change(p, is[p], o)), was, Stored(is, p, o))
<1> DEFINE ds == Append(cs, Change(p, is[p], o))
           n == Len(cs) + 1
           now == Stored(is, p, o)
<1>1. /\ ds \in ChangeSeq
      /\ DOMAIN ds = 1..n
      /\ \A j \in DOMAIN cs : ds[j] = cs[j]
      /\ ds[n] = Change(p, is[p], o)
  BY AppendIs
<1>2. DOMAIN cs = 1..Len(cs) /\ Len(cs) \in Nat /\ \A j \in DOMAIN cs : cs[j].pk \in Pk
  BY ChangeSeqIs
<1>3. \A q \in Pk : now[q] = IF q = p THEN o ELSE is[q]
  BY DEF Stored
<1>4. ds[n].pk = p /\ ds[n].before = is[p] /\ ds[n].after = o
  BY <1>1 DEF Change
<1>5. n \in DOMAIN ds /\ \A j \in DOMAIN ds : j <= n /\ (j = n \/ j \in DOMAIN cs)
  BY <1>1, <1>2
<1> HIDE DEF ds, now
<1>6. ASSUME NEW q \in Pk, \A j \in DOMAIN ds : ds[j].pk # q PROVE now[q] = was[q]
  <2>1. q # p
    BY <1>4, <1>5, <1>6
  <2>2. \A j \in DOMAIN cs : cs[j].pk # q
    BY <1>1, <1>2, <1>6
  <2> QED BY <1>3, <2>1, <2>2 DEF Net
<1>7. ASSUME NEW j \in FirstOf(ds) PROVE ds[j].before = was[ds[j].pk]
  <2>1. j \in DOMAIN ds /\ \A m \in DOMAIN ds : ds[m].pk = ds[j].pk => j <= m
    BY DEF FirstOf
  <2>2. CASE j = n
    <3>1. \A m \in DOMAIN cs : m \in DOMAIN ds /\ ~ (n <= m)
      BY <1>1, <1>2
    <3>2. \A m \in DOMAIN cs : cs[m].pk # p
      BY <1>1, <1>4, <2>1, <2>2, <3>1
    <3> QED BY <1>4, <2>2, <3>2 DEF Net
  <2>3. CASE j \in DOMAIN cs
    <3>1. j \in FirstOf(cs)
      BY <1>1, <1>2, <2>1, <2>3 DEF FirstOf
    <3> QED BY <1>1, <2>3, <3>1 DEF Net
  <2> QED BY <1>5, <2>1, <2>2, <2>3
<1>8. ASSUME NEW j \in LastOf(ds) PROVE ds[j].after = now[ds[j].pk]
  <2>1. j \in DOMAIN ds /\ \A m \in DOMAIN ds : ds[m].pk = ds[j].pk => m <= j
    BY DEF LastOf
  <2>2. CASE j = n
    BY <1>3, <1>4, <2>2
  <2>3. CASE j \in DOMAIN cs
    <3>1. ~ (n <= j)
      BY <1>2, <2>3
    <3>2. cs[j].pk # p
      BY <1>1, <1>4, <1>5, <2>1, <2>3, <3>1
    <3>3. \A m \in DOMAIN cs : m \in DOMAIN ds
      BY <1>1, <1>2
    <3>4. j \in LastOf(cs)
      BY <1>1, <2>1, <2>3, <3>3 DEF LastOf
    <3>5. cs[j].pk \in Pk
      BY <1>2, <2>3
    <3> QED BY <1>1, <1>3, <2>3, <3>2, <3>4, <3>5 DEF Net
  <2> QED BY <1>5, <2>1, <2>2, <2>3
<1>9. \A j \in DOMAIN ds : ds[j].before # NoObj \/ ds[j].after # NoObj
  BY <1>1, <1>4, <1>5 DEF Net
<1> QED BY <1>6, <1>7, <1>8, <1>9 DEF Net, ds, now

\* An object with a change has a first one, which FirstBefore looks up, and a
\* last one.
LEMMA FirstIs ==
    ASSUME NEW cs \in ChangeSeq, NEW p \in Pk, NEW j \in DOMAIN cs, cs[j].pk = p
    PROVE  \E m \in FirstOf(cs) : cs[m].pk = p /\ FirstBefore(cs, p) = cs[m].before
<1> DEFINE S == {m \in DOMAIN cs : cs[m].pk = p}
<1>1. S \in SUBSET Nat /\ S # {}
  <2>1. DOMAIN cs = 1..Len(cs)
    BY ChangeSeqIs
  <2> QED BY <2>1
<1>2. SetMin(S) \in S /\ \A n \in S : SetMin(S) <= n
  BY <1>1, SetMinIs
<1>3. SetMin(S) \in FirstOf(cs) /\ cs[SetMin(S)].pk = p
  BY <1>2 DEF FirstOf
<1> QED BY <1>3 DEF FirstBefore

LEMMA LastIs ==
    ASSUME NEW cs \in ChangeSeq, NEW p \in Pk, NEW j \in DOMAIN cs, cs[j].pk = p
    PROVE  \E m \in LastOf(cs) : cs[m].pk = p
<1> DEFINE back(m) == Len(cs) - m
           D == {m \in DOMAIN cs : cs[m].pk = p}
           S == {back(m) : m \in D}
<1>1. DOMAIN cs = 1..Len(cs) /\ Len(cs) \in Nat
  BY ChangeSeqIs
<1>2. \A m \in D : m \in Nat /\ back(m) \in Nat
  BY <1>1
<1>3. S \in SUBSET Nat /\ S # {}
  BY <1>2
<1>4. SetMin(S) \in S /\ \A n \in S : SetMin(S) <= n
  BY <1>3, SetMinIs
<1>5. PICK m \in D : SetMin(S) = back(m)
  BY <1>4
<1>6. \A k \in D : back(m) <= back(k)
  BY <1>4, <1>5
<1>7. \A k \in D : k <= m
  BY <1>1, <1>2, <1>6
<1> QED BY <1>5, <1>7 DEF LastOf

\* Changes that are last and have the same object are the same.
LEMMA LastIsOne ==
    ASSUME NEW cs \in ChangeSeq, NEW j \in LastOf(cs), NEW k \in LastOf(cs),
           cs[j].pk = cs[k].pk
    PROVE  j = k
<1>1. j \in DOMAIN cs /\ k \in DOMAIN cs /\ j <= k /\ k <= j
  BY DEF LastOf
<1>2. j \in Nat /\ k \in Nat
  BY <1>1, ChangeSeqIs
<1> QED BY <1>1, <1>2

LEMMA KeptIs ==
    ASSUME NEW cs \in ChangeSeq
    PROVE  /\ Kept(cs) \subseteq LastOf(cs)
           /\ Kept(cs) \subseteq DOMAIN cs
           /\ Kept(cs) \in SUBSET Nat
           /\ IsFiniteSet(Kept(cs))
<1>1. Kept(cs) \subseteq LastOf(cs) /\ LastOf(cs) \subseteq DOMAIN cs
  BY DEF Kept, LastOf
<1>2. DOMAIN cs = 1..Len(cs) /\ Len(cs) \in Nat
  BY ChangeSeqIs
<1>3. IsFiniteSet(1..Len(cs))
  BY <1>2, FS_Interval
<1>4. IsFiniteSet(Kept(cs))
  BY <1>1, <1>2, <1>3, FS_Subset
<1> QED BY <1>1, <1>2, <1>4

\* The list of Changes has one change for each position kept, with what the
\* object was at its first change.
CollapsedTo(cs, ds) ==
    /\ ds \in ChangeSeq
    /\ \A j \in DOMAIN ds : \E m \in Kept(cs) :
          /\ ds[j].pk = cs[m].pk
          /\ ds[j].before = FirstBefore(cs, cs[m].pk)
          /\ ds[j].after = cs[m].after
    /\ \A m \in Kept(cs) : \E j \in DOMAIN ds : ds[j].pk = cs[m].pk
    /\ \A j, k \in DOMAIN ds : ds[j].pk = ds[k].pk => j = k

\* A list without repetition is its own collapse.
LEMMA CollapsedSame ==
    ASSUME NEW cs \in ChangeSeq, LastOf(cs) = DOMAIN cs,
           \A j \in DOMAIN cs : cs[j].before # NoObj \/ cs[j].after # NoObj
    PROVE  CollapsedTo(cs, cs)
<1>1. ASSUME NEW j \in DOMAIN cs PROVE FirstBefore(cs, cs[j].pk) = cs[j].before
  <2>1. cs[j].pk \in Pk
    BY ChangeSeqIs
  <2>2. PICK m \in FirstOf(cs) :
           cs[m].pk = cs[j].pk /\ FirstBefore(cs, cs[j].pk) = cs[m].before
    BY <2>1, FirstIs
  <2>3. m \in LastOf(cs) /\ j \in LastOf(cs)
    BY DEF FirstOf
  <2>4. m = j
    BY <2>2, <2>3, LastIsOne
  <2> QED BY <2>2, <2>4
<1>2. Kept(cs) = DOMAIN cs
  BY <1>1 DEF Kept
<1>3. \A j, k \in DOMAIN cs : cs[j].pk = cs[k].pk => j = k
  BY LastIsOne
<1> QED BY <1>1, <1>2, <1>3 DEF CollapsedTo

\* The place a list with repetitions takes its n-th change from.
PlaceOf(cs, n) == CHOOSE j \in Kept(cs) : RankIn(Kept(cs), j) = n

LEMMA PlaceIs ==
    ASSUME NEW cs \in ChangeSeq, NEW n \in 1..Cardinality(Kept(cs))
    PROVE  PlaceOf(cs, n) \in Kept(cs) /\ RankIn(Kept(cs), PlaceOf(cs, n)) = n
<1>1. \E j \in Kept(cs) : RankIn(Kept(cs), j) = n
  BY KeptIs, RankOfSome
<1> QED BY <1>1 DEF PlaceOf

\* The n-th change of that list.
NetChange(cs, n) ==
    [cs[PlaceOf(cs, n)] EXCEPT !.before = FirstBefore(cs, cs[PlaceOf(cs, n)].pk)]

LEMMA NetChangeIs ==
    ASSUME NEW cs \in ChangeSeq, NEW n \in 1..Cardinality(Kept(cs))
    PROVE  /\ NetChange(cs, n) \in ChangeRec
           /\ NetChange(cs, n).pk = cs[PlaceOf(cs, n)].pk
           /\ NetChange(cs, n).before = FirstBefore(cs, cs[PlaceOf(cs, n)].pk)
           /\ NetChange(cs, n).after = cs[PlaceOf(cs, n)].after
<1> DEFINE j == PlaceOf(cs, n)
<1>1. j \in DOMAIN cs
  BY PlaceIs, KeptIs
<1>2. cs[j] \in ChangeRec
  BY <1>1 DEF ChangeSeq
<1>3. FirstBefore(cs, cs[j].pk) \in MaybeObj
  <2>1. cs[j].pk \in Pk
    BY <1>1, ChangeSeqIs
  <2>2. PICK m \in FirstOf(cs) : FirstBefore(cs, cs[j].pk) = cs[m].before
    BY <1>1, <2>1, FirstIs
  <2> QED BY <2>2, ChangeSeqIs DEF FirstOf
<1> HIDE DEF j
<1> QED BY <1>2, <1>3 DEF NetChange, ChangeRec, j

LEMMA CollapsedShorter ==
    ASSUME NEW cs \in ChangeSeq, LastOf(cs) # DOMAIN cs
    PROVE  CollapsedTo(cs, Collapsed(cs))
<1> DEFINE N == Cardinality(Kept(cs))
           ds == [n \in 1..N |-> NetChange(cs, n)]
<1>1. Collapsed(cs) = ds
  BY DEF Collapsed, NetChange, PlaceOf, RankIn
<1>2. N \in Nat
  BY KeptIs, FS_CardinalityType
<1>3. \A n \in 1..N : NetChange(cs, n) \in ChangeRec
  BY NetChangeIs
<1>4. ds \in ChangeSeq
  BY <1>2, <1>3 DEF ChangeSeq
<1>5. DOMAIN ds = 1..N
  OBVIOUS
<1>6. \A n \in 1..N : /\ ds[n].pk = cs[PlaceOf(cs, n)].pk
                      /\ ds[n].before = FirstBefore(cs, cs[PlaceOf(cs, n)].pk)
                      /\ ds[n].after = cs[PlaceOf(cs, n)].after
  BY NetChangeIs
<1>7. \A n \in 1..N : PlaceOf(cs, n) \in Kept(cs) /\ RankIn(Kept(cs), PlaceOf(cs, n)) = n
  BY PlaceIs
<1> HIDE DEF ds, N
<1>8. ASSUME NEW m \in Kept(cs) PROVE \E j \in 1..N : ds[j].pk = cs[m].pk
  <2>1. RankIn(Kept(cs), m) \in 1..N
    BY KeptIs, RankType DEF N
  <2>2. PICK n \in 1..N : RankIn(Kept(cs), m) = n
    BY <2>1
  <2>3. RankIn(Kept(cs), PlaceOf(cs, n)) = RankIn(Kept(cs), m)
    BY <1>7, <2>2
  <2>4. PlaceOf(cs, n) = m
    <3>1. PlaceOf(cs, n) \in Kept(cs) /\ PlaceOf(cs, n) \in Nat /\ m \in Nat
      BY <1>7, KeptIs
    <3>2. ~ (PlaceOf(cs, n) < m) /\ ~ (m < PlaceOf(cs, n))
      BY <2>3, <3>1, KeptIs, RankGrows
    <3> QED BY <3>1, <3>2
  <2> QED BY <1>6, <2>4
<1>9. ASSUME NEW j \in 1..N, NEW k \in 1..N, ds[j].pk = ds[k].pk PROVE j = k
  <2>1. /\ PlaceOf(cs, j) \in LastOf(cs) /\ PlaceOf(cs, k) \in LastOf(cs)
        /\ cs[PlaceOf(cs, j)].pk = cs[PlaceOf(cs, k)].pk
    BY <1>6, <1>7, <1>9, KeptIs
  <2>2. PlaceOf(cs, j) = PlaceOf(cs, k)
    BY <2>1, LastIsOne
  <2> QED BY <1>7, <2>2
<1>10. CollapsedTo(cs, ds)
  BY <1>4, <1>5, <1>6, <1>7, <1>8, <1>9 DEF CollapsedTo
<1> QED BY <1>1, <1>10

LEMMA CollapsedIs ==
    ASSUME NEW cs \in ChangeSeq,
           \A j \in DOMAIN cs : cs[j].before # NoObj \/ cs[j].after # NoObj
    PROVE  CollapsedTo(cs, Collapsed(cs))
<1>1. CASE LastOf(cs) = DOMAIN cs
  <2>1. Collapsed(cs) = cs
    BY <1>1 DEF Collapsed
  <2> QED BY <1>1, <2>1, CollapsedSame
<1>2. CASE LastOf(cs) # DOMAIN cs
  BY <1>2, CollapsedShorter
<1> QED BY <1>1, <1>2

\* What Changes returns of a list that is net is exactly the net effect: a
\* change from what each object was to what it is, for those that differ.
Exact(ds, was, is) ==
    /\ \A j \in DOMAIN ds : /\ ds[j].before = was[ds[j].pk]
                            /\ ds[j].after = is[ds[j].pk]
                            /\ ds[j].before # NoObj \/ ds[j].after # NoObj
    /\ \A j, m \in DOMAIN ds : ds[j].pk = ds[m].pk => j = m
    /\ \A p \in Pk : is[p] # was[p] => \E j \in DOMAIN ds : ds[j].pk = p

LEMMA CollapsedIsExact ==
    ASSUME NEW cs \in ChangeSeq, NEW was, NEW is, Net(cs, was, is)
    PROVE  Collapsed(cs) \in ChangeSeq /\ Exact(Collapsed(cs), was, is)
<1> DEFINE ds == Collapsed(cs)
<1>1. CollapsedTo(cs, ds)
  BY CollapsedIs DEF Net
<1> HIDE DEF ds
<1>2. ASSUME NEW m \in DOMAIN cs PROVE FirstBefore(cs, cs[m].pk) = was[cs[m].pk]
  <2>1. cs[m].pk \in Pk
    BY ChangeSeqIs
  <2>2. PICK j \in FirstOf(cs) :
           cs[j].pk = cs[m].pk /\ FirstBefore(cs, cs[m].pk) = cs[j].before
    BY <2>1, FirstIs
  <2> QED BY <2>2 DEF Net
<1>3. ASSUME NEW j \in DOMAIN ds
      PROVE  /\ ds[j].before = was[ds[j].pk]
             /\ ds[j].after = is[ds[j].pk]
             /\ ds[j].before # NoObj \/ ds[j].after # NoObj
  <2>1. PICK m \in Kept(cs) : /\ ds[j].pk = cs[m].pk
                              /\ ds[j].before = FirstBefore(cs, cs[m].pk)
                              /\ ds[j].after = cs[m].after
    BY <1>1 DEF CollapsedTo
  <2>2. m \in LastOf(cs) /\ m \in DOMAIN cs
    BY KeptIs
  <2>3. ds[j].before = was[ds[j].pk] /\ ds[j].after = is[ds[j].pk]
    BY <1>2, <2>1, <2>2 DEF Net
  <2>4. FirstBefore(cs, cs[m].pk) # NoObj \/ cs[m].after # NoObj
    BY DEF Kept
  <2> QED BY <2>1, <2>3, <2>4
<1>4. ASSUME NEW p \in Pk, is[p] # was[p] PROVE \E j \in DOMAIN ds : ds[j].pk = p
  <2>1. PICK k \in DOMAIN cs : cs[k].pk = p
    BY <1>4 DEF Net
  <2>2. PICK m \in LastOf(cs) : cs[m].pk = p
    BY <2>1, LastIs
  <2>3. m \in DOMAIN cs
    BY DEF LastOf
  <2>4. FirstBefore(cs, p) = was[p] /\ cs[m].after = is[p]
    BY <1>2, <2>2, <2>3 DEF Net
  <2>5. m \in Kept(cs)
    BY <1>4, <2>2, <2>4 DEF Kept
  <2> QED BY <1>1, <2>2, <2>5 DEF CollapsedTo
<1>5. ds \in ChangeSeq /\ \A j, k \in DOMAIN ds : ds[j].pk = ds[k].pk => j = k
  BY <1>1 DEF CollapsedTo
<1> QED BY <1>3, <1>4, <1>5 DEF Exact, ds

\* A list that is exact is net, and later writes may append to it.
LEMMA ExactIsNet ==
    ASSUME NEW ds \in ChangeSeq, NEW was, NEW is, Exact(ds, was, is)
    PROVE  Net(ds, was, is)
BY ChangeSeqIs DEF Exact, Net, FirstOf, LastOf

----------------------------------------------------------------------------
(* What the operations on tables do to their types and to the rows, whether  *)
(* or not the table is whole.                                                *)

\* A write that finds no id leaves the bitmaps alone; any other has an id.
LEMMA RebittedType ==
    ASSUME NEW t \in Table, NEW o \in MaybeObj, NEW e \in MaybeObj, NEW p \in Pk
    PROVE  LET u == Rebitted(t, o, e, p)
           IN  u \in Table /\ u.rows = t.rows /\ u.entry = t.entry
<1>1. CASE Bm = {} \/ BitmapPanic(t, e, p)
  BY <1>1 DEF Rebitted
<1>2. CASE Bm # {} /\ ~BitmapPanic(t, e, p)
  <2>1. t.ids[p] \in Id \cup {NoId} /\ t.free \subseteq Id /\ t.next \in Id
    BY DEF Table
  <2>2. t.free # {} => SetMin(t.free) \in t.free
    BY <2>1, SetMinIs, IdAssumption DEF Id
  <2>3. RowId(t, e, p) \in Id
    BY <1>2, <2>1, <2>2 DEF RowId, BitmapPanic
  <2>4. Effect(t, o, e, p, RowId(t, e, p), Rebitted(t, o, e, p))
    BY <1>2, <2>3, RebittedIs
  <2> QED BY <2>4 DEF Effect
<1> QED BY <1>1, <1>2

LEMMA ReindexedType ==
    ASSUME NEW entry \in [Sec -> [Key -> MaybeObj]],
           NEW o \in MaybeObj, NEW e \in MaybeObj, NEW skip
    PROVE  Reindexed(entry, o, e, skip) \in [Sec -> [Key -> MaybeObj]]
<1> DEFINE F(i) == IF i = skip THEN entry[i]
                   ELSE Moved(entry[i], KeysOf(i, o), KeysOf(i, e), o)
<1>1. ASSUME NEW i \in Sec PROVE F(i) \in [Key -> MaybeObj]
  <2>1. entry[i] \in [Key -> MaybeObj]
    OBVIOUS
  <2>2. Moved(entry[i], KeysOf(i, o), KeysOf(i, e), o) \in [Key -> MaybeObj]
    BY <2>1, MovedAt
  <2> QED BY <2>1, <2>2
<1>2. Reindexed(entry, o, e, skip) = [i \in Sec |-> F(i)]
  BY DEF Reindexed
<1> HIDE DEF F
<1> QED BY <1>1, <1>2

LEMMA TableParts ==
    ASSUME NEW t \in Table
    PROVE  t.rows \in [Pk -> MaybeObj] /\ t.entry \in [Sec -> [Key -> MaybeObj]]
BY DEF Table

LEMMA StoredType ==
    ASSUME NEW rows \in [Pk -> MaybeObj], NEW p \in Pk, NEW o \in MaybeObj
    PROVE  Stored(rows, p, o) \in [Pk -> MaybeObj]
BY DEF Stored

LEMMA ObjIs ==
    /\ NoObj \in MaybeObj
    /\ \A o \in Obj : o \in MaybeObj /\ o # NoObj /\ pkOf[o] \in Pk
BY ObjAssumption DEF MaybeObj

\* Insert stores its row, and what it moves are rows.
LEMMA InsertType ==
    ASSUME tab \in Table, NEW o \in Obj, Insert(o)
    PROVE  tab' \in Table /\ tab'.rows = Stored(tab.rows, pkOf[o], o)
<1> DEFINE p == pkOf[o]
           e == tab.rows[p]
           rows == Stored(tab.rows, p, o)
           entry == Reindexed(tab.entry, o, e, "none")
           s == [tab EXCEPT !.rows = rows, !.entry = entry]
<1>1. p \in Pk /\ o \in MaybeObj /\ e \in MaybeObj
  BY ObjIs, TableParts
<1>2. rows \in [Pk -> MaybeObj] /\ entry \in [Sec -> [Key -> MaybeObj]]
  BY <1>1, StoredType, ReindexedType, TableParts
<1>3. tab' = Rebitted(s, o, e, p)
  BY DEF Insert, Stored
<1> HIDE DEF p, e, rows, entry
<1>4. s \in Table /\ s.rows = rows
  BY <1>2 DEF Table
<1> HIDE DEF s
<1>5. tab' \in Table /\ tab'.rows = s.rows
  BY <1>1, <1>3, <1>4, RebittedType
<1> QED BY <1>4, <1>5 DEF rows, p

\* A failed Insert leaves the table as it was.
LEMMA InsertFailsType ==
    ASSUME tab \in Table, NEW o \in Obj, InsertFails(o)
    PROVE  tab' = tab
<1>1. tab.rows \in [Pk -> MaybeObj] /\ pkOf[o] \in Pk
  BY ObjIs, TableParts
<1>2. [[tab.rows EXCEPT ![pkOf[o]] = o] EXCEPT ![pkOf[o]] = tab.rows[pkOf[o]]] = tab.rows
  BY <1>1
<1>3. tab' = [tab EXCEPT !.rows = tab.rows]
  BY <1>2 DEF InsertFails
<1> QED BY <1>3 DEF Table

LEMMA DroppedType ==
    ASSUME NEW t \in Table, NEW e \in Obj, NEW target
    PROVE  /\ Dropped(t, e, target) \in Table
           /\ Dropped(t, e, target).rows =
                 IF target = "id" THEN t.rows ELSE Stored(t.rows, pkOf[e], NoObj)
<1> DEFINE p == pkOf[e]
           rows == IF target = "id" THEN t.rows ELSE Stored(t.rows, p, NoObj)
           entry == Reindexed(t.entry, NoObj, e, target)
           s == [t EXCEPT !.rows = rows, !.entry = entry]
<1>1. p \in Pk /\ NoObj \in MaybeObj /\ e \in MaybeObj
  BY ObjIs
<1>2. rows \in [Pk -> MaybeObj] /\ entry \in [Sec -> [Key -> MaybeObj]]
  BY <1>1, StoredType, ReindexedType, TableParts
<1>3. Dropped(t, e, target) = Rebitted(s, NoObj, e, p)
  BY DEF Dropped, Stored
<1> HIDE DEF p, rows, entry
<1>4. s \in Table /\ s.rows = rows
  BY <1>2 DEF Table
<1> HIDE DEF s
<1>5. Dropped(t, e, target) \in Table /\ Dropped(t, e, target).rows = s.rows
  BY <1>1, <1>3, <1>4, RebittedType
<1> QED BY <1>4, <1>5 DEF rows, p

LEMMA CutType ==
    ASSUME NEW t \in Table, NEW i \in Index, NEW S
    PROVE  /\ Cut(t, i, S) \in Table
           /\ Cut(t, i, S).rows =
                 IF i = "id" THEN [p \in Pk |-> IF p \in S THEN NoObj ELSE t.rows[p]]
                 ELSE t.rows
<1>1. CASE i = "id"
  <2> DEFINE rows == [p \in Pk |-> IF p \in S THEN NoObj ELSE t.rows[p]]
  <2>1. rows \in [Pk -> MaybeObj]
    BY ObjIs, TableParts
  <2>2. Cut(t, i, S) = [t EXCEPT !.rows = rows]
    BY <1>1 DEF Cut
  <2> HIDE DEF rows
  <2>3. Cut(t, i, S) \in Table /\ Cut(t, i, S).rows = rows
    BY <2>1, <2>2 DEF Table
  <2> QED BY <1>1, <2>3 DEF rows
<1>2. CASE i # "id"
  <2> DEFINE row == [k \in Key |-> IF k[1] \in S THEN NoObj ELSE t.entry[i][k]]
             entry == [t.entry EXCEPT ![i] = row]
  <2>1. i \in Sec
    BY <1>2 DEF Index
  <2>2. row \in [Key -> MaybeObj]
    BY <2>1, ObjIs, TableParts
  <2>3. Cut(t, i, S) = [t EXCEPT !.entry = entry]
    BY <1>2 DEF Cut
  <2> HIDE DEF row
  <2>4. entry \in [Sec -> [Key -> MaybeObj]]
    BY <2>1, <2>2, TableParts
  <2> HIDE DEF entry
  <2>5. Cut(t, i, S) \in Table /\ Cut(t, i, S).rows = t.rows
    BY <2>3, <2>4 DEF Table
  <2> QED BY <1>2, <2>5
<1> QED BY <1>1, <1>2

----------------------------------------------------------------------------
(* Types.                                                                    *)

Pcs == {"idle", "open", "deleteAll", "deletePrefix", "panic"}
Results == {"none", "found", "ok", "error", "notfound", "mismatch"}
Queries == AllQuery \cup PrefixQuery \cup {NoQuery}

\* TypeOK in parts: those of the transaction, and those of the call.
TxnTypes ==
    root \in Table /\ tab \in Table /\ tracking \in BOOLEAN /\ log \in ChangeSeq
    /\ trackRows \in [Pk -> MaybeObj]
CallTypes ==
    pc \in Pcs /\ query \in Queries /\ (\A e \in todo : e[2] \in Obj)
    /\ result \in Results /\ ops \in 0..MaxOps

LEMMA TypeParts == TypeOK <=> TxnTypes /\ CallTypes
BY DEF TypeOK, TxnTypes, CallTypes, Pcs, Results, Queries, ChangeSeq, ChangeRec

LEMMA TypePartsNext == TypeOK' <=> TxnTypes' /\ CallTypes'
BY TypeParts, PTL

LEMMA CallCounts ==
    ASSUME ops \in 0..MaxOps, Call
    PROVE  ops' \in 0..MaxOps
<1>1. ops \in Nat /\ MaxOps \in Nat /\ ops < MaxOps /\ ops' = ops + 1
  BY IdAssumption DEF Call
<1> QED BY <1>1

LEMMA QueryIndex ==
    ASSUME NEW q \in Queries
    PROVE  q.index \in Index
BY QueryAssumption DEF Queries, NoQuery, Index

LEMMA LoggedIs ==
    ASSUME log \in ChangeSeq, NEW p \in Pk, NEW e \in MaybeObj, NEW o \in MaybeObj
    PROVE  Logged(Change(p, e, o)) \in ChangeSeq
BY AppendIs DEF Logged

LEMMA EmptyLog == <<>> \in ChangeSeq
BY DEF ChangeSeq

LEMMA EmptyType == Empty \in Table /\ Empty.rows = [p \in Pk |-> NoObj]
BY EmptyIsWhole DEF Empty

\* A list of changes keeps its type when it is collapsed.
LEMMA CollapsedType ==
    ASSUME NEW cs \in ChangeSeq
    PROVE  Collapsed(cs) \in ChangeSeq
<1>1. CASE LastOf(cs) = DOMAIN cs
  BY <1>1 DEF Collapsed
<1>2. CASE LastOf(cs) # DOMAIN cs
  BY <1>2, CollapsedShorter DEF CollapsedTo
<1> QED BY <1>1, <1>2

\* A call of Delete, by itself or from the loop of DeleteAll.
LEMMA DeleteRowType ==
    ASSUME tab \in Table, log \in ChangeSeq,
           NEW p \in Pk, NEW next \in Pcs, NEW rest, DeleteRow(p, next, rest)
    PROVE  /\ tab' \in Table /\ log' \in ChangeSeq
           /\ pc' \in Pcs /\ result' \in Results
           /\ todo' = {} \/ todo' = rest
<1> DEFINE e == tab.rows[p]
<1>1. e \in MaybeObj
  BY TableParts
<1>2. CASE e = NoObj
  BY <1>2 DEF DeleteRow, Pcs, Results
<1>3. CASE e # NoObj
  <2>1. e \in Obj
    BY <1>1, <1>3 DEF MaybeObj
  <2>2. /\ tab' = Dropped(tab, e, "none")
        /\ pc' = IF BitmapPanic(tab, e, p) THEN "panic" ELSE next
        /\ log' = IF pc' = "panic" THEN log ELSE Logged(Change(p, e, NoObj))
        /\ result' = "ok"
        /\ todo' = rest
    BY <1>3 DEF DeleteRow
  <2> HIDE DEF e
  <2>3. Logged(Change(p, e, NoObj)) \in ChangeSeq
    BY <1>1, ObjIs, LoggedIs
  <2>4. tab' \in Table
    BY <2>1, <2>2, DroppedType
  <2>5. pc' \in Pcs /\ result' \in Results
    BY <2>2 DEF Pcs, Results
  <2> QED BY <2>2, <2>3, <2>4, <2>5
<1> QED BY <1>2, <1>3

LEMMA StartType ==
    ASSUME TypeOK, NEW q \in AllQuery \cup PrefixQuery, NEW loop \in Pcs, Start(q, loop)
    PROVE  TypeOK'
<1>1. TxnTypes /\ CallTypes
  BY TypeParts
<1>2. q \in Queries /\ q.index \in Index
  BY QueryIndex DEF Queries
<1>3. \A e \in todo' : e[2] \in Obj
  BY <1>1, <1>2, EntriesType DEF Start, TxnTypes
<1>4. ops' \in 0..MaxOps
  BY <1>1, CallCounts DEF Start, CallTypes
<1>5. TxnTypes'
  BY <1>1 DEF Start, TxnTypes
<1>6. CallTypes'
  BY <1>1, <1>2, <1>3, <1>4 DEF Start, CallTypes, Results
<1> QED BY <1>5, <1>6, TypePartsNext

LEMMA InitType == Init => TypeOK
<1> SUFFICES ASSUME Init PROVE TypeOK
  OBVIOUS
<1>1. TxnTypes
  BY EmptyType, EmptyLog, TableParts DEF Init, TxnTypes
<1>2. CallTypes
  BY IdAssumption DEF Init, CallTypes, Pcs, Results, Queries
<1> QED BY <1>1, <1>2, TypeParts

LEMMA NextType ==
    ASSUME TypeOK, [Next]_vars
    PROVE  TypeOK'
<1>0. TxnTypes /\ CallTypes
  BY TypeParts
<1>1. CASE Begin
  <2>1. TxnTypes'
    BY <1>0, <1>1, EmptyLog, TableParts DEF Begin, TxnTypes
  <2>2. CallTypes'
    BY <1>0, <1>1 DEF Begin, CallTypes, Pcs, Results
  <2> QED BY <2>1, <2>2, TypePartsNext
<1>2. ASSUME NEW o \in Obj, Insert(o) PROVE TypeOK'
  <2>1. tab \in Table /\ log \in ChangeSeq /\ tab' \in Table
    BY <1>0, <1>2, InsertType DEF TxnTypes
  <2>2. log' \in ChangeSeq
    <3>1. log' = log \/ log' = Logged(Change(pkOf[o], tab.rows[pkOf[o]], o))
      BY <1>2 DEF Insert
    <3>2. pkOf[o] \in Pk /\ o \in MaybeObj /\ tab.rows[pkOf[o]] \in MaybeObj
      BY <2>1, ObjIs, TableParts
    <3> QED BY <2>1, <3>1, <3>2, LoggedIs
  <2>3. TxnTypes'
    BY <1>0, <1>2, <2>1, <2>2 DEF Insert, TxnTypes
  <2>4. ops' \in 0..MaxOps /\ pc' \in Pcs /\ result' \in Results
    BY <1>0, <1>2, CallCounts DEF Insert, CallTypes, Pcs, Results
  <2>5. CallTypes'
    BY <1>0, <1>2, <2>4 DEF Insert, CallTypes
  <2> QED BY <2>3, <2>5, TypePartsNext
<1>3. ASSUME NEW o \in Obj, InsertFails(o) PROVE TypeOK'
  <2>1. tab' = tab
    BY <1>0, <1>3, InsertFailsType DEF TxnTypes
  <2>2. TxnTypes'
    BY <1>0, <1>3, <2>1 DEF InsertFails, TxnTypes
  <2>3. ops' \in 0..MaxOps
    BY <1>0, <1>3, CallCounts DEF InsertFails, CallTypes
  <2>4. CallTypes'
    BY <1>0, <1>3, <2>3 DEF InsertFails, CallTypes, Results
  <2> QED BY <2>2, <2>4, TypePartsNext
<1>4. ASSUME NEW p \in Pk, Delete(p) PROVE TypeOK'
  <2>1. DeleteRow(p, "open", {}) /\ "open" \in Pcs
    BY <1>4 DEF Delete, Pcs
  <2>2. /\ tab' \in Table /\ log' \in ChangeSeq
        /\ pc' \in Pcs /\ result' \in Results /\ todo' = {}
    BY <1>0, <2>1, DeleteRowType DEF TxnTypes
  <2>3. TxnTypes'
    BY <1>0, <1>4, <2>2 DEF Delete, TxnTypes
  <2>4. ops' \in 0..MaxOps
    BY <1>0, <1>4, CallCounts DEF Delete, CallTypes
  <2>5. CallTypes'
    BY <1>0, <1>4, <2>2, <2>4 DEF Delete, CallTypes
  <2> QED BY <2>3, <2>5, TypePartsNext
<1>5. ASSUME NEW q \in AllQuery, DeleteAll(q) PROVE TypeOK'
  BY <1>5, StartType DEF DeleteAll, Pcs
<1>6. ASSUME NEW q \in PrefixQuery, DeletePrefix(q) PROVE TypeOK'
  BY <1>6, StartType DEF DeletePrefix, Pcs
<1>7. CASE DeleteAllRow
  <2>1. PICK e \in todo : DeleteRow(pkOf[e[2]], "deleteAll", todo \ {e})
    BY <1>7 DEF DeleteAllRow
  <2>2. pkOf[e[2]] \in Pk /\ "deleteAll" \in Pcs
    BY <1>0, ObjIs DEF CallTypes, Pcs
  <2>3. /\ tab' \in Table /\ log' \in ChangeSeq
        /\ pc' \in Pcs /\ result' \in Results /\ todo' \subseteq todo
    BY <1>0, <2>1, <2>2, DeleteRowType DEF TxnTypes
  <2>4. TxnTypes'
    BY <1>0, <1>7, <2>3 DEF DeleteAllRow, TxnTypes
  <2>5. CallTypes'
    BY <1>0, <1>7, <2>3 DEF DeleteAllRow, CallTypes
  <2> QED BY <2>4, <2>5, TypePartsNext
<1>8. CASE DeletePrefixRow
  <2>1. PICK e \in todo :
          /\ todo' = todo \ {e}
          /\ log' = IF tab.rows[pkOf[e[2]]] # NoObj
                    THEN Logged(Change(pkOf[e[2]], tab.rows[pkOf[e[2]]], NoObj)) ELSE log
          /\ tab' = Dropped(tab, e[2], query.index)
          /\ pc' \in Pcs
    BY <1>8 DEF DeletePrefixRow, Pcs
  <2>2. e[2] \in Obj /\ pkOf[e[2]] \in Pk /\ tab.rows[pkOf[e[2]]] \in MaybeObj
    BY <1>0, ObjIs, TableParts DEF TxnTypes, CallTypes
  <2>3. tab' \in Table
    BY <1>0, <2>1, <2>2, DroppedType DEF TxnTypes
  <2>4. log' \in ChangeSeq
    BY <1>0, <2>1, <2>2, ObjIs, LoggedIs DEF TxnTypes
  <2>5. TxnTypes'
    BY <1>0, <1>8, <2>3, <2>4 DEF DeletePrefixRow, TxnTypes
  <2>6. CallTypes'
    BY <1>0, <1>8, <2>1 DEF DeletePrefixRow, CallTypes, Results
  <2> QED BY <2>5, <2>6, TypePartsNext
<1>9. CASE DeletePrefixCut
  <2>1. tab' \in Table
    BY <1>0, <1>9, QueryIndex, CutType DEF DeletePrefixCut, TxnTypes, CallTypes
  <2>2. TxnTypes'
    BY <1>0, <1>9, <2>1 DEF DeletePrefixCut, TxnTypes
  <2>3. pc' \in Pcs /\ result' \in Results /\ query' \in Queries
    BY <1>9 DEF DeletePrefixCut, Pcs, Results, Queries
  <2>4. CallTypes'
    BY <1>0, <1>9, <2>3 DEF DeletePrefixCut, CallTypes
  <2> QED BY <2>2, <2>4, TypePartsNext
<1>10. CASE DeleteAllReturns
  <2>1. TxnTypes'
    BY <1>0, <1>10 DEF DeleteAllReturns, TxnTypes
  <2>2. CallTypes'
    BY <1>0, <1>10 DEF DeleteAllReturns, CallTypes, Pcs, Results, Queries
  <2> QED BY <2>1, <2>2, TypePartsNext
<1>11. CASE DeletePrefixFindsNone
  <2>1. TxnTypes'
    BY <1>0, <1>11 DEF DeletePrefixFindsNone, TxnTypes
  <2>2. CallTypes'
    BY <1>0, <1>11 DEF DeletePrefixFindsNone, CallTypes, Pcs, Queries
  <2> QED BY <2>1, <2>2, TypePartsNext
<1>12. CASE TrackChanges
  <2>1. TxnTypes'
    BY <1>0, <1>12, TableParts DEF TrackChanges, TxnTypes
  <2>2. ops' \in 0..MaxOps
    BY <1>0, <1>12, CallCounts DEF TrackChanges, CallTypes
  <2>3. CallTypes'
    BY <1>0, <1>12, <2>2 DEF TrackChanges, CallTypes
  <2> QED BY <2>1, <2>3, TypePartsNext
<1>13. CASE Changes
  <2>1. TxnTypes'
    BY <1>0, <1>13, CollapsedType DEF Changes, TxnTypes
  <2>2. CallTypes'
    BY <1>0, <1>13 DEF Changes, CallTypes
  <2> QED BY <2>1, <2>2, TypePartsNext
<1>14. CASE Commit
  <2>1. TxnTypes'
    BY <1>0, <1>14 DEF Commit, TxnTypes
  <2>2. CallTypes'
    BY <1>0, <1>14 DEF Commit, CallTypes, Pcs
  <2> QED BY <2>1, <2>2, TypePartsNext
<1>15. CASE Abort
  <2>1. TxnTypes'
    BY <1>0, <1>15, EmptyLog DEF Abort, TxnTypes
  <2>2. CallTypes'
    BY <1>0, <1>15 DEF Abort, CallTypes, Pcs
  <2> QED BY <2>1, <2>2, TypePartsNext
<1>16. CASE UNCHANGED vars
  <2>1. TxnTypes' /\ CallTypes'
    BY <1>0, <1>16 DEF vars, TxnTypes, CallTypes
  <2> QED BY <2>1, TypePartsNext
<1>17. CASE Done
  BY <1>16, <1>17 DEF Done
<1> QED BY <1>1, <1>2, <1>3, <1>4, <1>5, <1>6, <1>7, <1>8, <1>9, <1>10, <1>11,
           <1>12, <1>13, <1>14, <1>15, <1>16, <1>17 DEF Next

\* TypeOK: every table keeps the types of its parts through any write, row ids
\* and the next id among them, and the list of changes stays a list of changes
\* (txn.go:281-503, bitmap_index.go:267-347, txn.go:953-1032).  It needs no
\* assumption about queries.
THEOREM TypesHold == Spec => []TypeOK
<1>1. TypeOK /\ [Next]_vars => TypeOK'
  BY NextType
<1> QED BY InitType, <1>1, PTL DEF Spec

----------------------------------------------------------------------------
(* The list of changes is net of the settled rows, in every state.           *)

\* What the code needs of a DeletePrefix on the primary index: it cuts where it
\* scans, or nowhere.  Queries of the other indexes are free.
CutAssumption ==
    \A q \in PrefixQuery : q.index = "id" => q.cut = q.scan \/ q.cut = {}

UnderKey(rows) == \A p \in Pk : rows[p] # NoObj => pkOf[rows[p]] = p

\* Where the loop of DeletePrefix on the primary index is.
IdLoop ==
    pc = "deletePrefix" =>
        /\ query \in PrefixQuery
        /\ query.index = "id" =>
              /\ result \in {"none", "found"}
              /\ result = "none" => todo = Entries(tab, "id", query.scan)
              /\ todo \subseteq Entries(tab, "id", query.scan)

LogNet ==
    /\ UnderKey(root.rows) /\ UnderKey(tab.rows)
    /\ ~tracking => log = <<>>
    /\ pc # "panic" /\ tracking => Net(log, trackRows, SettledRows)
    /\ IdLoop

LogInv == TypeOK /\ LogNet

\* Only the loop of DeletePrefix on the primary index has rows to settle.
LEMMA NoneToSettle ==
    ASSUME tab \in Table, pc # "deletePrefix" \/ query.index # "id"
    PROVE  SettledRows = tab.rows
BY TableParts DEF SettledRows

LEMMA NoneToSettleNext ==
    ASSUME tab' \in Table, pc' # "deletePrefix" \/ query'.index # "id"
    PROVE  SettledRows' = tab'.rows
<1>1. tab'.rows \in [Pk -> MaybeObj]
  BY TableParts
<1> QED BY <1>1 DEF SettledRows

LEMMA StoredUnderKey ==
    ASSUME NEW rows \in [Pk -> MaybeObj], UnderKey(rows),
           NEW p \in Pk, NEW o \in MaybeObj, o # NoObj => pkOf[o] = p
    PROVE  UnderKey(Stored(rows, p, o))
BY DEF UnderKey, Stored

LEMMA NetEmpty ==
    ASSUME NEW rows
    PROVE  Net(<<>>, rows, rows)
<1>1. \A j \in DOMAIN <<>> : FALSE
  OBVIOUS
<1> QED BY <1>1 DEF Net, FirstOf, LastOf

\* A row that is not there is not missed.
LEMMA StoredSame ==
    ASSUME NEW rows \in [Pk -> MaybeObj], NEW p \in Pk
    PROVE  Stored(rows, p, rows[p]) = rows
BY DEF Stored

\* A write of o over the row of p, which is logged if anything was or is there.
LEMMA LogKept ==
    ASSUME LogInv, NEW rows \in [Pk -> MaybeObj],
           tracking => Net(log, trackRows, rows),
           NEW p \in Pk, NEW o \in MaybeObj,
           log' = IF rows[p] # NoObj \/ o # NoObj
                  THEN Logged(Change(p, rows[p], o)) ELSE log
    PROVE  /\ ~tracking => log' = <<>>
           /\ tracking => Net(log', trackRows, Stored(rows, p, o))
<1>1. log \in ChangeSeq /\ trackRows \in [Pk -> MaybeObj]
  BY TypeParts DEF LogInv, TxnTypes
<1>2. ~tracking => log' = <<>>
  BY DEF LogInv, LogNet, Logged
<1>3. ASSUME tracking PROVE Net(log', trackRows, Stored(rows, p, o))
  <2>1. CASE rows[p] # NoObj \/ o # NoObj
    <3>1. log' = Append(log, Change(p, rows[p], o))
      BY <1>3, <2>1 DEF Logged
    <3>2. Net(log, trackRows, rows)
      BY <1>3
    <3>3. Net(Append(log, Change(p, rows[p], o)), trackRows, Stored(rows, p, o))
      BY <1>1, <2>1, <3>2, NetAppend, Zenon
    <3> QED BY <3>1, <3>3
  <2>2. CASE rows[p] = NoObj /\ o = NoObj
    BY <1>3, <2>2, StoredSame
  <2> QED BY <2>1, <2>2
<1> QED BY <1>2, <1>3

\* Delete, by itself or from DeleteAll.
LEMMA DeleteRowLog ==
    ASSUME LogInv, pc \in {"open", "deleteAll"}, NEW p \in Pk,
           NEW next \in {"open", "deleteAll"}, NEW rest, DeleteRow(p, next, rest)
    PROVE  /\ UnderKey(tab'.rows)
           /\ pc' \in {"open", "deleteAll", "panic"}
           /\ ~tracking => log' = <<>>
           /\ pc' # "panic" /\ tracking => Net(log', trackRows, tab'.rows)
<1> DEFINE e == tab.rows[p]
<1>1. tab \in Table /\ tab.rows \in [Pk -> MaybeObj] /\ e \in MaybeObj
  BY TypeParts, TableParts DEF LogInv, TxnTypes
<1>2. SettledRows = tab.rows
  BY <1>1, NoneToSettle
<1>3. tracking => Net(log, trackRows, tab.rows)
  BY <1>2 DEF LogInv, LogNet
<1>4. CASE e = NoObj
  BY <1>3, <1>4 DEF DeleteRow, LogInv, LogNet
<1>5. CASE e # NoObj
  <2>1. e \in Obj /\ pkOf[e] = p
    BY <1>1, <1>5 DEF MaybeObj, LogInv, LogNet, UnderKey
  <2>2. tab'.rows = Stored(tab.rows, p, NoObj)
    <3>1. tab' = Dropped(tab, e, "none")
      BY <1>5 DEF DeleteRow
    <3> HIDE DEF e
    <3> QED BY <1>1, <2>1, <3>1, DroppedType
  <2>3. UnderKey(tab'.rows)
    BY <1>1, <2>2, ObjIs, StoredUnderKey DEF LogInv, LogNet
  <2>4. pc' \in {"open", "deleteAll", "panic"}
    BY <1>5 DEF DeleteRow
  <2>5. CASE pc' = "panic"
    BY <1>5, <2>3, <2>4, <2>5 DEF DeleteRow, LogInv, LogNet
  <2>6. CASE pc' # "panic"
    <3>1. log' = Logged(Change(p, tab.rows[p], NoObj))
      BY <1>5, <2>6 DEF DeleteRow
    <3>2. /\ ~tracking => log' = <<>>
          /\ tracking => Net(log', trackRows, Stored(tab.rows, p, NoObj))
      BY <1>1, <1>3, <1>5, <3>1, ObjIs, LogKept
    <3> QED BY <2>2, <2>3, <2>4, <3>2
  <2> QED BY <2>5, <2>6
<1> QED BY <1>4, <1>5

\* An entry of the primary index that the loop has still to visit.
LEMMA IdVisit ==
    ASSUME LogInv, pc = "deletePrefix", query.index = "id",
           NEW e \in todo, pc' = "deletePrefix", query' = query,
           todo' = todo \ {e}, tab'.rows = tab.rows
    PROVE  /\ SettledRows[pkOf[e[2]]] = tab.rows[pkOf[e[2]]]
           /\ SettledRows' = Stored(SettledRows, pkOf[e[2]], NoObj)
<1>1. tab \in Table
  BY TypeParts DEF LogInv, TxnTypes
<1>2. e \in Entries(tab, "id", query.scan)
  BY DEF LogInv, LogNet, IdLoop
<1>3. PICK x \in Pk : x \in query.scan /\ tab.rows[x] # NoObj /\ e = <<<<x>>, tab.rows[x]>>
  BY <1>2 DEF Entries
<1>4. pkOf[e[2]] = x
  BY <1>3 DEF LogInv, LogNet, UnderKey
<1>5. ASSUME NEW q \in Pk
      PROVE  SettledRows'[q] = IF q = x THEN NoObj ELSE SettledRows[q]
  <2>1. e = <<<<q>>, tab.rows[q]>> <=> q = x
    BY <1>3
  <2>2. (<<<<q>>, tab.rows[q]>>)[1][1] = q
    OBVIOUS
  <2> QED BY <1>3, <2>1, <2>2 DEF SettledRows, Visited
<1>6. SettledRows' = Stored(SettledRows, x, NoObj)
  BY <1>1, <1>5, SettledType DEF SettledRows, Stored
<1>7. SettledRows[x] = tab.rows[x]
  BY <1>3 DEF SettledRows, Visited
<1> QED BY <1>4, <1>6, <1>7

LEMMA PrefixRowLog ==
    ASSUME LogInv, TypeOK', DeletePrefixRow
    PROVE  LogNet'
<1>1. PICK e \in todo :
        /\ todo' = todo \ {e}
        /\ log' = IF tab.rows[pkOf[e[2]]] # NoObj
                  THEN Logged(Change(pkOf[e[2]], tab.rows[pkOf[e[2]]], NoObj)) ELSE log
        /\ tab' = Dropped(tab, e[2], query.index)
        /\ pc' = IF BitmapPanic(tab, e[2], pkOf[e[2]]) THEN "panic" ELSE "deletePrefix"
  BY DEF DeletePrefixRow
<1>2. /\ pc = "deletePrefix" /\ result' = "found"
      /\ root' = root /\ tracking' = tracking /\ query' = query /\ trackRows' = trackRows
  BY DEF DeletePrefixRow
<1> DEFINE p == pkOf[e[2]]
<1>3. /\ tab \in Table /\ tab.rows \in [Pk -> MaybeObj]
      /\ e[2] \in Obj /\ p \in Pk /\ tab.rows[p] \in MaybeObj
      /\ SettledRows \in [Pk -> MaybeObj]
  BY TypeParts, ObjIs, TableParts, SettledType DEF LogInv, TxnTypes, CallTypes
<1>4. tab' \in Table
  BY TypePartsNext DEF TxnTypes
<1>5. tab'.rows = IF query.index = "id" THEN tab.rows ELSE Stored(tab.rows, p, NoObj)
  BY <1>1, <1>3, DroppedType
<1>6. UnderKey(tab.rows) /\ UnderKey(root.rows)
  BY DEF LogInv, LogNet
<1>7. UnderKey(tab'.rows)
  BY <1>3, <1>5, <1>6, ObjIs, StoredUnderKey
<1>8. SettledRows[p] = tab.rows[p]
  <2>1. CASE query.index # "id"
    BY <1>3, <2>1, NoneToSettle
  <2>2. CASE query.index = "id"
    <3>1. e \in Entries(tab, "id", query.scan)
      BY <1>2, <2>2 DEF LogInv, LogNet, IdLoop
    <3>2. PICK x \in Pk : tab.rows[x] # NoObj /\ e = <<<<x>>, tab.rows[x]>>
      BY <3>1 DEF Entries
    <3>3. p = x
      BY <1>6, <3>2 DEF UnderKey
    <3> QED BY <3>2, <3>3 DEF SettledRows, Visited
  <2> QED BY <2>1, <2>2
<1>9. /\ ~tracking => log' = <<>>
      /\ tracking => Net(log', trackRows, Stored(SettledRows, p, NoObj))
  <2>1. tracking => Net(log, trackRows, SettledRows)
    BY <1>2 DEF LogInv, LogNet
  <2>2. log' = IF SettledRows[p] # NoObj \/ NoObj # NoObj
               THEN Logged(Change(p, SettledRows[p], NoObj)) ELSE log
    BY <1>1, <1>8
  <2> HIDE DEF p
  <2> QED BY <1>3, <2>1, <2>2, ObjIs, LogKept
<1>10. ASSUME pc' = "deletePrefix" PROVE SettledRows' = Stored(SettledRows, p, NoObj)
  <2>1. CASE query.index = "id"
    BY <1>1, <1>2, <1>5, <1>10, <2>1, IdVisit
  <2>2. CASE query.index # "id"
    BY <1>2, <1>3, <1>4, <1>5, <2>2, NoneToSettle, NoneToSettleNext
  <2> QED BY <2>1, <2>2
<1>11. IdLoop'
  <2>1. ASSUME query.index = "id", pc' = "deletePrefix"
        PROVE  todo' \subseteq Entries(tab', "id", query.scan)
    <3>1. Entries(tab', "id", query.scan) = Entries(tab, "id", query.scan)
      BY <1>5, <2>1 DEF Entries
    <3> QED BY <1>1, <1>2, <2>1, <3>1 DEF LogInv, LogNet, IdLoop
  <2>2. query \in PrefixQuery
    BY <1>2 DEF LogInv, LogNet, IdLoop
  <2> QED BY <1>2, <2>1, <2>2 DEF IdLoop
<1>12. pc' # "panic" => pc' = "deletePrefix"
  BY <1>1
<1> QED BY <1>2, <1>6, <1>7, <1>9, <1>10, <1>11, <1>12 DEF LogNet

\* The subtree that is cut holds what the loop has visited.
LEMMA CutLog ==
    ASSUME CutAssumption, LogInv, TypeOK', DeletePrefixCut
    PROVE  LogNet'
<1>1. /\ pc = "deletePrefix" /\ todo = {}
      /\ tab' = Cut(tab, query.index, query.cut)
      /\ pc' = IF Entries(tab, query.index, query.cut) # {} THEN "open" ELSE "panic"
      /\ root' = root /\ tracking' = tracking /\ log' = log /\ trackRows' = trackRows
  BY DEF DeletePrefixCut
<1>2. /\ tab \in Table /\ tab' \in Table
      /\ tab.rows \in [Pk -> MaybeObj] /\ query.index \in Index
  BY TypeParts, TypePartsNext, TableParts, QueryIndex DEF LogInv, TxnTypes, CallTypes
<1>3. tab'.rows = IF query.index = "id"
                  THEN [p \in Pk |-> IF p \in query.cut THEN NoObj ELSE tab.rows[p]]
                  ELSE tab.rows
  BY <1>1, <1>2, CutType
<1>4. UnderKey(root'.rows) /\ UnderKey(tab'.rows)
  BY <1>1, <1>3 DEF LogInv, LogNet, UnderKey
<1>5. ASSUME pc' # "panic" PROVE SettledRows = tab'.rows
  <2>1. CASE query.index # "id"
    BY <1>2, <1>3, <2>1, NoneToSettle
  <2>2. CASE query.index = "id"
    <3>1. query.cut # {}
      BY <1>1, <1>5, <2>2 DEF Entries
    <3>2. query \in PrefixQuery
      BY <1>1 DEF LogInv, LogNet, IdLoop
    <3>3. query.cut = query.scan
      BY <2>2, <3>1, <3>2 DEF CutAssumption
    <3>4. \A p \in Pk : (<<<<p>>, tab.rows[p]>>)[1][1] = p
      OBVIOUS
    <3> QED BY <1>1, <1>3, <2>2, <3>3, <3>4 DEF SettledRows, Visited
  <2> QED BY <2>1, <2>2
<1>6. pc' # "deletePrefix"
  BY <1>1
<1>7. SettledRows' = tab'.rows
  BY <1>2, <1>6, NoneToSettleNext
<1>8. IdLoop'
  BY <1>6 DEF IdLoop
<1> QED BY <1>1, <1>4, <1>5, <1>6, <1>7, <1>8 DEF LogInv, LogNet

LEMMA StartLog ==
    ASSUME LogInv, TypeOK', NEW q \in AllQuery \cup PrefixQuery,
           NEW loop \in {"deleteAll", "deletePrefix"}, Start(q, loop),
           loop = "deletePrefix" => q \in PrefixQuery
    PROVE  LogNet'
<1>1. /\ pc = "open" /\ pc' = loop /\ query' = q /\ result' = "none"
      /\ todo' = Entries(tab, q.index, q.scan)
      /\ root' = root /\ tab' = tab /\ tracking' = tracking /\ log' = log
      /\ trackRows' = trackRows
  BY DEF Start, Call
<1>2. tab \in Table /\ q.index \in Index
  BY TypeParts, QueryIndex DEF LogInv, TxnTypes, Queries
<1>3. SettledRows = tab.rows
  BY <1>1, <1>2, NoneToSettle
<1>4. SettledRows' = tab'.rows
  <2>1. CASE loop = "deleteAll"
    BY <1>1, <1>2, <2>1, NoneToSettleNext
  <2>2. CASE loop = "deletePrefix"
    BY <1>1, <1>2, SettledIsTableNext
  <2> QED BY <2>1, <2>2
<1>5. IdLoop'
  BY <1>1 DEF IdLoop
<1> QED BY <1>1, <1>3, <1>4, <1>5 DEF LogInv, LogNet

\* A step that neither writes a row nor runs a loop.
LEMMA LogStays ==
    ASSUME LogInv, TypeOK', pc # "panic",
           pc' \in {"idle", "open"},
           SettledRows = tab.rows, tab' = tab, root' \in {root, tab},
           tracking' = tracking, log' = log, trackRows' = trackRows
    PROVE  LogNet'
<1>1. SettledRows' = tab'.rows
  BY NoneToSettleNext, TypePartsNext DEF TxnTypes
<1>2. IdLoop'
  BY DEF IdLoop
<1> QED BY <1>1, <1>2 DEF LogInv, LogNet

LEMMA NextLog ==
    ASSUME CutAssumption, LogInv, TypeOK', [Next]_vars
    PROVE  LogNet'
<1>0. /\ tab \in Table /\ root \in Table /\ log \in ChangeSeq /\ tab' \in Table
      /\ tab.rows \in [Pk -> MaybeObj]
      /\ UnderKey(root.rows) /\ UnderKey(tab.rows)
  BY TypeParts, TypePartsNext, TableParts DEF LogInv, LogNet, TxnTypes
<1>1. CASE Begin
  <2>1. IdLoop'
    BY <1>1 DEF Begin, IdLoop
  <2> QED BY <1>0, <1>1, <2>1 DEF Begin, LogNet
<1>2. ASSUME NEW o \in Obj, Insert(o) PROVE LogNet'
  <2> DEFINE p == pkOf[o]
             e == tab.rows[p]
  <2>1. /\ pc = "open" /\ root' = root /\ tracking' = tracking /\ trackRows' = trackRows
        /\ pc' \in {"open", "panic"}
        /\ log' = IF pc' = "panic" THEN log ELSE Logged(Change(p, e, o))
    BY <1>2 DEF Insert, Call
  <2>2. tab'.rows = Stored(tab.rows, p, o)
    BY <1>0, <1>2, InsertType
  <2>3. p \in Pk /\ o \in MaybeObj /\ o # NoObj /\ e \in MaybeObj
    BY <1>0, ObjIs
  <2>4. UnderKey(tab'.rows)
    BY <1>0, <2>2, <2>3, StoredUnderKey
  <2>5. SettledRows = tab.rows /\ SettledRows' = tab'.rows
    BY <1>0, <2>1, NoneToSettle, NoneToSettleNext
  <2>6. tracking => Net(log, trackRows, tab.rows)
    BY <2>1, <2>5 DEF LogInv, LogNet
  <2>7. ~tracking => log' = <<>>
    BY <2>1 DEF LogInv, LogNet, Logged
  <2>8. ASSUME pc' # "panic", tracking PROVE Net(log', trackRows, tab'.rows)
    <3>1. log' = IF e # NoObj \/ o # NoObj THEN Logged(Change(p, e, o)) ELSE log
      BY <2>1, <2>3, <2>8
    <3> QED BY <1>0, <2>2, <2>3, <2>6, <2>8, <3>1, LogKept
  <2>9. IdLoop'
    BY <2>1 DEF IdLoop
  <2> QED BY <1>0, <2>1, <2>4, <2>5, <2>7, <2>8, <2>9 DEF LogNet
<1>3. ASSUME NEW o \in Obj, InsertFails(o) PROVE LogNet'
  <2>1. tab' = tab
    BY <1>0, <1>3, InsertFailsType
  <2>2. /\ pc = "open" /\ pc' = pc /\ root' = root
        /\ tracking' = tracking /\ log' = log /\ trackRows' = trackRows
    BY <1>3 DEF InsertFails, Call
  <2>3. SettledRows = tab.rows
    BY <1>0, <2>2, NoneToSettle
  <2> QED BY <2>1, <2>2, <2>3, LogStays
<1>4. ASSUME pc \in {"open", "deleteAll"}, NEW p \in Pk,
             NEW next \in {"open", "deleteAll"}, NEW rest, DeleteRow(p, next, rest),
             root' = root /\ tracking' = tracking /\ trackRows' = trackRows
      PROVE  LogNet'
  <2>1. /\ UnderKey(tab'.rows)
        /\ pc' \in {"open", "deleteAll", "panic"}
        /\ ~tracking => log' = <<>>
        /\ pc' # "panic" /\ tracking => Net(log', trackRows, tab'.rows)
    BY <1>4, DeleteRowLog
  <2>2. SettledRows' = tab'.rows
    BY <1>0, <2>1, NoneToSettleNext
  <2>3. IdLoop'
    BY <2>1 DEF IdLoop
  <2> QED BY <1>0, <1>4, <2>1, <2>2, <2>3 DEF LogNet
<1>5. ASSUME NEW p \in Pk, Delete(p) PROVE LogNet'
  <2>1. /\ pc = "open" /\ DeleteRow(p, "open", {})
        /\ root' = root /\ tracking' = tracking /\ trackRows' = trackRows
    BY <1>5 DEF Delete, Call
  <2> QED BY <1>4, <2>1
<1>6. CASE DeleteAllRow
  <2>1. PICK e \in todo : DeleteRow(pkOf[e[2]], "deleteAll", todo \ {e})
    BY <1>6 DEF DeleteAllRow
  <2>2. pkOf[e[2]] \in Pk
    BY TypeParts, ObjIs DEF LogInv, CallTypes
  <2>3. /\ pc = "deleteAll"
        /\ root' = root /\ tracking' = tracking /\ trackRows' = trackRows
    BY <1>6 DEF DeleteAllRow
  <2> QED BY <1>4, <2>1, <2>2, <2>3
<1>7. ASSUME NEW q \in AllQuery, DeleteAll(q) PROVE LogNet'
  BY <1>7, StartLog DEF DeleteAll
<1>8. ASSUME NEW q \in PrefixQuery, DeletePrefix(q) PROVE LogNet'
  BY <1>8, StartLog DEF DeletePrefix
<1>9. CASE DeletePrefixRow
  BY <1>9, PrefixRowLog
<1>10. CASE DeletePrefixCut
  BY <1>10, CutLog
<1>11. CASE DeleteAllReturns
  <2>1. /\ pc = "deleteAll" /\ pc' = "open" /\ root' = root /\ tab' = tab
        /\ tracking' = tracking /\ log' = log /\ trackRows' = trackRows
    BY <1>11 DEF DeleteAllReturns
  <2>2. SettledRows = tab.rows
    BY <1>0, <2>1, NoneToSettle
  <2> QED BY <2>1, <2>2, LogStays
<1>12. CASE DeletePrefixFindsNone
  <2>1. /\ pc = "deletePrefix" /\ pc' = "open" /\ root' = root /\ tab' = tab
        /\ todo = {} /\ result = "none"
        /\ tracking' = tracking /\ log' = log /\ trackRows' = trackRows
    BY <1>12 DEF DeletePrefixFindsNone
  <2>2. SettledRows = tab.rows
    <3>1. CASE query.index # "id"
      BY <1>0, <3>1, NoneToSettle
    <3>2. CASE query.index = "id"
      <4>1. todo = Entries(tab, query.index, query.scan) /\ query.index \in Index
        BY <2>1, <3>2 DEF LogInv, LogNet, IdLoop, Index
      <4> QED BY <1>0, <4>1, SettledIsTable
    <3> QED BY <3>1, <3>2
  <2> QED BY <2>1, <2>2, LogStays
<1>13. CASE TrackChanges
  <2>1. /\ pc = "open" /\ pc' = "open" /\ root' = root /\ tab' = tab
        /\ tracking' = TRUE /\ log' = log
        /\ trackRows' = IF tracking THEN trackRows ELSE tab.rows
    BY <1>13 DEF TrackChanges, Call
  <2>2. SettledRows = tab.rows /\ SettledRows' = tab.rows
    BY <1>0, <2>1, NoneToSettle, NoneToSettleNext
  <2>3. Net(log', trackRows', tab.rows)
    <3>1. CASE tracking
      BY <2>1, <2>2, <3>1 DEF LogInv, LogNet
    <3>2. CASE ~tracking
      BY <2>1, <3>2, NetEmpty DEF LogInv, LogNet
    <3> QED BY <3>1, <3>2
  <2>4. IdLoop'
    BY <2>1 DEF IdLoop
  <2> QED BY <1>0, <2>1, <2>2, <2>3, <2>4 DEF LogNet
<1>14. CASE Changes
  <2>1. /\ pc \in {"open", "idle"} /\ pc' = pc /\ root' = root /\ tab' = tab
        /\ tracking /\ tracking' = tracking /\ trackRows' = trackRows
        /\ log' = Collapsed(log)
    BY <1>14 DEF Changes
  <2>2. SettledRows = tab.rows /\ SettledRows' = tab.rows
    BY <1>0, <2>1, NoneToSettle, NoneToSettleNext
  <2>3. Net(log, trackRows, tab.rows)
    BY <2>1, <2>2 DEF LogInv, LogNet
  <2>4. Net(log', trackRows, tab.rows)
    BY <1>0, <2>1, <2>3, CollapsedIsExact, ExactIsNet
  <2>5. IdLoop'
    BY <2>1 DEF IdLoop
  <2> QED BY <1>0, <2>1, <2>2, <2>4, <2>5 DEF LogNet
<1>15. CASE Commit
  <2>1. /\ pc = "open" /\ pc' = "idle" /\ root' = tab /\ tab' = tab
        /\ tracking' = tracking /\ log' = log /\ trackRows' = trackRows
    BY <1>15 DEF Commit
  <2>2. SettledRows = tab.rows
    BY <1>0, <2>1, NoneToSettle
  <2> QED BY <2>1, <2>2, LogStays
<1>16. CASE Abort
  <2>1. IdLoop'
    BY <1>16 DEF Abort, IdLoop
  <2> QED BY <1>0, <1>16, <2>1 DEF Abort, LogNet
<1>17. CASE UNCHANGED vars
  <2>1. SettledRows' = SettledRows
    BY <1>17 DEF vars, SettledRows, Visited
  <2> QED BY <1>17, <2>1 DEF vars, LogInv, LogNet, IdLoop
<1>18. CASE Done
  BY <1>17, <1>18 DEF Done
<1> QED BY <1>1, <1>2, <1>3, <1>5, <1>6, <1>7, <1>8, <1>9, <1>10, <1>11, <1>12,
           <1>13, <1>14, <1>15, <1>16, <1>17, <1>18 DEF Next

LEMMA InitLog == Init => LogNet
BY EmptyType DEF Init, LogNet, IdLoop, UnderKey

LEMMA LogInvHolds == CutAssumption => (Spec => []LogInv)
<1> SUFFICES ASSUME CutAssumption PROVE Spec => []LogInv
  OBVIOUS
<1>1. Init => LogInv
  BY InitType, InitLog DEF LogInv
<1>2. LogInv /\ [Next]_vars => LogInv'
  <2> SUFFICES ASSUME LogInv, [Next]_vars PROVE LogInv'
    OBVIOUS
  <2>1. TypeOK'
    BY NextType DEF LogInv
  <2>2. LogNet'
    BY <2>1, NextLog
  <2> QED BY <2>1, <2>2 DEF LogInv
<1> QED BY <1>1, <1>2, PTL DEF Spec

LEMMA LogInvNet == LogInv => ChangesAreNet
<1> SUFFICES ASSUME LogInv, AtRest, tracking
             PROVE  Exact(Collapsed(log), trackRows, tab.rows)
  BY DEF ChangesAreNet, Exact
<1>1. tab \in Table /\ log \in ChangeSeq
  BY TypeParts DEF LogInv, TxnTypes
<1>2. pc # "panic" /\ pc # "deletePrefix"
  BY DEF AtRest
<1>3. SettledRows = tab.rows
  BY <1>1, <1>2, NoneToSettle
<1>4. Net(log, trackRows, tab.rows)
  BY <1>2, <1>3 DEF LogInv, LogNet
<1> QED BY <1>1, <1>4, CollapsedIsExact

\* ChangesAreNet: whenever Changes can be called, during the transaction or
\* after it, the list it returns is the net effect since tracking began, one
\* change for each object that differs and none for one that came and went,
\* however often the list was collapsed before and appended to since
\* (txn.go:953-1032).
THEOREM ChangesExact == CutAssumption => (Spec => []ChangesAreNet)
<1> SUFFICES ASSUME CutAssumption PROVE Spec => []ChangesAreNet
  OBVIOUS
<1> QED BY LogInvHolds, LogInvNet, PTL
=============================================================================
