---------------------------- MODULE EpochsProofs ----------------------------
(* Theorems about Epochs, for any databases, nodes and epochs.               *)
EXTENDS Epochs, TLAPS

\* Epochs are drawn before they are used; what is referred to exists.
TypeInv ==
    /\ drawn \in Nat
    /\ writer \in [DB -> 0..drawn]
    /\ \A n \in DOMAIN node : node[n].epoch \in 0..drawn
    /\ root \in [DB -> SUBSET DOMAIN node]
    /\ cur \in [DB -> SUBSET DOMAIN node]
    /\ open \subseteq DB
    /\ \A s \in kept : DOMAIN s \subseteq DOMAIN node

\* A database without a write transaction has a writer that owns nothing.
Released == \A d \in DB \ open : writer[d] = 0 /\ cur[d] = {}

\* No two writers draw the same epoch.
Distinct == \A d, e \in DB : d # e /\ writer[d] # 0 => writer[d] # writer[e]

\* Nobody else can see what a writer owns.
OwnedIsPrivate ==
    \A d \in DB : writer[d] # 0 =>
        \A n \in Shared(d) : node[n].epoch # writer[d]

IInv == TypeInv /\ Released /\ Distinct /\ OwnedIsPrivate /\ Stable

----------------------------------------------------------------------------
\* What others can see exists.
LEMMA SharedExists == TypeInv => \A d \in DB : Shared(d) \subseteq DOMAIN node
<1> SUFFICES ASSUME TypeInv, NEW d \in DB, NEW n \in Shared(d)
             PROVE  n \in DOMAIN node
  OBVIOUS
<1>1. CASE \E e \in DB : n \in root[e]
  BY <1>1 DEF TypeInv
<1>2. CASE \E e \in DB \ {d} : n \in cur[e]
  BY <1>2 DEF TypeInv
<1>3. CASE \E s \in kept : n \in DOMAIN s
  BY <1>3 DEF TypeInv
<1> QED BY <1>1, <1>2, <1>3 DEF Shared

LEMMA SharedExistsNext == (TypeInv => \A d \in DB : Shared(d) \subseteq DOMAIN node)'
BY SharedExists, PTL

\* A step that changes no node, makes nodes for nobody, and lets nobody see what
\* is still another's, keeps the invariant.
LEMMA QuietStep ==
    ASSUME IInv, Collected, Unchanged, Made(0),
           drawn' = drawn, open' \subseteq DB,
           writer' \in [DB -> Nat],
           root' \in [DB -> SUBSET (Old \cup New)],
           cur' \in [DB -> SUBSET (Old \cup New)],
           \A d \in DB : writer'[d] \in {0, writer[d]},
           \A d \in DB : writer'[d] # 0 => Shared(d)' \subseteq Shared(d) \cup New,
           \A d \in DB \ open' : writer'[d] = 0 /\ cur'[d] = {},
           \A s \in kept' \ kept : s = [n \in DOMAIN s |-> node'[n]]
    PROVE  IInv'
<1> USE DEF IInv
<1>1. TypeInv'
  <2>1. writer' \in [DB -> 0..drawn']
    BY DEF TypeInv
  <2>2. ASSUME NEW n \in DOMAIN node' PROVE node'[n].epoch \in 0..drawn'
    <3>1. CASE n \in New
      BY <3>1 DEF Made, TypeInv
    <3>2. CASE n \in Old
      BY <3>2 DEF Unchanged, Old, TypeInv
    <3> QED BY <3>1, <3>2 DEF New, Old
  <2>3. root' \in [DB -> SUBSET DOMAIN node'] /\ cur' \in [DB -> SUBSET DOMAIN node']
    <3>1. \A d \in DB : root'[d] \subseteq DOMAIN node' /\ cur'[d] \subseteq DOMAIN node'
      BY DEF Collected
    <3> QED BY <3>1
  <2>4. \A s \in kept' : DOMAIN s \subseteq DOMAIN node'
    BY DEF Collected
  <2> QED BY <2>1, <2>2, <2>3, <2>4 DEF TypeInv
<1>2. Released'
  BY DEF Released
<1>3. Distinct'
  <2> SUFFICES ASSUME NEW d \in DB, NEW e \in DB, d # e, writer'[d] # 0
               PROVE  writer'[d] # writer'[e]
    BY DEF Distinct
  <2> QED BY DEF Distinct
<1>4. OwnedIsPrivate'
  <2> SUFFICES ASSUME NEW d \in DB, writer'[d] # 0, NEW n \in Shared(d)'
               PROVE  node'[n].epoch # writer'[d]
    BY DEF OwnedIsPrivate
  <2>1. writer'[d] = writer[d]
    OBVIOUS
  <2>2. n \in DOMAIN node'
    BY <1>1, SharedExistsNext
  <2>3. CASE n \in New
    BY <2>3 DEF Made
  <2>4. CASE n \in Shared(d)
    <3>1. n \in Old
      BY <2>4, SharedExists DEF Old
    <3> QED BY <2>1, <2>2, <2>4, <3>1 DEF Unchanged, OwnedIsPrivate
  <2> QED BY <2>3, <2>4
<1>5. Stable'
  <2> SUFFICES ASSUME NEW s \in kept', NEW n \in DOMAIN s
               PROVE  n \in DOMAIN node' /\ node'[n] = s[n]
    BY DEF Stable
  <2>1. n \in DOMAIN node'
    BY DEF Collected
  <2>2. CASE s \in kept
    BY <2>1, <2>2 DEF Stable, Unchanged, Old
  <2>3. CASE s \notin kept
    BY <2>1, <2>3
  <2> QED BY <2>1, <2>2, <2>3
<1> QED BY <1>1, <1>2, <1>3, <1>4, <1>5

----------------------------------------------------------------------------
(* The actions.                                                            *)

LEMMA BeginKeeps ==
    ASSUME IInv, Collected, NEW d \in DB, Begin(d)
    PROVE  IInv'
<1> USE DEF IInv, TypeInv
<1>1. cur' = [cur EXCEPT ![d] = root[d]] /\ root' = root /\ kept' = kept /\ writer' = writer
      /\ drawn' = drawn /\ open' = open \cup {d} /\ Unchanged /\ New = {}
  BY DEF Begin
<1>2. \A e \in DB : Shared(e)' \subseteq Shared(e)
  BY <1>1 DEF Shared
<1>3. \A e \in DB \ open' : writer'[e] = 0 /\ cur'[e] = {}
  BY <1>1 DEF Released
<1> QED BY <1>1, <1>2, <1>3, QuietStep DEF Made, Old

LEMMA EmptiesKeeps ==
    ASSUME IInv, Collected, NEW d \in DB, Empties(d)
    PROVE  IInv'
<1> USE DEF IInv, TypeInv
<1>1. cur' = [cur EXCEPT ![d] = cur'[d]] /\ cur'[d] \subseteq cur[d]
      /\ root' = root /\ kept' = kept /\ writer' = writer
      /\ drawn' = drawn /\ open' = open /\ Unchanged /\ New = {} /\ d \in open
  BY DEF Empties, Becomes
<1>2. \A e \in DB : Shared(e)' \subseteq Shared(e)
  BY <1>1 DEF Shared
<1>3. \A e \in DB \ open' : writer'[e] = 0 /\ cur'[e] = {}
  BY <1>1 DEF Released
<1> QED BY <1>1, <1>2, <1>3, QuietStep DEF Made, Old

\* Commit and Abort: what the transaction had becomes visible, or goes, and its
\* writer is frozen.
LEMMA ReleaseKeeps ==
    ASSUME IInv, Collected, NEW d \in DB, Commit(d) \/ Abort(d)
    PROVE  IInv'
<1> USE DEF IInv, TypeInv
<1>1. cur' = [cur EXCEPT ![d] = {}] /\ kept' = kept /\ writer' = [writer EXCEPT ![d] = 0]
      /\ drawn' = drawn /\ open' = open \ {d} /\ Unchanged /\ New = {}
      /\ root' \in {root, [root EXCEPT ![d] = cur[d]]}
  BY DEF Commit, Abort, Release
<1>2. \A e \in DB : writer'[e] # 0 => Shared(e)' \subseteq Shared(e)
  <2> SUFFICES ASSUME NEW e \in DB, writer'[e] # 0
               PROVE  Shared(e)' \subseteq Shared(e)
    OBVIOUS
  <2>1. e # d
    BY <1>1
  <2>2. \A x \in DB : root'[x] \subseteq Shared(e)
    BY <1>1, <2>1 DEF Shared
  <2>3. \A x \in DB \ {e} : cur'[x] \subseteq Shared(e)
    BY <1>1 DEF Shared
  <2>4. \A s \in kept' : DOMAIN s \subseteq Shared(e)
    BY <1>1 DEF Shared
  <2> QED BY <2>2, <2>3, <2>4 DEF Shared
<1>3. \A e \in DB \ open' : writer'[e] = 0 /\ cur'[e] = {}
  BY <1>1 DEF Released
<1>4. /\ writer' \in [DB -> Nat]
      /\ \A e \in DB : writer'[e] \in {0, writer[e]}
  BY <1>1
<1>5. root' \in [DB -> SUBSET (Old \cup New)] /\ cur' \in [DB -> SUBSET (Old \cup New)]
  BY <1>1 DEF Old
<1> QED BY <1>1, <1>2, <1>3, <1>4, <1>5, QuietStep DEF Made

LEMMA CloneKeeps ==
    ASSUME IInv, Collected, NEW d \in DB, NEW new \in DB, Clone(d, new)
    PROVE  IInv'
<1> USE DEF IInv, TypeInv
<1>1. root' = [root EXCEPT ![new] = root[d]] /\ cur' = cur /\ kept' = kept
      /\ writer' = writer /\ drawn' = drawn /\ open' = open /\ Unchanged /\ New = {}
  BY DEF Clone
<1>2. \A e \in DB : Shared(e)' \subseteq Shared(e)
  BY <1>1 DEF Shared
<1>3. \A e \in DB \ open' : writer'[e] = 0 /\ cur'[e] = {}
  BY <1>1 DEF Released
<1>4. root' \in [DB -> SUBSET (Old \cup New)] /\ cur' \in [DB -> SUBSET (Old \cup New)]
  BY <1>1 DEF Old
<1> QED BY <1>1, <1>2, <1>3, <1>4, QuietStep DEF Made

\* What readers keep is of a version that all can see, or of a transaction whose
\* writer is frozen in the same step.
LEMMA KeepsKeeps ==
    ASSUME IInv, Collected, NEW from, Keeps(from),
           writer' \in [DB -> Nat],
           \A d \in DB : writer'[d] \in {0, writer[d]},
           \A d \in DB : writer'[d] # 0 => from \subseteq Shared(d)
    PROVE  IInv'
<1> USE DEF IInv, TypeInv
<1>1. root' = root /\ cur' = cur /\ drawn' = drawn /\ open' = open /\ Unchanged /\ Made(0)
  BY DEF Keeps
<1>2. PICK s \in kept' : /\ kept' = kept \cup {s}
                         /\ DOMAIN s \subseteq from \cup New
                         /\ s = [n \in DOMAIN s |-> node'[n]]
  BY DEF Keeps
<1>3. \A d \in DB : writer'[d] # 0 => Shared(d)' \subseteq Shared(d) \cup New
  BY <1>1, <1>2 DEF Shared
<1>4. \A d \in DB \ open' : writer'[d] = 0 /\ cur'[d] = {}
  BY <1>1 DEF Released
<1>5. root' \in [DB -> SUBSET (Old \cup New)] /\ cur' \in [DB -> SUBSET (Old \cup New)]
  BY <1>1 DEF Old
<1>6. \A t \in kept' \ kept : t = [n \in DOMAIN t |-> node'[n]]
  BY <1>2
<1> QED BY <1>1, <1>3, <1>4, <1>5, <1>6, QuietStep

LEMMA ReadKeeps ==
    ASSUME IInv, Collected, NEW d \in DB, Read(d)
    PROVE  IInv'
<1>1. Keeps(root[d]) /\ writer' = writer
  BY DEF Read
<1>2. \A e \in DB : root[d] \subseteq Shared(e)
  BY DEF Shared
<1> QED BY <1>1, <1>2, KeepsKeeps DEF IInv, TypeInv

LEMMA TakeKeeps ==
    ASSUME IInv, Collected, NEW d \in DB, Take(d)
    PROVE  IInv'
<1>1. Keeps(cur[d]) /\ writer' = [writer EXCEPT ![d] = 0]
  BY DEF Take
<1>2. \A e \in DB : writer'[e] # 0 => cur[d] \subseteq Shared(e)
  BY <1>1 DEF Shared, IInv, TypeInv
<1>3. /\ writer' \in [DB -> Nat]
      /\ \A e \in DB : writer'[e] \in {0, writer[e]}
  BY <1>1 DEF IInv, TypeInv
<1> QED BY <1>1, <1>2, <1>3, KeepsKeeps

LEMMA CombineKeeps ==
    ASSUME IInv, Collected, NEW s \in kept, NEW t \in kept, Combine(s, t)
    PROVE  IInv'
<1>1. Keeps(DOMAIN s \cup DOMAIN t) /\ writer' = writer
  BY DEF Combine
<1>2. \A e \in DB : DOMAIN s \cup DOMAIN t \subseteq Shared(e)
  BY DEF Shared
<1> QED BY <1>1, <1>2, KeepsKeeps DEF IInv, TypeInv

\* The nodes of the epoch a transaction writes in are seen by nobody else: its
\* own if its writer has one, and none at all if it draws a new one.
LEMMA EpochIsPrivate ==
    ASSUME IInv, NEW d \in DB, NEW n \in Shared(d)
    PROVE  node[n].epoch # EpochOf(d)
<1> USE DEF IInv
<1>1. n \in DOMAIN node
  BY SharedExists
<1>2. CASE writer[d] = 0
  BY <1>1, <1>2 DEF TypeInv, EpochOf
<1>3. CASE writer[d] # 0
  BY <1>3 DEF OwnedIsPrivate, EpochOf
<1> QED BY <1>2, <1>3

LEMMA WriteKeeps ==
    ASSUME IInv, Collected, NEW d \in DB, Write(d)
    PROVE  IInv'
<1> USE DEF IInv
<1> DEFINE e == EpochOf(d)
<1>1. /\ d \in open /\ Changed(e) /\ Made(e)
      /\ cur'[d] \subseteq cur[d] \cup New /\ cur' = [cur EXCEPT ![d] = cur'[d]]
      /\ writer' = [writer EXCEPT ![d] = e]
      /\ drawn' = (IF writer[d] = 0 THEN drawn + 1 ELSE drawn)
      /\ root' = root /\ open' = open /\ kept' = kept
  BY DEF Write, Becomes
<1>2. /\ drawn \in Nat /\ drawn' \in Nat /\ e \in 1..drawn' /\ drawn <= drawn'
      /\ \A x \in DB : writer[x] \in 0..drawn
  BY <1>1 DEF TypeInv, EpochOf
<1>3. \A n \in Shared(d) : n \in DOMAIN node /\ node[n].epoch # e
  BY SharedExists, EpochIsPrivate
<1> HIDE DEF e
<1>4. \A n \in Shared(d) : n \in DOMAIN node' => node'[n] = node[n]
  BY <1>1, <1>3 DEF Changed, Old
<1>5. TypeInv'
  <2>1. writer' \in [DB -> 0..drawn']
    BY <1>1, <1>2 DEF TypeInv
  <2>2. ASSUME NEW n \in DOMAIN node' PROVE node'[n].epoch \in 0..drawn'
    <3>1. CASE n \in New
      BY <1>1, <1>2, <3>1 DEF Made
    <3>2. CASE n \in Old /\ node'[n] = node[n]
      <4>1. node[n].epoch \in 0..drawn
        BY <3>2 DEF TypeInv, Old
      <4> QED BY <1>2, <3>2, <4>1
    <3>3. CASE n \in Old /\ node'[n] # node[n]
      BY <1>1, <1>2, <3>3 DEF Changed
    <3> QED BY <3>1, <3>2, <3>3 DEF New, Old
  <2>3. root' \in [DB -> SUBSET DOMAIN node'] /\ cur' \in [DB -> SUBSET DOMAIN node']
    <3>1. \A x \in DB : root'[x] \subseteq DOMAIN node' /\ cur'[x] \subseteq DOMAIN node'
      BY DEF Collected
    <3> QED BY <1>1, <3>1 DEF TypeInv
  <2>4. \A s \in kept' : DOMAIN s \subseteq DOMAIN node'
    BY DEF Collected
  <2> QED BY <1>1, <1>2, <2>1, <2>2, <2>3, <2>4 DEF TypeInv
<1>6. Released'
  BY <1>1 DEF Released, TypeInv
<1>7. Distinct'
  <2>1. \A x \in DB \ {d} : writer[x] # e
    BY <1>2 DEF e, EpochOf, Distinct
  <2>2. writer'[d] = e /\ \A x \in DB \ {d} : writer'[x] = writer[x]
    BY <1>1 DEF TypeInv
  <2> QED BY <2>1, <2>2 DEF Distinct
<1>8. OwnedIsPrivate'
  <2> SUFFICES ASSUME NEW x \in DB, writer'[x] # 0, NEW n \in Shared(x)'
               PROVE  node'[n].epoch # writer'[x]
    BY DEF OwnedIsPrivate
  <2>0. n \in DOMAIN node'
    BY <1>5, SharedExistsNext
  <2>1. CASE x = d
    <3>1. n \in Shared(d) /\ writer'[d] = e
      BY <1>1, <2>1 DEF Shared, TypeInv
    <3> QED BY <1>3, <1>4, <2>0, <2>1, <3>1
  <2>2. CASE x # d
    <3>1. writer'[x] = writer[x] /\ writer[x] # e
      BY <1>1, <1>2, <2>2 DEF TypeInv, e, EpochOf, Distinct
    <3>2. n \in Shared(x) \/ n \in New
      BY <1>1, <2>2 DEF Shared, TypeInv
    <3>3. CASE n \in New
      BY <1>1, <3>1, <3>3 DEF Made
    <3>4. CASE n \in Shared(x)
      <4>1. n \in Old
        BY <3>4, SharedExists DEF Old
      <4>2. node[n].epoch # writer[x]
        BY <3>1, <3>4 DEF OwnedIsPrivate
      <4> QED BY <1>1, <2>0, <3>1, <4>1, <4>2 DEF Changed
    <3> QED BY <3>2, <3>3, <3>4
  <2> QED BY <2>1, <2>2
<1>9. Stable'
  <2> SUFFICES ASSUME NEW s \in kept', NEW n \in DOMAIN s
               PROVE  n \in DOMAIN node' /\ node'[n] = s[n]
    BY DEF Stable
  <2>1. n \in DOMAIN node' /\ n \in Shared(d)
    BY <1>1 DEF Collected, Shared
  <2> QED BY <1>1, <1>4, <2>1 DEF Stable
<1> QED BY <1>5, <1>6, <1>7, <1>8, <1>9

----------------------------------------------------------------------------
LEMMA InitHolds == Init => IInv
BY DEF Init, IInv, TypeInv, Released, Distinct, OwnedIsPrivate, Stable

LEMMA StutterKeeps == IInv /\ UNCHANGED evars => IInv'
BY DEF evars, IInv, TypeInv, Released, Distinct, OwnedIsPrivate, Stable, Shared

LEMMA NextKeeps == IInv /\ [Next]_evars => IInv'
<1> SUFFICES ASSUME IInv, [Next]_evars PROVE IInv'
  OBVIOUS
<1>1. CASE UNCHANGED evars
  BY <1>1, StutterKeeps
<1>2. CASE Next
  <2>0. Collected
    BY <1>2 DEF Next
  <2>1. CASE \E d \in DB : Begin(d)
    BY <2>0, <2>1, BeginKeeps
  <2>2. CASE \E d \in DB : Write(d)
    BY <2>0, <2>2, WriteKeeps
  <2>3. CASE \E d \in DB : Empties(d)
    BY <2>0, <2>3, EmptiesKeeps
  <2>4. CASE \E d \in DB : Commit(d) \/ Abort(d)
    BY <2>0, <2>4, ReleaseKeeps
  <2>5. CASE \E d \in DB : Read(d)
    BY <2>0, <2>5, ReadKeeps
  <2>6. CASE \E d \in DB : Take(d)
    BY <2>0, <2>6, TakeKeeps
  <2>7. CASE \E d, new \in DB : Clone(d, new)
    BY <2>0, <2>7, CloneKeeps
  <2>8. CASE \E s, t \in kept : Combine(s, t)
    BY <2>0, <2>8, CombineKeeps
  <2> QED BY <1>2, <2>1, <2>2, <2>3, <2>4, <2>5, <2>6, <2>7, <2>8 DEF Next
<1> QED BY <1>1, <1>2

\* The inductive invariant: what a writer owns, nobody else can see.
THEOREM Inductive == Spec => []IInv
BY InitHolds, NextKeeps, PTL DEF Spec

\* Stable: what a reader keeps, it sees unchanged for as long as it keeps it,
\* though transactions go on changing nodes in place (bitmap.go:121-124,
\* bitmap_index.go:348-352).
THEOREM KeptIsStable == Spec => []Stable
<1>1. IInv => Stable
  BY DEF IInv
<1> QED BY Inductive, <1>1, PTL

LEMMA StepChangesPrivate ==
    ASSUME IInv, [Next]_evars,
           NEW n \in Old \cap DOMAIN node', node'[n] # node[n]
    PROVE  \E d \in open : n \notin Shared(d)
<1>1. Next
  BY DEF evars
<1>2. PICK d \in DB : Write(d)
  <2>1. ~ Unchanged
    BY DEF Unchanged
  <2> QED BY <1>1, <2>1 DEF Next, Begin, Empties, Commit, Abort, Release, Clone, Read,
             Take, Combine, Keeps
<1>3. d \in open /\ node[n].epoch = EpochOf(d)
  BY <1>2 DEF Write, Changed
<1> QED BY <1>3, EpochIsPrivate DEF IInv, TypeInv

\* ChangesPrivate: a node that a step changes in place is a write transaction's,
\* and in no published version, row set or other transaction (Writer.own,
\* bitmap.go:139-155, pvec.go:128-160).
THEOREM OnlyPrivateChanges == Spec => ChangesPrivate
<1>1. IInv /\ [Next]_evars =>
        [\A n \in Old \cap DOMAIN node' :
            node'[n] # node[n] => \E d \in open : n \notin Shared(d)]_evars
  BY StepChangesPrivate
<1> QED BY Inductive, <1>1, PTL DEF Spec, ChangesPrivate
=============================================================================
