---------------------------- MODULE CachesProofs ----------------------------
(* Theorems about Caches, for any number of goroutines, schemas, handles,    *)
(* types and field names and any hash.                                       *)
EXTENDS Caches, TLAPS

\* A resolution or a location is true wherever it is stored: it says what a
\* lookup of its own key would say.
TrueRef(r, h) == r.ref = refOf[r.schema][h]
TrueLoc(fi)   == fi.loc = locOf[fi.typ][fi.name]

CachesTrue ==
    /\ \A h \in Handle : resolved[h] # Nil => TrueRef(resolved[h], h)
    /\ \A e \in Extractor : field[e] # Nil => TrueLoc(field[e])
    /\ \A s \in Slot : fieldCache[s] # Nil => TrueLoc(fieldCache[s])

\* What a goroutine has loaded stays true after the cache it came from has
\* been overwritten, because what a pointer points to never changes.
LoadedTrue ==
    \A p \in Proc :
        /\ pc[p] = "checkHandle" =>
              /\ got[p] \in Resolution \cup {Nil}
              /\ got[p] # Nil => TrueRef(got[p], args[p].handle)
        /\ pc[p] \in {"checkOwn", "checkSlot"} =>
              /\ got[p] \in FieldInfo \cup {Nil}
              /\ got[p] # Nil => TrueLoc(got[p])

\* What a goroutine is about to store or return answers its own call.
AnswerTrue ==
    \A p \in Proc :
        /\ pc[p] = "resolved" => ret[p] = refOf[args[p].schema][args[p].handle]
        /\ pc[p] \in {"storeOwn", "found"} =>
              /\ ret[p] \in FieldInfo
              /\ ret[p].typ = args[p].typ
              /\ ret[p].name = args[p].name
              /\ TrueLoc(ret[p])

IInv == TypeOK /\ CachesTrue /\ LoadedTrue /\ AnswerTrue

USE RefAssumption, LocAssumption, SlotAssumption, ThrowAssumption, NilAssumption

LEMMA InitIInv == Init => IInv
  BY DEF Init, IInv, TypeOK, CachesTrue, LoadedTrue, AnswerTrue, InResolve, InField

\* keyHandle.resolve keeps the invariant.
LEMMA ResolveSteps ==
    ASSUME IInv, NEW p \in Proc,
           CallResolve(p) \/ LoadHandle(p) \/ HandleHit(p) \/ HandleFails(p) \/ HandleMiss(p)
    PROVE  IInv'
<1>1. CASE CallResolve(p)
  <2> USE <1>1 DEF CallResolve, caches
  <2>1. TypeOK'
    BY DEF IInv, TypeOK, InResolve, InField
  <2>2. CachesTrue'
    BY DEF IInv, CachesTrue, TrueRef, TrueLoc
  <2>3. LoadedTrue'
    BY DEF IInv, TypeOK, LoadedTrue, TrueRef, TrueLoc
  <2>4. AnswerTrue'
    BY DEF IInv, TypeOK, AnswerTrue, TrueLoc
  <2> QED BY <2>1, <2>2, <2>3, <2>4 DEF IInv
<1>2. CASE LoadHandle(p)
  <2> USE <1>2 DEF LoadHandle, caches
  <2>1. TypeOK'
    BY DEF IInv, TypeOK, InResolve, InField, HandleArgs
  <2>2. CachesTrue'
    BY DEF IInv, CachesTrue, TrueRef, TrueLoc
  <2>3. LoadedTrue'
    <3>1. args[p].handle \in Handle
      BY DEF IInv, TypeOK, InResolve, HandleArgs
    <3>2. /\ got'[p] \in Resolution \cup {Nil}
          /\ got'[p] # Nil => TrueRef(got'[p], args[p].handle)
      BY <3>1 DEF IInv, TypeOK, CachesTrue
    <3>3. \A q \in Proc : q # p => pc'[q] = pc[q] /\ got'[q] = got[q]
      BY DEF IInv, TypeOK
    <3>4. pc'[p] = "checkHandle" /\ args' = args
      BY DEF IInv, TypeOK
    <3>5. \A r, k : TrueRef(r, k)' <=> TrueRef(r, k)
      BY DEF TrueRef
    <3>6. \A r : TrueLoc(r)' <=> TrueLoc(r)
      BY DEF TrueLoc
    <3> QED BY <3>2, <3>3, <3>4, <3>5, <3>6 DEF IInv, LoadedTrue
  <2>4. AnswerTrue'
    BY DEF IInv, TypeOK, AnswerTrue, TrueLoc
  <2> QED BY <2>1, <2>2, <2>3, <2>4 DEF IInv
<1>3. CASE HandleHit(p)
  <2> USE <1>3 DEF HandleHit, caches
  <2>1. TypeOK'
    BY DEF IInv, TypeOK, InResolve, InField, LoadedTrue, Resolution, Resolves
  <2>2. CachesTrue'
    BY DEF IInv, CachesTrue, TrueRef, TrueLoc
  <2>3. LoadedTrue'
    BY DEF IInv, TypeOK, LoadedTrue, TrueRef, TrueLoc
  <2>4. AnswerTrue'
    BY DEF IInv, TypeOK, AnswerTrue, TrueLoc, LoadedTrue, TrueRef, Resolves
  <2> QED BY <2>1, <2>2, <2>3, <2>4 DEF IInv
<1>4. CASE HandleFails(p)
  <2> USE <1>4 DEF HandleFails, caches
  <2>1. TypeOK'
    BY DEF IInv, TypeOK, InResolve, InField
  <2>2. CachesTrue'
    BY DEF IInv, CachesTrue, TrueRef, TrueLoc
  <2>3. LoadedTrue'
    BY DEF IInv, TypeOK, LoadedTrue, TrueRef, TrueLoc
  <2>4. AnswerTrue'
    BY DEF IInv, TypeOK, AnswerTrue, TrueLoc
  <2> QED BY <2>1, <2>2, <2>3, <2>4 DEF IInv
<1>5. CASE HandleMiss(p)
  <2> USE <1>5 DEF HandleMiss, caches
  <2>1. TypeOK'
    BY DEF IInv, TypeOK, InResolve, InField, HandleArgs, Resolution
  <2>2. CachesTrue'
    BY DEF IInv, CachesTrue, TrueRef, TrueLoc, TypeOK, InResolve, HandleArgs
  <2>3. LoadedTrue'
    BY DEF IInv, TypeOK, LoadedTrue, TrueRef, TrueLoc
  <2>4. AnswerTrue'
    BY DEF IInv, TypeOK, AnswerTrue, TrueLoc
  <2> QED BY <2>1, <2>2, <2>3, <2>4 DEF IInv
<1> QED BY <1>1, <1>2, <1>3, <1>4, <1>5

\* The first level of fieldOf keeps the invariant.
LEMMA OwnEntrySteps ==
    ASSUME IInv, NEW p \in Proc,
           CallField(p) \/ LoadOwn(p) \/ OwnHit(p) \/ OwnMiss(p) \/ StoreOwn(p)
    PROVE  IInv'
<1>1. CASE CallField(p)
  <2> USE <1>1 DEF CallField, caches
  <2>1. TypeOK'
    BY DEF IInv, TypeOK, InResolve, InField, FieldArgs
  <2>2. CachesTrue'
    BY DEF IInv, CachesTrue, TrueRef, TrueLoc
  <2>3. LoadedTrue'
    BY DEF IInv, TypeOK, LoadedTrue, TrueRef, TrueLoc
  <2>4. AnswerTrue'
    BY DEF IInv, TypeOK, AnswerTrue, TrueLoc
  <2> QED BY <2>1, <2>2, <2>3, <2>4 DEF IInv
<1>2. CASE LoadOwn(p)
  <2> USE <1>2 DEF LoadOwn, caches
  <2>1. TypeOK'
    BY DEF IInv, TypeOK, InResolve, InField
  <2>2. CachesTrue'
    BY DEF IInv, CachesTrue, TrueRef, TrueLoc
  <2>3. LoadedTrue'
    BY DEF IInv, TypeOK, LoadedTrue, TrueRef, TrueLoc, CachesTrue
  <2>4. AnswerTrue'
    BY DEF IInv, TypeOK, AnswerTrue, TrueLoc
  <2> QED BY <2>1, <2>2, <2>3, <2>4 DEF IInv
<1>3. CASE OwnHit(p)
  <2> USE <1>3 DEF OwnHit, caches
  <2>1. TypeOK'
    BY DEF IInv, TypeOK, InResolve, InField, LoadedTrue, Matches
  <2>2. CachesTrue'
    BY DEF IInv, CachesTrue, TrueRef, TrueLoc
  <2>3. LoadedTrue'
    BY DEF IInv, TypeOK, LoadedTrue, TrueRef, TrueLoc
  <2>4. AnswerTrue'
    BY DEF IInv, TypeOK, AnswerTrue, TrueLoc, LoadedTrue, Matches
  <2> QED BY <2>1, <2>2, <2>3, <2>4 DEF IInv
<1>4. CASE OwnMiss(p)
  <2> USE <1>4 DEF OwnMiss, caches
  <2>1. TypeOK'
    BY DEF IInv, TypeOK, InResolve, InField
  <2>2. CachesTrue'
    BY DEF IInv, CachesTrue, TrueRef, TrueLoc
  <2>3. LoadedTrue'
    BY DEF IInv, TypeOK, LoadedTrue, TrueRef, TrueLoc
  <2>4. AnswerTrue'
    BY DEF IInv, TypeOK, AnswerTrue, TrueLoc
  <2> QED BY <2>1, <2>2, <2>3, <2>4 DEF IInv
<1>5. CASE StoreOwn(p)
  <2> USE <1>5 DEF StoreOwn, caches
  <2>1. TypeOK'
    BY DEF IInv, TypeOK, InResolve, InField, AnswerTrue
  <2>2. CachesTrue'
    BY DEF IInv, CachesTrue, TrueRef, TrueLoc, AnswerTrue
  <2>3. LoadedTrue'
    BY DEF IInv, TypeOK, LoadedTrue, TrueRef, TrueLoc
  <2>4. AnswerTrue'
    BY DEF IInv, TypeOK, AnswerTrue, TrueLoc
  <2> QED BY <2>1, <2>2, <2>3, <2>4 DEF IInv
<1> QED BY <1>1, <1>2, <1>3, <1>4, <1>5

\* The second level of fieldOf, and returning, keep the invariant.
LEMMA SlotSteps ==
    ASSUME IInv, NEW p \in Proc,
           LoadSlot(p) \/ SlotHit(p) \/ SlotMiss(p) \/ Return(p)
    PROVE  IInv'
<1>1. CASE LoadSlot(p)
  <2> USE <1>1 DEF LoadSlot, caches
  <2>1. TypeOK'
    BY DEF IInv, TypeOK, InResolve, InField, SlotFor, FieldArgs
  <2>2. CachesTrue'
    BY DEF IInv, CachesTrue, TrueRef, TrueLoc
  <2>3. LoadedTrue'
    <3>1. fieldCache[SlotFor(args[p])] \in FieldInfo \cup {Nil}
      BY SlotAssumption DEF IInv, TypeOK, SlotFor, FieldArgs, InField
    <3>2. fieldCache[SlotFor(args[p])] # Nil => TrueLoc(fieldCache[SlotFor(args[p])])
      BY SlotAssumption DEF IInv, TypeOK, CachesTrue, SlotFor, FieldArgs, InField
    <3> QED BY <3>1, <3>2 DEF IInv, TypeOK, LoadedTrue, TrueRef, TrueLoc
  <2>4. AnswerTrue'
    BY DEF IInv, TypeOK, AnswerTrue, TrueLoc
  <2> QED BY <2>1, <2>2, <2>3, <2>4 DEF IInv
<1>2. CASE SlotHit(p)
  <2> USE <1>2 DEF SlotHit, caches
  <2>1. TypeOK'
    <3>1. args[p] \in FieldArgs /\ args[p].ext \in Extractor \cup {ThrowAway}
      BY DEF IInv, TypeOK, InField, FieldArgs
    <3>2. got[p] \in FieldInfo
      BY DEF IInv, LoadedTrue, Matches
    <3> HIDE DEF FieldArgs
    <3> QED BY <3>1, <3>2 DEF IInv, TypeOK, InResolve, InField, AfterSlot
  <2>2. CachesTrue'
    BY DEF IInv, CachesTrue, TrueRef, TrueLoc
  <2>3. LoadedTrue'
    BY DEF IInv, TypeOK, LoadedTrue, TrueRef, TrueLoc, AfterSlot
  <2>4. AnswerTrue'
    BY DEF IInv, TypeOK, AnswerTrue, TrueLoc, LoadedTrue, Matches, AfterSlot
  <2> QED BY <2>1, <2>2, <2>3, <2>4 DEF IInv
<1>3. CASE SlotMiss(p)
  <2> USE <1>3 DEF SlotMiss, caches
  <2>1. TypeOK'
    <3> DEFINE a  == args[p]
               fi == [typ |-> a.typ, name |-> a.name, loc |-> locOf[a.typ][a.name]]
    <3>1. a \in FieldArgs
      BY DEF IInv, TypeOK, InField
    <3>2. /\ a.ext \in Extractor \cup {ThrowAway}
          /\ a.typ \in Type /\ a.name \in Name
      BY <3>1 DEF FieldArgs
    <3>3. fi \in FieldInfo
      BY <3>2 DEF FieldInfo
    <3>4. /\ fieldCache' = [fieldCache EXCEPT ![SlotFor(a)] = fi]
          /\ ret' = [ret EXCEPT ![p] = fi]
      OBVIOUS
    <3> HIDE DEF fi
    <3> HIDE DEF FieldArgs, FieldInfo
    <3>5. fieldCache' \in [Slot -> FieldInfo \cup {Nil}]
      BY <3>3, <3>4 DEF IInv, TypeOK
    <3>6. ret' \in [Proc -> Index \cup {NoIndex, Nil} \cup FieldInfo]
      BY <3>3, <3>4 DEF IInv, TypeOK
    <3>7. /\ pc' \in [Proc -> {"idle"} \cup InResolve \cup InField]
          /\ pc'[p] \in {"storeOwn", "found"}
          /\ pc'[p] = "storeOwn" => a.ext \in Extractor
          /\ \A q \in Proc : q # p => pc'[q] = pc[q]
      BY <3>2 DEF IInv, TypeOK, InField, AfterSlot
    <3>8. UNCHANGED <<resolved, field, args, got>>
      OBVIOUS
    <3> QED BY <3>1, <3>5, <3>6, <3>7, <3>8 DEF IInv, TypeOK, InResolve, InField
  <2>2. CachesTrue'
    BY DEF IInv, CachesTrue, TrueRef, TrueLoc, TypeOK, InField, SlotFor, FieldArgs
  <2>3. LoadedTrue'
    BY DEF IInv, TypeOK, LoadedTrue, TrueRef, TrueLoc, AfterSlot
  <2>4. AnswerTrue'
    BY DEF IInv, TypeOK, AnswerTrue, TrueLoc, AfterSlot, InField, FieldArgs, FieldInfo
  <2> QED BY <2>1, <2>2, <2>3, <2>4 DEF IInv
<1>4. CASE Return(p)
  <2> USE <1>4 DEF Return, caches
  <2>1. TypeOK'
    BY DEF IInv, TypeOK, InResolve, InField
  <2>2. CachesTrue'
    BY DEF IInv, CachesTrue, TrueRef, TrueLoc
  <2>3. LoadedTrue'
    BY DEF IInv, TypeOK, LoadedTrue, TrueRef, TrueLoc
  <2>4. AnswerTrue'
    BY DEF IInv, TypeOK, AnswerTrue, TrueLoc
  <2> QED BY <2>1, <2>2, <2>3, <2>4 DEF IInv
<1> QED BY <1>1, <1>2, <1>3, <1>4

\* The invariant is inductive.
THEOREM Inductive == Spec => []IInv
<1>1. IInv /\ [Next]_vars => IInv'
  <2>1. ASSUME IInv, NEW p \in Proc, Step(p) PROVE IInv'
    BY <2>1, ResolveSteps, OwnEntrySteps, SlotSteps DEF Step
  <2>2. ASSUME IInv, UNCHANGED vars PROVE IInv'
    BY <2>2 DEF IInv, TypeOK, CachesTrue, LoadedTrue, AnswerTrue, vars, caches
  <2> QED BY <2>1, <2>2 DEF Next
<1> QED BY <1>1, InitIInv, PTL DEF Spec

\* The caches and the pointers loaded from them are nil or of their type.
THEOREM TypeCorrect == Spec => []TypeOK
<1>1. IInv => TypeOK
  BY DEF IInv
<1> QED BY <1>1, Inductive, PTL

\* Sharing a key handle between goroutines and databases never mixes up the
\* indexes of two schemas (typed.go:473-511).
THEOREM HandlesAreSafe == Spec => []IndexIsOwn
<1>1. IInv => IndexIsOwn
  BY DEF IInv, AnswerTrue, IndexIsOwn
<1> QED BY <1>1, Inductive, PTL

\* No collision and no race in the two levels of field caches makes an object
\* be read at the place of another type's or another field (extract.go:264-301).
THEOREM FieldsAreSafe == Spec => []FieldIsOwn
<1>1. IInv => FieldIsOwn
  BY DEF IInv, AnswerTrue, FieldIsOwn, TrueLoc
<1> QED BY <1>1, Inductive, PTL
============================================================================
