------------------------------- MODULE Caches -------------------------------
(* The caches that goroutines share without a lock: what a typed key handle  *)
(* resolved to (typed.go:473-511), and the two levels of field locations: an *)
(* entry per extractor and a process-wide table whose slots collide          *)
(* (extract.go:248-310).  A cache is a pointer loaded and stored atomically; *)
(* what it points to never changes.  A handle serves databases of different  *)
(* schemas, an extractor objects of different types, and the field name is   *)
(* read from the user's indexer anew on every call.                          *)
EXTENDS Naturals

CONSTANTS Proc,      \* goroutines
          Schema,    \* compiled schemas, one for each NewMemDB
          Handle,    \* typed key handles: a table name and an index name
          Index,     \* compiled indexes of all schemas
          NoIndex,   \* the names of a handle do not resolve
          refOf,     \* what the names of a handle resolve to in a schema
          Type, Name, \* dynamic types of objects, field names
          Loc,       \* field locations, "not usable" among them
          locOf,     \* what reflection says of a type and a field name
          Extractor, \* extractors of schema indexes, with an entry of their own
          ThrowAway, \* an extractor of an exported indexer method, without
          Slot,      \* slots of the process-wide table
          slotOf,    \* the hash of a type and a name
          Nil

ASSUME RefAssumption   == refOf \in [Schema -> [Handle -> Index \cup {NoIndex}]]
ASSUME LocAssumption   == locOf \in [Type -> [Name -> Loc]]
ASSUME SlotAssumption  == slotOf \in [Type -> [Name -> Slot]]
ASSUME ThrowAssumption == ThrowAway \notin Extractor

Resolution == [schema : Schema, ref : Index]
FieldInfo  == [typ : Type, name : Name, loc : Loc]
ASSUME NilAssumption ==
    Nil \notin Resolution \cup FieldInfo \cup Index \cup {NoIndex}

VARIABLES
    resolved,   \* keyHandle.resolved of each handle
    field,      \* extractor.field of each extractor
    fieldCache, \* the process-wide table
    pc,
    args,       \* the arguments of the call of each goroutine
    got,        \* the pointer it loaded last
    ret         \* what its call returns

caches == <<resolved, field, fieldCache>>
vars   == <<caches, pc, args, got, ret>>

HandleArgs == [handle : Handle, schema : Schema]
FieldArgs  == [ext : Extractor \cup {ThrowAway}, typ : Type, name : Name]

\* Program counters within keyHandle.resolve and within extractor.fieldOf.
InResolve == {"loadHandle", "checkHandle", "resolved"}
InField   == {"loadOwn", "checkOwn", "loadSlot", "checkSlot", "storeOwn", "found"}

----------------------------------------------------------------------------
\* keyHandle.resolve: the handle is used with a transaction of some database.
CallResolve(p) ==
    /\ pc[p] = "idle"
    /\ \E a \in HandleArgs : args' = [args EXCEPT ![p] = a]
    /\ pc' = [pc EXCEPT ![p] = "loadHandle"]
    /\ UNCHANGED <<caches, got, ret>>

LoadHandle(p) ==
    /\ pc[p] = "loadHandle"
    /\ got' = [got EXCEPT ![p] = resolved[args[p].handle]]
    /\ pc' = [pc EXCEPT ![p] = "checkHandle"]
    /\ UNCHANGED <<caches, args, ret>>

\* The loaded resolution was made for this transaction's schema.
Resolves(r, a) == r # Nil /\ r.schema = a.schema

\* Mutant of HandleHit: the index is read from the handle again after the check.
HandleHitReloads(p) ==
    /\ pc[p] = "checkHandle"
    /\ Resolves(got[p], args[p])
    /\ ret' = [ret EXCEPT ![p] = resolved[args[p].handle].ref]
    /\ pc' = [pc EXCEPT ![p] = "resolved"]
    /\ UNCHANGED <<caches, args, got>>

HandleHit(p) ==
    /\ pc[p] = "checkHandle"
    /\ Resolves(got[p], args[p])
    /\ ret' = [ret EXCEPT ![p] = got[p].ref]
    /\ pc' = [pc EXCEPT ![p] = "resolved"]
    /\ UNCHANGED <<caches, args, got>>

\* The names do not resolve to a plain index: an error, which is not cached.
HandleFails(p) ==
    /\ pc[p] = "checkHandle"
    /\ ~Resolves(got[p], args[p])
    /\ refOf[args[p].schema][args[p].handle] = NoIndex
    /\ ret' = [ret EXCEPT ![p] = NoIndex]
    /\ pc' = [pc EXCEPT ![p] = "resolved"]
    /\ UNCHANGED <<caches, args, got>>

\* Names are looked up in the immutable schema, the outcome replaces whatever
\* another goroutine has stored meanwhile.
HandleMiss(p) ==
    LET a   == args[p]
        ref == refOf[a.schema][a.handle]
    IN  /\ pc[p] = "checkHandle"
        /\ ~Resolves(got[p], a)
        /\ ref # NoIndex
        /\ resolved' = [resolved EXCEPT ![a.handle] = [schema |-> a.schema, ref |-> ref]]
        /\ ret' = [ret EXCEPT ![p] = ref]
        /\ pc' = [pc EXCEPT ![p] = "resolved"]
        /\ UNCHANGED <<field, fieldCache, args, got>>

----------------------------------------------------------------------------
\* Mutant of CallField: every extractor is taken to have an entry.
CallFieldOwn(p) ==
    /\ pc[p] = "idle"
    /\ \E a \in FieldArgs : args' = [args EXCEPT ![p] = a]
    /\ pc' = [pc EXCEPT ![p] = "loadOwn"]
    /\ UNCHANGED <<caches, got, ret>>

\* extractor.fieldOf: a throw-away extractor goes to the second level.
CallField(p) ==
    /\ pc[p] = "idle"
    /\ \E a \in FieldArgs :
          /\ args' = [args EXCEPT ![p] = a]
          /\ pc' = [pc EXCEPT ![p] = IF a.ext = ThrowAway THEN "loadSlot" ELSE "loadOwn"]
    /\ UNCHANGED <<caches, got, ret>>

\* Mutant of Matches: extractors are taken to keep their field name.
MatchesType(fi, a) == fi # Nil /\ fi.typ = a.typ

\* A cached location serves one type and one field name.
Matches(fi, a) == fi # Nil /\ fi.typ = a.typ /\ fi.name = a.name

LoadOwn(p) ==
    /\ pc[p] = "loadOwn"
    /\ got' = [got EXCEPT ![p] = field[args[p].ext]]
    /\ pc' = [pc EXCEPT ![p] = "checkOwn"]
    /\ UNCHANGED <<caches, args, ret>>

OwnHit(p) ==
    /\ pc[p] = "checkOwn"
    /\ Matches(got[p], args[p])
    /\ ret' = [ret EXCEPT ![p] = got[p]]
    /\ pc' = [pc EXCEPT ![p] = "found"]
    /\ UNCHANGED <<caches, args, got>>

OwnMiss(p) ==
    /\ pc[p] = "checkOwn"
    /\ ~Matches(got[p], args[p])
    /\ pc' = [pc EXCEPT ![p] = "loadSlot"]
    /\ UNCHANGED <<caches, args, got, ret>>

SlotFor(a) == slotOf[a.typ][a.name]

LoadSlot(p) ==
    /\ pc[p] = "loadSlot"
    /\ got' = [got EXCEPT ![p] = fieldCache[SlotFor(args[p])]]
    /\ pc' = [pc EXCEPT ![p] = "checkSlot"]
    /\ UNCHANGED <<caches, args, ret>>

\* What lookupField returns goes to the extractor's own entry, if it has one.
AfterSlot(a) == IF a.ext = ThrowAway THEN "found" ELSE "storeOwn"

SlotHit(p) ==
    /\ pc[p] = "checkSlot"
    /\ Matches(got[p], args[p])
    /\ ret' = [ret EXCEPT ![p] = got[p]]
    /\ pc' = [pc EXCEPT ![p] = AfterSlot(args[p])]
    /\ UNCHANGED <<caches, args, got>>

\* resolveField looks at the type only; colliding entries are overwritten.
SlotMiss(p) ==
    LET a  == args[p]
        fi == [typ |-> a.typ, name |-> a.name, loc |-> locOf[a.typ][a.name]]
    IN  /\ pc[p] = "checkSlot"
        /\ ~Matches(got[p], a)
        /\ fieldCache' = [fieldCache EXCEPT ![SlotFor(a)] = fi]
        /\ ret' = [ret EXCEPT ![p] = fi]
        /\ pc' = [pc EXCEPT ![p] = AfterSlot(a)]
        /\ UNCHANGED <<resolved, field, args, got>>

StoreOwn(p) ==
    /\ pc[p] = "storeOwn"
    /\ field' = [field EXCEPT ![args[p].ext] = ret[p]]
    /\ pc' = [pc EXCEPT ![p] = "found"]
    /\ UNCHANGED <<resolved, fieldCache, args, got, ret>>

Return(p) ==
    /\ pc[p] \in {"resolved", "found"}
    /\ pc' = [pc EXCEPT ![p] = "idle"]
    /\ args' = [args EXCEPT ![p] = Nil]
    /\ got' = [got EXCEPT ![p] = Nil]
    /\ ret' = [ret EXCEPT ![p] = Nil]
    /\ UNCHANGED caches

----------------------------------------------------------------------------
Init ==
    /\ resolved = [h \in Handle |-> Nil]
    /\ field = [e \in Extractor |-> Nil]
    /\ fieldCache = [s \in Slot |-> Nil]
    /\ pc = [p \in Proc |-> "idle"]
    /\ args = [p \in Proc |-> Nil]
    /\ got = [p \in Proc |-> Nil]
    /\ ret = [p \in Proc |-> Nil]

Step(p) ==
    \/ CallResolve(p) \/ LoadHandle(p) \/ HandleHit(p) \/ HandleFails(p) \/ HandleMiss(p)
    \/ CallField(p) \/ LoadOwn(p) \/ OwnHit(p) \/ OwnMiss(p)
    \/ LoadSlot(p) \/ SlotHit(p) \/ SlotMiss(p) \/ StoreOwn(p)
    \/ Return(p)

Next == \E p \in Proc : Step(p)

Spec == Init /\ [][Next]_vars

----------------------------------------------------------------------------
\* The arguments belong to the function that is running, and each cache and
\* each loaded pointer is nil or of its type.
TypeOK ==
    /\ resolved \in [Handle -> Resolution \cup {Nil}]
    /\ field \in [Extractor -> FieldInfo \cup {Nil}]
    /\ fieldCache \in [Slot -> FieldInfo \cup {Nil}]
    /\ pc \in [Proc -> {"idle"} \cup InResolve \cup InField]
    /\ args \in [Proc -> HandleArgs \cup FieldArgs \cup {Nil}]
    /\ got \in [Proc -> Resolution \cup FieldInfo \cup {Nil}]
    /\ ret \in [Proc -> Index \cup {NoIndex, Nil} \cup FieldInfo]
    /\ \A p \in Proc :
          /\ pc[p] \in InResolve => args[p] \in HandleArgs
          /\ pc[p] \in InField => args[p] \in FieldArgs
          /\ pc[p] \in {"loadOwn", "checkOwn", "storeOwn"} => args[p].ext \in Extractor

\* A lookup through a shared handle uses the index of its own database's
\* schema, whatever other goroutines resolve through the handle for other
\* databases at the same time (typed.go:473-511).
IndexIsOwn ==
    \A p \in Proc : pc[p] = "resolved" =>
        ret[p] = refOf[args[p].schema][args[p].handle]

\* The location an object's field is read at, through an unchecked pointer, is
\* that of its own type and of the field asked for, whatever entries collide
\* or are overwritten meanwhile (extract.go:264-301).
FieldIsOwn ==
    \A p \in Proc : pc[p] = "found" =>
        ret[p].loc = locOf[args[p].typ][args[p].name]
============================================================================
