------------------------------- MODULE Queries -------------------------------
(* A table whose schema has been compiled, and the queries on its ordinary   *)
(* indexes (schema_compile.go, txn.go, typed.go): names are resolved, keys   *)
(* are made the fast way or the slow one, and a key of an index that is not  *)
(* unique ends with the primary key.  Queries change nothing, so they are    *)
(* operators; the steps insert and delete rows, and change the user's        *)
(* indexers before the first row.  Bitmap indexes have names here, no more.  *)
EXTENDS Keys

CONSTANT Tables     \* the definitions of the tables to look at, by name

VARIABLES table,    \* the name of the one looked at
          schema,   \* its names, compiled, and as the names of tables too
          h,        \* the indexers as the user has them now
          tree      \* the entries of each ordinary index

vars == <<table, schema, h, tree>>

Def == Tables[table]
Ordinary == DOMAIN Def.indexes

Compiled(t) ==
    LET order   == IndexOrder(DOMAIN t.indexes, t.bitmaps)
        classic == Cardinality(DOMAIN t.indexes)
    IN  [byName       |-> IndexNames(SubSeq(order, 1, classic)),
         bitmapByName |-> IndexNames(SubSeq(order, classic + 1, Len(order))),
         tables       |-> TableNames(DOMAIN t.indexes)]

Init ==
    /\ table \in DOMAIN Tables
    /\ schema = Compiled(Def)
    /\ h = Def.heap
    /\ tree = [n \in Ordinary |-> {}]

\* The sub-indexers that the extractor of an indexer was compiled with.
CompiledSubs(r) == Def.heap[r].subs

----------------------------------------------------------------------------
(* Rows.                                                                     *)

\* What the index makes of an object, by its extractor or, if that declines,
\* by the exported method.
Built(n, o) ==
    LET r == Def.indexes[n].ref
    IN  Either(Fast(h, r, CompiledSubs(r), o), FromObject(h, r, o))

PrimaryKey(o) == Built(IdName, o).keys[1]

\* Mutant of RowKeys: the primary key is left out.
RowKeysBare(n, o) == ToSet(Built(n, o).keys)

\* The keys of an object: a unique index has the values alone.
RowKeys(n, o) ==
    LET suffix == IF Def.indexes[n].unique THEN <<>> ELSE PrimaryKey(o)
    IN  {val \o suffix : val \in ToSet(Built(n, o).keys)}

\* Whether Insert succeeds.  An insert that fails changes nothing.
Insertable(o) ==
    \A n \in Ordinary : \/ Built(n, o).res = "ok"
                        \/ Built(n, o).res = "missing" /\ Def.indexes[n].missing

Rows == {e.obj : e \in tree[IdName]}
Stored(o) == {x \in Rows : PrimaryKey(x) = PrimaryKey(o)}

\* The keys of the row that is replaced go, and the new ones come.
Replaced(n, olds, news) ==
    LET gone == UNION {RowKeys(n, x) : x \in olds \cup news}
    IN  {e \in tree[n] : e.key \notin gone}
        \cup UNION {{[key |-> k, obj |-> x] : k \in RowKeys(n, x)} : x \in news}

Insert(o) ==
    /\ Insertable(o)
    /\ tree' = [n \in Ordinary |-> Replaced(n, Stored(o), {o})]
    /\ UNCHANGED <<table, schema, h>>

\* Whatever object with the primary key is given, the stored row goes.
Delete(o) ==
    /\ Built(IdName, o).res = "ok"
    /\ Stored(o) # {}
    /\ tree' = [n \in Ordinary |-> Replaced(n, Stored(o), {})]
    /\ UNCHANGED <<table, schema, h>>

\* The user's indexers are exported and mutable; changing them under rows that
\* are indexed already would be the user's mistake.
ChangeIndexers ==
    /\ Rows = {}
    /\ h' \in Def.edits
    /\ UNCHANGED <<table, schema, tree>>

Next ==
    \/ \E o \in Def.objs : Insert(o) \/ Delete(o)
    \/ ChangeIndexers

Spec == Init /\ [][Next]_vars

----------------------------------------------------------------------------
(* Queries.                                                                  *)

\* getIndexValue: what the name refers to, and the key the arguments make, in
\* a sequence of one; without arguments there is none.
IndexValue(q, args) ==
    LET found == Lookup(schema.byName, q)
        ref   == found[1]
        r     == Def.indexes[ref.index].ref
        value(ans) == [res |-> ans.res, ref |-> ref, val |-> ans.keys]
    IN  IF found = <<>> THEN [res |-> "error", ref |-> Ref(<<>>, FALSE), val |-> <<>>]
        ELSE IF args = <<>> THEN value(Oks(<<>>))
        ELSE value(Either(FastArgs(h, r, CompiledSubs(r), args, ref.prefixScan),
                          FromArgs(h, r, args, ref.prefixScan)))

\* The key that a StringKey, IntKey or UintKey makes without getIndexValue.  A
\* handle's own type is as wide as the index.
HandleKey(ix, args, prefix) ==
    LET a     == args[1]
        width == ix.kind \in {"int", "uint"} \/ ix.width = a.width
    IN  IF One(args, {"string"}) THEN StringArg(ix, a.val, prefix)
        ELSE IF One(args, {"int"}) /\ width /\ ~prefix THEN IntKeyArg(ix, a.val, a.width)
        ELSE IF One(args, {"uint"}) /\ width /\ ~prefix THEN UintKeyArg(ix, a.val, a.width)
        ELSE Unhandled

\* go-juuri: the rows of a set of entries, in the order of their keys.
InOrder(S) ==
    LET rank(e) == Cardinality({f \in S : Before(f.key, e.key)})
    IN  [j \in 1..Cardinality(S) |-> (CHOOSE e \in S : rank(e) = j - 1).obj]

Val(v) == IF v.val = <<>> THEN <<>> ELSE v.val[1]

\* Get, and GetReverse backwards: every entry whose key starts with the value.
Get(v) == InOrder({e \in tree[v.ref.index] : IsPrefix(Val(v), e.key)})

\* First and Last look a whole key up in a unique index.
Exact(v) == Def.indexes[v.ref.index].unique /\ v.val # <<>> /\ ~v.ref.prefixScan
Candidate(v) == IF Exact(v) THEN InOrder({e \in tree[v.ref.index] : e.key = Val(v)}) ELSE Get(v)
FirstRow(v) == IF Candidate(v) = <<>> THEN <<>> ELSE <<Head(Candidate(v))>>
LastRow(v)  == IF Candidate(v) = <<>> THEN <<>> ELSE <<Last(Candidate(v))>>

LowerBound(v) == InOrder({e \in tree[v.ref.index] : ~Before(e.key, Val(v))})
ReverseLowerBound(v) == Reverse(InOrder({e \in tree[v.ref.index] : ~Before(Val(v), e.key)}))

----------------------------------------------------------------------------
(* What queries should return, from values instead of keys.  A value is a    *)
(* tuple of components, each a sequence of numbers.                          *)

\* One component: text, the digits of a UUID, or a number.
Component(ix, x) ==
    CASE ix.kind = "uuid" -> LET d == SelectSeq(x, LAMBDA c : c # Hyphen)
                             IN  [j \in DOMAIN d |-> hexOf[d[j]]]
      [] ix.kind \in StringKinds \cup {"map"} -> Lowered(x, ix.lower)
      [] ix.kind \in BoolKinds -> Byte(x)
      [] OTHER -> <<x>>

\* The values an object has in an index.
RECURSIVE Tuples(_, _)
Tuples(r, o) ==
    LET ix == h[r]
        x  == Field(ix, o).val
        RECURSIVE From(_)
        From(j) == IF j > Len(ix.subs) THEN {<<>>}
                   ELSE LET T == Tuples(ix.subs[j], o)
                        IN  IF T = {} THEN (IF ix.missing THEN {<<>>} ELSE {})
                            ELSE {t \o u : t \in T, u \in From(j + 1)}
                                 \cup (IF ix.kind = "multi" /\ ix.missing THEN T ELSE {})
    IN  CASE ix.kind = "compound" -> From(1)
          [] ix.kind = "multi"    -> From(1) \ {<<>>}
          [] ix.kind \in {"strings", "typedStrings"} ->
               {<<Component(ix, s)>> : s \in ToSet(x) \ {<<>>}}
          [] ix.kind = "map" ->
               {<<Component(ix, kv[1]), Component(ix, kv[2])>> :
                    kv \in {p \in ToSet(x) : p[1] # <<>>}}
          [] ix.kind = "set" -> {<<Byte(IsSet(Field(ix, o)))>>}
          [] ix.kind \in {"string", "typedString", "uuid"} ->
               IF x = <<>> THEN {} ELSE {<<Component(ix, x)>>}
          [] OTHER -> {<<Component(ix, x)>>}

\* The tuple of a list of arguments.
ArgTuple(r, args) ==
    LET S == h[r].subs
        leaf(ix, as) == [j \in DOMAIN as |-> Component(ix, as[j].val)]
    IN  IF h[r].kind \in {"compound", "multi"}
        THEN FlattenSeq([j \in DOMAIN S |-> leaf(h[S[j]], Share(h, S, args, j))])
        ELSE leaf(h[r], args)

TupleBefore(s, t) ==
    \E n \in 0..Len(s) :
        /\ n < Len(t)
        /\ SubSeq(s, 1, n) = SubSeq(t, 1, n)
        /\ n < Len(s) => Before(s[n + 1], t[n + 1])

\* The last component of s begins that of t, and the others are the same.
TuplePrefix(s, t) ==
    LET n == Len(s)
    IN  n <= Len(t) /\ SubSeq(s, 1, n - 1) = SubSeq(t, 1, n - 1) /\ IsPrefix(s[n], t[n])

\* An index whose rows may have values of different length.
Ragged(n) == h[Def.indexes[n].ref].missing

----------------------------------------------------------------------------
\* A name means what a plain search says, however many names share its length:
\* those of ordinary indexes, of bitmap indexes and of tables
\* (schema_compile.go:85-195, 340-386).
NamesExact ==
    \A q \in Def.names :
        /\ Lookup(schema.byName, q) = Meaning(Ordinary, q)
        /\ Lookup(schema.bitmapByName, q) = Meaning(Def.bitmaps, q)
        /\ (Lookup(schema.tables, q) # <<>>) = (q \in Ordinary)

\* Whatever the fast path makes of an object or of arguments, the exported
\* methods make of them, though the user's indexers have changed since they
\* were compiled (extract.go:27-31), and so do the key handles (typed.go).
PathsAgree ==
    LET Agrees(fast, slow) == fast.res = "unhandled" \/ fast = slow
    IN  \A r \in DOMAIN h :
            /\ \A o \in Def.probes :
                  /\ Agrees(Fast(h, r, CompiledSubs(r), o), Slow(h, r, o))
                  /\ FromObject(h, r, o) = Slow(h, r, o)
            /\ \A args \in Def.probeArgs, prefix \in BOOLEAN :
                  LET slow == SlowArgs(h, r, args, prefix)
                  IN  /\ Agrees(FastArgs(h, r, CompiledSubs(r), args, prefix), slow)
                      /\ Agrees(HandleKey(h[r], args, prefix), slow)
                      /\ FromArgs(h, r, args, prefix) = slow

\* In an index that is not unique no row's entry takes the place of another's:
\* each row has one entry for each of its values, though values and primary
\* keys run together in a key (schema_compile.go:203-213).
DistinctKeys ==
    \A n \in {m \in Ordinary : ~Def.indexes[m].unique} :
        /\ \A e \in tree[n] : e.obj \in Rows
        /\ \A o \in Rows : Cardinality({e \in tree[n] : e.obj = o})
                           = Cardinality(Tuples(Def.indexes[n].ref, o))

\* What Get, First and Last return for arguments, given what the indexer made
\* of them.
Returned(n, args, scan, v) ==
    LET r     == Def.indexes[n].ref
        want  == ArgTuple(r, args)
        found == ToSet(Get(v))
        match == {o \in Rows : \E t \in Tuples(r, o) :
                                  IF scan THEN TuplePrefix(want, t) ELSE t = want}
        one   == ToSet(FirstRow(v)) \cup ToSet(LastRow(v))
    IN  v.res = "ok" =>
            /\ Def.indexes[n].unique \/ match \subseteq found
            /\ Ragged(n) \/ found \subseteq match
            /\ one \subseteq found /\ (one = {} <=> found = {})

\* Get returns the rows with the value that is asked for, or with a value that
\* starts like it for a prefix scan; First and Last return one if there is one
\* (txn.go:638-730, 895-905).  A row without all its values may be returned as
\* well, and in a unique index the last of several equal rows is the one found.
GetExact ==
    \A n \in Ordinary : \A args \in Def.args[n], scan \in BOOLEAN :
        Returned(n, args, scan, IndexValue(IF scan THEN n \o Suffix ELSE n, args))

\* The rows of a range scan up and of one down, and their order.
Ranges(n, args, v) ==
    LET r        == Def.indexes[n].ref
        want     == ArgTuple(r, args)
        value(o) == CHOOSE t \in Tuples(r, o) : TRUE
        up       == LowerBound(v)
        down     == ReverseLowerBound(v)
        indexed  == {e.obj : e \in tree[n]}
    IN  v.res = "ok" =>
        /\ ToSet(up) = {o \in indexed : ~TupleBefore(value(o), want)}
        /\ ToSet(down) = {o \in indexed :
                IF Def.indexes[n].unique THEN ~TupleBefore(want, value(o))
                ELSE TupleBefore(value(o), want)}
        /\ \A j, m \in DOMAIN up : j < m => ~TupleBefore(value(up[m]), value(up[j]))
        /\ \A j, m \in DOMAIN down : j < m => ~TupleBefore(value(down[j]), value(down[m]))

\* A range scan goes through the values in their own order, numbers by size
\* and text by its bytes, and takes every row from the bound on.  Backwards, in
\* an index that is not unique, the rows at the bound itself are left out: their
\* keys are longer than the bound (txn.go:870-940).
RangesInOrder ==
    \A n \in {m \in Ordinary : Def.ordered[m]} : \A args \in Def.args[n] :
        Ranges(n, args, IndexValue(n, args))

\* What the comment on ReverseLowerBound says: it begins with the rows whose value
\* is equal to the bound, in an index that is not unique too (txn.go:920-922).
ReverseIncludesBound ==
    \A n \in {m \in Ordinary : Def.ordered[m]} : \A args \in Def.args[n] :
        LET want == ArgTuple(Def.indexes[n].ref, args)
            Includes(v) == v.res = "ok" =>
                {e.obj : e \in {x \in tree[n] : want \in Tuples(Def.indexes[n].ref, x.obj)}}
                    \subseteq ToSet(ReverseLowerBound(v))
        IN  Includes(IndexValue(n, args))
============================================================================
