------------------------------ MODULE MCQueries ------------------------------
(* Tables for TLC, of two kinds.  Those of MCNameTables have names and no    *)
(* rows: every choice from a few names, some with the suffix, several of one *)
(* length.  Those of MCKeyTables have a few indexes of each sort, rows that  *)
(* may be stored, and objects and arguments to try on every indexer.         *)
EXTENDS Queries

\* Arguments and fields.
Arg(type, width, val)  == [type |-> type, width |-> width, val |-> val]
Fld(kind, width, val) == [kind |-> kind, width |-> width, val |-> val]
Obj(pointer, fields) == [pointer |-> pointer, fields |-> fields]
Txt(val) == Fld("string", 0, val)
Ptr(val) == Fld("ptr", 0, val)
Nil      == Fld("nil", 0, <<>>)
Two(o)   == {o, [o EXCEPT !.pointer = FALSE]}
A(val)   == Arg("string", 0, val)

\* Indexers, and indexes that use one.
Ix(kind, field) == [kind |-> kind, field |-> field, lower |-> FALSE, width |-> 0,
                    subs |-> <<>>, missing |-> FALSE]
Lower(ix)         == [ix EXCEPT !.lower = TRUE]
Wide(ix, width)   == [ix EXCEPT !.width = width]
Of(kind, subs, missing) == [Ix(kind, "") EXCEPT !.subs = subs, !.missing = missing]
Index(ref, unique, missing) == [ref |-> ref, unique |-> unique, missing |-> missing]

\* The bytes, of which b1 b2 and b3 have one lower case and n6 n7 none.
MCLower == [b \in 0..5 |-> IF b = 3 THEN 1 ELSE b]
MCHexOf == 1 :> 0 @@ 2 :> 1 @@ 3 :> 0

----------------------------------------------------------------------------
MCIdName == <<2, 1>>
MCSuffix == <<9>>
n1 == <<1>>
n2 == <<3>>
n3 == <<5>>
QueryNames == UNION {[1..n -> {1, 2, 3, 9}] : n \in 0..3}

\* Two letters, one, three, and the suffix at the end of some.
NamePool == {<<1>>, <<1, 2>>, <<1, 9>>, <<2, 3>>, <<2, 9>>, <<1, 2, 9>>, <<9>>}
Bare == [heap |-> <<Ix("string", "k")>>, edits |-> {<<Ix("string", "k")>>}, objs |-> {},
         probes |-> {}, probeArgs |-> {}, names |-> QueryNames]
NameTable(names, bitmaps) ==
    [indexes |-> [n \in names |-> Index(1, TRUE, FALSE)], bitmaps |-> bitmaps,
     args |-> [n \in names |-> {}], ordered |-> [n \in names |-> FALSE]] @@ Bare
NamesOf(x) ==
    NameTable({MCIdName} \cup x.names, x.bitmaps)
Few == {S \in SUBSET NamePool : Cardinality(S) \in 1..4}
MCNameTables ==
    [x \in {[of |-> "names", names |-> S, bitmaps |-> {}] : S \in {T \in SUBSET NamePool : Cardinality(T) <= 5}}
           \cup {[of |-> "names", names |-> {}, bitmaps |-> S] : S \in Few} |-> NamesOf(x)]

----------------------------------------------------------------------------
KeyTable(indexes, heap, edits, objs, probes, args, probeArgs, ordered) ==
    [indexes |-> indexes, bitmaps |-> {}, heap |-> heap, edits |-> {heap} \cup edits,
     objs |-> objs, probes |-> objs \cup probes, args |-> args,
     probeArgs |-> probeArgs \cup UNION {args[n] : n \in DOMAIN args},
     names |-> DOMAIN indexes, ordered |-> ordered]

\* Arguments of the wrong type or number, for every indexer.
Odd == {<<Arg("int", 1, 2)>>, <<Arg("named", 2, 7)>>, <<Arg("uint", 2, 7)>>,
        <<Arg("bool", 0, TRUE)>>, <<Arg("bytes", 0, <<1, 0>>)>>, <<A(<<1>>), A(<<2>>)>>,
        <<A(<<0, 1>>)>>, <<A(<<4, 4, 4>>)>>, <<Arg("int", 2, 5)>>, <<A(<<1, 2>>)>>, <<A(<<>>)>>}
Strings == {<<A(s)>> : s \in {<<1>>, <<1, 2>>, <<3>>, <<2>>, <<1, 1>>}}

\* Text: keys of rows that begin one another's, pointers that may be nil, and
\* capitals that the index may or may not lower.
TextTable ==
    LET heap == <<Ix("string", "k"), Lower(Ix("string", "s")), Ix("string", "s")>>
        row(k, s) == Obj(TRUE, [k |-> Txt(k), s |-> s])
    IN  KeyTable(MCIdName :> Index(1, TRUE, FALSE) @@ n1 :> Index(2, FALSE, TRUE)
                     @@ n2 :> Index(3, TRUE, TRUE),
                 heap, {[heap EXCEPT ![2].lower = FALSE], [heap EXCEPT ![3].lower = TRUE]},
                 {row(<<1>>, Ptr(<<1>>)), row(<<1, 2>>, Ptr(<<1, 2>>)), row(<<2>>, Ptr(<<3>>)),
                  row(<<1>>, Nil), row(<<3>>, Ptr(<<1, 1>>))},
                 {Obj(TRUE, [k |-> Txt(<<>>)]), Obj(FALSE, [k |-> Txt(<<1>>), s |-> Txt(<<2>>)]),
                  row(<<0>>, Ptr(<<1, 0>>))},
                 [n \in {MCIdName, n1, n2} |-> Strings], Odd,
                 [n \in {MCIdName, n1, n2} |-> TRUE])

\* Numbers of both signs and of one and two bytes, and booleans.
NumberTable ==
    LET heap == <<Ix("uint", "k"), Ix("int", "n"), Ix("int", "w"), Ix("bool", "f"),
                  Ix("set", "n"), Ix("set", "f"), Ix("cond", "f"), Ix("cond", "q"), Ix("set", "q")>>
        row(k, n, w, f) == Obj(TRUE, [k |-> Fld("uint", 1, k), n |-> Fld("int", 1, n),
                                      w |-> Fld("int", 2, w), f |-> Fld("bool", 0, f)])
        nums(t, w, S) == {<<Arg(t, w, v)>> : v \in S}
        bools == {<<Arg("bool", 0, b)>> : b \in BOOLEAN}
        names == {MCIdName, n1, n2, n3, <<1, 1>>, <<1, 3>>}
    IN  KeyTable(MCIdName :> Index(1, TRUE, FALSE) @@ n1 :> Index(2, FALSE, FALSE)
                     @@ n2 :> Index(3, FALSE, FALSE) @@ n3 :> Index(4, FALSE, FALSE)
                     @@ <<1, 1>> :> Index(5, FALSE, FALSE) @@ <<1, 3>> :> Index(7, FALSE, FALSE),
                 heap, {},
                 {row(0, -3, -18, TRUE), row(1, 2, 5, FALSE), row(5, -1, -7, TRUE),
                  row(4, 0, 17, FALSE), row(1, -1, -7, FALSE)},
                 {Obj(FALSE, [k |-> Fld("uint", 1, 3), n |-> Fld("int", 1, 1),
                              f |-> Fld("bool", 0, TRUE)])},
                 [n \in names |-> CASE n = MCIdName -> nums("uint", 1, {0, 1, 4, 5})
                                    [] n = n1 -> nums("int", 1, {-3, -1, 0, 1, 2})
                                    [] n = n2 -> nums("int", 2, {-18, -7, 0, 5, 17})
                                    [] OTHER  -> bools],
                 Odd, [n \in names |-> TRUE])

\* UUIDs, with other ways to write one among the probes, and several values of
\* one row in an index.
UUIDTable ==
    LET heap == <<Ix("uuid", "k"), Lower(Ix("strings", "s")), Ix("uuid", "q")>>
        row(k, s) == Obj(TRUE, [k |-> Txt(k), s |-> Fld("strings", 0, s)])
        us == {<<1, 2, 4, 1, 4, 2>>, <<2, 1, 4, 1, 4, 1>>, <<2, 1, 4, 1, 4, 2>>}
    IN  KeyTable(MCIdName :> Index(1, TRUE, FALSE) @@ n1 :> Index(2, FALSE, TRUE),
                 heap, {},
                 {row(<<1, 2, 4, 1, 4, 2>>, <<<<1>>, <<2>>>>), row(<<2, 1, 4, 1, 4, 1>>, <<<<>>, <<2, 1>>>>),
                  row(<<2, 1, 4, 1, 4, 1>>, <<<<3>>, <<1>>>>), row(<<2, 1, 4, 3, 4, 2>>, <<>>)},
                 {row(s, <<>>) : s \in {<<>>, <<1>>, <<1, 2, 1, 2, 1, 2>>, <<4, 4, 4, 1, 2, 1>>,
                                        <<1, 5, 4, 1, 4, 2>>, <<1, 2, 1, 4, 1, 4>>}},
                 [n \in {MCIdName, n1} |-> IF n = n1 THEN Strings
                     ELSE {<<A(s)>> : s \in us \cup {<<2>>, <<2, 1>>, <<2, 1, 4>>}}],
                 Odd, MCIdName :> TRUE @@ n1 :> FALSE)

\* Compounds of two indexers, of text first and of a number first, one of which
\* allows rows that lack the second value, and compounds of compounds.
CompoundTable ==
    LET heap == <<Ix("string", "k"), Lower(Ix("string", "s")), Ix("int", "n"), Ix("string", "t"),
                  Of("compound", <<3, 2>>, FALSE), Of("compound", <<2, 4>>, TRUE),
                  Of("compound", <<5, 2>>, FALSE), Of("compound", <<2, 9>>, FALSE),
                  Ix("strings", "q"), Of("compound", <<>>, FALSE), Of("compound", <<4>>, TRUE)>>
        row(k, s, n, t) == Obj(TRUE, [k |-> Txt(k), s |-> Txt(s), n |-> Fld("int", 1, n), t |-> Txt(t)])
        pairs == {<<A(s), A(t)>> : s \in {<<1>>, <<1, 2>>}, t \in {<<1>>, <<2>>}} \cup {<<A(<<1>>)>>}
        mixed == {<<Arg("int", 1, n), A(s)>> : n \in {-1, 1}, s \in {<<1>>, <<3>>, <<2, 1>>}}
                 \cup {<<Arg("int", 1, -1)>>}
    IN  KeyTable(MCIdName :> Index(1, TRUE, FALSE) @@ n1 :> Index(5, FALSE, FALSE)
                     @@ n2 :> Index(6, FALSE, TRUE),
                 heap, {[heap EXCEPT ![5].subs = <<2, 3>>], [heap EXCEPT ![6].subs = <<4>>],
                        [heap EXCEPT ![2].lower = FALSE], [heap EXCEPT ![6].missing = FALSE]},
                 {row(<<1>>, <<1>>, -1, <<1>>), row(<<2>>, <<1, 2>>, -1, <<2>>),
                  row(<<1, 2>>, <<3>>, 1, <<>>), row(<<1>>, <<2, 1>>, 1, <<2>>)},
                 {row(<<2>>, <<>>, 0, <<1>>), Obj(FALSE, [k |-> Txt(<<1>>), s |-> Txt(<<3>>)])},
                 MCIdName :> Strings @@ n1 :> mixed @@ n2 :> pairs, Odd,
                 MCIdName :> TRUE @@ n1 :> TRUE @@ n2 :> FALSE)

\* Compounds of several values each, three deep, and of more than the fast way
\* takes; maps on their own.
MultiTable ==
    LET heap == <<Ix("uint", "k"), Lower(Ix("strings", "s")), Ix("map", "m"), Ix("bool", "f"),
                  Of("multi", <<2, 3, 4>>, TRUE), Of("multi", <<2, 4, 2>>, FALSE),
                  Of("multi", <<4, 2, 4, 2>>, FALSE), Of("multi", <<2, 12>>, FALSE),
                  Of("multi", <<>>, TRUE), Of("multi", <<3, 2>>, TRUE), Of("multi", <<13, 2>>, TRUE),
                  Of("compound", <<4, 1>>, FALSE), Ix("strings", "q")>>
        row(k, s, m, f) == Obj(TRUE, [k |-> Fld("uint", 1, k), s |-> Fld("strings", 0, s),
                                      m |-> Fld("map", 0, m), f |-> Fld("bool", 0, f)])
        a == <<1>>
        b == <<2>>
        on(f) == Arg("bool", 0, f)
        multis == {<<A(a)>>, <<A(b), A(a), A(b)>>, <<A(a), A(a), A(b), on(TRUE)>>,
                   <<A(a), A(b), A(<<>>), on(FALSE)>>}
    IN  KeyTable(MCIdName :> Index(1, TRUE, FALSE) @@ n1 :> Index(5, FALSE, TRUE)
                     @@ n2 :> Index(3, FALSE, TRUE) @@ n3 :> Index(6, FALSE, TRUE),
                 heap, {[heap EXCEPT ![5].missing = FALSE], [heap EXCEPT ![5].subs = <<2, 4>>]},
                 {row(1, <<a, b>>, <<<<a, b>>, <<b, a>>>>, TRUE), row(2, <<a>>, <<>>, FALSE),
                  row(3, <<>>, <<<<a, <<>>>>>>, TRUE), row(2, <<b>>, <<<<b, <<>>>>, <<<<>>, a>>>>, FALSE)},
                 Two(row(4, <<<<3>>, <<>>>>, <<<<a, b>>>>, TRUE)),
                 [n \in {MCIdName, n1, n2, n3} |->
                    CASE n = MCIdName -> {<<Arg("uint", 1, v)>> : v \in 1..3}
                      [] n = n1 -> multis
                      [] n = n2 -> {<<A(a), A(b)>>, <<A(b), A(<<>>)>>, <<A(b), A(a)>>}
                      [] n = n3 -> {<<A(a), on(TRUE), A(b)>>, <<A(b), on(FALSE), A(b)>>}],
                 Odd \cup {<<A(a), A(b)>>, <<A(a), A(b), on(TRUE)>>,
                           <<on(TRUE), A(a), on(TRUE), A(a)>>, <<A(a), A(a), A(b), on(TRUE), A(a)>>},
                 [n \in {MCIdName, n1, n2, n3} |-> n = MCIdName])

\* The typed indexers, of pointers and of values, and compounds of them.
TypedTable ==
    LET heap == <<Ix("typedString", "k"), Wide(Ix("typedInt", "n"), 1), Wide(Ix("typedUint", "u"), 2),
                  Ix("typedBool", "f"), Lower(Ix("typedStrings", "s")),
                  Of("compound", <<2, 1>>, FALSE), Of("multi", <<5, 4>>, TRUE)>>
        row(p, k, n, s) == Obj(p, [k |-> Txt(k), n |-> Fld("int", 1, n), u |-> Fld("uint", 2, 7 + n),
                                   f |-> Fld("bool", 0, n > 0), s |-> Fld("strings", 0, s)])
        names == {MCIdName, n1, n2, n3, <<1, 1>>}
    IN  KeyTable(MCIdName :> Index(1, TRUE, FALSE) @@ n1 :> Index(2, FALSE, FALSE)
                     @@ n2 :> Index(5, FALSE, TRUE) @@ n3 :> Index(6, TRUE, FALSE)
                     @@ <<1, 1>> :> Index(3, FALSE, FALSE),
                 heap, {[heap EXCEPT ![6].subs = <<1, 2>>], [heap EXCEPT ![5].lower = FALSE]},
                 {row(TRUE, <<1>>, -3, <<<<1>>, <<3>>>>), row(FALSE, <<1, 2>>, 2, <<>>),
                  row(FALSE, <<1>>, 2, <<<<1, 2>>>>), row(TRUE, <<2>>, -1, <<<<2>>>>)},
                 {row(TRUE, <<>>, 0, <<<<>>>>)},
                 [n \in names |->
                    CASE n = n1 -> {<<Arg("int", 1, v)>> : v \in {-3, 0, 2}}
                      [] n = n3 -> {<<Arg("int", 1, v), A(<<1>>)>> : v \in {-3, 2}}
                      [] n = <<1, 1>> -> {<<Arg("uint", 2, v)>> : v \in {4, 6, 9}}
                      [] OTHER -> Strings],
                 Odd, [n \in names |-> n # n2])

Named(name) == [of |-> name, names |-> {}, bitmaps |-> {}]
MCKeyTables ==
    Named("text") :> TextTable @@ Named("number") :> NumberTable @@ Named("uuid") :> UUIDTable
    @@ Named("compound") :> CompoundTable @@ Named("multi") :> MultiTable
    @@ Named("typed") :> TypedTable
MCTables == MCNameTables @@ MCKeyTables
============================================================================
