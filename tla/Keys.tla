-------------------------------- MODULE Keys --------------------------------
(* How indexers make keys of objects and of query arguments.  There are two  *)
(* ways to every key: the exported methods of index.go and typed.go, written *)
(* for reflection ("Slow"), and the extractors of extract.go, which append   *)
(* to a buffer and may decline ("Fast").  Keys are sequences of bytes below  *)
(* Base.  Bounds: Base for 256, integers of one and two bytes, UUIDs of      *)
(* UUIDLen characters with two bases of Hex digits to a byte.                *)
(*                                                                           *)
(* An indexer is a record in a heap of indexers, which the user owns and may *)
(* change.  An object is a record of fields, stored by pointer or by value.  *)
(* A field is [kind, width, val]; a string is a sequence of bytes.  Not here:*)
(* nil objects and arguments, embedded structs, fields of a type that the    *)
(* indexer rejects.                                                          *)
EXTENDS Names

CONSTANTS Base,       \* the number of bytes
          lowerOf,    \* strings.ToLower of a byte
          Hyphen,
          Hex,        \* the number of hexadecimal digits
          hexOf,      \* their values, for the bytes that are one
          UUIDLen, MaxHyphens, UUIDBytes,
          MaxDepth    \* maxCompoundDepth

ASSUME KeysAssumption ==
    /\ Base \in Nat /\ Base % 2 = 0 /\ Base >= 2 /\ Hex * Hex <= Base
    /\ lowerOf \in [0..(Base - 1) -> 0..(Base - 1)]
    /\ Hyphen \in 1..(Base - 1) /\ Hyphen \notin DOMAIN hexOf
    /\ DOMAIN hexOf \subseteq 1..(Base - 1) /\ ToSet(hexOf) \subseteq 0..(Hex - 1)

Answer(res, keys) == [res |-> res, keys |-> keys]
Ok(key)    == Answer("ok", <<key>>)
Oks(keys)  == Answer("ok", keys)
Missing    == Answer("missing", <<>>)    \* no value in this index
Failed     == Answer("error", <<>>)
Unhandled  == Answer("unhandled", <<>>)  \* the fast path leaves it to the slow one

HasField(ix, o) == ix.field \in DOMAIN o.fields
Field(ix, o)    == o.fields[ix.field]

----------------------------------------------------------------------------
(* Encodings.                                                                *)

Lowered(s, lower) == IF lower THEN [j \in DOMAIN s |-> lowerOf[s[j]]] ELSE s

\* Mutant of Terminated: nothing ends the text.
Unterminated(s, lower) == Lowered(s, lower)

\* A zero byte ends a text, so that no text's key begins another's.
Terminated(s, lower) == Append(Lowered(s, lower), 0)

\* Big endian, truncated to the width.
EncodeUint(n, width) == [j \in 1..width |-> (n \div Base^(width - j)) % Base]

\* Mutant of EncodeInt: the sign bit is not flipped.
EncodeIntPlain(n, width) == EncodeUint(n, width)

\* Flipping the sign bit adds half the range.
EncodeInt(n, width) == EncodeUint(n + Base^width \div 2, width)

Byte(b) == <<IF b THEN 1 ELSE 0>>

\* parseStringSlow: the length, the hyphens, the parity, then the digits.
ParseUUID(s, whole) ==
    LET digits == SelectSeq(s, LAMBDA c : c # Hyphen)
    IN  IF \/ Len(s) > UUIDLen \/ (whole /\ Len(s) # UUIDLen)
           \/ Len(s) - Len(digits) > MaxHyphens
           \/ Len(digits) % 2 # 0
           \/ \E j \in DOMAIN digits : digits[j] \notin DOMAIN hexOf
        THEN Failed
        ELSE Ok([j \in 1..(Len(digits) \div 2) |->
                    hexOf[digits[2 * j - 1]] * Hex + hexOf[digits[2 * j]]])

\* appendUUID: one pass that counts hyphens and pairs digits.
AppendUUID(s, whole) ==
    LET step(a, c) ==
            IF c = Hyphen THEN [a EXCEPT !.hyphens = @ + 1]
            ELSE IF c \notin DOMAIN hexOf THEN [a EXCEPT !.bad = TRUE]
            ELSE IF a.nibbles % 2 = 0 THEN [a EXCEPT !.hi = hexOf[c], !.nibbles = @ + 1]
            ELSE [a EXCEPT !.out = Append(@, a.hi * Hex + hexOf[c]), !.nibbles = @ + 1]
        end == FoldLeft(step, [hyphens |-> 0, nibbles |-> 0, hi |-> 0, bad |-> FALSE,
                               out |-> <<>>], s)
    IN  IF \/ Len(s) > UUIDLen \/ (whole /\ Len(s) # UUIDLen)
           \/ end.bad \/ end.hyphens > MaxHyphens \/ end.nibbles % 2 # 0
        THEN Unhandled ELSE Ok(end.out)

----------------------------------------------------------------------------
(* Objects, the exported way (index.go, typed.go).                           *)

\* A nil pointer and an empty string are no value.
SlowString(ix, o) ==
    IF ~HasField(ix, o) THEN Failed
    ELSE IF Field(ix, o).val = <<>> THEN Missing
    ELSE Ok(Terminated(Field(ix, o).val, ix.lower))

\* Empty strings of a slice, and empty keys of a map, are left out.
StringKeys(ix, vals) ==
    LET there == SelectSeq(vals, LAMBDA s : s # <<>>)
    IN  IF there = <<>> THEN Missing
        ELSE Oks([j \in DOMAIN there |-> Terminated(there[j], ix.lower)])

PairKeys(ix, pairs) ==
    LET there == SelectSeq(pairs, LAMBDA kv : kv[1] # <<>>)
    IN  IF there = <<>> THEN Missing
        ELSE Oks([j \in DOMAIN there |-> Terminated(there[j][1], ix.lower)
                                         \o Terminated(there[j][2], ix.lower)])

SlowStrings(ix, o) == IF HasField(ix, o) THEN StringKeys(ix, Field(ix, o).val) ELSE Failed

\* A map's pairs, in the order the map happens to be read.
SlowMap(ix, o) == IF HasField(ix, o) THEN PairKeys(ix, Field(ix, o).val) ELSE Failed

\* As wide as the field.
SlowInt(ix, o) ==
    IF HasField(ix, o) THEN Ok(EncodeInt(Field(ix, o).val, Field(ix, o).width)) ELSE Failed

SlowUint(ix, o) ==
    IF HasField(ix, o) THEN Ok(EncodeUint(Field(ix, o).val, Field(ix, o).width)) ELSE Failed

SlowBool(ix, o) == IF HasField(ix, o) THEN Ok(Byte(Field(ix, o).val)) ELSE Failed

SlowUUID(ix, o) ==
    IF ~HasField(ix, o) THEN Failed
    ELSE IF Field(ix, o).val = <<>> THEN Missing
    ELSE ParseUUID(Field(ix, o).val, TRUE)

\* Whether a field is not its type's zero value.
IsSet(f) ==
    CASE f.kind \in {"ptr", "nil"} -> f.kind = "ptr"
      [] f.kind = "string"         -> f.val # <<>>
      [] f.kind = "bool"           -> f.val
      [] OTHER                     -> f.val # 0

SlowFieldSet(ix, o) == IF HasField(ix, o) THEN Ok(Byte(IsSet(Field(ix, o)))) ELSE Failed

\* The user's function looks at a boolean field, and fails without it.
Conditional(ix, o) == IF HasField(ix, o) THEN Ok(Byte(Field(ix, o).val)) ELSE Failed

\* The typed indexers' functions have every field, of a *T or of a T.
TypedString(ix, o) ==
    IF Field(ix, o).val = <<>> THEN Missing ELSE Ok(Terminated(Field(ix, o).val, ix.lower))
TypedStrings(ix, o) == StringKeys(ix, Field(ix, o).val)
TypedInt(ix, o)     == Ok(EncodeInt(Field(ix, o).val, ix.width))
TypedUint(ix, o)    == Ok(EncodeUint(Field(ix, o).val, ix.width))
TypedBool(ix, o)    == Ok(Byte(Field(ix, o).val))

SingleKinds == {"string", "int", "uint", "bool", "uuid", "set", "cond", "compound",
                "typedString", "typedInt", "typedUint", "typedBool"}

\* The first sub-indexer without a value.
Stop(ans) == Min({j \in DOMAIN ans : ans[j].res # "ok"} \cup {Len(ans) + 1})

\* All sub-indexers have values, or enough of them.
Enough(ans, missing) ==
    \/ Stop(ans) > Len(ans)
    \/ missing /\ ans[Stop(ans)].res = "missing"

Joined(ans) == Ok(FlattenSeq([j \in 1..(Stop(ans) - 1) |-> ans[j].keys[1]]))
Levels(ans) == [j \in 1..(Stop(ans) - 1) |-> ans[j].keys]

\* One key of the sub-indexers' keys, or the answer that stops it.
OneKey(ans, missing) == IF Enough(ans, missing) THEN Joined(ans) ELSE ans[Stop(ans)]

\* The first of two ways, unless it declines.
Either(fast, slow) == IF fast.res = "unhandled" THEN slow ELSE fast

RECURSIVE FromObject(_, _, _)

SlowCompound(h, r, o) ==
    LET S == h[r].subs
    IN  OneKey([j \in DOMAIN S |-> IF h[S[j]].kind \in SingleKinds
                                   THEN FromObject(h, S[j], o) ELSE Failed],
               h[r].missing)

\* walkVals: depth first, the prefixes on the way too if values may be missing.
RECURSIVE WalkVals(_, _, _, _)
WalkVals(builder, missing, prefix, depth) ==
    IF depth > Len(builder) THEN <<>>
    ELSE FlattenSeq([j \in DOMAIN builder[depth] |->
            LET next == prefix \o builder[depth][j]
            IN  IF depth = Len(builder) THEN <<next>>
                ELSE (IF missing THEN <<next>> ELSE <<>>)
                     \o WalkVals(builder, missing, next, depth + 1)])

Walked(ans, missing) ==
    IF Enough(ans, missing) THEN Oks(WalkVals(Levels(ans), missing, <<>>, 1))
    ELSE ans[Stop(ans)]

SlowCompoundMulti(h, r, o) ==
    Walked([j \in DOMAIN h[r].subs |-> FromObject(h, h[r].subs[j], o)], h[r].missing)

Slow(h, r, o) ==
    LET ix == h[r]
    IN  CASE ix.kind = "string"       -> SlowString(ix, o)
          [] ix.kind = "strings"      -> SlowStrings(ix, o)
          [] ix.kind = "map"          -> SlowMap(ix, o)
          [] ix.kind = "int"          -> SlowInt(ix, o)
          [] ix.kind = "uint"         -> SlowUint(ix, o)
          [] ix.kind = "bool"         -> SlowBool(ix, o)
          [] ix.kind = "uuid"         -> SlowUUID(ix, o)
          [] ix.kind = "set"          -> SlowFieldSet(ix, o)
          [] ix.kind = "cond"         -> Conditional(ix, o)
          [] ix.kind = "compound"     -> SlowCompound(h, r, o)
          [] ix.kind = "multi"        -> SlowCompoundMulti(h, r, o)
          [] ix.kind = "typedString"  -> TypedString(ix, o)
          [] ix.kind = "typedStrings" -> TypedStrings(ix, o)
          [] ix.kind = "typedInt"     -> TypedInt(ix, o)
          [] ix.kind = "typedUint"    -> TypedUint(ix, o)
          [] ix.kind = "typedBool"    -> TypedBool(ix, o)

----------------------------------------------------------------------------
(* Objects, the fast way (extract.go).  subs are the sub-indexers an         *)
(* extractor was compiled with; a throw-away one takes the current ones.     *)

\* resolveField: a pointer to a struct that has the field.
Usable(ix, o) == o.pointer /\ HasField(ix, o)

ScalarKinds == SingleKinds \ {"cond", "compound"}
TypedKinds  == {"typedString", "typedStrings", "typedInt", "typedUint", "typedBool"}

\* appendScalar for one field.
FastScalar(ix, o) ==
    LET f == Field(ix, o)
    IN  IF ix.kind \notin ScalarKinds \/ ~Usable(ix, o) THEN Unhandled
        ELSE CASE ix.kind \in {"string", "typedString"} ->
                    IF f.val = <<>> THEN Missing ELSE Ok(Terminated(f.val, ix.lower))
               [] ix.kind = "uuid" -> IF f.val = <<>> THEN Missing ELSE AppendUUID(f.val, TRUE)
               [] ix.kind = "int"       -> Ok(EncodeInt(f.val, f.width))
               [] ix.kind = "uint"      -> Ok(EncodeUint(f.val, f.width))
               [] ix.kind = "typedInt"  -> Ok(EncodeInt(f.val, ix.width))
               [] ix.kind = "typedUint" -> Ok(EncodeUint(f.val, ix.width))
               [] ix.kind \in {"bool", "typedBool"} -> Ok(Byte(f.val))
               [] ix.kind = "set" -> IF f.kind \in {"ptr", "nil", "string", "bool"}
                                     THEN Ok(Byte(IsSet(f))) ELSE Unhandled

\* Mutant of SubsCurrent: the compiled sub-indexers are taken to be current.
SubsCurrentAlways(ix, subs) == TRUE

\* The user has not given the compound other sub-indexers since.
SubsCurrent(ix, subs) == subs = ix.subs

FastCompound(h, r, subs, o) ==
    IF ~SubsCurrent(h[r], subs) THEN Unhandled
    ELSE OneKey([j \in DOMAIN subs |-> FastScalar(h[subs[j]], o)], h[r].missing)

FastStrings(ix, o) == IF Usable(ix, o) THEN StringKeys(ix, Field(ix, o).val) ELSE Unhandled
FastMap(ix, o)     == IF Usable(ix, o) THEN PairKeys(ix, Field(ix, o).val) ELSE Unhandled

\* The product loop: depth is the level it is at, pos the values it has used of
\* each level, pfx the values on the way, and plen[d] the length of pfx before
\* the value of level d.
RECURSIVE Product(_, _, _)
Product(vals, missing, s) ==
    LET d == s.depth
        used == [s EXCEPT !.pos = [@ EXCEPT ![d] = @ + 1]]
        key  == s.pfx \o vals[d][s.pos[d] + 1]
    IN  IF d = 0 THEN s.out
        ELSE Product(vals, missing,
            IF s.pos[d] = Len(vals[d])
            THEN [s EXCEPT !.pos = [@ EXCEPT ![d] = 0], !.depth = d - 1,
                           !.pfx = IF d > 1 THEN SubSeq(@, 1, s.plen[d - 1]) ELSE @]
            ELSE IF d = Len(vals) THEN [used EXCEPT !.out = Append(@, key)]
            ELSE [used EXCEPT !.plen = [@ EXCEPT ![d] = Len(s.pfx)], !.pfx = key,
                              !.out = IF missing THEN Append(@, key) ELSE @,
                              !.depth = d + 1])

AllKeys(vals, missing) ==
    LET zero == [j \in DOMAIN vals |-> 0]
    IN  Product(vals, missing,
                [depth |-> IF vals = <<>> THEN 0 ELSE 1, pos |-> zero, plen |-> zero,
                 pfx |-> <<>>, out |-> <<>>])

Multiplied(ans, missing) ==
    IF Enough(ans, missing) THEN Oks(AllKeys(Levels(ans), missing)) ELSE ans[Stop(ans)]

FastCompoundMulti(h, r, subs, o) ==
    LET value(ix) == IF ix.kind \in {"strings", "typedStrings"} THEN FastStrings(ix, o)
                     ELSE IF ix.kind = "map" THEN FastMap(ix, o)
                     ELSE FastScalar(ix, o)
    IN  IF ~SubsCurrent(h[r], subs) \/ Len(h[r].subs) > MaxDepth THEN Unhandled
        ELSE Multiplied([j \in DOMAIN subs |-> value(h[subs[j]])], h[r].missing)

\* appendKeys.
Fast(h, r, subs, o) ==
    LET ix == h[r]
    IN  CASE ix.kind = "compound" -> FastCompound(h, r, subs, o)
          [] ix.kind = "multi"    -> FastCompoundMulti(h, r, subs, o)
          [] ix.kind = "map"      -> FastMap(ix, o)
          [] ix.kind \in {"strings", "typedStrings"} -> FastStrings(ix, o)
          [] ix.kind = "cond"     -> Conditional(ix, o)
          [] OTHER                -> FastScalar(ix, o)

\* An exported FromObject tries the fast way first, and takes only values from it.
FromObject(h, r, o) ==
    LET fast == Fast(h, r, h[r].subs, o)
    IN  IF fast.res = "ok" /\ h[r].kind \notin TypedKinds \cup {"cond"}
                          /\ (h[r].kind = "compound" => fast.keys # <<<<>>>>)
        THEN fast ELSE Slow(h, r, o)

----------------------------------------------------------------------------
(* Query arguments, the exported way.  An argument is [type, width, val],    *)
(* where "named" is an integer type of the caller's own.                     *)

One(args, types) == Len(args) = 1 /\ args[1].type \in types

StringKinds == {"string", "strings", "typedString", "typedStrings"}
BoolKinds   == {"bool", "set", "cond", "typedBool"}

StringArgs(ix, args, prefix) ==
    IF ~One(args, {"string"}) THEN Failed
    ELSE Ok(IF prefix THEN Lowered(args[1].val, ix.lower) ELSE Terminated(args[1].val, ix.lower))

\* A key, or a key and its value.
MapArgs(ix, args) ==
    IF Len(args) \notin 1..2 \/ \E j \in DOMAIN args : args[j].type # "string" THEN Failed
    ELSE Ok(FlattenSeq([j \in DOMAIN args |-> Terminated(args[j].val, ix.lower)]))

\* As wide as the argument, whatever the width of the field.
IntArgs(args) ==
    IF One(args, {"int", "named"}) THEN Ok(EncodeInt(args[1].val, args[1].width)) ELSE Failed

UintArgs(args) ==
    IF One(args, {"uint"}) THEN Ok(EncodeUint(args[1].val, args[1].width)) ELSE Failed

\* As wide as the index, if the argument fits.
FitsInt(n, width)  == n \in -(Base^width \div 2)..(Base^width \div 2 - 1)
FitsUint(n, width) == n \in 0..(Base^width - 1)

TypedIntArgs(ix, args) ==
    IF One(args, {"int", "named"}) /\ FitsInt(args[1].val, ix.width)
    THEN Ok(EncodeInt(args[1].val, ix.width)) ELSE Failed

TypedUintArgs(ix, args) ==
    IF One(args, {"uint"}) /\ FitsUint(args[1].val, ix.width)
    THEN Ok(EncodeUint(args[1].val, ix.width)) ELSE Failed

BoolArgs(args) == IF One(args, {"bool"}) THEN Ok(Byte(args[1].val)) ELSE Failed

\* Text of any length for a prefix; bytes are taken as they are.
UUIDArgs(args, prefix) ==
    IF One(args, {"string"}) THEN ParseUUID(args[1].val, ~prefix)
    ELSE IF One(args, {"bytes"}) /\ (prefix \/ Len(args[1].val) = UUIDBytes)
    THEN Ok(args[1].val) ELSE Failed

RECURSIVE FromArgs(_, _, _, _)

\* All but the last argument are exact, and the last one is if prefix is not set.
CompoundArgs(h, r, args, prefix) ==
    LET ans == [j \in DOMAIN args |->
                  FromArgs(h, h[r].subs[j], <<args[j]>>, prefix /\ j = Len(args))]
    IN  IF Len(args) > Len(h[r].subs) \/ (~prefix /\ Len(args) < Len(h[r].subs)) THEN Failed
        ELSE IF Enough(ans, FALSE) THEN Joined(ans) ELSE Failed

\* The arguments of sub-indexer j: two for a map, one for any other.
Share(h, S, args, j) ==
    LET wide(m) == IF h[S[m]].kind = "map" THEN 2 ELSE 1
        at == SumFunction([m \in 1..(j - 1) |-> wide(m)])
    IN  SubSeq(args, at + 1, Min({Len(args), at + wide(j)}))

\* Fewer arguments than sub-indexers will do if values may be missing, but
\* never half of a map's pair.
MultiArgs(h, r, args) ==
    LET S    == h[r].subs
        used == {j \in DOMAIN S : Share(h, S, args, j) # <<>>}
        maps == Cardinality({j \in used : h[S[j]].kind = "map"})
        ans  == [j \in 1..Cardinality(used) |-> FromArgs(h, S[j], Share(h, S, args, j), FALSE)]
    IN  IF \/ \E j \in used : h[S[j]].kind = "map" /\ Len(Share(h, S, args, j)) = 1
           \/ Len(args) > Len(S) + maps
           \/ ~h[r].missing /\ Len(args) # Len(S) + maps
        THEN Failed
        ELSE IF Enough(ans, FALSE) THEN Joined(ans) ELSE Failed

PrefixKinds == StringKinds \cup {"uuid", "compound"}

\* FromArgs, or PrefixFromArgs of an indexer that has it, by reflection.
SlowArgs(h, r, args, prefix) ==
    LET ix == h[r]
    IN  CASE prefix /\ ix.kind \notin PrefixKinds -> Failed
          [] ix.kind \in StringKinds  -> StringArgs(ix, args, prefix)
          [] ix.kind = "uuid"         -> UUIDArgs(args, prefix)
          [] ix.kind = "compound"     -> CompoundArgs(h, r, args, prefix)
          [] ix.kind = "map"          -> MapArgs(ix, args)
          [] ix.kind = "int"          -> IntArgs(args)
          [] ix.kind = "uint"         -> UintArgs(args)
          [] ix.kind = "typedInt"     -> TypedIntArgs(ix, args)
          [] ix.kind = "typedUint"    -> TypedUintArgs(ix, args)
          [] ix.kind \in BoolKinds    -> BoolArgs(args)
          [] ix.kind = "multi"        -> MultiArgs(h, r, args)

----------------------------------------------------------------------------
(* Query arguments, the fast way.                                            *)

\* appendArgs of anything but a compound.
FastLeafArgs(ix, args, prefix) ==
    LET a == args[1]
    IN  CASE ix.kind \in StringKinds /\ One(args, {"string"}) ->
               Ok(IF prefix THEN Lowered(a.val, ix.lower) ELSE Terminated(a.val, ix.lower))
          [] ix.kind = "uuid" /\ One(args, {"string"}) -> AppendUUID(a.val, ~prefix)
          [] ix.kind = "uuid" /\ One(args, {"bytes"}) /\ (prefix \/ Len(a.val) = UUIDBytes) ->
               Ok(a.val)
          [] ix.kind = "map" /\ ~prefix /\ Len(args) \in 1..2
                             /\ \A j \in DOMAIN args : args[j].type = "string" ->
               Ok(FlattenSeq([j \in DOMAIN args |-> Terminated(args[j].val, ix.lower)]))
          [] ix.kind = "int" /\ ~prefix /\ One(args, {"int"}) -> Ok(EncodeInt(a.val, a.width))
          [] ix.kind = "uint" /\ ~prefix /\ One(args, {"uint"}) -> Ok(EncodeUint(a.val, a.width))
          [] ix.kind = "typedInt" /\ ~prefix /\ One(args, {"int"}) /\ FitsInt(a.val, ix.width) ->
               Ok(EncodeInt(a.val, ix.width))
          [] ix.kind = "typedUint" /\ ~prefix /\ One(args, {"uint"}) /\ FitsUint(a.val, ix.width) ->
               Ok(EncodeUint(a.val, ix.width))
          [] ix.kind \in BoolKinds /\ ~prefix /\ One(args, {"bool"}) -> Ok(Byte(a.val))
          [] OTHER -> Unhandled

FastCompoundArgs(h, r, subs, args, prefix) ==
    LET last(j) == prefix /\ j = Len(args)
        ans == [j \in DOMAIN args |->
                  IF last(j) /\ h[subs[j]].kind \notin PrefixKinds THEN Unhandled
                  ELSE FastLeafArgs(h[subs[j]], <<args[j]>>, last(j))]
    IN  IF \/ ~SubsCurrent(h[r], subs)
           \/ Len(args) > Len(h[r].subs) \/ (~prefix /\ Len(args) < Len(h[r].subs))
        THEN Unhandled
        ELSE IF Enough(ans, FALSE) THEN Joined(ans) ELSE Unhandled

FastArgs(h, r, subs, args, prefix) ==
    IF h[r].kind = "compound" THEN FastCompoundArgs(h, r, subs, args, prefix)
    ELSE FastLeafArgs(h[r], args, prefix)

\* The exported methods of index.go's indexers try the fast way first.
FastKinds == {"string", "strings", "map", "int", "uint", "uuid", "compound"}

FromArgs(h, r, args, prefix) ==
    LET fast == FastArgs(h, r, h[r].subs, args, prefix)
    IN  IF fast.res = "ok" /\ h[r].kind \in FastKinds
                          /\ (h[r].kind = "compound" => fast.keys # <<<<>>>>)
        THEN fast ELSE SlowArgs(h, r, args, prefix)

\* appendStringArg: the argument of a StringKey.
StringArg(ix, s, prefix) ==
    CASE ix.kind = "uuid"        -> AppendUUID(s, ~prefix)
      [] ix.kind \in StringKinds -> Ok(IF prefix THEN Lowered(s, ix.lower)
                                       ELSE Terminated(s, ix.lower))
      [] OTHER                   -> Unhandled

\* encode of an IntKey and of a UintKey: as wide as the handle's own type.
IntKeyArg(ix, n, width) ==
    IF ix.kind \in {"int", "typedInt"} THEN Ok(EncodeInt(n, width)) ELSE Unhandled
UintKeyArg(ix, n, width) ==
    IF ix.kind \in {"uint", "typedUint"} THEN Ok(EncodeUint(n, width)) ELSE Unhandled
============================================================================
