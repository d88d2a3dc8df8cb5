-------------------------------- MODULE Names --------------------------------
(* How the names of a schema are compiled for lookups (schema_compile.go): a *)
(* counting sort that places names by length, the search among the names of  *)
(* one length, one by one or by bisection, and the rule that makes a name a  *)
(* prefix scan.  A name is a sequence of letters, and letters are numbers.   *)
EXTENDS Integers, Sequences, FiniteSets, SequencesExt

CONSTANTS IdName,       \* the name of the primary index
          Suffix,       \* the ending of a name that asks for a prefix scan
          CrowdedLength \* a length of more names than this is bisected

ASSUME NamesAssumption ==
    /\ IdName \in Seq(Nat) /\ IdName # <<>>
    /\ Suffix \in Seq(Nat) /\ Suffix # <<>>
    /\ ~IsSuffix(Suffix, IdName)
    /\ CrowdedLength \in Nat

\* strings.Compare(a, b) < 0: the order of names and of byte strings.
Before(a, b) ==
    \E n \in 0..Len(a) :
        /\ n < Len(b)
        /\ SubSeq(a, 1, n) = SubSeq(b, 1, n)
        /\ n < Len(a) => a[n + 1] < b[n + 1]

----------------------------------------------------------------------------
(* nameIndex: the entries of length l are those at off[l] up to off[l + 1].  *)
(* Positions count from 0 as in the code, so TLA+ finds them one further.    *)

Entry(name, val) == [name |-> name, val |-> val]

Start(names, longest) ==
    [entries |-> [j \in 1..names |-> Entry(<<>>, <<>>)],
     off     |-> IF names > 0 THEN [l \in 0..(longest + 1) |-> 0] ELSE <<>>]

\* off[l + 1] is the number of names of length l until they are counted.
Count(x, e) == [x EXCEPT !.off = [@ EXCEPT ![Len(e.name) + 1] = @ + 1]]

\* Running sums make it the position where length l + 1 starts.
Counted(x) == [x EXCEPT !.off = [l \in DOMAIN @ |-> SumFunctionOnSet(@, 0..l)]]

\* A name goes to the cursor of its length, which advances.
Place(x, e) ==
    LET l == Len(e.name)
    IN  [x EXCEPT !.entries = [@ EXCEPT ![x.off[l] + 1] = e],
                  !.off     = [@ EXCEPT ![l] = @ + 1]]

Bucket(x, l) == SubSeq(x.entries, x.off[l] + 1, x.off[l + 1])

\* Mutant of Done: no length is put in order.
DoneUnsorted(x) ==
    [x EXCEPT !.off = [l \in DOMAIN @ |-> IF l = 0 THEN 0 ELSE @[l - 1]]]

\* The cursors go back to where their lengths start, and crowded lengths are
\* sorted by name.
Done(x) ==
    LET back   == [x EXCEPT !.off = [l \in DOMAIN @ |-> IF l = 0 THEN 0 ELSE @[l - 1]]]
        names(l) == Bucket(back, l)
        inOrder(l) == IF Len(names(l)) > CrowdedLength
                      THEN SortSeq(names(l), LAMBDA a, b : Before(a.name, b.name))
                      ELSE names(l)
    IN  IF x.off = <<>> THEN x
        ELSE [back EXCEPT !.entries =
                FlattenSeq([j \in 1..(Cardinality(DOMAIN x.off) - 1) |-> inOrder(j - 1)])]

\* The index of a list of entries, none of them longer than longest.
NameIndex(list, longest) ==
    Done(FoldLeft(Place, Counted(FoldLeft(Count, Start(Len(list), longest), list)), list))

\* The first name of a sorted bucket that is not before the given one.
RECURSIVE Bisect(_, _, _, _)
Bisect(bucket, name, lo, hi) ==
    LET mid == (lo + hi) \div 2
    IN  IF lo >= hi THEN lo
        ELSE IF Before(bucket[mid + 1].name, name) THEN Bisect(bucket, name, mid + 1, hi)
        ELSE Bisect(bucket, name, lo, mid)

\* The candidates for a name of length l: all names of that length or, in a
\* crowded one, the one that bisection arrives at.
Candidates(x, name) ==
    LET bucket == Bucket(x, Len(name))
        lo == Bisect(bucket, name, 0, Len(bucket))
    IN  IF Len(bucket) > CrowdedLength
        THEN SubSeq(bucket, lo + 1, IF lo + 1 < Len(bucket) THEN lo + 1 ELSE Len(bucket))
        ELSE bucket

\* What a name stands for: its value in a sequence of one, or nothing.
Lookup(x, name) ==
    IF Len(name) + 1 \notin DOMAIN x.off THEN <<>>
    ELSE LET found == SelectSeq(Candidates(x, name), LAMBDA e : e.name = name)
         IN  IF found = <<>> THEN <<>> ELSE <<found[1].val>>

----------------------------------------------------------------------------
(* The indexes of a table.                                                   *)

\* compileSchema: "id", the other ordinary indexes, then the bitmap indexes,
\* each group in the order of names.
IndexOrder(ordinary, bitmaps) ==
    <<IdName>> \o SetToSortSeq(ordinary \ {IdName}, Before) \o SetToSortSeq(bitmaps, Before)

\* The tables of a database, in the order of their names.
TableNames(names) ==
    NameIndex([j \in 1..Cardinality(names) |-> Entry(SetToSortSeq(names, Before)[j], j)],
              Max({Len(n) : n \in names} \cup {0}))

Ref(name, scan) == [index |-> name, prefixScan |-> scan]

\* indexNames: an index is placed under its name with the suffix, and under its
\* name unless that ends with the suffix itself.
IndexNames(names) ==
    LET both(n)  == (IF IsSuffix(Suffix, n) THEN <<>> ELSE <<Entry(n, Ref(n, FALSE))>>)
                    \o <<Entry(n \o Suffix, Ref(n, TRUE))>>
    IN  NameIndex(FlattenSeq([j \in DOMAIN names |-> both(names[j])]),
                  Max({Len(n) : n \in ToSet(names)} \cup {0}) + Len(Suffix))

\* What a query's index name means, in the words of resolveNames: a trailing
\* suffix is always stripped first and turns the query into a prefix scan.
Meaning(names, q) ==
    LET scan == IsSuffix(Suffix, q)
        name == IF scan THEN SubSeq(q, 1, Len(q) - Len(Suffix)) ELSE q
    IN  IF name \in names THEN <<Ref(name, scan)>> ELSE <<>>
============================================================================
