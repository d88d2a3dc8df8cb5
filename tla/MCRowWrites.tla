---------------------------- MODULE MCRowWrites ----------------------------
(* Three rows with a unique index "u", a multi-value index "m" and a bitmap  *)
(* index "b" for TLC.  The objects cover keys that stay, move, swap places,  *)
(* disappear, are listed twice and cannot be built.                          *)
EXTENDS RowWrites, TLC

CONSTANTS x, y, z, x1, x2, x3, bad, y1, y2, z1

MCPkOf == x1 :> x @@ x2 :> x @@ x3 :> x @@ bad :> x @@ y1 :> y @@ y2 :> y @@ z1 :> z

MCVals ==
    [i \in {"u", "m", "b"} |->
        CASE i = "u" -> x1 :> <<1>> @@ x2 :> <<2>> @@ x3 :> <<1>> @@ bad :> <<1>>
                        @@ y1 :> <<2>> @@ y2 :> <<1>> @@ z1 :> <<2>>
          [] i = "m" -> x1 :> <<1>> @@ x2 :> <<1, 2>> @@ x3 :> <<2, 1>> @@ bad :> <<1>>
                        @@ y1 :> <<>> @@ y2 :> <<2>> @@ z1 :> <<1>>
          [] i = "b" -> x1 :> <<1>> @@ x2 :> <<2>> @@ x3 :> <<1, 2>> @@ bad :> <<1>>
                        @@ y1 :> <<1, 1>> @@ y2 :> <<>> @@ z1 :> <<1>>]

MCValsNoBm == [i \in {"u", "m"} |-> MCVals[i]]
MCFails == {<<"m", bad>>}

Q(i, scan, cut) == [index |-> i, scan |-> scan, cut |-> cut]

\* Queries that meet a row once: exact ones, and prefixes of single-value
\* indexes cut where they scan, or where the raw prefix cuts nothing.
MCAll    == {Q("m", {1}, {}), Q("u", {1, 2}, {})}
MCPrefix == {Q("id", {x}, {x}), Q("id", {x, y}, {x, y}), Q("u", {2}, {2}),
             Q("u", {1, 2}, {1, 2}), Q("id", {x, y}, {})}

\* Queries of the multi-value index by prefix.
MCMulti == {Q("m", {1, 2}, {1, 2}), Q("m", {2}, {2})}
============================================================================
