------------------------------- MODULE Bitmap -------------------------------
(***************************************************************************)
(* internal/bitmap: the persistent compressed bitmap, node by node.        *)
(*                                                                         *)
(* A bitmap is the root of a trie of directory nodes over chunks, or Nil.  *)
(* Nodes live in a heap m, node -> [epoch, height, count, bits, kids]:     *)
(* a chunk (height 0) has bits, a directory node has kids, slot -> node;   *)
(* the presence word and the packed array of the code are the domain of    *)
(* kids.  An operation that makes or changes nodes returns the new heap    *)
(* with the node it is about.  e is the epoch of a Writer: the nodes of    *)
(* that epoch are its own, to be changed in place.  Recursion descends     *)
(* from a height to the one below, for all nodes of the heap.              *)
(*                                                                         *)
(* Chunks hold ChunkSize ids and directory nodes Fan children where the    *)
(* code has 256 and 64.                                                    *)
(***************************************************************************)
EXTENDS Naturals, FiniteSets, Functions

CONSTANTS ChunkSize, Fan

Sizes == ChunkSize \in Nat \ {0} /\ Fan \in Nat \ {0, 1}

Nil == 0
Blank(h) == [epoch |-> 0, height |-> h, count |-> 0, bits |-> {}, kids |-> << >>]

Lowest(S) == CHOOSE x \in S : \A y \in S : x <= y

\* The number of ids below a node of height h.
Span(h) ==
    LET span[k \in Nat] == IF k = 0 THEN ChunkSize ELSE span[k - 1] * Fan
    IN  span[h]

Slot(i, h) == (i \div Span(h - 1)) % Fan

NodeAt(m, n, h) == IF n = Nil THEN Blank(h) ELSE m[n]
Kid(node, s) == IF s \in DOMAIN node.kids THEN node.kids[s] ELSE Nil

----------------------------------------------------------------------------
(* Reading.                                                                *)

\* Whether i is below the node n of height h.
HasBelow(m, n, h, i) ==
    LET has[k \in Nat] ==
            [x \in DOMAIN m \cup {Nil} |->
                IF x = Nil THEN FALSE
                ELSE IF k = 0 THEN i % ChunkSize \in m[x].bits
                ELSE has[k - 1][Kid(m[x], Slot(i, k))]]
    IN  has[h][n]

Has(m, b, i) == b # Nil /\ i < Span(m[b].height) /\ HasBelow(m, b, m[b].height, i)

Size(m, b) == IF b = Nil THEN 0 ELSE m[b].count

\* From a directory node, at.node, to its first child, of height k; at.low is the
\* first id below it.
Down(m, at, k) ==
    LET s == Lowest(DOMAIN m[at.node].kids)
    IN  [node |-> m[at.node].kids[s], low |-> at.low + s * Span(k)]

\* Min of a bitmap that is not Nil.
Least(m, b) ==
    LET h == m[b].height
        down[j \in 0..h] == IF j = 0 THEN [node |-> b, low |-> 0]
                            ELSE Down(m, down[j - 1], h - j)
    IN  down[h].low + Lowest(m[down[h].node].bits)

\* The nodes of a bitmap.
Nodes(m, b) ==
    LET below[k \in Nat] ==
            [x \in DOMAIN m |->
                IF k = 0 THEN {x}
                ELSE {x} \cup UNION {below[k - 1][m[x].kids[s]] : s \in DOMAIN m[x].kids}]
    IN  IF b = Nil THEN {} ELSE below[m[b].height][b]

----------------------------------------------------------------------------
(* Writer.                                                                 *)

With(f, s, x) == [t \in DOMAIN f \cup {s} |-> IF t = s THEN x ELSE f[t]]
Without(f, s) == Restrict(f, DOMAIN f \ {s})

\* The least number that names no node.
Fresh(m) == Lowest((1..(Cardinality(DOMAIN m) + 1)) \ DOMAIN m)

\* The node with these contents: n if the writer owns it, else a new one.
Own(m, e, n, node) ==
    LET at == IF n # Nil /\ m[n].epoch = e THEN n ELSE Fresh(m)
    IN  [heap |-> With(m, at, [node EXCEPT !.epoch = e]), node |-> at]

\* set and branch at a chunk, which n is or is to be: i is added.
PutChunk(m, e, n, i) ==
    Own(m, e, n, [NodeAt(m, n, 0) EXCEPT !.count = @ + 1, !.bits = @ \cup {i % ChunkSize}])

\* set and branch at a directory node of height h, once it has been done in slot
\* s below it.
PutDir(m, e, n, h, s, below) ==
    Own(below.heap, e, n,
        [NodeAt(m, n, h) EXCEPT !.count = @ + 1, !.kids = With(@, s, below.node)])

\* set and branch: n, or a new node of height h, with i added.
Put(m, e, n, h, i) ==
    LET put[k \in Nat] ==
            [x \in DOMAIN m \cup {Nil} |->
                IF k = 0 THEN PutChunk(m, e, x, i)
                ELSE PutDir(m, e, x, k, Slot(i, k),
                            put[k - 1][Kid(NodeAt(m, x, k), Slot(i, k))])]
    IN  put[h][n]

\* Mutant: one id too few.
HeightForLate(i) == Lowest({h \in 0..i : i <= Span(h)})

\* The lowest height that covers i.
HeightFor(i) == Lowest({h \in 0..i : i < Span(h)})

\* One level more: b becomes child 0.
Taller(m, e, b) ==
    Own(m, e, Nil, [Blank(m[b].height + 1) EXCEPT !.count = m[b].count,
                                                  !.kids = With(@, 0, b)])

\* b under d new levels.
Raised(m, e, b, d) ==
    LET grow[k \in Nat] ==
            IF k = 0 THEN [heap |-> m, node |-> b]
            ELSE Taller(grow[k - 1].heap, e, grow[k - 1].node)
    IN  grow[d]

\* The directory over b grown until it covers i.
Grow(m, e, b, i) ==
    Raised(m, e, b, IF m[b].height < HeightFor(i) THEN HeightFor(i) - m[b].height ELSE 0)

\* Set once the directory covers i.
Stored(g, e, i) == Put(g.heap, e, g.node, g.heap[g.node].height, i)

Set(m, e, b, i) ==
    IF Has(m, b, i) THEN [heap |-> m, node |-> b]
    ELSE IF b = Nil THEN Put(m, e, Nil, HeightFor(i), i)
    ELSE Stored(Grow(m, e, b, i), e, i)

\* Mutant: levels are never dropped.
CanonicalAsIs(m, b) == b

\* Without the directory levels that only lead to child 0.
Canonical(m, b) ==
    LET low[k \in Nat] ==
            [x \in DOMAIN m |->
                IF k = 0 \/ DOMAIN m[x].kids # {0} THEN x ELSE low[k - 1][m[x].kids[0]]]
    IN  IF b = Nil THEN Nil ELSE low[m[b].height][b]

\* clear at a chunk.
TakeChunk(m, e, n, i) ==
    LET old == NodeAt(m, n, 0)
    IN  IF old.count = 1 THEN [heap |-> m, node |-> Nil]
        ELSE Own(m, e, n, [old EXCEPT !.count = @ - 1, !.bits = @ \ {i % ChunkSize}])

\* clear at a directory node of height h, once it has been done in slot s below it.
TakeDir(m, e, n, h, s, below) ==
    LET old == NodeAt(m, n, h)
    IN  IF old.count = 1 THEN [heap |-> m, node |-> Nil]
        ELSE Own(below.heap, e, n,
                 [old EXCEPT !.count = @ - 1,
                             !.kids = IF below.node = Nil THEN Without(@, s)
                                      ELSE With(@, s, below.node)])

\* clear: n without i, which it has, or Nil.
Take(m, e, n, h, i) ==
    LET take[k \in Nat] ==
            [x \in DOMAIN m \cup {Nil} |->
                IF k = 0 THEN TakeChunk(m, e, x, i)
                ELSE TakeDir(m, e, x, k, Slot(i, k),
                             take[k - 1][Kid(NodeAt(m, x, k), Slot(i, k))])]
    IN  take[h][n]

Clear(m, e, b, i) ==
    IF ~Has(m, b, i) THEN [heap |-> m, node |-> b]
    ELSE LET left == Take(m, e, b, m[b].height, i)
         IN  [left EXCEPT !.node = Canonical(left.heap, @)]
=============================================================================
