-------------------------------- MODULE PVec --------------------------------
(***************************************************************************)
(* internal/pvec: the persistent vector from row ids to row objects, node  *)
(* by node, in the manner of module Bitmap.  A node is [epoch, used, vals, *)
(* kids]: a leaf maps its slots in use to values, a directory node to      *)
(* nodes.  A vector is [root, height]: the nodes do not know how high they *)
(* are.  Recursion descends from a height to the one below, for all nodes  *)
(* of the heap.                                                            *)
(*                                                                         *)
(* Leaves have LeafSize slots and directory nodes InnerSize where the code *)
(* has 16 and 32.                                                          *)
(***************************************************************************)
EXTENDS Naturals, FiniteSets, Functions

CONSTANTS LeafSize, InnerSize, None   \* None is the nil value

Sizes == LeafSize \in Nat \ {0} /\ InnerSize \in Nat \ {0, 1}

Nil == 0
Empty == [root |-> Nil, height |-> 0]
Blank == [epoch |-> 0, used |-> 0, vals |-> << >>, kids |-> << >>]

\* The number of indexes below a node of height h.
Span(h) ==
    LET span[k \in Nat] == IF k = 0 THEN LeafSize ELSE span[k - 1] * InnerSize
    IN  span[h]

SlotAt(h, i) == IF h = 0 THEN i % LeafSize ELSE (i \div Span(h - 1)) % InnerSize

NodeAt(m, n) == IF n = Nil THEN Blank ELSE m[n]
Kid(node, s) == IF s \in DOMAIN node.kids THEN node.kids[s] ELSE Nil
Val(node, s) == IF s \in DOMAIN node.vals THEN node.vals[s] ELSE None

\* The value at i below the node n of height h.
GetBelow(m, n, h, i) ==
    LET get[k \in Nat] ==
            [x \in DOMAIN m \cup {Nil} |->
                IF x = Nil THEN None
                ELSE IF k = 0 THEN Val(m[x], SlotAt(0, i))
                ELSE get[k - 1][Kid(m[x], SlotAt(k, i))]]
    IN  get[h][n]

Get(m, v, i) == IF i < Span(v.height) THEN GetBelow(m, v.root, v.height, i) ELSE None

\* The nodes at and below n.
Nodes(m, n, h) ==
    LET below[k \in Nat] ==
            [x \in DOMAIN m \cup {Nil} |->
                IF x = Nil THEN {}
                ELSE IF k = 0 THEN {x}
                ELSE {x} \cup UNION {below[k - 1][m[x].kids[s]] : s \in DOMAIN m[x].kids}]
    IN  below[h][n]

\* The places below n, from 0, that hold a value.
Filled(m, n, h) == {i \in 0..(Span(h) - 1) : GetBelow(m, n, h, i) # None}

\* The children of x, of height h, have no node in common, nor x below them.
Apart(m, x, h) ==
    LET kids == m[x].kids
    IN  \A s \in DOMAIN kids :
            /\ x \notin Nodes(m, kids[s], h)
            /\ \A t \in DOMAIN kids \ {s} :
                  Nodes(m, kids[s], h) \cap Nodes(m, kids[t], h) = {}

\* The nodes that, at height h, are trees of nodes that are not empty and count
\* the values below them.
Whole(m, h) ==
    LET whole[k \in Nat] ==
            [x \in DOMAIN m |->
                /\ m[x].used = Cardinality(Filled(m, x, k))
                /\ m[x].used # 0
                /\ k # 0 => /\ Apart(m, x, k - 1)
                            /\ \A s \in DOMAIN m[x].kids :
                                  m[x].kids[s] \in DOMAIN m /\ whole[k - 1][m[x].kids[s]]]
    IN  {x \in DOMAIN m : whole[h][x]}

\* A vector of the nodes of m.
IsVec(m, v) ==
    /\ v = [root |-> v.root, height |-> v.height]
    /\ v.height \in Nat
    /\ v.root = Nil \/ v.root \in Whole(m, v.height)

----------------------------------------------------------------------------
(* Writer.                                                                 *)

With(f, s, x) == [t \in DOMAIN f \cup {s} |-> IF t = s THEN x ELSE f[t]]
Without(f, s) == Restrict(f, DOMAIN f \ {s})

\* The least number that names no node.
Fresh(m) ==
    LET unused == (1..(Cardinality(DOMAIN m) + 1)) \ DOMAIN m
    IN  CHOOSE x \in unused : \A y \in unused : x <= y

\* The node with these contents: n if the writer owns it, else a new one.
Own(m, e, n, node) ==
    LET at == IF n # Nil /\ m[n].epoch = e THEN n ELSE Fresh(m)
    IN  [heap |-> With(m, at, [node EXCEPT !.epoch = e]), node |-> at]

\* set at a leaf, which n is or is to be: val, None to unset it, in slot s.  A
\* node that this leaves empty is dropped; the code has emptied it by then, but
\* a node that was the writer's own has nobody else who could look.
SetLeaf(m, e, n, s, val) ==
    LET old    == NodeAt(m, n)
        used   == (old.used + (IF val = None THEN 0 ELSE 1))
                      - (IF Val(old, s) = None THEN 0 ELSE 1)
    IN  IF used = 0 THEN [heap |-> m, node |-> Nil]
        ELSE Own(m, e, n, [old EXCEPT !.used = used,
                                      !.vals = IF val = None THEN Without(@, s)
                                               ELSE With(@, s, val)])

\* Mutant: what was used below is read after the write, which may be in place.
SetInnerCountsAfter(m, e, n, s, below) ==
    LET old  == NodeAt(m, n)
        used == (old.used + NodeAt(below.heap, below.node).used)
                    - NodeAt(below.heap, Kid(old, s)).used
    IN  IF used = 0 THEN [heap |-> below.heap, node |-> Nil]
        ELSE Own(below.heap, e, n,
                 [old EXCEPT !.used = used,
                             !.kids = IF below.node = Nil THEN Without(@, s)
                                      ELSE With(@, s, below.node)])

\* set at a directory node, once it has been done in slot s below it.
SetInner(m, e, n, s, below) ==
    LET old  == NodeAt(m, n)
        used == (old.used + NodeAt(below.heap, below.node).used)
                    - NodeAt(m, Kid(old, s)).used
    IN  IF used = 0 THEN [heap |-> below.heap, node |-> Nil]
        ELSE Own(below.heap, e, n,
                 [old EXCEPT !.used = used,
                             !.kids = IF below.node = Nil THEN Without(@, s)
                                      ELSE With(@, s, below.node)])

\* set: n, or a new node, with val at i; Nil if that leaves it empty.
Put(m, e, n, h, i, val) ==
    LET put[k \in Nat] ==
            [x \in DOMAIN m \cup {Nil} |->
                IF k = 0 THEN SetLeaf(m, e, x, SlotAt(0, i), val)
                ELSE SetInner(m, e, x, SlotAt(k, i),
                              put[k - 1][Kid(NodeAt(m, x), SlotAt(k, i))])]
    IN  put[h][n]

\* One level more: the old root becomes child 0.
Taller(m, e, v) ==
    LET up == IF v.root = Nil THEN [heap |-> m, node |-> Nil]
              ELSE Own(m, e, Nil, [Blank EXCEPT !.used = m[v.root].used,
                                                !.kids = With(@, 0, v.root)])
    IN  [heap |-> up.heap, vec |-> [root |-> up.node, height |-> v.height + 1]]

\* The lowest height that covers i.
HeightFor(i) ==
    CHOOSE h \in 0..i : i < Span(h) /\ \A k \in 0..i : i < Span(k) => h <= k

\* The vector grown until it covers i.
Grow(m, e, v, i) ==
    LET grow[k \in Nat] ==
            IF k = 0 THEN [heap |-> m, vec |-> v]
            ELSE Taller(grow[k - 1].heap, e, grow[k - 1].vec)
    IN  IF v.height < HeightFor(i) THEN grow[HeightFor(i) - v.height] ELSE grow[0]

\* A vector that had the shape of v and now has the root and the heap of r.
Rooted(v, r) ==
    [heap |-> r.heap, vec |-> IF r.node = Nil THEN Empty ELSE [v EXCEPT !.root = r.node]]

\* What Set does once the vector covers i.
Stored(g, e, i, val) ==
    Rooted(g.vec, Put(g.heap, e, g.vec.root, g.vec.height, i, val))

Set(m, e, v, i, val) ==
    IF val = None /\ Get(m, v, i) = None THEN [heap |-> m, vec |-> v]
    ELSE Stored(IF val = None THEN [heap |-> m, vec |-> v] ELSE Grow(m, e, v, i), e, i, val)
=============================================================================
