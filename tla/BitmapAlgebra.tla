--------------------------- MODULE BitmapAlgebra ---------------------------
(***************************************************************************)
(* internal/bitmap/ops.go: And, Or and AndNot of two bitmaps, on the nodes *)
(* of module Bitmap.                                                       *)
(*                                                                         *)
(* The operands are in a heap m, and what is made of them is m and new     *)
(* nodes.  Nodes are made one after the other, so an operation is given    *)
(* the number of the last new one, last, and returns, with its heap and    *)
(* node, the last that it made.                                            *)
(***************************************************************************)
EXTENDS Bitmap

Ops == {"And", "Or", "AndNot"}
Meet(op, S, T) ==
    CASE op = "And" -> S \cap T [] op = "Or" -> S \cup T [] op = "AndNot" -> S \ T

\* The next number after l that names no node.
After(m, l) == Lowest(((l + 1)..(l + 1 + Cardinality(DOMAIN m))) \ DOMAIN m)

\* Whether node has what the node n has.
Is(m, n, node) == m[n].count = node.count /\ m[n].bits = node.bits /\ m[n].kids = node.kids

\* Mutant: a result with no ids is a node.
BuiltEmpty(op, m, a, b, g) ==
    IF Is(m, a, g.node) THEN [g EXCEPT !.node = a]
    ELSE IF op # "AndNot" /\ Is(m, b, g.node) THEN [g EXCEPT !.node = b]
    ELSE LET at == After(m, g.last)
         IN  [heap |-> With(g.heap, at, g.node), node |-> at, last |-> at]

\* Mutant: a result is always a new node.
BuiltNew(op, m, a, b, g) ==
    LET at == After(m, g.last)
    IN  IF g.node.count = 0 THEN [g EXCEPT !.node = Nil]
        ELSE [heap |-> With(g.heap, at, g.node), node |-> at, last |-> at]

\* What and, or and andNot make of a and b once they know what is in it, g.node:
\* the operand it equals, or a new node of epoch 0, which no writer owns.
Built(op, m, a, b, g) ==
    LET at == After(m, g.last)
    IN  IF g.node.count = 0 THEN [g EXCEPT !.node = Nil]
        ELSE IF Is(m, a, g.node) THEN [g EXCEPT !.node = a]
        ELSE IF op # "AndNot" /\ Is(m, b, g.node) THEN [g EXCEPT !.node = b]
        ELSE [heap |-> With(g.heap, at, g.node), node |-> at, last |-> at]

\* Where a and b are the same, or one of them is missing.
Spared(op, a, b) ==
    IF a = b THEN (IF op = "AndNot" THEN Nil ELSE a)
    ELSE IF a = Nil THEN (IF op = "Or" THEN b ELSE Nil)
    ELSE (IF op = "And" THEN Nil ELSE a)

\* The words of two chunks.
Words(op, m, a, b, last) ==
    LET w == Meet(op, m[a].bits, m[b].bits)
    IN  [heap |-> m, last |-> last,
         node |-> [Blank(0) EXCEPT !.count = Cardinality(w), !.bits = w]]

\* The two heaps, as one.
Joined(f, g) == [x \in DOMAIN f \cup DOMAIN g |-> IF x \in DOMAIN f THEN f[x] ELSE g[x]]

\* builder.add: r, unless it is Nil, becomes the child of g.node in slot s.
Add(g, s, r) ==
    [heap |-> Joined(r.heap, g.heap), last |-> r.last,
     node |-> IF r.node = Nil THEN g.node
              ELSE [g.node EXCEPT !.count = @ + r.heap[r.node].count,
                                  !.kids = With(@, s, r.node)]]

\* The children of two directory nodes, slot by slot; below does two of them.
Children(m, a, b, last, below) ==
    LET join[s \in Nat] ==
            IF s = 0 THEN [heap |-> m, last |-> last, node |-> Blank(m[a].height)]
            ELSE Add(join[s - 1], s - 1,
                     below[<<Kid(m[a], s - 1), Kid(m[b], s - 1), join[s - 1].last>>])
    IN  join[Fan]

\* and, or and andNot of two nodes of the same height, either of which may be
\* missing.
Combined(op, m, a, b) ==
    LET D == DOMAIN m \cup {Nil}
        comb[k \in Nat] ==
            [p \in D \X D \X Nat |->
                IF p[1] = p[2] \/ p[1] = Nil \/ p[2] = Nil
                THEN [heap |-> m, node |-> Spared(op, p[1], p[2]), last |-> p[3]]
                ELSE Built(op, m, p[1], p[2],
                           IF k = 0 THEN Words(op, m, p[1], p[2], p[3])
                           ELSE Children(m, p[1], p[2], p[3], comb[k - 1]))]
    IN  comb[NodeAt(m, a, 0).height][<<a, b, 0>>]

\* level: b under new directory nodes up to height h.
Lift(m, b, h) == Raised(m, 0, b, IF m[b].height < h THEN h - m[b].height ELSE 0)

\* Mutant: the first child, whichever it is.
LowerFirst(m, b, h) ==
    LET low[k \in Nat] ==
            [x \in DOMAIN m \cup {Nil} |->
                IF k = 0 \/ x = Nil THEN x
                ELSE low[k - 1][Kid(m[x], Lowest(DOMAIN m[x].kids))]]
    IN  IF b # Nil /\ h < m[b].height THEN low[m[b].height - h][b] ELSE b

\* Child 0 of b, or of child 0, ..., of height h at most.
Lower(m, b, h) ==
    LET low[k \in Nat] ==
            [x \in DOMAIN m \cup {Nil} |->
                IF k = 0 \/ x = Nil THEN x ELSE low[k - 1][Kid(m[x], 0)]]
    IN  IF b # Nil /\ h < m[b].height THEN low[m[b].height - h][b] ELSE b

And(m, a, b) ==
    IF a = Nil \/ b = Nil THEN [heap |-> m, node |-> Nil]
    ELSE Combined("And", m, Lower(m, a, m[b].height), Lower(m, b, m[a].height))

Or(m, a, b) ==
    IF a = Nil \/ b = Nil THEN [heap |-> m, node |-> Spared("Or", a, b)]
    ELSE LET x == Lift(m, a, m[b].height)
             y == Lift(x.heap, b, m[a].height)
         IN  Combined("Or", y.heap, x.node, y.node)

AndNot(m, a, b) ==
    IF a = Nil \/ b = Nil \/ Lower(m, b, m[a].height) = Nil
    THEN [heap |-> m, node |-> a]
    ELSE LET y == Lift(m, Lower(m, b, m[a].height), m[a].height)
         IN  Combined("AndNot", y.heap, a, y.node)

\* One of the three, and the canonical form of what it returns.
Algebra(op, m, a, b) ==
    LET r == CASE op = "And" -> And(m, a, b)
               [] op = "Or" -> Or(m, a, b)
               [] op = "AndNot" -> AndNot(m, a, b)
    IN  [heap |-> r.heap, node |-> Canonical(r.heap, r.node)]
=============================================================================
