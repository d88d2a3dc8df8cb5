----------------------------- MODULE BitmapOps -----------------------------
(***************************************************************************)
(* internal/bitmap, iteration over the nodes of module Bitmap.  The four   *)
(* words of a chunk are one set, from which the lowest id is taken next.   *)
(***************************************************************************)
EXTENDS Bitmap, Sequences, TLC

----------------------------------------------------------------------------
(* Iteration.  An iterator is the path of frames from the root, each with   *)
(* the slots it has yet to visit, and what is left of the current chunk.    *)

RECURSIVE Descend(_, _, _)
Descend(m, path, h) ==
    LET f     == path[Len(path)]
        s     == Lowest(f.present)
        child == m[f.node].kids[s]
        base  == f.base + s * Span(h - 1)
        rest  == [path EXCEPT ![Len(path)].present = @ \ {s}]
    IN  IF h = 1 THEN [path |-> rest, chunk |-> child, base |-> base, bits |-> m[child].bits]
        ELSE Descend(m, Append(rest, [node |-> child, base |-> base,
                                      present |-> DOMAIN m[child].kids]), h - 1)

Iterate(m, b) ==
    IF b = Nil THEN [path |-> << >>, chunk |-> Nil, base |-> 0, bits |-> {}]
    ELSE IF m[b].height = 0
         THEN [path |-> << >>, chunk |-> b, base |-> 0, bits |-> m[b].bits]
         ELSE Descend(m, << [node |-> b, base |-> 0, present |-> DOMAIN m[b].kids] >>,
                      m[b].height)

RECURSIVE BackUp(_, _, _)

\* Mutant: the height is not counted.
BackUpAtOne(m, path, h) ==
    IF path = << >> THEN [path |-> << >>, chunk |-> Nil, base |-> 0, bits |-> {}]
    ELSE IF path[Len(path)].present # {} THEN Descend(m, path, h)
         ELSE BackUp(m, SubSeq(path, 1, Len(path) - 1), h)

\* Back up to the last frame with a slot to visit.  The height of the node it
\* stands on is counted on the way, from 1.
BackUp(m, path, h) ==
    IF path = << >> THEN [path |-> << >>, chunk |-> Nil, base |-> 0, bits |-> {}]
    ELSE IF path[Len(path)].present # {} THEN Descend(m, path, h)
         ELSE BackUp(m, SubSeq(path, 1, Len(path) - 1), h + 1)

\* The ids that calls of Next return until the iterator is exhausted.
RECURSIVE Rest(_, _)
Rest(m, it) ==
    IF it.chunk = Nil THEN << >>
    ELSE IF it.bits = {} THEN Rest(m, BackUp(m, it.path, 1))
         ELSE <<it.base + Lowest(it.bits)>>
                  \o Rest(m, [it EXCEPT !.bits = @ \ {Lowest(@)}])
=============================================================================
