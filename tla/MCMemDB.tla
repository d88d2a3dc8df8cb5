------------------------------ MODULE MCMemDB ------------------------------
(* A small database for TLC: one table with a primary and a secondary index, *)
(* or a single tree for more goroutine steps.                                *)
EXTENDS MemDB, TLC

CONSTANTS p1, p2, aId, aSec, ta

\* One table with two indexes.
MCSlotsOf == ta :> {aId, aSec}
MCIdSlot  == ta :> aId

\* One tree.
MCSlotsOf1 == ta :> {aId}

Symmetry == Permutations({p1, p2})
============================================================================
