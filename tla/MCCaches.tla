------------------------------ MODULE MCCaches ------------------------------
(* Two databases whose schemas number their indexes differently, a handle    *)
(* that resolves in both and one that resolves in the first only; two types  *)
(* with a field of the same name at different places, all in one slot of the *)
(* process-wide table.                                                       *)
EXTENDS Caches, TLC

CONSTANTS p1, p2, s1, s2, h1, h2, t1, t2, n1, n2, c, i1, i2, i3

MCRefOf  == s1 :> (h1 :> i1 @@ h2 :> i3) @@ s2 :> (h1 :> i2 @@ h2 :> NoIndex)
MCLocOf  == t1 :> (n1 :> 0 @@ n2 :> 8) @@ t2 :> (n1 :> 8 @@ n2 :> 99)
MCSlotOf == [t \in Type |-> [n \in Name |-> c]]
Symmetry == Permutations(Proc)
============================================================================
