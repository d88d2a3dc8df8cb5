----------------------------- MODULE MCRowSets -----------------------------
\* Model-checking instances of RowSets and of RowAlgebra.
EXTENDS RowAlgebra, TLC

CONSTANTS a, b

OneObj == {{}, {a}}
TwoObj == {{a}, {b}, {}}
OneValue  == {a}
TwoValues == {a, b}
Rows4One == <<{a}, {}, {}, {a}>>
Rows4Two == <<{a}, {a, b}, {}, {b}>>
Same == Permutations(DB)
=============================================================================
