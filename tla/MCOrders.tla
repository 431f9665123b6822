------------------------------ MODULE MCOrders ------------------------------
EXTENDS Orders, TLC
CONSTANTS o1, o2, w1, c1, c2
MCKindsOf == c1 :> Kinds \ {"cancel"} @@ c2 :> {"issue", "cancel"}
Symmetry == Permutations({o1, o2})
=============================================================================
