------------------------------ MODULE MCOrders ------------------------------
(***************************************************************************)
(* Instances of Orders for TLC.                                            *)
(***************************************************************************)
EXTENDS OrderScreens

CONSTANTS p1, p2

OneEach == {[p \in Products |-> 1]}

\* Orders and requests are interchangeable.
Symmetry == Permutations(Requests) \cup Permutations(Orders)
=============================================================================
