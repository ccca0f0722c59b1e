-------------------------- MODULE MCMobileSession --------------------------
(***************************************************************************)
(* Instances of MobileSession for TLC.                                     *)
(***************************************************************************)
EXTENDS MobileSession, TLC

Symmetry == Permutations(Users) \cup Permutations(Calls) \cup Permutations(Flows)
=============================================================================
