------------------------------ MODULE MCIntake ------------------------------
(***************************************************************************)
(* Instances of Intake for TLC.                                            *)
(***************************************************************************)
EXTENDS Intake, TLC

Symmetry == Permutations(Rfqs) \cup Permutations(Requests)
=============================================================================
