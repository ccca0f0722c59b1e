----------------------------- MODULE MCMembers -----------------------------
(***************************************************************************)
(* Instances of Members for TLC.                                           *)
(***************************************************************************)
EXTENDS Members, TLC

CONSTANTS founder, ann, bob

\* Requests, invitations and the people other than the founder are
\* interchangeable.
Symmetry ==
  Permutations(Requests) \cup Permutations(Invitations)
  \cup Permutations(People \ {Founder})
=============================================================================
