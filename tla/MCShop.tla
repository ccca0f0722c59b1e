------------------------------- MODULE MCShop -------------------------------
(***************************************************************************)
(* Instances of Shop for TLC.                                              *)
(***************************************************************************)
EXTENDS Shop, TLC

TwoOffers == {[price |-> 24990, min |-> 1], [price |-> 25010, min |-> 2]}

PicksByClient  == [APP |-> 2, BROWSER |-> 1]
OrdersByClient == [APP |-> 2, BROWSER |-> 1]

Symmetry == Permutations(Products) \cup Permutations(Refreshes)
              \cup Permutations(Attempts) \cup Permutations(Tabs)
=============================================================================
