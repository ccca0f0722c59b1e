------------------------------- MODULE MCRows -------------------------------
(***************************************************************************)
(* Requests that meet on rows of the database, in three instances that     *)
(* share none of them, so that one moves while the others are at rest.     *)
(*                                                                         *)
(* Dispatch: three orders that share two products, with their lines stored *)
(* in opposite orders, a product on two lines and a line without a         *)
(* product; one of the orders is dispatched by two requests.               *)
(* Credit: three quotations of one organisation, each of which fits its    *)
(* limit but not all together, and a checkout.                             *)
(* Catalogue: two people edit a product and three categories.              *)
(***************************************************************************)
EXTENDS Dispatch, CreditRelease, Catalogue, TLC

CONSTANTS o1, o2, o3, r1, r2, r3, r4, a1, a2, a3

Item(p, n) == [product |-> p, quantity |-> n]

SharedLines ==
  o1 :> <<Item(1, 1), Item(2, 1)>> @@
  o2 :> <<Item(2, 1), Item(NoProduct, 1), Item(1, 1)>> @@
  o3 :> <<Item(2, 1), Item(1, 1), Item(2, 1)>>

Dispatching == r1 :> o1 @@ r2 :> o2 @@ r3 :> o3 @@ r4 :> o1

Totals == a1 :> 2 @@ a2 :> 1 @@ a3 :> 1

\* One of the initial states of each, for the others to move beside.
DispatchRests  == Init /\ stock = [p \in Products |-> 2]
CreditRests    == CreditInit /\ terms = Prepaid
CatalogueRests == CatalogueInit

RowsInit ==
  /\ Init /\ CreditInit /\ CatalogueInit
  /\ DispatchRests \/ CreditRests

RowsNext ==
  \/ CreditRests /\ CatalogueRests /\ Next /\ UNCHANGED <<creditVars, catalogueVars>>
  \/ DispatchRests /\ CatalogueRests /\ CreditNext /\ UNCHANGED <<vars, catalogueVars>>
  \/ DispatchRests /\ CreditRests /\ CatalogueNext /\ UNCHANGED <<vars, creditVars>>

RowsSpec == RowsInit /\ [][RowsNext]_<<vars, creditVars, catalogueVars>>
=============================================================================
