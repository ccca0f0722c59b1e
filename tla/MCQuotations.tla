--------------------------- MODULE MCQuotations ---------------------------
(***************************************************************************)
(* Instances of Quotations for TLC: small tables, a few overlapping        *)
(* requests, memberships on both sides of the amounts.                     *)
(***************************************************************************)
EXTENDS QuotationScreens, TLC

Owner    == [role |-> "OWNER", limit |-> NoLimit]
Approver == [role |-> "APPROVER", limit |-> 2]
Buyer    == [role |-> "BUYER", limit |-> 1]

OwnerOnly    == {Owner}
OwnerLimited == {Owner, [role |-> "OWNER", limit |-> 1]}
Team         == {Owner, Approver, Buyer}

AnyMove == RfqStatus

\* Requests and rows are interchangeable.
Symmetry      == Permutations(Requests) \cup Permutations(Quotes)
=============================================================================
