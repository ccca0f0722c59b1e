---------------------------- MODULE MCWebSession ----------------------------
(* A member of two companies and somebody of the staff share a browser.     *)
EXTENDS WebSession

CONSTANTS u1, u2, o1, o2

FoundedMC == [u \in User |-> [o \in Org |-> IF u = u1 /\ o = o1 THEN "OWNER" ELSE "NONE"]]
StaffingMC == {[u \in User |-> IF u = u1 THEN "CUSTOMER" ELSE r] : r \in {"SALES", "WAREHOUSE", "ADMIN"}}
OrgStatesMC == {"ACTIVE", "SUSPENDED"}
InvitedMC == {<<u1, o2>>}
VisitedMC == {"home", "login", "mfa", "account", "tradeAccount", "business", "businessTeam",
              "admin", "adminUsers", "invitation", "password", "forgotPassword"}
=============================================================================
