----------------------------- MODULE PageGates ------------------------------
(***************************************************************************)
(* How the web app decides what a page shows (apps/web/components): the    *)
(* guards of its areas, the two home rules of a signed-in user, and what a *)
(* page is to this project: whether it is shown, which routes of the API   *)
(* it calls or offers to call, and which pages it links to.                *)
(*                                                                         *)
(* A viewer is what useSession knows: the account's role ("NONE": nobody   *)
(* is signed in), whether the account has memberships, the role in the     *)
(* active organisation, and whether the second factor is still missing.    *)
(***************************************************************************)
EXTENDS Access

Viewer ==
  { v \in [role : Role \cup {"NONE"}, member : BOOLEAN,
           orgRole : OrgRole \cup {"NONE"}, unverified : BOOLEAN] :
      /\ v.orgRole # "NONE" => v.member
      /\ v.role = "NONE" => ~v.member
      /\ v.unverified => IsStaffRole(v.role) /\ StaffMfaRequired }

\* SHOWN, or what stands in the page's place: a redirect to sign in, to verify
\* or to another page, "You don't have access", "Open a trade account", "Choose
\* an organization".
Gate == {"SHOWN", "SIGN_IN", "VERIFY", "ELSEWHERE", "REFUSED", "OPEN_ACCOUNT", "CHOOSE"}

Page(gate, calls, links) == [gate |-> gate, calls |-> calls, links |-> links]

OnlyIf(condition, set) == IF condition THEN set ELSE {}

-----------------------------------------------------------------------------
(***************************************************************************)
(* RequireAuth: sign in first; a staff account of the back office verifies *)
(* its second factor; then the role or the membership decides.             *)
(***************************************************************************)
RequireAuth(v, backOffice, allowed, otherwise) ==
  IF v.role = "NONE" THEN "SIGN_IN"
  ELSE IF backOffice /\ IsStaffRole(v.role) /\ v.unverified THEN "VERIFY"
  ELSE IF allowed THEN "SHOWN" ELSE otherwise

AccountLayout(v)  == RequireAuth(v, FALSE, TRUE, "REFUSED")
AdminLayout(v)    == RequireAuth(v, TRUE, IsStaffRole(v.role), "REFUSED")

\* The pages of the back office ask for one permission each, inside the layout.
RequirePermission(v, permission) ==
  IF AdminLayout(v) # "SHOWN" THEN AdminLayout(v)
  ELSE IF HasPermission(v.role, permission) THEN "SHOWN" ELSE "REFUSED"

BusinessShell(v) ==
  LET signedIn == RequireAuth(v, FALSE, v.member, "OPEN_ACCOUNT")
  IN  IF signedIn = "SHOWN" /\ v.orgRole = "NONE" THEN "CHOOSE" ELSE signedIn

\* useCan and useOrg().can: what hides a single button or link.
UseCan(v, permission) == HasPermission(v.role, permission)
OrgCan(v, permission) == HasOrgPermission(v.orgRole, permission)

-----------------------------------------------------------------------------
(***************************************************************************)
(* Where a viewer is taken after signing in, and the menus they are shown. *)
(***************************************************************************)
LandingPath(v) ==
  IF IsStaffRole(v.role) THEN "admin"
  ELSE IF v.member THEN "business" ELSE "account"

SiteHeader(v) ==
  {"home", "products", "quote", "register", "contact", "cart"}
    \cup OnlyIf(v.role # "NONE", {"account"})
    \cup OnlyIf(v.role = "NONE", {"login"})
    \cup OnlyIf(v.member, {"business"})
    \cup OnlyIf(IsStaffRole(v.role), {"admin"})

SiteFooter == {"quote", "contact", "register", "accountOrders", "login", "products"}

AdminNav(v) ==
  LET shown(page, permission) == OnlyIf(UseCan(v, permission), {page})
  IN  shown("admin", "DASHBOARD_VIEW")
        \cup shown("adminOrders", "ORDERS_READ_ALL")
        \cup shown("adminRfqs", "RFQS_MANAGE")
        \cup shown("adminQuotations", "QUOTATIONS_MANAGE")
        \cup shown("adminOrganizations", "ORGANIZATIONS_REVIEW")
        \cup shown("adminProducts", "CATALOG_WRITE")
        \cup shown("adminCategories", "CATALOG_WRITE")
        \cup shown("adminUsers", "USERS_MANAGE")
        \cup shown("adminAudit", "AUDIT_READ")
        \cup {"home"}

AccountNav(v) ==
  {"account", "accountOrders", "accountQuotations", "accountAddresses"}
    \cup OnlyIf(~v.member, {"tradeAccount"})

BusinessNav == {"business", "businessRfqs", "businessQuotations", "businessOrders",
                "businessTeam", "businessSites", "businessCompany"}
=============================================================================
