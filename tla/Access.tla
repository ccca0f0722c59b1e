------------------------------- MODULE Access -------------------------------
(***************************************************************************)
(* Who may call what.  The permission matrix the API and its clients share *)
(* (packages/shared/src/permissions.ts), the three guards every request of *)
(* the API passes (apps/api/src/auth/guards.ts), and what each route of    *)
(* each controller demands of its caller.                                  *)
(*                                                                         *)
(* A route is what it demands: a field of its controller's record.         *)
(* Constant operators only: PageGates and WebSession build on them.        *)
(***************************************************************************)
EXTENDS Workflows

CONSTANT StaffMfaRequired   \* the deployment's STAFF_MFA_REQUIRED switch

ASSUME StaffMfaAssumption == StaffMfaRequired \in BOOLEAN

Role == {"CUSTOMER", "SALES", "WAREHOUSE", "ADMIN"}

Permission ==
  {"DASHBOARD_VIEW", "CATALOG_WRITE", "CATALOG_DELETE", "STOCK_WRITE",
   "ORDERS_READ_ALL", "ORDERS_MANAGE", "ORDERS_FULFIL", "RFQS_MANAGE",
   "QUOTATIONS_MANAGE", "ORGANIZATIONS_REVIEW", "USERS_MANAGE", "AUDIT_READ"}

RolePermissions ==
  [ CUSTOMER  |-> {},
    SALES     |-> {"DASHBOARD_VIEW", "ORDERS_READ_ALL", "ORDERS_MANAGE",
                   "RFQS_MANAGE", "QUOTATIONS_MANAGE", "ORGANIZATIONS_REVIEW"},
    WAREHOUSE |-> {"DASHBOARD_VIEW", "CATALOG_WRITE", "STOCK_WRITE",
                   "ORDERS_READ_ALL", "ORDERS_FULFIL"},
    ADMIN     |-> Permission ]

OrgPermission == {"ORDERS_VIEW", "RFQ_CREATE", "QUOTE_RESPOND", "PURCHASE_APPROVE",
                  "SITES_MANAGE", "MEMBERS_MANAGE", "PROFILE_MANAGE"}

OrgRolePermissions ==
  [ BUYER    |-> {"ORDERS_VIEW", "RFQ_CREATE", "QUOTE_RESPOND"},
    APPROVER |-> {"ORDERS_VIEW", "RFQ_CREATE", "QUOTE_RESPOND",
                  "PURCHASE_APPROVE", "SITES_MANAGE"},
    OWNER    |-> OrgPermission ]

\* "NONE" is the role of somebody who has none: nobody signed in, no member.
HasPermission(role, permission) ==
  role # "NONE" /\ permission \in RolePermissions[role]

HasOrgPermission(role, permission) ==
  role # "NONE" /\ permission \in OrgRolePermissions[role]

IsStaffRole(role) == role \notin {"NONE", "CUSTOMER"}

-----------------------------------------------------------------------------
(***************************************************************************)
(* What a route demands of its caller.                                     *)
(***************************************************************************)
Public    == [needs |-> "NOBODY", permission |-> "NONE"]
SignedIn  == [needs |-> "USER",   permission |-> "NONE"]
Staff(p)  == [needs |-> "STAFF",  permission |-> p]
Tenant(p) == [needs |-> "MEMBER", permission |-> p]

Route == {Public, SignedIn} \cup {Staff(p) : p \in Permission}
                            \cup {Tenant(p) : p \in OrgPermission}

(***************************************************************************)
(* The caller of a request, as the guards find them: whether a valid token *)
(* came with it, the account's row, the session's assurance level, the     *)
(* organisation the header names ("NONE": no header), its status and the   *)
(* caller's role there ("NONE": no member).                                *)
(***************************************************************************)
Caller ==
  [ token : BOOLEAN, active : BOOLEAN, role : Role, secondFactor : BOOLEAN,
    named : BOOLEAN, orgStatus : OrgStatus, orgRole : OrgRole \cup {"NONE"} ]

\* Guard 1.  A disabled account is answered like a missing token.
AuthenticationGuard(caller, route) ==
  IF route = Public \/ (caller.token /\ caller.active) THEN "OK" ELSE "UNAUTHORIZED"

\* Guard 2.  The permission first, the second factor of a staff role after it.
PermissionsGuard(caller, route) ==
  IF route.needs # "STAFF" THEN "OK"
  ELSE IF ~HasPermission(caller.role, route.permission) THEN "FORBIDDEN"
  ELSE IF StaffMfaRequired /\ IsStaffRole(caller.role) /\ ~caller.secondFactor
       THEN "MFA_REQUIRED" ELSE "OK"

\* Guard 3.  The organisation of the header: membership, status, role there.
OrganizationGuard(caller, route) ==
  IF route.needs # "MEMBER" THEN "OK"
  ELSE IF ~caller.named THEN "BAD_REQUEST"
  ELSE IF /\ caller.orgRole # "NONE"
          /\ caller.orgStatus # "SUSPENDED"
          /\ HasOrgPermission(caller.orgRole, route.permission)
       THEN "OK" ELSE "FORBIDDEN"

\* The guards run in this order, and the first refusal is the answer.
Answer(caller, route) ==
  LET first  == AuthenticationGuard(caller, route)
      second == PermissionsGuard(caller, route)
  IN  IF first # "OK" THEN first
      ELSE IF second # "OK" THEN second ELSE OrganizationGuard(caller, route)

Admits(caller, route) == Answer(caller, route) = "OK"

-----------------------------------------------------------------------------
(***************************************************************************)
(* The controllers.  A decorator of the class covers each of its routes.   *)
(***************************************************************************)
OrgProcurementController ==
  [ listRfqs       |-> Tenant("ORDERS_VIEW"),
    createRfq      |-> Tenant("RFQ_CREATE"),
    getRfq         |-> Tenant("ORDERS_VIEW"),
    cancelRfq      |-> Tenant("RFQ_CREATE"),
    listQuotations |-> Tenant("ORDERS_VIEW"),
    getQuotation   |-> Tenant("ORDERS_VIEW"),
    quotationPdf   |-> Tenant("ORDERS_VIEW"),
    respond        |-> Tenant("QUOTE_RESPOND"),
    decide         |-> Tenant("PURCHASE_APPROVE") ]

MyQuotationsController ==
  [ list |-> SignedIn, get |-> SignedIn, pdf |-> SignedIn, respond |-> SignedIn ]

AdminProcurementController ==
  LET rfqs == Staff("RFQS_MANAGE")  quotations == Staff("QUOTATIONS_MANAGE")
  IN [ listRfqs         |-> rfqs,        getRfq            |-> rfqs,
       updateRfq        |-> rfqs,        assignRfqCustomer |-> rfqs,
       listQuotations   |-> quotations,  createQuotation   |-> quotations,
       getQuotation     |-> quotations,  updateQuotation   |-> quotations,
       discardQuotation |-> quotations,  sendQuotation     |-> quotations,
       reviseQuotation  |-> quotations,  quotationPdf      |-> quotations ]

QuoteRequestsController == [ create |-> Public ]

OrganizationController ==
  [ profile            |-> Tenant("ORDERS_VIEW"),
    updateProfile      |-> Tenant("PROFILE_MANAGE"),
    members            |-> Tenant("ORDERS_VIEW"),
    updateMember       |-> Tenant("MEMBERS_MANAGE"),
    removeMember       |-> Tenant("MEMBERS_MANAGE"),
    pendingInvitations |-> Tenant("MEMBERS_MANAGE"),
    invite             |-> Tenant("MEMBERS_MANAGE"),
    revokeInvitation   |-> Tenant("MEMBERS_MANAGE"),
    sites              |-> Tenant("ORDERS_VIEW"),
    createSite         |-> Tenant("SITES_MANAGE"),
    updateSite         |-> Tenant("SITES_MANAGE"),
    removeSite         |-> Tenant("SITES_MANAGE") ]

InvitationsController == [ preview |-> Public, accept |-> SignedIn ]

AdminOrganizationsController ==
  LET review == Staff("ORGANIZATIONS_REVIEW")
  IN  [ list |-> review, detail |-> review, review |-> review ]

MyOrdersController ==
  [ checkout |-> SignedIn, list |-> SignedIn, get |-> SignedIn, cancel |-> SignedIn ]

OrgOrdersController ==
  [ list   |-> Tenant("ORDERS_VIEW"),
    get    |-> Tenant("ORDERS_VIEW"),
    cancel |-> Tenant("PURCHASE_APPROVE") ]

AdminOrdersController ==
  [ list          |-> Staff("ORDERS_READ_ALL"),
    get           |-> Staff("ORDERS_READ_ALL"),
    transition    |-> Staff("ORDERS_READ_ALL"),
    recordPayment |-> Staff("ORDERS_MANAGE"),
    recordRefund  |-> Staff("ORDERS_MANAGE") ]

CatalogController ==
  [ listProducts |-> Public, getProduct |-> Public,
    listCategories |-> Public, listBrands |-> Public ]

AdminCatalogController ==
  LET write == Staff("CATALOG_WRITE")  delete == Staff("CATALOG_DELETE")
  IN [ listProducts   |-> write,  createProduct  |-> write,
       updateProduct  |-> write,  archiveProduct |-> delete,
       adjustStock    |-> Staff("STOCK_WRITE"),
       createCategory |-> write,  updateCategory |-> write,
       removeCategory |-> delete ]

AccountController ==
  [ updateProfile |-> SignedIn, openTradeAccount |-> SignedIn,
    listAddresses |-> SignedIn, createAddress |-> SignedIn,
    updateAddress |-> SignedIn, removeAddress |-> SignedIn ]

AdminUsersController ==
  LET manage == Staff("USERS_MANAGE")
  IN  [ list |-> manage, createStaff |-> manage, update |-> manage ]

AuditController     == [ list |-> Staff("AUDIT_READ") ]
DashboardController == [ stats |-> Staff("DASHBOARD_VIEW") ]
HealthController    == [ root |-> Public, live |-> Public, ready |-> Public ]
AuthController      == [ me |-> SignedIn ]
=============================================================================
