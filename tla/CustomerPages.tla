--------------------------- MODULE CustomerPages ----------------------------
(***************************************************************************)
(* What customers see: the trade portal (apps/web/app/business), the       *)
(* account area (app/account), the shop and the sign-in pages of the web   *)
(* app, and the screens of the mobile app.  Gates, calls and links as in   *)
(* BackOfficePages; WebPages puts the two together.                        *)
(***************************************************************************)
EXTENDS BackOfficePages

Company == OrganizationController
OrgDocs == OrgProcurementController
Mine    == MyQuotationsController

-----------------------------------------------------------------------------
(* The trade portal: everything in the name of the active organisation.    *)

BusinessOverviewPage(v) ==
  Page(BusinessShell(v),
       {OrgDocs.listQuotations, OrgDocs.listRfqs, OrgOrdersController.list},
       {"businessQuotations", "businessQuotation", "businessRfqs",
        "businessOrders", "businessOrder", "products"})

RfqsPage(v) ==
  Page(BusinessShell(v), {OrgDocs.listRfqs},
       {"businessRfq", "businessQuotation", "products"})

\* A request is withdrawn by whoever may create one.
RfqView(v) ==
  Page(BusinessShell(v),
       {OrgDocs.getRfq} \cup OnlyIf(OrgCan(v, "RFQ_CREATE"), {OrgDocs.cancelRfq}),
       {"businessRfqs", "businessQuotation"})

QuotationsPage(v) ==
  Page(BusinessShell(v), {OrgDocs.listQuotations}, {"businessQuotation", "businessRfqs"})

\* The answer to an open offer, and the decision on a colleague's purchase.
RespondPanel(v) ==
  OnlyIf(OrgCan(v, "QUOTE_RESPOND"), {OrgDocs.respond})

ApprovalPanel(v) ==
  OnlyIf(OrgCan(v, "PURCHASE_APPROVE"), {OrgDocs.decide})

QuotationView(v) ==
  Page(BusinessShell(v),
       {OrgDocs.getQuotation, OrgDocs.quotationPdf} \cup RespondPanel(v) \cup ApprovalPanel(v),
       {"businessQuotations", "businessRfq", "businessOrder"})

OrdersPage(v) ==
  Page(BusinessShell(v), {OrgOrdersController.list}, {"businessOrder", "businessQuotations"})

\* The API tells whether this member may cancel: a role that approves purchases.
CancelOrderCard(v) ==
  OnlyIf(v.orgRole \in Approvers, {OrgOrdersController.cancel})

\* An order on credit shows the organisation's terms as well.
OrderView(v) ==
  Page(BusinessShell(v),
       {OrgOrdersController.get, Company.profile} \cup CancelOrderCard(v),
       {"businessOrders", "businessQuotation", "contact"})

MemberRow          == {Company.updateMember, Company.removeMember}
InviteCard         == {Company.invite}
PendingInvitations == {Company.pendingInvitations, Company.revokeInvitation}

\* Mutant: the whole team may be managed by whoever can see it.
TeamPageForEverybody(v) ==
  Page(BusinessShell(v), {Company.members} \cup MemberRow \cup InviteCard \cup PendingInvitations, {})

TeamPage(v) ==
  Page(BusinessShell(v),
       {Company.members} \cup OnlyIf(OrgCan(v, "MEMBERS_MANAGE"),
                                 MemberRow \cup InviteCard \cup PendingInvitations),
       {})

SiteForm == {Company.createSite, Company.updateSite}

SitesPage(v) ==
  Page(BusinessShell(v),
       {Company.sites} \cup OnlyIf(OrgCan(v, "SITES_MANAGE"), SiteForm \cup {Company.removeSite}),
       {})

ProfileForm == {Company.updateProfile}

CompanyPage(v) ==
  Page(BusinessShell(v),
       {Company.profile} \cup OnlyIf(OrgCan(v, "PROFILE_MANAGE"), ProfileForm), {})

Business(v) ==
  [ business           |-> BusinessOverviewPage(v),
    businessRfqs       |-> RfqsPage(v),
    businessRfq        |-> RfqView(v),
    businessQuotations |-> QuotationsPage(v),
    businessQuotation  |-> QuotationView(v),
    businessOrders     |-> OrdersPage(v),
    businessOrder      |-> OrderView(v),
    businessTeam       |-> TeamPage(v),
    businessSites      |-> SitesPage(v),
    businessCompany    |-> CompanyPage(v) ]

-----------------------------------------------------------------------------
(* The account area: a person's own orders, quotations and addresses.      *)

ProfileCard == {AccountController.updateProfile}

AccountOverviewPage(v) ==
  Page(AccountLayout(v), {MyOrdersController.list} \cup ProfileCard,
       {"accountOrders", "accountOrder", "products", "mfa"} \cup OnlyIf(v.member, {"business"}))

AccountOrdersPage(v) ==
  Page(AccountLayout(v), {MyOrdersController.list}, {"accountOrder", "products"})

AccountOrderDetail(v) ==
  Page(AccountLayout(v), {MyOrdersController.get, MyOrdersController.cancel},
       {"accountOrders", "contact"})

AccountQuotationsPage(v) ==
  Page(AccountLayout(v), {Mine.list}, {"accountQuotation", "quote"})

PersonalRespondPanel == {Mine.respond, AccountController.listAddresses}

AccountQuotationView(v) ==
  Page(AccountLayout(v), {Mine.get, Mine.pdf} \cup PersonalRespondPanel,
       {"accountQuotations", "accountOrder", "accountAddresses"})

AddressForm == {AccountController.createAddress, AccountController.updateAddress}

AddressesPage(v) ==
  Page(AccountLayout(v),
       {AccountController.listAddresses, AccountController.removeAddress} \cup AddressForm, {})

\* Its form leads to the trade portal with the answer (OpenTradeAccount of WebSession).
TradeAccountPage(v) ==
  Page(AccountLayout(v), {AccountController.openTradeAccount}, {})

Account(v) ==
  [ account           |-> AccountOverviewPage(v),
    accountOrders     |-> AccountOrdersPage(v),
    accountOrder      |-> AccountOrderDetail(v),
    accountQuotations |-> AccountQuotationsPage(v),
    accountQuotation  |-> AccountQuotationView(v),
    accountAddresses  |-> AddressesPage(v),
    tradeAccount      |-> TradeAccountPage(v) ]

-----------------------------------------------------------------------------
(* The shop, open to everybody; checking out needs an account.             *)

HomePage ==
  Page("SHOWN", {CatalogController.listCategories, CatalogController.listProducts},
       {"quote", "products", "product", "contact", "register", "login"})

\* Members see the catalogue again with their organisation's prices.
CatalogGrid == {CatalogController.listProducts}

ProductsPage ==
  Page("SHOWN", {CatalogController.listCategories, CatalogController.listBrands} \cup CatalogGrid,
       {"products", "product", "quote", "cart"})

ProductDetail(v) ==
  Page("SHOWN", {CatalogController.getProduct, CatalogController.listProducts},
       {"home", "products", "product", "quote", "cart"}
         \cup OnlyIf(v.orgRole = "NONE", {"register"}))

\* With an active organisation the basket becomes a request for quotation.
RfqPanel == {Company.sites, OrgDocs.createRfq}

\* Anybody may buy at listed prices; a member also asks for the trade price.
CartPage(v) ==
  LET trade == v.orgRole # "NONE"
  IN  Page("SHOWN", {CatalogController.getProduct} \cup OnlyIf(trade, RfqPanel),
           {"products", "product", "quote", IF v.role = "NONE" THEN "login" ELSE "checkout"}
             \cup (IF trade THEN {"businessRfq"} ELSE {"register"}))

CheckoutPage(v) ==
  Page(RequireAuth(v, FALSE, TRUE, "REFUSED"),
       {AccountController.listAddresses, MyOrdersController.checkout},
       {"cart", "products", "accountOrder"})

QuotePage(v) ==
  Page("SHOWN", {QuoteRequestsController.create},
       {"home", "products", "product"} \cup OnlyIf(v.orgRole # "NONE", {"cart"}))

ContactPage  == Page("SHOWN", {}, {"quote", "register"})
NotFoundPage == Page("SHOWN", {}, {"home", "products", "quote"})

Shop(v) ==
  [ home     |-> HomePage,         products |-> ProductsPage,
    product  |-> ProductDetail(v), cart     |-> CartPage(v),
    checkout |-> CheckoutPage(v),  quote    |-> QuotePage(v),
    contact  |-> ContactPage,      notFound |-> NotFoundPage ]

-----------------------------------------------------------------------------
(* Signing in.  These pages talk to Supabase, not to the API.              *)

LoginPage  == Page("SHOWN", {}, {"forgotPassword", "register"})
ForgotPage == Page("SHOWN", {}, {"login"})

(* The three below are rendered on the server, which looks for a session in *)
(* the request's cookies.  Somebody signed in who registers is sent to      *)
(* their account instead, or to the application for a trade account.        *)
RegisterPage(v) ==
  IF v.role = "NONE" THEN Page("SHOWN", {}, {"login"})
  ELSE Page("ELSEWHERE", {}, {"account", "tradeAccount"})

PasswordPage(v) ==
  IF v.role = "NONE" THEN Page("ELSEWHERE", {}, {"forgotPassword"})
  ELSE Page("SHOWN", {}, {LandingPath(v), "forgotPassword"})

MfaPage(v) ==
  IF v.role = "NONE" THEN Page("SIGN_IN", {}, {})
  ELSE Page("SHOWN", {}, {LandingPath(v), "login"})

\* Somebody signed in joins; anybody else is sent to sign in or register.
InvitationPage(v) ==
  Page("SHOWN",
       {InvitationsController.preview}
         \cup OnlyIf(v.role # "NONE", {InvitationsController.accept}),
       OnlyIf(v.role = "NONE", {"login", "register"}))

Entrance(v) ==
  [ login          |-> LoginPage,       register   |-> RegisterPage(v),
    forgotPassword |-> ForgotPage,      password   |-> PasswordPage(v),
    mfa            |-> MfaPage(v),      invitation |-> InvitationPage(v) ]

-----------------------------------------------------------------------------
\* Every page of the web app, with the menus its area puts around it.
WebPages(v) ==
  LET areas == << BackOffice(v), Business(v), Account(v), Shop(v), Entrance(v) >>
      menus == << AdminNav(v) \cup SiteHeader(v), BusinessNav \cup SiteHeader(v) \cup SiteFooter,
                  AccountNav(v) \cup SiteHeader(v) \cup SiteFooter,
                  SiteHeader(v) \cup SiteFooter, {"home"} >>
      area(p) == CHOOSE i \in 1..5 : p \in DOMAIN areas[i]
  IN  [p \in UNION {DOMAIN areas[i] : i \in 1..5} |->
         LET page == areas[area(p)][p]
         IN  [page EXCEPT !.links = @ \cup menus[area(p)]]]

-----------------------------------------------------------------------------
(***************************************************************************)
(* The screens of the mobile app.  It is a shop for private customers: it  *)
(* calls the public catalogue and a person's own orders and addresses, and *)
(* shows a sign-in card where an account is needed.                        *)
(***************************************************************************)
ForAccount(v, calls) == OnlyIf(v.role # "NONE", calls)

ShopScreen      == {CatalogController.listCategories, CatalogController.listProducts}
ProductScreen   == {CatalogController.getProduct}
CheckoutSection == {AccountController.listAddresses, AccountController.createAddress,
                    MyOrdersController.checkout}
CartScreen(v)   == {CatalogController.getProduct} \cup ForAccount(v, CheckoutSection)
OrdersScreen(v) == ForAccount(v, {MyOrdersController.list})
OrderScreen(v)  == ForAccount(v, {MyOrdersController.get, MyOrdersController.cancel})
AccountScreen(v)   == ForAccount(v, {AuthController.me})
QuoteRequestScreen == {QuoteRequestsController.create}

MobileScreens(v) ==
  [ shop    |-> ShopScreen,      product      |-> ProductScreen,
    cart    |-> CartScreen(v),   orders       |-> OrdersScreen(v),
    order   |-> OrderScreen(v),  account      |-> AccountScreen(v),
    quoteRequest |-> QuoteRequestScreen ]
=============================================================================
