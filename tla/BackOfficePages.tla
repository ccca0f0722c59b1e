-------------------------- MODULE BackOfficePages ---------------------------
(***************************************************************************)
(* The back office of the web app (apps/web/app/admin): for each page its  *)
(* gate, the routes it calls on load or offers as actions, and the pages   *)
(* it links to, as far as the viewer's role decides them.  What the data   *)
(* decides (an order's state, a request's customer) is left open: a call   *)
(* is listed when some record offers it.                                   *)
(***************************************************************************)
EXTENDS PageGates

Procurement == AdminProcurementController
Catalog     == AdminCatalogController

-----------------------------------------------------------------------------
\* The tiles and tables of the dashboard, each link under the right it needs.
Dashboard(v) ==
  LET may(permission, pages) == OnlyIf(UseCan(v, permission), pages)
  IN  may("ORDERS_READ_ALL", {"adminOrders", "adminOrder"})
        \cup may("RFQS_MANAGE", {"adminRfqs"})
        \cup may("QUOTATIONS_MANAGE", {"adminQuotations"})
        \cup may("ORGANIZATIONS_REVIEW", {"adminOrganizations"})
        \cup may("CATALOG_WRITE", {"adminProducts"})

\* The figures, and the count of new website requests for those who may list them.
AdminDashboardPage(v) ==
  LET canView == UseCan(v, "DASHBOARD_VIEW")
  IN  Page(AdminLayout(v),
           OnlyIf(canView, {DashboardController.stats})
             \cup OnlyIf(canView /\ UseCan(v, "RFQS_MANAGE"), {Procurement.listRfqs}),
           OnlyIf(canView, Dashboard(v)))

-----------------------------------------------------------------------------
RfqList(v) ==
  Page(RequirePermission(v, "RFQS_MANAGE"), {Procurement.listRfqs}, {"adminRfq"})

\* A website request without an account is linked to one, or its sender invited.
CustomerLinkPanel == {Procurement.assignRfqCustomer}

RfqDetail(v) ==
  LET canQuote == UseCan(v, "QUOTATIONS_MANAGE")
  IN  Page(RequirePermission(v, "RFQS_MANAGE"),
           {Procurement.getRfq, Procurement.updateRfq} \cup CustomerLinkPanel,
           {"adminRfqs"}
             \cup OnlyIf(canQuote, {"adminNewQuotation", "adminQuotation"})
             \cup OnlyIf(UseCan(v, "ORGANIZATIONS_REVIEW"), {"adminOrganization"}))

-----------------------------------------------------------------------------
QuotationList(v) ==
  Page(RequirePermission(v, "QUOTATIONS_MANAGE"), {Procurement.listQuotations},
       {"adminQuotation"} \cup OnlyIf(UseCan(v, "RFQS_MANAGE"), {"adminRfqs"}))

\* Products are searched in the public catalogue.
ProductPicker == {CatalogController.listProducts}

\* The catalogue prices of the requested products, one read each.
LoadCatalog == {CatalogController.getProduct}

NewQuotationForm == {Procurement.createQuotation} \cup ProductPicker

\* The page always reads the request; the organisation's discount if it may.
NewQuotationPage(v) ==
  Page(RequirePermission(v, "QUOTATIONS_MANAGE"),
       {Procurement.getRfq} \cup LoadCatalog \cup NewQuotationForm
         \cup OnlyIf(UseCan(v, "ORGANIZATIONS_REVIEW"), {AdminOrganizationsController.detail}),
       {"adminRfqs", "adminRfq", "adminQuotation"})

\* A draft is saved, sent or discarded; discarding returns to the list.
DraftQuotationForm ==
  {Procurement.updateQuotation, Procurement.sendQuotation, Procurement.discardQuotation}
    \cup ProductPicker

\* What became of an issued quotation, with the order or the later revisions.
StatusCallout == {"adminOrder", "adminQuotations"}

IssuedQuotation(v) ==
  {"adminOrder"}
    \cup OnlyIf(UseCan(v, "ORGANIZATIONS_REVIEW"), {"adminOrganization"})
    \cup OnlyIf(UseCan(v, "RFQS_MANAGE"), {"adminRfq"})

QuotationDetail(v) ==
  Page(RequirePermission(v, "QUOTATIONS_MANAGE"),
       {Procurement.getQuotation, Procurement.quotationPdf, Procurement.reviseQuotation}
         \cup DraftQuotationForm
         \cup OnlyIf(UseCan(v, "ORGANIZATIONS_REVIEW"), {AdminOrganizationsController.detail}),
       {"adminQuotations", "adminQuotation"} \cup StatusCallout \cup IssuedQuotation(v)
         \cup OnlyIf(UseCan(v, "RFQS_MANAGE"), {"adminRfq"}))

-----------------------------------------------------------------------------
OrdersList(v) ==
  Page(RequirePermission(v, "ORDERS_READ_ALL"), {AdminOrdersController.list}, {"adminOrder"})

\* Moves the server offers this account; payments for those who manage orders.
OrderActions(v) ==
  {AdminOrdersController.transition}
    \cup OnlyIf(UseCan(v, "ORDERS_MANAGE"),
                {AdminOrdersController.recordPayment, AdminOrdersController.recordRefund})

OrderDetail(v) ==
  Page(RequirePermission(v, "ORDERS_READ_ALL"),
       {AdminOrdersController.get} \cup OrderActions(v),
       {"adminOrders"}
         \cup OnlyIf(UseCan(v, "ORGANIZATIONS_REVIEW"), {"adminOrganization"})
         \cup OnlyIf(UseCan(v, "QUOTATIONS_MANAGE"), {"adminQuotation"}))

-----------------------------------------------------------------------------
\* The list, and the count of the accounts that wait for a review.
OrganizationsList(v) ==
  Page(RequirePermission(v, "ORGANIZATIONS_REVIEW"),
       {AdminOrganizationsController.list}, {"adminOrganization"})

OrganizationReviewForm == {AdminOrganizationsController.review}

\* Approve, suspend and reactivate are reviews that change the status only.
OrganizationDetailView(v) ==
  Page(RequirePermission(v, "ORGANIZATIONS_REVIEW"),
       {AdminOrganizationsController.detail, AdminOrganizationsController.review}
         \cup OrganizationReviewForm,
       {"adminOrganizations"})

-----------------------------------------------------------------------------
\* The rows of the product list: stock and archive for those who may.
ProductRows(v) ==
  {Catalog.updateProduct}
    \cup OnlyIf(UseCan(v, "STOCK_WRITE"), {Catalog.adjustStock})
    \cup OnlyIf(UseCan(v, "CATALOG_DELETE"), {Catalog.archiveProduct})

ProductsList(v) ==
  Page(RequirePermission(v, "CATALOG_WRITE"),
       {Catalog.listProducts, CatalogController.listCategories} \cup ProductRows(v),
       {"adminNewProduct", "adminEditProduct", "adminCategories"})

NewProductPage(v) ==
  Page(RequirePermission(v, "CATALOG_WRITE"),
       {CatalogController.listCategories, Catalog.createProduct}, {"adminProducts"})

\* The editor reads the product by its id from the public catalogue.
EditProduct(v) ==
  Page(RequirePermission(v, "CATALOG_WRITE"),
       {CatalogController.getProduct, CatalogController.listCategories, Catalog.updateProduct},
       {"adminProducts", "product"})

CategoryForm == {Catalog.createCategory, Catalog.updateCategory}

CategoriesManager(v) ==
  Page(RequirePermission(v, "CATALOG_WRITE"),
       {CatalogController.listCategories} \cup CategoryForm
         \cup OnlyIf(UseCan(v, "CATALOG_DELETE"), {Catalog.removeCategory}),
       {"adminProducts"})

-----------------------------------------------------------------------------
StaffUserForm == {AdminUsersController.createStaff}

UsersList(v) ==
  Page(RequirePermission(v, "USERS_MANAGE"),
       {AdminUsersController.list, AdminUsersController.update} \cup StaffUserForm,
       {"adminOrganization"})

\* The pages an entry of the trail leads to, by the kind of record it is about.
EntityHref ==
  [ Organization |-> "adminOrganization", Product  |-> "adminEditProduct",
    Order        |-> "adminOrder",        Category |-> "adminCategories" ]

AuditLog(v) ==
  Page(RequirePermission(v, "AUDIT_READ"), {AuditController.list},
       {EntityHref[type] : type \in DOMAIN EntityHref})

-----------------------------------------------------------------------------
\* Every page of the back office; its menu stands beside each of them.
BackOffice(v) ==
  [ admin              |-> AdminDashboardPage(v),
    adminRfqs          |-> RfqList(v),
    adminRfq           |-> RfqDetail(v),
    adminQuotations    |-> QuotationList(v),
    adminNewQuotation  |-> NewQuotationPage(v),
    adminQuotation     |-> QuotationDetail(v),
    adminOrders        |-> OrdersList(v),
    adminOrder         |-> OrderDetail(v),
    adminOrganizations |-> OrganizationsList(v),
    adminOrganization  |-> OrganizationDetailView(v),
    adminProducts      |-> ProductsList(v),
    adminNewProduct    |-> NewProductPage(v),
    adminEditProduct   |-> EditProduct(v),
    adminCategories    |-> CategoriesManager(v),
    adminUsers         |-> UsersList(v),
    adminAudit         |-> AuditLog(v) ]
=============================================================================
