# TopFlow Hub: specifications

TLA+ specifications of TopFlow Hub, a trade platform for industrial pumps: TLC
configurations that check them on small instances, and proofs of theorems about
them for every instance. The specifications are written from the code of the API
(`apps/api`), the web app (`apps/web`), the mobile app (`apps/mobile`) and the
shared packages (`packages/`); paths below are relative to the repository, and
`docs/ARCHITECTURE.md` is its own description of itself.

## The system

Customers (individuals and members of organisations) ask for quotations, answer
them and place orders; staff quote, dispatch, record money and manage the
catalogue. The API is a NestJS application over PostgreSQL. It keeps no state
between requests: everything two requests share is in the database. The web and
mobile clients call it over HTTP and keep state of their own: a session, a
basket, lists that load. Identities live in Supabase Auth.

Transactions run at READ COMMITTED, and nearly every handler reads and decides
**before** its transaction. What keeps simultaneous requests apart is one of two
patterns (docs/ARCHITECTURE.md, "Consistency under simultaneous requests"): a
conditional write that repeats the condition under the row lock, or a row locked
with `FOR UPDATE` before the decision. On the clients everything between two
awaits is one step, and an answer may find that the user, the page or the
basket it was for is gone. These two kinds of gap are what the modules are about.

| Component | State it keeps | Operations | What is hard, and what makes it right |
| --- | --- | --- | --- |
| Quotations (`procurement/quotations.service.ts`) | quotation rows (one per revision), their validity | create, update, discard, send, revise, respond, decideApproval, personalRespond, expiry | Answers, decisions, sends, revisions and expiries of one number overlap. One order per accepted revision; one open offer per number; authority and validity hold when it commits |
| RFQs (`procurement/rfq.service.ts`) | the RFQ's status, its customer | create, website request, cancel, triage, assign and invite a customer | Their status follows the quotations' through other handlers' transactions; linking a customer is several statements. A settled RFQ stays shut; a quotation is addressed to the customer that staff name or its request is linked to |
| Orders (`orders/orders.service.ts`) | status, payment status, timeline; product stock | checkout, transition, payment, refund, cancel | Sales, warehouse, finance and customer act on one order at once. Stock, money and timeline agree |
| Order writer (`orders/order-writer.service.ts`) | the new order | createFromQuotation, recordEvent | Credit released to several orders at once. Exposure stays within the limit |
| Numbering (`common/numbering.service.ts`) | one counter per document and year | next | A number drawn by a transaction that fails. No holes |
| Organisations, invitations (`organizations/`) | membership, roles, limits, terms; invitations | update and remove member, KYC review, profile; invite, revoke, accept | Owners act on each other; links are accepted while revoked. An owner remains; a revoked link admits nobody |
| Accounts (`auth/account-provisioning.service.ts`, `users/`) | user rows, last session | provision, open a trade account, record a session, follow an email; create, suspend and restore | Parallel first requests; two stores without a common transaction. One trade account per sign-up; the stores tell the same of a person, but for what a failed call left apart |
| Catalogue (`catalog/`, `components/admin-catalog/`) | products, stock, categories | edit, count, archive, restore; create, move, delete a category | Forms open on old rows. A save keeps what others changed; a count matches its list |
| Rights (`packages/shared/src/permissions.ts`, `auth/guards.ts`, the controllers) | none | the matrices, the guards, what each route demands | Written down three times: in the API, in the web app's pages, in the mobile screens. A page offers what the API takes |
| Pages of quotations, requests and orders | the row they fetched | the buttons they offer, what they say of its state | Rules of their own beside the API's, dates that lag. Nobody is shown a button that can only fail |
| Web session (`apps/web/lib`) | cookie, copy of the user, active organisation, page data | sign in and out, second factor, switch, invitations, refresh | Other tabs, changed roles, late answers. No company's records under another's name |
| Mobile session (`apps/mobile/src/lib/session.ts`, `http.ts`) | session on the device, store, calls in flight | sign in and out, load account, replay after a 401, retry; lists | Events in timers, refreshes during requests, sign-out while loading. The app ends up agreeing with Supabase; no list is another user's |
| Baskets (`lib/cart.ts` of both clients) | lines with cached prices, the stored copy | hydrate, change, refresh prices, check out | Prices change, answers are lost, two tabs share one copy, storing it may fail. The total charged is the one shown; ordered once while the answer is awaited |
| Shared rules (`packages/shared/src`) | none | transition maps, approval rule, money | Rounding, boundaries |
| Token verification, audit, mail, PDF, dashboards | none of their own | | Reads, formatting, calls to providers |
| Address book, demo reset, deployment, CI | addresses; cloud resources | | See "Not modelled" |

`PROJECT.json` lists every component with what is modelled of it, the hazards of
the code at the line where they bite, and for each definition of a module the
lines it stands for.

## The modules

| Module | Models | Built on |
| --- | --- | --- |
| `Workflows` | The transition maps, the approval rule, the enumerations | |
| `Quotations` | Every writing operation of the quotations service; RFQ cancellation and triage; membership, KYC status and time as they affect an answer | `Workflows` |
| `QuotationScreens` | What the web's pages offer on a quotation and an RFQ, and what seven surfaces say of an offer, beside what the API takes | `Quotations` |
| `OrderBook` | What the order book promises: orders that change one step at a time, with their stock and payment. The abstract specification | `Workflows` |
| `Orders` | Every operation of the orders service under overlapping requests, and `adjustStock`; implements `OrderBook` | `Workflows`, instance of `OrderBook` |
| `OrderScreens` | Four trackers of an order's progress and the buttons of staff and customers, beside what the API takes | `Orders` |
| `Dispatch` | The inside of a dispatch's transaction, statement by statement: row locks, partial failure; its committed effect is a step of `OrderBook` | `Workflows`, instance of `OrderBook` |
| `CreditRelease` | `createFromQuotation` statement by statement: the organisation's lock, the sum, the number, commit and rollback | |
| `Catalogue` | The product editor, the stock count and the category form over rows that others save | |
| `Members` | Role changes, removals, invitations, revocations and acceptances, statement by statement | `Workflows` |
| `Accounts` | Identities in Supabase and accounts in the database, await by await | |
| `Intake` | A request from the form to its first quotation: submission, linking or inviting its customer, drafting | `Workflows` |
| `Money` | Rates, lines, totals, delivery in integer fils | |
| `Shop` | The basket of the app or of a browser's tabs, price refreshes, checkout and its answers | `Money` |
| `MobileSession` | The app's session store, HTTP client and a user's list | |
| `Access` | Both permission matrices, the three guards, what each route demands | `Workflows` |
| `PageGates` | The web app's guards of its areas and its home rules; what a page is | `Access` |
| `BackOfficePages`, `CustomerPages` | Every page of the web app and screen of the mobile app: gate, calls, links | `PageGates` |
| `WebSession` | A browser tab: its copy of the session, active organisation and page, beside the cookie, other tabs and the database | `CustomerPages` |
| `QuotationsProofs`, `OrdersProofs`, `AccountsProofs`, `IntakeProofs` | The theorems about the module they are named after | `Sums`, TLAPS |
| `RowsProofs` | The theorems about `Dispatch`, `CreditRelease` and `Catalogue` | `Sums`, TLAPS |
| `OrganizationProofs` | The theorems about `Members` and `WebSession`, with the pages of `CustomerPages` and `BackOfficePages` | TLAPS |
| `ClientProofs` | The theorems about `Shop` and `MobileSession` | `Sums`, TLAPS |
| `Sums` | Lemmas about sums over finite sets | TLAPS |
| `MC…` | Instances for TLC; `MCRows` instantiates `Dispatch`, `CreditRelease` and `Catalogue` side by side | |

### How code becomes actions

*Handlers with a conditional write* (`Quotations`, `Orders`). A request is a slot
of the variable `req`. `Begin…` is the handler from its guard to its
transaction: it checks what the code checks and keeps in the slot exactly what
the code keeps of its reads (the status it matches later, the limit it was judged
by, the validity it computed). `Commit…` is the transaction: its guard is the
`WHERE` of the first write, its primed variables are all its writes, the
timeline, the order, the superseded siblings and the RFQ included. Between the
two everybody else may act. `Conflict` is the 409: the condition no longer holds
and nothing is written. A transaction is one step because its first statement is
the conditional write and holds the row until commit, and what follows is either
about that row's dependants or a conditional write itself; where this is not so
(`revise` reads its siblings and inserts) the transaction is two steps. A slot
that stays filled is a slow request, a lost connection or a crashed function:
safety properties hold with any number of them stuck.

*Transactions whose statements matter* (`CreditRelease`, `Dispatch`, `Members`).
Here a `pc` (or the request's `op`) advances one statement at a time. A row
locked by one transaction makes the others that want it wait; what it wrote
becomes visible when it commits, and `Rollback`, `Refuse` or `Abort` may come at
any statement. Inserting a membership or an invitation takes a key-share lock on
the organisation by its foreign key, and so waits for `FOR UPDATE`.

*Handlers without a transaction* (`Accounts`, `Intake`, `Catalogue`). Every await
ends a step: the slot's `op` names the statement or the provider's call that
comes next, and carries what the handler holds in its variables. A call to
Supabase succeeds or fails, or succeeds and its answer is lost; a write of the
database may fail after it; a clean-up is best effort.

*Clients* (`MobileSession`, `Shop`, `WebSession`). The store is a variable, an
operation on it up to its next await an action, and what the code guards with a
counter (`startedAt === generation`) a flag that is cleared when the counter
moves. Answers come late, in any order, or never; a page may be left and an app
killed at any moment.

`Quotations`: `quote` is the table, a row's status `NONE` before its insert and
`DISCARDED` after its delete; `created` and `until` are days; `net` is the amount
approval compares (subtotal and delivery); `member`, `orgStatus` and `now` change
at any moment through `ChangeMember`, `ReviewOrganization` and `Tick`, so what a
guard saw may be stale when the handler commits. Lines, notes and prices are
abstracted to `net`, as nothing else of them decides.

`QuotationScreens`, `OrderScreens`: the pages as operators of the state.
`…Offers` is the set of a page's buttons, `…Taken` of the operations whose guard
(`TakesSend`, `TakesDecision`, ...) lets the handler begin. The guard is a conjunct of
the handler's own action in `Quotations` and `Orders`, so a page is compared with the
guard itself and not with a second copy of it.

`Orders`: `timeline` and `money` are the status events and the payment events of
an order; `received` is history, the units ever counted in, which stock is
compared with. Items are a quantity per product. The derived label `stockStatus`
is left out here. An order never returns to an earlier pair of status and
payment, so matching both is as good as a version number (in `Quotations` it is
not, see the disagreements).

`Dispatch`: lines are stored in any order and sorted by product, a line whose
product was deleted sorts first and takes nothing. Payment is left to `Orders`.

`CreditRelease`: `at` is the statement each acceptance has reached; the order is
inserted and the number drawn in one transaction, and both vanish with it.

`Catalogue`: `form` holds what an editor loaded and its draft; `Body` is the
difference that the form sends, with both ends of the price range together;
`ReadRow` and `Update` are the two statements of `ProductsService.update`.

`Members`: a membership is identified by the person and how often the person has
joined, as the code finds it by its row id. An invitation is taken first and the
membership inserted after it, in one transaction.

`Accounts`: `token` is the claims of each session's current access token, which
stays good with its old email until it is refreshed, whatever happens to the
identity. `trades`, `updates` and `unremoved` are history; `updates` says of an
account how the administrators' updates of it went last: `SETTLED`, `UNSETTLED` (the
identity changed, then a call failed) or `OVERLAPPED` (two were in flight together).
`SetSuspended` is the call to Supabase and `UpdateAccount` the write of the users
table after it; nothing undoes the first if the second fails. Supabase's
administration is taken to be configured: without it the API enforces a suspension alone
(identity-admin.service.ts:98). Password, profile fields and roles are left out: nothing here
decides on them.

`Intake`: a website request has a contact and a form; `by` is the customer it is
linked to. `quote` is reduced to the request's first quotation. Drafting it, staff may
name a customer (`named`, the API's `customerId`, which the web pages never send): then
the quotation is theirs, whoever the request is linked to, also if it is linked to
nobody, so long as they are a member of its organisation where it has one.

`Shop`: `client` chooses between the app and a browser with tabs; the two stores
differ where their code does (what an added line keeps, whether quantities are
clamped, what hydration merges). `pick` marks each line ever added, so that a
line ordered twice is told from one bought again. `Commit` sets the basket in memory and
*may* store it: the browser's storage may refuse, and the app's write goes on without
anybody waiting for it, so it fails unnoticed or is lost with an app that is killed.
Only an app that starts reads the device, so it makes no difference to settle at once
whether a write will get there. `Stored` is what a reader gets: the stored basket, or
none if it cannot be read. `Revived` are the lines that a killed app no longer had and
that its device gives back: they are added to `loose`, the history of lines that nobody
can promise to be ordered once.

`MobileSession`: `held` is the session on the device, `events` the auth events
that wait in timers, each with whether the app was signing out when it was
reported; `calls` and `flows` are the API calls and the user's actions in
flight. Continuations of a settled promise run before anything else (`ContinuationsRan`).

`Access` to `CustomerPages` have no variables. A route is the record of what it
demands, so that a page can be said to *call* it; `Answer` puts the guards in
their order. `WebSession` shows them to a tab whose copy of the user may be out of
date. `standing` is the status of each
organisation, which a profile does not act on and the guard does. `then` is what waits for
the shared request to `/auth/me`, `query` the
page's call, `data` the organisation whose records are on screen.

## The runs

| Run | Shows | Instance |
| --- | --- | --- |
| `revisions` | Types; revisions of a number in order, one open offer; one number per RFQ, and a settled one stays shut; every change follows the lifecycle; sales pages offer what is taken | 3 rows, 1 RFQ, 2 overlapping requests, 1 owner; no time |
| `approval` | An accepted quotation has exactly one order; the authority judged covers the amount; nothing is accepted after its validity; issued terms stand; the customer's pages offer what is taken and all surfaces say the same; of competing answers one takes effect (liveness) | 1 quotation, for the organisation's RFQ or for the individual customer without one, 2 members on both sides of 2 amounts, 2 requests, 3 days; no triage of the RFQ |
| `fulfilment` | Stock is conserved; money is taken and returned once; the trackers agree; order pages offer what is taken; `Orders` implements `OrderBook` | 2 orders, 2 products, 2 requests, hand counts |
| `rows` | Nobody waits in a circle; a dispatch is all or nothing and one step for everybody else; order numbers have no hole and an order is released only within the limit; editors keep each other's changes and the counts of categories match their lists | Dispatch: 3 orders over 2 products with lines in opposite orders, a product on two lines and a deleted product, 4 requests. Credit: 3 acceptances that do not all fit, 1 checkout, limits that change. Catalogue: 2 people, 1 product, 3 categories |
| `members` | An owner remains; one membership per accepted invitation; accepted and revoked exclude each other | 3 people, 2 invitations, 2 requests |
| `accounts` | A sign-up's trade account is opened once; a session is logged once per switch; Supabase and the users table tell the same but for what a failed call or overlapping updates left apart | 2 identities, one of them managed by administrators, 2 emails, 2 sessions, 2 requests |
| `mobile` | Once nothing is in flight the app and Supabase agree on who is signed in; a list belongs to the account on screen, while that is the one the store follows | 2 users, 2 calls, 2 flows |
| `shop` | Charged as shown; ordered once while the answer is awaited; refused only if the catalogue changed; late prices change prices only | 1 product, 2 offers, the app or 2 tabs, 2 order requests, 1 refresh |
| `intake` | A form records one request; a quotation is addressed as staff or the request's link say; sales pages offer what is taken | 2 requests, 1 person, 1 organisation, 1 form, 2 staff requests |
| `web` | Pages and API agree on who may do what, except in the name of a suspended organisation; no company's records under another's name | 2 users, 2 organisations that may be suspended, 12 pages |

Two violation runs state what the code's own comment or message says and show a
behaviour against it:

| Run | Claim | What the code does |
| --- | --- | --- |
| `own_approval` | Nobody can approve their own purchase (quotations.service.ts:101, docs/ARCHITECTURE.md:173) | The requester is compared on a stale read; after a decline and a new request by the approver, the status matches again |
| `relinked` | A request that has a quotation can no longer change its customer (rfq.service.ts:367) | Decided on the row read first; the write that links matches the id alone |

### Bounds, and why they are enough

Two overlapping requests per row are the case the code's guards are written for;
a third can only lose to one of the two at the same conditional write. Because
the members, the KYC status, the clock, the hand counts and the catalogue move
between any two steps without a slot, an instance with two slots still has more
than two actors. Three rows of one number give an old, an open and a draft
revision; two numbers tell a number from a row. Three days (`MaxNow` 2) separate
in time, on the day and late, and the amounts and limits stand on both sides of
each other and equal. Three acceptances are needed for two that fit and one that
does not; four dispatches over three orders contain every circle of two and three
and one order twice. In `members`, two invitations allow a person to be invited
again and a second invitation to replace the first; in `accounts`, two emails
let one identity take the address another had; in `intake`, a second request row
is what a form sent twice would leave, and its one person may be the customer a
request is linked to or one that staff name for a request linked to nobody; that staff
name another than the linked one is left to the theorem.
In `shop`, two lines of the one product take turns; that another added line is kept by
a late refresh is left to the theorem `RefreshesKeepChoice`, as is, in `approval`,
what is said of a superseded revision, which takes a second row, to `SurfacesSayTheSame`.

Named bounds, each a conjunct of the actions it stops: `MaxNumber`, `MaxRevision`,
`MaxNow`, `MaxPeriod` (`Quotations`: numbers, revisions, the clock, the length of a
validity), and `RfqMoves`, the statuses an RFQ may be moved to by hand (all in
`revisions`; none in `approval`, where the answers move it);
`MaxLogins` (`Accounts`: 2, a second entry for a session) and `Managed`, the ids whose
accounts administrators update (one of two; each account is updated for itself);
`MaxTokens`, `MaxEvents` (`MobileSession`: 2 tokens, so that one is old, and one
event waiting when Supabase acts by itself); `MaxLost` (`Intake`: 1 lost answer,
1 repeated form); `MaxPicks`, `MaxEdits`, `MaxOrders` (`Shop`: two lines and two
orders in the app, one of each in a browser with two tabs, one change of the
catalogue) and `MaxTogether` (3: not two lines and two orders at once);
`MaxQuantity` is the app's limit on a line, and bounds the site, which has none; `MaxSaves` (`Catalogue`: 2, enough for somebody to save between
another's load and save and for two category forms to cross), with `Drafts`
naming what one person may change in one sitting; `MaxChanges` and `Visited`
(`WebSession`: 3 changes of accounts, teams and sessions, with 12 pages that
contain every gate and both areas; the tables of all pages are checked at every
state nonetheless) and `OrgStates`, the statuses staff give an organisation (active and
suspended). The finite sets of rows bound everything else.

`rows` puts three instances that share no state into one run, each moving while
the others rest: their products would add nothing but states.

Deadlock is checked in `fulfilment`, `rows`, `members` and `intake`, which never
stop. It is switched off where an instance stops because its numbers, days or
tokens are used up.

Symmetry is declared over requests, rows, people or products that every
definition treats alike, and only in runs that check no liveness. `TypeOK` is an
invariant of `revisions`, where it is also the subject of a theorem; the other
modules state it as the reader's guide to their state.

### Fairness

Only `approval` assumes any (`FairSpec`): weak fairness of `Proceed(r)`, that a
handler which has begun runs to its end. Between its reads and its commit it
awaits the database alone and retries nothing. No user is assumed to begin a
request. The property is that the conflicts cannot consume each other: of the
answers that began on an open offer, one takes effect, unless the offer lapses
first. The clients are given none: what a device or a provider will do is theirs,
so `AgreesWithSupabase` speaks of the states in which nothing is in flight.

## Disagreements

What a document, a comment or a page says and the code does otherwise, found
while modelling. The first two have a run above; the others are behaviours of
the models, or at their edge, without one.

- A quotation that waits for approval can be **sent again**: `send` reuses the
  lifecycle map, in which a declined approval returns to SENT
  (quotations.service.ts:355). It drops the request for approval and restarts the
  validity; docs/ARCHITECTURE.md:185 makes sending conditional on Draft. No page
  offers it (`StaffOffersAreTaken` names it as the one exception).
- A **send during an edit** writes the validity of the row before the edit
  (quotations.service.ts:364; the comment at 278 says the send includes it).
- An **expiry** is written where the status alone still matches
  (quotations.service.ts:995, comment at 993): a quotation declined and sent again
  meanwhile is marked expired inside its new period.
- Two **invitations** of one address at once both stay pending
  (invitations.service.ts:77, "replaces any earlier pending invitation").
- A **session is logged again** when requests of two sessions of one account
  alternate (account-provisioning.service.ts:216, comment at 74,
  docs/ARCHITECTURE.md:195); `LoggedOncePerSwitch` is what does hold: an entry more
  needs another session of the account to have been recorded in between.
- A **disabled account** is answered 401 (guards.ts:73), so the app's branch for
  403 "account disabled" is never taken: it shows an expired session instead.
- The app's quote form says the request is linked to the signed-in account
  (quote-request.tsx:68, 172); `createFromWebsite` never links. The link panel of
  the sales page offers to invite a contact who has signed up and not yet used the
  platform, which Supabase refuses. A request whose customer has left the
  organisation cannot be quoted and its page does not say so.
- The admin page says an edited quotation's period starts from now; `update` runs
  it from the quotation's creation.
- A **suspended organisation** stays in its members' profiles (auth.service.ts:40) and
  `BusinessShell` opens its portal, with a status badge (business-shell.tsx:69-109), while the
  guard refuses every call made in its name (guards.ts:173), the answers that a quotation
  offers among them. `PagesAreAdmitted` says that this is the one case.
- A **suspension** is set in Supabase first, "so a failure leaves the account unchanged"
  (users.service.ts:197). So it does, but a failure of the second write leaves the
  identity banned under an active account (or restored under an inactive one), and so
  does an answer of Supabase that is lost; nothing undoes it, and of the failed write
  there is no record. The next update of the account that goes through by itself repairs it
  (`SuspendedInBothStores`).
- The **app's basket** is emptied in memory after an order and stored without waiting
  (cart.ts:49-59). If that write fails or the app is killed before it, the ordered lines
  are back at the next start and can be ordered again. `OrderedOnce` leaves them out.
- **Web session.** A 502 of the app's own server, when it cannot reach the API,
  signs the user out of the UI, where the comment at session.ts:100 keeps a known
  user through a network failure. `refreshSession` has no counter: a sign-out during
  a refresh is undone by its answer (comment at session.ts:120), a sign-in that
  joins a refresh begun before it lands on the sign-in page again, and an accepted
  invitation may land on "Choose an organization". A tab whose second factor
  another tab supplied stays on "Checking your session…". The catalogue and the
  cart page are not remounted when the organisation is switched in the header and
  show the old one's prices or sites until they reload; `TenantDataIsOwn` covers the
  portal, which is.
- **App session.** When two people sign in one after the other on one device and the auth
  event of the first is handled after the second has signed in, the load it starts is
  answered with the second one's token: the store shows one account and follows the
  other. If the first signs in once more, orders of theirs can be fetched for the page of
  the second, where orders/index.tsx:43 promises that "a different account never sees the
  previous account's list". Nothing excludes it but that a timer of no delay rarely
  outlasts two answers; it takes a third token (`MaxTokens` 3). `ListIsOwn` states what
  holds for any number of them, and its proof is what found the case.
- Two forms opened on old lists can build a third level of **categories**, or a
  circle of two: the API checks only that a category is not its own parent
  (categories.service.ts:88). Counts and filters agree all the same.

## The proofs

The theorems hold for every value of the constants that meets the named
assumptions, which the run of each module evaluates on its instance:

| Assumption | Says |
| --- | --- |
| `QuotationsAssumption` | Null values are distinct from rows and users; amounts, validities and bounds are naturals; a validity is a day or more |
| `OrdersAssumption` | Finitely many orders and products; baskets and counts are naturals; staff have the roles of the back office |
| `DispatchAssumption` | Lines name products, or one that was deleted, and at least one unit; each request is about an order |
| `CreditAssumption` | Totals and limits are naturals; being prepaid is not a limit; acceptances are not checkouts |
| `CatalogueAssumption` | Finitely many categories, and at least one; amounts are naturals |
| `MembersAssumption` | The founder is a person; finitely many invitations |
| `AccountConstants`, `AccountNothing` | Finitely many sessions and requests; a missing row, token, session or address is none of those there are |
| `IntakeAssumption`, `IntakeNothing` | The same of requests, people and organisations |
| `ShopConstants`, `ShopNothing` | Finitely many products; prices are naturals and a minimum order between one and the app's limit; no refresh or request is the empty one |
| `WebConstants` | The pages visited include those a redirect leads to; teams and staff at the start have roles there are; nobody, no organisation and no session are none of those there are |
| `MobileConstants` | Supabase issues a token or more; no user and no call is the empty one |

Finiteness is that of a table's rows and of the requests of a moment; sums and
counts have no meaning without it. How many there are is left open.

Every theorem is proved by an invariant that the steps keep, and TLC checked each
one on the runs' instances before. What follows says what had to be added to the
property to make it inductive, which is where the reason lies why the code is right.

**`QuotationsProofs`** (about `Quotations` and `QuotationScreens`)

- `TypeCorrect`. The type says, per operation, what a request in flight holds.
- `OrderIffAccepted`. Only the acceptances insert an order, each from an open
  status (so, by the invariant, without an order); no other action reaches or
  leaves ACCEPTED.
- The rest stands on `RowSteps`: each step edits, discards, sends or answers one
  row, inserts one, or changes none, with what it leaves alone in either case. On
  these few shapes are proved `LifecyclesHold`, `AcceptanceIsInTime` and
  `TermsStand`.
- `AuthorityHolds`. `ReadsHold`: what is being revised, accepted or approved was
  issued, and the limit judged covers its amount. It lasts while the request waits
  because issued amounts never change.
- `RevisionsStayInOrder`. `DraftIsLatest` and `OpenOfferIsNewest` need each other: a
  draft is the newest of its number, so what is sent supersedes everything open.
  `NextIsNewest` says of a revision about to be inserted that it follows an issued
  one, which cannot vanish, and that its place is taken or above all others:
  between the count of siblings and the insert, a rival may take the place, and
  then the unique index refuses, or be discarded again. `NumbersIssued` keeps a
  new number new.
- `NegotiationIsOne`. `QuotedIsUnderWay`: the RFQ of a quotation has left
  SUBMITTED, so an answer is able to shut it.
- `SurfacesSayTheSame`. Needs no more than the types and `OrderIffAccepted`.
- `StaffAreOfferedWhatIsTaken`, `CustomersAreOfferedWhatIsTaken`. A page knows the status
  and the dates the API sent it and, of the handler's conditions, repeats some in its own
  words; the theorems are these repetitions, case by case. That the guards compared with
  are all that stands before a handler is the content of `StaffTakenIsBegun`,
  `TradeTakenIsBegun` and `PersonalTakenIsBegun`: of an idle slot a `Begin…` action is
  exactly one of the operations taken, started with what the guard read.

**`OrdersProofs`** (about `Orders` and `OrderScreens`)

- `TypeCorrect`, `TimelineHolds`, `MoneyIsExact` share one invariant. `ReadsSound`
  says what each handler has checked of the status and payment it read; as the
  commit matches both, what was judged is true of the row. `ShelvesCounted` keeps
  shelves and counts in the naturals. `History` states the timeline and the
  trail per order, with the cancellation of a paid order by staff.
- `OrdersRefineTheBook`, `Spec => ImplementsOrderBook`: every initial state maps to
  one of `OrderBook`, and every step of `Orders` to a step of it or to a stutter, by
  cases on the actions. The book's dispatch takes the items of the order from the
  shelves; that they are there is the conditional decrement of the code.
- `StockIsConserved`. A sum over the orders that left, so a dispatch adds one term
  and a count none.
- `TrackersShowTheSame`. `Travelled`: the statuses an order has entered are a run of the
  one path, from its first status to the one it has or had when it was cancelled, with
  none left out. This is why a tracker that looks at the timeline and one that looks
  at the status alone mark the same steps.
- `OrderPagesOfferWhatIsTaken`. The page asks whether an order is unpaid, the API whether
  it is not paid; the two agree because only a cancelled order was refunded, which is part
  of `MoneyIsExact`.

**`RowsProofs`** (about `Dispatch`, `CreditRelease` and `Catalogue`, which `MCRows` also
puts together)

- `DispatchesNeverCircle`. `LockInv`: a request has taken its lines in the order of
  the products, no product is held twice and no order by two requests. So whoever
  holds a product and waits for another waits for a greater one. In a group that all
  wait, the holder of the greatest product waited for cannot wait for a product (it
  would be greater) nor for an order (it holds its own).
- `DispatchTypes`, `DispatchesAreOneStep`. `OrderHeld`: a locked order's committed status
  is the one read. `OnShelf`: what a request has taken of a product so far, repeated
  lines together, is on the committed shelf. So the commit changes order and shelves
  by exactly the order's quantities, and that is a step of `OrderBook`.
- `CreditTypes`, `NumbersAreGapFree`, `ReleasesFitTheLimit`. `LocksAreHeld`: who has
  reached a statement that needs a lock, has it, and a number waiting to be
  inserted is the counter's next. `RoomIsKept`: what was read and decided under the
  organisation's lock still stands, as those who could raise the exposure or change
  the terms wait for the lock, and payments and cancellations only lower it.
- `CatalogueTypes`, `CountsAreHonest`, `SavesMindTheirOwn`. `RangesInOrder`: both
  ends of the price range are in order on the row and in every editor, and are
  sent together, so what is checked against one row is right for the next.
  `NotItsOwnParent`: then no product is counted twice, even in a circle.

**`OrganizationProofs`**, about `Members`

- `TypeCorrect`, `OwnerRemains`, `RevocationHolds`. `AlwaysAnOwner` is not inductive: a
  change that was judged removes an owner later. `LeavesAnOwner` says that a
  judged change leaves an owner still, and holds because the judgement is made
  under the lock that every other change of a member waits for; `HeldRows` says
  that the rows a request holds are still unsettled.
- `JoinsAreInvited`. From the same invariant: an acceptance marks a row that was
  not accepted and adds one membership in the same transaction, and a removal
  leaves the count of joins.

**`OrganizationProofs`**, about `WebSession`

- `WebTypes`, `NoStateLeaksBetweenTenants`. `TenantDataIsOwn` speaks of the records on
  screen; what has to be preserved (`OwnRecords`) speaks of the answer that is awaited as
  well, and of pages that are not shown. Every way to another page starts it without
  records or a call, and every way to another organisation passes `Switched` or leaves
  the page; a session that is refreshed, lost, or becomes another user's meanwhile goes
  through one of the two.
- `PagesAgreeWithTheApi`. Two matrices, of the pages and of the guards, meet in two
  predicates of a viewer: `Allowed`, the routes the API admits from them, and `LeadsIn`,
  the pages that do not turn them away. Page by page (`BackOfficeIsSound`,
  `TradePortalIsSound`, `AccountIsSound`, `ShopIsSound`, `EntranceIsSound`) what a shown
  page calls is allowed and what it links to leads in; `StaffRights` and `TradeGates` name
  the rights that a page takes for granted because another brings them along, as the
  quotation editor does that reads a request. `MenusLeadIn` says it of the menus, and
  `WebPagesAre` puts menus and areas together. `AllowedIsAdmitted` is the step from the
  copy in the tab to the caller the guards see, where `UpToDate` is needed.

**`AccountsProofs`** (about `Accounts`)

- `AccountsTypeCorrect`. With `Known`: tokens, accounts and requests belong to
  identities that Supabase has issued.
- `TradeAccountsAreOpenedOnce`. `TradeIsOne`: an account without its trade account has
  exactly one request that will open it, the one whose insert won.
- `LoginsAreLoggedOnce`. The entry is written after the row has turned to the session,
  so the count must look ahead: `TakenInTurns` counts the entries about to be written,
  and allows one more only to the session that is now on the row.
- `TheStoresAgree`. An invited identity is attended by the request that will create
  its account or clean up, until it has one, is gone or is logged as left behind. A
  suspension is in Supabase from the moment the request goes on to the users table, and
  a request that does so alone settles the two, whatever an earlier one left.

**`IntakeProofs`** (about `Intake`)

- `IntakeTypes`, `SalesOffersStand`, `QuotationsAreAddressed`. `HasAccount`: whoever is
  linked, about to be, or about to get a quotation, has an account, and accounts are never
  removed. `RowStands`: while a quotation is drafted the request's row is locked, so the
  organisation read, and the customer unless staff named one, are those at the commit.
- `FormsRecordOnce`. Each step that counts a receipt inserts one row, and no step
  deletes any.

**`ClientProofs`**, about `Shop`

- `ShopTypes`, `ChargesAreShown`. Each action is first reduced to what it does to the
  baskets, the refreshes, the requests, the orders and the counts; all that follows
  stands on these moves. That a total is a whole amount rests on `Sums`.
- `RefreshesKeepChoice`. The answers are mapped over the lines of the basket as it is,
  and a new minimum can only raise a quantity.
- `RefusalsAreStale`. `TotalsAreShown`: a request in flight shows the total of its own
  lines, whatever the page's basket has become. On equal prices the API's computation is
  the client's, line by line, so a difference has a changed price behind it.
- `LinesAreOrderedOnce`. `OrderedOnce` is not inductive: what keeps a line from a second
  order is where it is after the first. `Settled`: it is with the request whose answer
  will empty the basket, or not in the basket in memory and with no request that could
  still be placed. That needs `OnePlacing` (the button waits for one request),
  `UnheardIsLoose` (the lines of a request no page waits for are loose), and `Recovering`
  (a refresh after a refusal closes the refused request and no other). Of the device
  nothing is assumed but `HasRead`: an app that takes orders has read it. It reads it
  again only after it was killed, and then what comes back is loose.

**`ClientProofs`**, about `Money`

- `DocumentsAddUp`. What `calculateTotals` adds up, for any number of lines that
  `calculateLine` takes: subtotal and discount make up the list prices; VAT is at most
  the subtotal; and rounding it line by line, as every document does, is off from the
  VAT of the whole by half a fil a line at most. `RateIsNearest` bounds one rounding,
  and `Sums` adds the bounds up (`SumPlus`, `SumTimes`, `SumAtMost`).

**`ClientProofs`**, about `MobileSession`

- `MobileTypes`, `OrdersShownAreOwn`. Every `setState` is reduced to one lemma
  (`Became`): the calls are no more than they were, the list on screen follows the
  account on screen (`Keyed`), and another account is followed only with the old one's
  answers dropped. `ListIsOwn` then needs `AccountFollowed`: while the account on screen
  is the followed one, the session on the device is its own or gone, so a list call that
  reads its token now reads that account's; the calls whose answers will bring the
  followed account, and the list calls that count, carry its tokens already.
- `QuietAgrees`. `AgreesWithSupabase` speaks of quiet states only, so `AgreeInv` says
  what is still owed in the others. `Told`: the last event in a timer is about the
  session that is held, and when none waits the store follows that session's user, or a
  sign-out has still to end it. `Ends`: an event that was reported during a sign-out,
  which `handleAuthEvent` will ignore, is followed by one that nobody is signed in, or
  the sign-out has not ended the session yet. `Corrected`: an account on screen, or a
  token in a call, that is not of the user followed (`Mixed`) means that an event waits
  that will be acted on. `Loads`: the user followed has one call that counts at most, so
  a status of `loading` has a call or an event behind it (`Shown`). The steps are
  reduced to what each does to these (`Agreeing`: it takes an event, it goes on, or it
  changes the session and reports that); `AgreeInv` is kept by each of the three.

**`Sums`.** Exposure, shipped units and entries are sums over sets, which TLA+ computes
by recursion. `SumCountsMarks` shows that a sum of naturals is the cardinality of a set
of marks, of which each member contributes as many as its value: the cardinality solves
the equation that defines the recursion, and well-founded induction shows that only one
function does. The facts used of a sum (adding a term, changing one, comparing two
sums term by term) are then facts about finite sets; a function to which each member
adds its part is the sum (`SumSolves`), which gives the sums of sums and of multiples.

What stays with TLC is liveness, `AnswerTakesEffect`: a proof from weak fairness needs
`ENABLED`, which none of the prover's backends has. Every other property of a run is stated by a
theorem; none of them is about `ENABLED`, as the guards have names of their own.

## Not modelled

- **Address book** (`users/address-book.service.ts`). Each operation ends by making
  one address the default; the race of two first addresses is admitted in
  docs/ARCHITECTURE.md:197, and there is no further state.
- **Profile, trade account of a signed-in person** (`UsersService.updateProfile`,
  `openTradeAccount` outside sign-up): the first writes fields nothing reads to
  decide; the second is the transaction of the sign-up behind a count (`WebSession`
  has its effect on a tab).
- **Product creation, display order, images, search**: an insert nothing else has
  open, and wording.
- **Trade discounts** of the catalogue (`catalog/pricing.ts`), parsing and printing
  of amounts, dates and documents; form validation and its messages; layout and
  filters of the pages.
- **Audit entries**, apart from LOGIN. Those of a discard and of an RFQ's cancellation
  are written after their write and outside a transaction, and a crash between
  loses them; nothing reads them back to decide.
- **Demo reset and seed, deployment, environment, observability**: scripts over
  cloud commands and configuration; their state is in the provider.
- **Supabase** beyond what the API and the clients see of it: it issues tokens,
  refuses, forgets and fails whenever it likes.

A few behaviours of the code are in the models without a property, as nothing
promises otherwise: two edits of one draft both commit and the later one wins; a
cancelled RFQ's draft can still be sent and accepted; a draft revision can still
be sent after an earlier revision was accepted, and be accepted as well, which
gives one number two orders (docs/testing/BUGS-FOUND.md:324 leaves it to a product
decision); stock is not reserved at checkout; a checkout repeated after a lost
answer, or on a second page, places a second order; staff may address a request's
quotation to another customer than the one it is linked to; a first draft that is
discarded takes its number with it, so quotation numbers have holes although the counter rolls back with its
transaction; sales may confirm an order that waits for payment without one.

## What could follow

Every safety property and action property that a run checks has its theorem. Open are

1. the liveness of an answer, for a prover that knows `ENABLED`;
2. what the models admit and nothing promises (see *Not modelled*): each would become a
   property once the product decides what it wants, one number with two orders first.
