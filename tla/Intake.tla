------------------------------- MODULE Intake -------------------------------
(***************************************************************************)
(* How a request for quotation comes in and gets its customer.  A visitor's *)
(* form or an organisation's basket becomes a request (RfqService); sales   *)
(* link a website request to a customer account, inviting the contact who   *)
(* has none, and draft its first quotation (QuotationsService.create).      *)
(* Linking is several statements with no transaction round them; drafting   *)
(* is one transaction that holds the request's row.                         *)
(***************************************************************************)
EXTENDS Workflows

CONSTANTS
  Rfqs,        \* rows of quote_requests
  People,      \* persons, each with their own email address
  Orgs,
  Forms,       \* quote forms of visitors: the website's, the app's
  Requests,    \* slots for the staff requests being handled at one moment
  MaxLost,     \* bound: answers that get lost on the way to a form
  NoRfq, NoOne, NoOrg, NoQuote

ASSUME IntakeAssumption ==
  /\ NoOne \notin People \cup Forms /\ NoOrg \notin Orgs
  /\ IsFiniteSet(Rfqs)
  /\ MaxLost \in Nat

VARIABLES
  rfq,       \* [Rfqs -> the row of the request, or NoRfq]
  quote,     \* [Rfqs -> the request's quotation, or NoQuote]
  identity,  \* people with a Supabase identity
  account,   \* [People -> the row of the users table: its role, or SUSPENDED]
  member,    \* the memberships of organisations
  form,      \* [Forms -> where a visitor's form stands]
  lost,      \* [Forms -> requests recorded whose answer never arrived]
  req        \* the staff request in each slot

vars == <<rfq, quote, identity, account, member, form, lost, req>>
people == <<identity, account, member>>
forms  == <<form, lost>>

Rfq == [ source : {"TRADE", "WEBSITE"}, contact : People \cup {NoOne},
         form : Forms \cup {NoOne}, by : People \cup {NoOne},
         org : Orgs \cup {NoOrg}, status : RfqStatus ]
Quotation == [customer : People, org : Orgs \cup {NoOrg}, status : {"DRAFT", "ISSUED"}]

ASSUME IntakeNothing == NoRfq \notin Rfq /\ NoQuote \notin Quotation

Idle == [op |-> "IDLE"]
\* assignCustomer names a customer and perhaps an organisation of theirs, or
\* nobody, to invite the contact.  Drafting a quotation may name its customer.
Staff ==
  [ op : {"CHOOSE", "INVITE", "CREATE", "CLEAN_UP", "LINK"}, f : Rfqs,
    who : People \cup {NoOne}, org : Orgs \cup {NoOrg} ]
  \cup [ op : {"QUOTE"}, f : Rfqs, who : People, named : People \cup {NoOne},
             org : Orgs \cup {NoOrg} ]

TypeOK ==
  /\ rfq \in [Rfqs -> Rfq \cup {NoRfq}]
  /\ quote \in [Rfqs -> Quotation \cup {NoQuote}]
  /\ identity \subseteq People
  /\ account \in [People -> {"NONE", "CUSTOMER", "SUSPENDED", "STAFF"}]
  /\ member \subseteq People \X Orgs
  /\ form \in [Forms -> {"EDITING", "SENDING", "RECORDED", "SENT"}]
  /\ lost \in [Forms -> 0..MaxLost]
  /\ req \in [Requests -> {Idle} \cup Staff]

-----------------------------------------------------------------------------
Exists(f)  == rfq[f] # NoRfq
IsOpen(f)  == Exists(f) /\ rfq[f].status \notin {"CLOSED", "CANCELLED"}
IsQuoted(f) == quote[f] # NoQuote
\* Nobody holds the request's row FOR UPDATE.
RowIsFree(f) == \A r \in Requests : req[r].op = "QUOTE" => req[r].f # f

Continue(r, next) == req' = [req EXCEPT ![r] = next]
End(r) == Continue(r, Idle)

Init ==
  /\ rfq = [f \in Rfqs |-> NoRfq]
  /\ quote = [f \in Rfqs |-> NoQuote]
  /\ identity = {}
  /\ account = [p \in People |-> "NONE"]
  /\ member = {}
  /\ form = [v \in Forms |-> "EDITING"]
  /\ lost = [v \in Forms |-> 0]
  /\ req = [r \in Requests |-> Idle]

-----------------------------------------------------------------------------
(***************************************************************************)
(* Requests come in.                                                       *)
(***************************************************************************)
Submitted(source, contact, v, by, org) ==
  [source |-> source, contact |-> contact, form |-> v, by |-> by, org |-> org,
   status |-> "SUBMITTED"]

\* create: from the basket of a member of an organisation.
SubmitTrade(f, p, o) ==
  /\ ~Exists(f)
  /\ account[p] = "CUSTOMER" /\ <<p, o>> \in member
  /\ rfq' = [rfq EXCEPT ![f] = Submitted("TRADE", NoOne, NoOne, p, o)]
  /\ UNCHANGED <<quote, people, forms, req>>

MutantMaySubmit(v) == form[v] # "SENT"

\* The submit button works while nothing is on its way; once the answer has
\* come, the confirmation takes the form's place.
MaySubmit(v) == form[v] = "EDITING"

Submit(v) ==
  /\ MaySubmit(v)
  /\ form' = [form EXCEPT ![v] = "SENDING"]
  /\ UNCHANGED <<rfq, quote, people, lost, req>>

\* createFromWebsite, a public endpoint: whoever is signed in on the form, the
\* request has a contact and nobody who asked.
RecordWebsite(v, f, contact) ==
  /\ form[v] = "SENDING" /\ ~Exists(f)
  /\ rfq' = [rfq EXCEPT ![f] = Submitted("WEBSITE", contact, v, NoOne, NoOrg)]
  /\ form' = [form EXCEPT ![v] = "RECORDED"]
  /\ UNCHANGED <<quote, people, lost, req>>

\* A product left the public catalogue, a date passed, or the request never got
\* there: nothing is written, and an error shows above the form.
RefuseWebsite(v) ==
  /\ form[v] = "SENDING"
  /\ form' = [form EXCEPT ![v] = "EDITING"]
  /\ UNCHANGED <<rfq, quote, people, lost, req>>

\* The receipt arrives, or gets lost: then the form shows an error all the same.
Receipt(v) ==
  /\ form[v] = "RECORDED"
  /\ \/ form' = [form EXCEPT ![v] = "SENT"] /\ UNCHANGED lost
     \/ /\ lost[v] < MaxLost
        /\ lost' = [lost EXCEPT ![v] = @ + 1]
        /\ form' = [form EXCEPT ![v] = "EDITING"]
  /\ UNCHANGED <<rfq, quote, people, req>>

-----------------------------------------------------------------------------
(***************************************************************************)
(* assignCustomer.                                                         *)
(***************************************************************************)
\* The request is read with its quotations: a website one, open, unquoted.
MayAssign(f) ==
  /\ Exists(f) /\ rfq[f].source = "WEBSITE"
  /\ IsOpen(f) /\ ~IsQuoted(f)

BeginAssign(r, f, who, org) ==
  /\ req[r] = Idle
  /\ MayAssign(f)
  /\ who = NoOne => org = NoOrg
  /\ Continue(r, [op |-> IF who = NoOne THEN "INVITE" ELSE "CHOOSE",
                  f |-> f, who |-> who, org |-> org])
  /\ UNCHANGED <<rfq, quote, people, forms>>

\* An active customer, and a member of the organisation when one is named.
MayBeChosen(p, o) ==
  /\ account[p] = "CUSTOMER"
  /\ o # NoOrg => <<p, o>> \in member

Choose(r) ==
  /\ req[r].op = "CHOOSE"
  /\ IF MayBeChosen(req[r].who, req[r].org)
     THEN Continue(r, [req[r] EXCEPT !.op = "LINK"])
     ELSE End(r)
  /\ UNCHANGED <<rfq, quote, people, forms>>

\* inviteContact: no account may use the address, and Supabase refuses one that
\* has an identity.
MayBeInvited(p) == account[p] = "NONE" /\ p \notin identity

CreateIdentity(r) ==
  /\ req[r].op = "INVITE"
  /\ LET p == rfq[req[r].f].contact
     IN IF MayBeInvited(p)
        THEN /\ identity' = identity \cup {p}
             /\ Continue(r, [req[r] EXCEPT !.op = "CREATE", !.who = p])
        ELSE End(r) /\ UNCHANGED identity
  /\ UNCHANGED <<rfq, quote, account, member, forms>>

MutantAfterFailedCreate == "LINK"
\* The invited person's row could not be written: clean up, and give up.
AfterFailedCreate == "CLEAN_UP"

\* The row is refused when the invited person's first request came before it;
\* the database may fail as well.
CreateAccount(r) ==
  /\ req[r].op = "CREATE"
  /\ \/ /\ account[req[r].who] = "NONE"
        /\ account' = [account EXCEPT ![req[r].who] = "CUSTOMER"]
        /\ Continue(r, [req[r] EXCEPT !.op = "LINK"])
     \/ /\ Continue(r, [req[r] EXCEPT !.op = AfterFailedCreate])
        /\ UNCHANGED account
  /\ UNCHANGED <<rfq, quote, identity, member, forms>>

\* deleteIdentity: best effort, whatever happened to the identity meanwhile.
CleanUp(r) ==
  /\ req[r].op = "CLEAN_UP"
  /\ identity' \in {identity, identity \ {req[r].who}}
  /\ End(r)
  /\ UNCHANGED <<rfq, quote, account, member, forms>>

\* The update waits for a transaction that holds the row, and asks nothing else.
LinkWaits(f) == RowIsFree(f)

Link(r) ==
  /\ req[r].op = "LINK"
  /\ LinkWaits(req[r].f)
  /\ rfq' = [rfq EXCEPT ![req[r].f].by = req[r].who, ![req[r].f].org = req[r].org]
  /\ End(r)
  /\ UNCHANGED <<quote, people, forms>>

-----------------------------------------------------------------------------
(***************************************************************************)
(* The first quotation, and what else happens to a request.                *)
(***************************************************************************)
\* The customer of a new quotation: the one the staff name (`customerId`, which
\* the API takes and the sales pages never send), else whom the request is
\* linked to.
CustomerFor(f, named) == IF named = NoOne THEN rfq[f].by ELSE named

\* create, with the request's row locked: open, unquoted, and for a customer who
\* exists and is a member of the organisation the request is for.
MayQuote(f, who) ==
  /\ IsOpen(f) /\ ~IsQuoted(f)
  /\ who # NoOne /\ account[who] # "NONE"
  /\ rfq[f].org # NoOrg => <<who, rfq[f].org>> \in member

BeginQuote(r, f, named) ==
  /\ req[r] = Idle
  /\ RowIsFree(f)
  /\ Exists(f) /\ MayQuote(f, CustomerFor(f, named))
  /\ Continue(r, [op |-> "QUOTE", f |-> f, who |-> CustomerFor(f, named),
                  named |-> named, org |-> rfq[f].org])
  /\ UNCHANGED <<rfq, quote, people, forms>>

CommitQuote(r) ==
  /\ req[r].op = "QUOTE"
  /\ LET f == req[r].f IN
       /\ quote' = [quote EXCEPT ![f] =
            [customer |-> req[r].who, org |-> req[r].org, status |-> "DRAFT"]]
       /\ rfq' = IF CanTransition(RfqTransitions, rfq[f].status, "IN_REVIEW")
                 THEN [rfq EXCEPT ![f].status = "IN_REVIEW"] ELSE rfq
  /\ End(r)
  /\ UNCHANGED <<people, forms>>

\* send and discard of the draft, each one transaction; Quotations has the rest
\* of a quotation's life.
Issue(f) ==
  /\ IsQuoted(f) /\ quote[f].status = "DRAFT"
  /\ quote' = [quote EXCEPT ![f].status = "ISSUED"]
  /\ rfq' = IF CanTransition(RfqTransitions, rfq[f].status, "QUOTED")
            THEN [rfq EXCEPT ![f].status = "QUOTED"] ELSE rfq
  /\ UNCHANGED <<people, forms, req>>

Discard(f) ==
  /\ IsQuoted(f) /\ quote[f].status = "DRAFT"
  /\ quote' = [quote EXCEPT ![f] = NoQuote]
  /\ UNCHANGED <<rfq, people, forms, req>>

\* adminUpdate, and cancel by the organisation: written over the status read.
Triage(f, to) ==
  /\ Exists(f) /\ RowIsFree(f)
  /\ CanTransition(RfqTransitions, rfq[f].status, to)
  /\ rfq' = [rfq EXCEPT ![f].status = to]
  /\ UNCHANGED <<quote, people, forms, req>>

-----------------------------------------------------------------------------
(***************************************************************************)
(* People meanwhile.                                                       *)
(***************************************************************************)
SignUp(p) ==
  /\ p \notin identity /\ account[p] = "NONE"
  /\ identity' = identity \cup {p}
  /\ UNCHANGED <<rfq, quote, account, member, forms, req>>

\* The first request of an identity gives it an account.
Provision(p) ==
  /\ p \in identity /\ account[p] = "NONE"
  /\ account' = [account EXCEPT ![p] = "CUSTOMER"]
  /\ UNCHANGED <<rfq, quote, identity, member, forms, req>>

\* UsersService.adminUpdate: the role, or whether the account is active.
AdminUpdate(p) ==
  /\ account[p] # "NONE"
  /\ account' \in {[account EXCEPT ![p] = a] : a \in {"CUSTOMER", "SUSPENDED", "STAFF"} \ {account[p]}}
  /\ UNCHANGED <<rfq, quote, identity, member, forms, req>>

Join(p, o) ==
  /\ account[p] = "CUSTOMER" /\ <<p, o>> \notin member
  /\ member' = member \cup {<<p, o>>}
  /\ UNCHANGED <<rfq, quote, identity, account, forms, req>>

Leave(p, o) ==
  /\ <<p, o>> \in member
  /\ member' = member \ {<<p, o>>}
  /\ UNCHANGED <<rfq, quote, identity, account, forms, req>>

-----------------------------------------------------------------------------
VisitorStep ==
  \E v \in Forms :
    \/ Submit(v) \/ RefuseWebsite(v) \/ Receipt(v)
    \/ \E f \in Rfqs, p \in People : RecordWebsite(v, f, p)

AssignStep ==
  \E r \in Requests :
    \/ \E f \in Rfqs, p \in People \cup {NoOne}, o \in Orgs \cup {NoOrg} : BeginAssign(r, f, p, o)
    \/ Choose(r) \/ CreateIdentity(r) \/ CreateAccount(r) \/ CleanUp(r) \/ Link(r)

QuoteStep ==
  \/ \E r \in Requests :
       \/ CommitQuote(r)
       \/ \E f \in Rfqs, p \in People \cup {NoOne} : BeginQuote(r, f, p)
  \/ \E f \in Rfqs : Issue(f) \/ Discard(f)
  \/ \E f \in Rfqs, to \in RfqStatus : Triage(f, to)

PeopleStep ==
  \E p \in People :
    \/ SignUp(p) \/ Provision(p) \/ AdminUpdate(p)
    \/ \E o \in Orgs : Join(p, o) \/ Leave(p, o) \/ \E f \in Rfqs : SubmitTrade(f, p, o)

Next == VisitorStep \/ AssignStep \/ QuoteStep \/ PeopleStep
Spec == Init /\ [][Next]_vars

-----------------------------------------------------------------------------
(***************************************************************************)
(* What the sales pages offer on an unquoted request.                      *)
(***************************************************************************)
\* contactAccount: who uses the contact's address, until there is a customer.
ContactAccount(f) ==
  IF /\ rfq[f].source = "WEBSITE" /\ rfq[f].by = NoOne
     /\ account[rfq[f].contact] # "NONE"
  THEN rfq[f].contact ELSE NoOne

PageIsOpen(f) == Exists(f) /\ rfq[f].status \in {"SUBMITTED", "IN_REVIEW"} /\ ~IsQuoted(f)

MutantCustomerLinkPanel(f) ==
  IF ContactAccount(f) = NoOne THEN {<<NoOne, NoOrg>>}
  ELSE {<<rfq[f].contact, o>> : o \in {NoOrg} \cup {o \in Orgs : <<rfq[f].contact, o>> \in member}}

\* CustomerLinkPanel: invite the contact without an account, or link the account
\* of an active customer, personally or for an organisation of theirs.
CustomerLinkPanel(f) ==
  IF ContactAccount(f) = NoOne THEN {<<NoOne, NoOrg>>}
  ELSE IF account[rfq[f].contact] # "CUSTOMER" THEN {}
  ELSE {<<rfq[f].contact, o>> : o \in {NoOrg} \cup {o \in Orgs : <<rfq[f].contact, o>> \in member}}

LinkOffers(f) ==
  IF PageIsOpen(f) /\ rfq[f].source = "WEBSITE" /\ rfq[f].by = NoOne
  THEN CustomerLinkPanel(f) ELSE {}

\* The link to a new quotation, and the page behind it (`blocked`).
OffersQuotation(f) == PageIsOpen(f) /\ rfq[f].by # NoOne

-----------------------------------------------------------------------------
\* One form, one request: what a visitor's form recorded is what its one receipt
\* is about, apart from requests whose answer got lost and that were repeated.
RecordedOnce ==
  \A v \in Forms :
    Cardinality({f \in Rfqs : Exists(f) /\ rfq[f].form = v})
      = lost[v] + (IF form[v] \in {"RECORDED", "SENT"} THEN 1 ELSE 0)

\* What the sales pages offer on a request as it stands, the API takes: every
\* choice of the link panel, and the new quotation.  Left out are an invitation
\* to somebody who has signed up and never used the platform, which Supabase
\* refuses, and a request whose customer has left the organisation.
SalesOffersAreTaken ==
  \A f \in Rfqs :
    /\ \A c \in LinkOffers(f) :
         /\ MayAssign(f)
         /\ IF c[1] = NoOne THEN rfq[f].contact \in identity \/ MayBeInvited(rfq[f].contact)
            ELSE MayBeChosen(c[1], c[2])
    /\ OffersQuotation(f) =>
         \/ MayQuote(f, rfq[f].by)
         \/ rfq[f].org # NoOrg /\ <<rfq[f].by, rfq[f].org>> \notin member

\* A quotation is for the organisation its request is linked to at that moment,
\* and addressed to the customer the staff who draft it name, or else to the one
\* the request is linked to, whatever is being linked at the same time.  Both
\* customers are people with an account: an invitation that fails half-way links
\* nobody.
AddressedAsLinkedStep ==
  \A f \in Rfqs :
    /\ ~IsQuoted(f) /\ IsQuoted(f)' =>
         /\ \E r \in Requests :
              /\ req[r].op = "QUOTE" /\ req[r].f = f
              /\ quote'[f].customer = CustomerFor(f, req[r].named)
         /\ quote'[f].org = rfq[f].org
         /\ account[quote'[f].customer] # "NONE"
    /\ Exists(f)' /\ rfq'[f].by # NoOne => account'[rfq'[f].by] # "NONE"
AddressedAsLinked == [][AddressedAsLinkedStep]_vars

\* "This request already has a quotation, so its customer can no longer change":
\* assignCustomer's reason to refuse, which it decides on an earlier read.
FixedOnceQuotedStep ==
  \A f \in Rfqs : IsQuoted(f) => rfq'[f].by = rfq[f].by /\ rfq'[f].org = rfq[f].org
CustomerFixedOnceQuoted == [][FixedOnceQuotedStep]_vars
=============================================================================
