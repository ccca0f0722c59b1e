----------------------------- MODULE Quotations -----------------------------
(***************************************************************************)
(* QuotationsService (apps/api/src/procurement/quotations.service.ts): the *)
(* revisions of a quotation, the RFQ they answer and the order acceptance  *)
(* creates, under requests that overlap.                                   *)
(*                                                                         *)
(* Every handler reads, decides, and then runs one transaction.  A request *)
(* is therefore a slot of `req`: a Begin action fills it with what the     *)
(* handler keeps of its reads, and a later action is the transaction.  The *)
(* transaction is one step because its first statement is a conditional    *)
(* write that holds the row's lock until commit (updateIfStill); what it   *)
(* writes afterwards is guarded by that lock or is itself conditional.     *)
(* `revise` has no such write, so its sibling read is a step of its own.   *)
(***************************************************************************)
EXTENDS Workflows

CONSTANTS
  Quotes,       \* identities of quotation rows (ids are never reused)
  Rfqs,         \* requests for quotation
  Members,      \* users who are, or may become, members of the organisation
  Customer,     \* the individual that personal quotations are addressed to
  Requests,     \* HTTP requests in flight at one moment
  Personal,     \* the RFQs (or NoRfq) that are personal, not the organisation's
  Amounts,      \* net amounts (subtotal and delivery) a quotation may have
  Validities,   \* validity periods, in days
  Memberships,  \* the role and limit an owner may give a member
  OrgStates,    \* the statuses a KYC review may set
  RfqMoves,     \* the statuses staff and customers may move an RFQ to
  NoRfq, NoUser,
  MaxNumber,    \* bound: quotation numbers issued
  MaxRevision,  \* bound: revisions of one number
  MaxNow,       \* bound: days that pass
  MaxPeriod     \* bound: days of validity a send may carry over

Users     == Members \cup {Customer}
NotMember == [role |-> "NONE", limit |-> NoLimit]

ASSUME QuotationsAssumption ==
  /\ NoRfq \notin Rfqs
  /\ NoUser \notin Users
  /\ Customer \notin Members
  /\ Personal \subseteq Rfqs \cup {NoRfq}
  /\ Amounts \subseteq Nat
  /\ Validities \subseteq Nat \ {0}
  /\ Memberships \subseteq [role : OrgRole, limit : Limit]
  /\ OrgStates \subseteq OrgStatus
  /\ RfqMoves \subseteq RfqStatus
  /\ {MaxNumber, MaxRevision, MaxNow, MaxPeriod} \subseteq Nat

VARIABLES
  quote,      \* the quotations table: one row per revision
  rfq,        \* the RFQs' statuses
  orders,     \* the orders created from quotations
  issued,     \* the QUOTATION row of document_sequences
  member,     \* organization_members: role and limit per user
  orgStatus,  \* the organisation's KYC status
  now,        \* the date
  req         \* the requests in flight

vars == <<quote, rfq, orders, issued, member, orgStatus, now, req>>

-----------------------------------------------------------------------------
Absent   == {"NONE", "DISCARDED"}    \* never inserted, and deleted
Open     == {"SENT", "PENDING_APPROVAL", "REVISION_REQUESTED"}
Revisable == Open \cup {"EXPIRED"}
Settled  == {"ACCEPTED", "REJECTED"}

NoRow(status) ==
  [ status |-> status, number |-> 0, revision |-> 0, rfq |-> NoRfq, net |-> 0,
    created |-> 0, until |-> 0, respondedBy |-> NoUser, approvedBy |-> NoUser ]

NoQuote == NoRow("NONE")

Row ==
  [ status : QuotationStatus \cup Absent, number : Nat, revision : Nat,
    rfq : Rfqs \cup {NoRfq}, net : Nat, created : Nat, until : Nat,
    respondedBy : Users \cup {NoUser}, approvedBy : Users \cup {NoUser} ]

Idle == [op |-> "IDLE"]

\* What a handler holds between its reads and its transaction.
DraftRequest   == [op : {"UPDATE", "DISCARD", "REVISE"}, quote : Quotes]
SendRequest    == [op : {"SEND"}, quote : Quotes,
                   from : {"DRAFT", "PENDING_APPROVAL"}, until : Nat]
InsertRequest  == [op : {"INSERT"}, quote : Quotes, next : Nat]
ExpireRequest  == [op : {"EXPIRE"}, quote : Quotes, from : {"SENT", "PENDING_APPROVAL"}]
AnswerRequest  == [op : {"ASK_APPROVAL", "REJECT", "ASK_REVISION"},
                   quote : Quotes, actor : Users]
AcceptRequest  == [op : {"ACCEPT"}, quote : Quotes, actor : Users,
                   grant : Memberships \cup {NotMember}]
ApproveRequest == [op : {"APPROVE"}, quote : Quotes, actor : Members,
                   requester : Users \cup {NoUser},
                   grant : Memberships \cup {NotMember}]
DeclineRequest == [op : {"DECLINE"}, quote : Quotes, actor : Members]
TriageRequest  == [op : {"MOVE_RFQ"}, rfq : Rfqs, from : RfqStatus, to : RfqStatus]

Request == {Idle} \cup DraftRequest \cup SendRequest \cup InsertRequest
             \cup ExpireRequest \cup AnswerRequest \cup AcceptRequest
             \cup ApproveRequest \cup DeclineRequest \cup TriageRequest

-----------------------------------------------------------------------------
Exists(q)     == quote[q].status \notin Absent
IsPersonal(q) == quote[q].rfq \in Personal
Lapsed(q)     == quote[q].until < now
Siblings(n)   == {p \in Quotes : Exists(p) /\ quote[p].number = n}

\* The validity an offer was given, in whole days and at least one.
Period(q) ==
  LET days == quote[q].until - quote[q].created
  IN  IF days > 1 THEN days ELSE 1

MutantStillIsUnguarded(q, from) == Exists(q)

\* updateIfStill: the row still has the status that was read.
StillIs(q, from) == quote[q].status = from

MutantStillOpenAnyStatus(q, from)  == Exists(q) /\ quote[q].until >= now
MutantStillOpenForever(q, from)    == StillIs(q, from)
MutantStillOpenReversed(q, from)   == StillIs(q, from) /\ quote[q].until < now

\* answer: that, and the offer is still within its validity.
StillOpen(q, from) == StillIs(q, from) /\ quote[q].until >= now

MutantUnquotedUnchecked(f) == TRUE

Unquoted(f) == \A p \in Quotes : Exists(p) => quote[p].rfq # f

\* moveRfq: one UPDATE, conditional on the lifecycle allowing the step.
MovedRfq(f, to) ==
  IF f \in Rfqs /\ CanTransition(RfqTransitions, rfq[f], to)
  THEN [rfq EXCEPT ![f] = to]
  ELSE rfq

\* The unique index on orders.quotationId.
HasOrder(q) == \E o \in orders : o.quote = q

\* The unique index on quotations(number, revision).
RevisionTaken(n, v) == \E p \in Siblings(n) : quote[p].revision = v

(***************************************************************************)
(* Does the guarded write of a request in flight still match?  If not, the *)
(* transaction rolls back and the caller is answered 409.                  *)
(***************************************************************************)
StillApplies(request) ==
  \/ /\ request.op \in {"UPDATE", "DISCARD"}
     /\ StillIs(request.quote, "DRAFT")
  \/ /\ request.op \in {"SEND", "EXPIRE"}
     /\ StillIs(request.quote, request.from)
  \/ /\ request.op = "INSERT"
     /\ ~RevisionTaken(quote[request.quote].number, request.next)
  \/ /\ request.op \in {"ASK_APPROVAL", "REJECT", "ASK_REVISION"}
     /\ StillOpen(request.quote, "SENT")
  \/ /\ request.op = "DECLINE"
     /\ StillOpen(request.quote, "PENDING_APPROVAL")
  \/ /\ request.op = "ACCEPT"
     /\ StillOpen(request.quote, "SENT") /\ ~HasOrder(request.quote)
  \/ /\ request.op = "APPROVE"
     /\ StillOpen(request.quote, "PENDING_APPROVAL") /\ ~HasOrder(request.quote)
  \/ /\ request.op = "MOVE_RFQ"
     /\ rfq[request.rfq] = request.from

-----------------------------------------------------------------------------
Init ==
  /\ quote = [q \in Quotes |-> NoQuote]
  /\ rfq = [f \in Rfqs |-> "SUBMITTED"]
  /\ orders = {}
  /\ issued = 0
  /\ member \in [Members -> Memberships]
  /\ \E m \in Members : member[m].role = "OWNER"
  /\ orgStatus = "ACTIVE"
  /\ now = 0
  /\ req = [r \in Requests |-> Idle]

Start(r, request) ==
  /\ req[r] = Idle
  /\ req' = [req EXCEPT ![r] = request]

\* The transaction of a request in flight, if its guarded write matches.
Commits(r, op) == req[r].op = op /\ StillApplies(req[r])

Finish(r) == req' = [req EXCEPT ![r] = Idle]

StartOnly == UNCHANGED <<quote, rfq, orders, issued, member, orgStatus, now>>

NewDraft(n, v, f, net, days) ==
  [ status |-> "DRAFT", number |-> n, revision |-> v, rfq |-> f, net |-> net,
    created |-> now, until |-> now + days,
    respondedBy |-> NoUser, approvedBy |-> NoUser ]

(***************************************************************************)
(* Staff: authoring.                                                       *)
(***************************************************************************)
TakesQuotation(f) ==
  f \in Rfqs => rfq[f] \notin {"CLOSED", "CANCELLED"} /\ Unquoted(f)

\* create: the RFQ's row is locked first, so the check that it has no
\* quotation and the insert are one step.
Create(q, f) ==
  /\ quote[q] = NoQuote
  /\ issued < MaxNumber
  /\ TakesQuotation(f)
  /\ \E net \in Amounts, days \in Validities :
       quote' = [quote EXCEPT ![q] = NewDraft(issued + 1, 1, f, net, days)]
  /\ issued' = issued + 1
  /\ rfq' = MovedRfq(f, "IN_REVIEW")
  /\ UNCHANGED <<orders, member, orgStatus, now, req>>

\* Only a draft is edited, or discarded.
TakesEdit(q) == quote[q].status = "DRAFT"

BeginUpdate(r, q) ==
  /\ TakesEdit(q)
  /\ Start(r, [op |-> "UPDATE", quote |-> q])
  /\ StartOnly

MutantCommitUpdateUnguarded(r) ==
  /\ req[r].op = "UPDATE"
  /\ \E net \in Amounts :
       quote' = [quote EXCEPT ![req[r].quote].net = net]
  /\ Finish(r)
  /\ UNCHANGED <<rfq, orders, issued, member, orgStatus, now>>

\* update: validity runs from the creation, totals are rebuilt from the lines.
CommitUpdate(r) ==
  LET q == req[r].quote IN
  /\ Commits(r, "UPDATE")
  /\ \E net \in Amounts, days \in Validities :
       quote' = [quote EXCEPT ![q].net = net,
                              ![q].until = quote[q].created + days]
  /\ Finish(r)
  /\ UNCHANGED <<rfq, orders, issued, member, orgStatus, now>>

BeginDiscard(r, q) ==
  /\ TakesEdit(q)
  /\ Start(r, [op |-> "DISCARD", quote |-> q])
  /\ StartOnly

CommitDiscard(r) ==
  /\ Commits(r, "DISCARD")
  /\ quote' = [quote EXCEPT ![req[r].quote] = NoRow("DISCARDED")]
  /\ Finish(r)
  /\ UNCHANGED <<rfq, orders, issued, member, orgStatus, now>>

MutantBeginSendUnchecked(r, q) ==
  /\ Exists(q)
  /\ Period(q) <= MaxPeriod
  /\ Start(r, [op |-> "SEND", quote |-> q, from |-> quote[q].status,
               until |-> now + Period(q)])
  /\ StartOnly

\* The lifecycle must allow the step to SENT, which it also does from
\* PENDING_APPROVAL.
TakesSend(q) == Exists(q) /\ CanTransition(QuotationTransitions, quote[q].status, "SENT")

\* send: the new validity is worked out here, from the row as read.
BeginSend(r, q) ==
  /\ TakesSend(q)
  /\ Period(q) <= MaxPeriod
  /\ Start(r, [op |-> "SEND", quote |-> q, from |-> quote[q].status,
               until |-> now + Period(q)])
  /\ StartOnly

MutantSupersededSentOnly(q) ==
  {p \in Siblings(quote[q].number) :
     quote[p].revision < quote[q].revision /\ quote[p].status = "SENT"}

\* Earlier revisions of the number that are still open.
Superseded(q) ==
  {p \in Siblings(quote[q].number) :
     quote[p].revision < quote[q].revision /\ quote[p].status \in Open}

CommitSend(r) ==
  LET q == req[r].quote IN
  /\ Commits(r, "SEND")
  /\ quote' = [p \in Quotes |->
       IF p = q THEN [quote[q] EXCEPT !.status = "SENT",
                                      !.until = req[r].until]
       ELSE IF p \in Superseded(q) THEN [quote[p] EXCEPT !.status = "SUPERSEDED"]
       ELSE quote[p]]
  /\ rfq' = MovedRfq(quote[q].rfq, "QUOTED")
  /\ Finish(r)
  /\ UNCHANGED <<orders, issued, member, orgStatus, now>>

TakesRevise(q) == quote[q].status \in Revisable

\* revise: the status is checked on a read outside the transaction ...
BeginRevise(r, q) ==
  /\ TakesRevise(q)
  /\ Start(r, [op |-> "REVISE", quote |-> q])
  /\ StartOnly

\* ... the siblings are read inside it, without a lock ...
ReadSiblings(r) ==
  LET n == quote[req[r].quote].number IN
  /\ req[r].op = "REVISE"
  /\ \A p \in Siblings(n) : quote[p].status # "DRAFT"
  /\ \E latest \in Siblings(n) :
       /\ \A p \in Siblings(n) : quote[p].revision <= quote[latest].revision
       /\ quote[latest].revision < MaxRevision
       /\ req' = [req EXCEPT ![r] = [op |-> "INSERT", quote |-> req[r].quote,
                                     next |-> quote[latest].revision + 1]]
  /\ StartOnly

RefuseRevise(r) ==
  /\ req[r].op = "REVISE"
  /\ \E p \in Siblings(quote[req[r].quote].number) : quote[p].status = "DRAFT"
  /\ Finish(r)
  /\ StartOnly

\* ... and the insert is refused by the unique index if it came second.
CommitRevise(r, q) ==
  LET from == quote[req[r].quote] IN
  /\ Commits(r, "INSERT")
  /\ quote[q] = NoQuote
  /\ \E net \in Amounts, days \in Validities :
       quote' = [quote EXCEPT ![q] =
                   NewDraft(from.number, req[r].next, from.rfq, net, days)]
  /\ Finish(r)
  /\ UNCHANGED <<rfq, orders, issued, member, orgStatus, now>>

(***************************************************************************)
(* The customer's side.  The guard loads the caller's membership when the  *)
(* request arrives; the handler goes on using that copy.                   *)
(***************************************************************************)
\* OrganizationGuard, with the role the endpoint asks for.
MayAct(u, q, roles) ==
  /\ ~IsPersonal(q)
  /\ u \in Members
  /\ member[u].role \in roles
  /\ orgStatus # "SUSPENDED"

NeedsApproval(u, q) ==
  RequiresApproval(member[u].role, member[u].limit, quote[q].net)

\* openQuotation on a lapsed quotation: the handler goes on to record EXPIRED.
BeginExpire(r, q, u) ==
  /\ \/ quote[q].status = "SENT" /\ MayAct(u, q, OrgRole)
     \/ quote[q].status = "SENT" /\ IsPersonal(q) /\ u = Customer
     \/ quote[q].status = "PENDING_APPROVAL" /\ MayAct(u, q, Approvers)
  /\ Lapsed(q)
  /\ Start(r, [op |-> "EXPIRE", quote |-> q, from |-> quote[q].status])
  /\ StartOnly

CommitExpire(r) ==
  /\ Commits(r, "EXPIRE")
  /\ quote' = [quote EXCEPT ![req[r].quote].status = "EXPIRED"]
  /\ Finish(r)
  /\ UNCHANGED <<rfq, orders, issued, member, orgStatus, now>>

\* respond: an acceptance becomes a request for approval where the member's
\* role or limit does not cover the amount.
TakesAnswer(q, u, op) ==
  /\ quote[q].status = "SENT" /\ ~Lapsed(q)
  /\ MayAct(u, q, OrgRole)
  /\ op \in {"ACCEPT", "ASK_APPROVAL"} => orgStatus = "ACTIVE"
  /\ op = "ACCEPT" => ~NeedsApproval(u, q)
  /\ op = "ASK_APPROVAL" => NeedsApproval(u, q)

\* Up to the transaction.
BeginRespond(r, q, u) ==
  /\ \/ /\ TakesAnswer(q, u, "ACCEPT")
        /\ Start(r, [op |-> "ACCEPT", quote |-> q, actor |-> u, grant |-> member[u]])
     \/ \E op \in {"ASK_APPROVAL", "REJECT", "ASK_REVISION"} :
          /\ TakesAnswer(q, u, op)
          /\ Start(r, [op |-> op, quote |-> q, actor |-> u])
  /\ StartOnly

\* personalRespond: no approval step.
TakesPersonalAnswer(q) == quote[q].status = "SENT" /\ ~Lapsed(q) /\ IsPersonal(q)

\* Up to the transaction.
BeginPersonalRespond(r, q) ==
  /\ TakesPersonalAnswer(q)
  /\ \/ Start(r, [op |-> "ACCEPT", quote |-> q, actor |-> Customer,
                  grant |-> NotMember])
     \/ \E op \in {"REJECT", "ASK_REVISION"} :
          Start(r, [op |-> op, quote |-> q, actor |-> Customer])
  /\ StartOnly

\* decideApproval: not one's own request, and the decider's own limit covers the
\* amount (also to decline).
TakesDecision(q, u) ==
  /\ quote[q].status = "PENDING_APPROVAL" /\ ~Lapsed(q)
  /\ MayAct(u, q, Approvers)
  /\ quote[q].respondedBy # u
  /\ ~NeedsApproval(u, q)

\* Up to the transaction.
BeginDecide(r, q, u) ==
  /\ TakesDecision(q, u)
  /\ \/ Start(r, [op |-> "APPROVE", quote |-> q, actor |-> u,
                  requester |-> quote[q].respondedBy, grant |-> member[u]])
     \/ Start(r, [op |-> "DECLINE", quote |-> q, actor |-> u])
  /\ StartOnly

\* createFromQuotation, inside the accepting transaction.
PlaceOrder(q, user) == orders' = orders \cup {[quote |-> q, by |-> user]}

CommitAccept(r) ==
  LET q == req[r].quote IN
  /\ Commits(r, "ACCEPT")
  /\ quote' = [quote EXCEPT ![q] = [@ EXCEPT !.status = "ACCEPTED",
                                             !.respondedBy = req[r].actor,
                                             !.approvedBy = req[r].actor]]
  /\ PlaceOrder(q, req[r].actor)
  /\ rfq' = MovedRfq(quote[q].rfq, "CLOSED")
  /\ Finish(r)
  /\ UNCHANGED <<issued, member, orgStatus, now>>

CommitAskApproval(r) ==
  LET q == req[r].quote IN
  /\ Commits(r, "ASK_APPROVAL")
  /\ quote' = [quote EXCEPT ![q].status = "PENDING_APPROVAL",
                            ![q].respondedBy = req[r].actor]
  /\ Finish(r)
  /\ UNCHANGED <<rfq, orders, issued, member, orgStatus, now>>

CommitReject(r) ==
  LET q == req[r].quote IN
  /\ Commits(r, "REJECT")
  /\ quote' = [quote EXCEPT ![q].status = "REJECTED",
                            ![q].respondedBy = req[r].actor]
  /\ rfq' = MovedRfq(quote[q].rfq, "CLOSED")
  /\ Finish(r)
  /\ UNCHANGED <<orders, issued, member, orgStatus, now>>

CommitAskRevision(r) ==
  LET q == req[r].quote IN
  /\ Commits(r, "ASK_REVISION")
  /\ quote' = [quote EXCEPT ![q].status = "REVISION_REQUESTED",
                            ![q].respondedBy = req[r].actor]
  /\ rfq' = MovedRfq(quote[q].rfq, "IN_REVIEW")
  /\ Finish(r)
  /\ UNCHANGED <<orders, issued, member, orgStatus, now>>

\* The order is placed for the requester as read, not for the row's current one.
CommitApprove(r) ==
  LET q == req[r].quote IN
  /\ Commits(r, "APPROVE")
  /\ quote' = [quote EXCEPT ![q].status = "ACCEPTED",
                            ![q].approvedBy = req[r].actor]
  /\ PlaceOrder(q, IF req[r].requester # NoUser THEN req[r].requester
                                                ELSE req[r].actor)
  /\ rfq' = MovedRfq(quote[q].rfq, "CLOSED")
  /\ Finish(r)
  /\ UNCHANGED <<issued, member, orgStatus, now>>

CommitDecline(r) ==
  LET q == req[r].quote IN
  /\ Commits(r, "DECLINE")
  /\ quote' = [quote EXCEPT ![q].status = "SENT"]
  /\ Finish(r)
  /\ UNCHANGED <<rfq, orders, issued, member, orgStatus, now>>

(***************************************************************************)
(* RfqService: the customer's cancellation and sales triage.               *)
(***************************************************************************)
MoveOf(f, to) == [op |-> "MOVE_RFQ", rfq |-> f, from |-> rfq[f], to |-> to]

TakesMove(f, to) == CanTransition(RfqTransitions, rfq[f], to)

\* By a member of the organisation that raised the request.
TakesCancellation(f) ==
  f \notin Personal /\ orgStatus # "SUSPENDED" /\ TakesMove(f, "CANCELLED")

\* cancel, up to its write.
BeginCancelRfq(r, f) ==
  /\ TakesCancellation(f)
  /\ Start(r, MoveOf(f, "CANCELLED"))
  /\ StartOnly

\* adminUpdate with a new status.
BeginTriage(r, f, to) ==
  /\ TakesMove(f, to)
  /\ Start(r, MoveOf(f, to))
  /\ StartOnly

CommitMoveRfq(r) ==
  /\ Commits(r, "MOVE_RFQ")
  /\ rfq' = [rfq EXCEPT ![req[r].rfq] = req[r].to]
  /\ Finish(r)
  /\ UNCHANGED <<quote, orders, issued, member, orgStatus, now>>

\* 409 CONCURRENT_UPDATE (or a unique violation): nothing is written.
Conflict(r) ==
  /\ req[r].op \notin {"IDLE", "REVISE"}
  /\ ~StillApplies(req[r])
  /\ Finish(r)
  /\ StartOnly

(***************************************************************************)
(* What happens around the requests.                                       *)
(***************************************************************************)
\* updateMember, removeMember and the acceptance of an invitation, each seen as
\* the one step its transaction is; an owner remains (see Members).
ChangeMember(m, grant) ==
  /\ member[m] # grant
  /\ \E o \in Members : (IF o = m THEN grant ELSE member[o]).role = "OWNER"
  /\ member' = [member EXCEPT ![m] = grant]
  /\ UNCHANGED <<quote, rfq, orders, issued, orgStatus, now, req>>

\* review, the KYC decision, written whatever the status was; and updateProfile,
\* which sends an active organisation back to verification.
ReviewOrganization(status) ==
  /\ orgStatus' = status
  /\ UNCHANGED <<quote, rfq, orders, issued, member, now, req>>

Tick ==
  /\ now < MaxNow
  /\ now' = now + 1
  /\ UNCHANGED <<quote, rfq, orders, issued, member, orgStatus, req>>

\* The second half of a handler that has begun.
Proceed(r) ==
  \/ CommitUpdate(r)      \/ CommitDiscard(r)    \/ CommitSend(r)
  \/ ReadSiblings(r)      \/ RefuseRevise(r)
  \/ \E q \in Quotes : CommitRevise(r, q)
  \/ CommitExpire(r)      \/ CommitAccept(r)     \/ CommitAskApproval(r)
  \/ CommitReject(r)      \/ CommitAskRevision(r)
  \/ CommitApprove(r)     \/ CommitDecline(r)    \/ CommitMoveRfq(r)
  \/ Conflict(r)

Begin(r) ==
  \/ \E q \in Quotes :
       \/ BeginUpdate(r, q) \/ BeginDiscard(r, q)
       \/ BeginSend(r, q)   \/ BeginRevise(r, q)
       \/ BeginPersonalRespond(r, q)
       \/ \E u \in Users :
            BeginExpire(r, q, u) \/ BeginRespond(r, q, u) \/ BeginDecide(r, q, u)
  \/ \E f \in Rfqs :
       \/ "CANCELLED" \in RfqMoves /\ BeginCancelRfq(r, f)
       \/ \E to \in RfqMoves : BeginTriage(r, f, to)

Next ==
  \/ \E q \in Quotes, f \in Rfqs \cup {NoRfq} : Create(q, f)
  \/ \E r \in Requests : Begin(r) \/ Proceed(r)
  \/ \E m \in Members, grant \in Memberships \cup {NotMember} : ChangeMember(m, grant)
  \/ \E status \in OrgStates : ReviewOrganization(status)
  \/ Tick

Spec == Init /\ [][Next]_vars

\* A handler that has begun runs on; nobody has to begin one.
FairSpec == Spec /\ \A r \in Requests : WF_vars(Proceed(r))

-----------------------------------------------------------------------------
(***************************************************************************)
(* Properties.                                                             *)
(***************************************************************************)
\* Every variable keeps its type; a request in flight holds what its handler read.
TypeOK ==
  /\ quote \in [Quotes -> Row]
  /\ rfq \in [Rfqs -> RfqStatus]
  /\ orders \subseteq [quote : Quotes, by : Users]
  /\ issued \in Nat
  /\ member \in [Members -> Memberships \cup {NotMember}]
  /\ orgStatus \in OrgStatus
  /\ now \in Nat
  /\ req \in [Requests -> Request]

\* A revision is accepted exactly when it has an order, and it has only one,
\* whichever answers, decisions, sends and expiries overlap: the order follows
\* the guarded write in the same transaction.
AcceptedHasItsOrder ==
  /\ \A q \in Quotes : quote[q].status = "ACCEPTED" <=> HasOrder(q)
  /\ \A o, p \in orders : o.quote = p.quote => o = p

\* Revisions of one number are distinct, and a draft is the newest of them, so
\* a number has at most one: `revise` counts its siblings without a lock and is
\* saved by the unique index.
DraftIsLatest ==
  \A p, q \in Quotes :
    /\ p # q /\ Exists(p) /\ Exists(q) /\ quote[p].number = quote[q].number
    => /\ quote[p].revision # quote[q].revision
       /\ quote[p].status = "DRAFT" => quote[q].revision < quote[p].revision

\* An offer the customer may still act on is the newest one issued: sending a
\* revision supersedes every open earlier one, also one being answered or
\* declined at that moment.
OpenOfferIsNewest ==
  \A p, q \in Quotes :
    /\ p # q /\ Exists(q) /\ quote[p].number = quote[q].number
    /\ quote[p].status \in Open /\ quote[q].status # "DRAFT"
    => quote[q].revision < quote[p].revision

\* The revisions of a number keep their order, whoever revises, sends, discards
\* or answers them at the same time.
RevisionsInOrder == DraftIsLatest /\ OpenOfferIsNewest

\* The quotations of an RFQ all carry one number: two first drafts for one RFQ
\* cannot both be written.
OneNumberPerRfq ==
  \A p, q \in Quotes :
    /\ Exists(p) /\ Exists(q)
    /\ quote[p].rfq = quote[q].rfq /\ quote[p].rfq \in Rfqs
    => quote[p].number = quote[q].number

\* Once an answer has settled a quotation (accepted or rejected), its RFQ is
\* shut for good: no send, revision request or triage re-opens it.
SettledRfqIsShut ==
  \A q \in Quotes :
    quote[q].status \in Settled /\ quote[q].rfq \in Rfqs
    => rfq[quote[q].rfq] \in {"CLOSED", "CANCELLED"}

\* An RFQ and its quotations stay one negotiation from the first draft to the
\* answer that ends it.
RfqFollowsQuotations == OneNumberPerRfq /\ SettledRfqIsShut

\* The role and limit a request was judged by still cover the amount it is
\* about to order: what was judged cannot be edited under the decision.
AuthorityCoversAmount ==
  \A r \in Requests :
    /\ req[r].op \in {"ACCEPT", "APPROVE"}
    /\ ~IsPersonal(req[r].quote)
    => ~RequiresApproval(req[r].grant.role, req[r].grant.limit,
                         quote[req[r].quote].net)

\* Every change of a quotation or an RFQ follows its transition map, whatever
\* was read before the write; a row is inserted as a draft, and only a draft is
\* ever deleted.
LifecycleStep ==
  /\ \A q \in Quotes :
       LET from == quote[q].status
           to   == quote'[q].status
       IN  \/ to = from
           \/ from = "NONE" /\ to = "DRAFT"
           \/ from = "DRAFT" /\ to = "DISCARDED"
           \/ from \in QuotationStatus /\ CanTransition(QuotationTransitions, from, to)
  /\ \A f \in Rfqs : rfq'[f] = rfq[f] \/ CanTransition(RfqTransitions, rfq[f], rfq'[f])
LifecycleRespected == [][LifecycleStep]_vars

\* An offer is accepted only while it is valid, also when the request was begun
\* in time and its transaction comes later.
AcceptedInTime ==
  [][\A q \in Quotes :
       quote[q].status # "ACCEPTED" /\ quote'[q].status = "ACCEPTED"
       => quote[q].until >= now]_vars

\* Of the requests that answer one open offer, one takes effect: the offer
\* leaves the status they read, or lapses.
Answering(q) ==
  /\ quote[q].status = "SENT"
  /\ \E r \in Requests :
       /\ req[r].op \in {"ACCEPT", "ASK_APPROVAL", "REJECT", "ASK_REVISION"}
       /\ req[r].quote = q
AnswerTakesEffect ==
  \A q \in Quotes : Answering(q) ~> (quote[q].status # "SENT" \/ Lapsed(q))

(***************************************************************************)
(* What the documentation says and the code does not keep.                 *)
(***************************************************************************)
\* "Nobody can approve their own purchase": a purchase that waited for approval
\* is not signed off by the member it waits for.
NobodyApprovesOwnPurchase ==
  [][\A q \in Quotes :
       quote[q].status = "PENDING_APPROVAL" /\ quote'[q].status = "ACCEPTED"
       => quote'[q].approvedBy # quote'[q].respondedBy]_vars
=============================================================================
