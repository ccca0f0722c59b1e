-------------------------- MODULE QuotationsProofs --------------------------
(***************************************************************************)
(* Proofs about Quotations and what its screens say, for every set of      *)
(* rows, RFQs, members and requests: types and the order of an acceptance  *)
(* first; then the revisions of a number, the RFQ they answer and the      *)
(* terms they were issued on, which no single guard ensures.               *)
(***************************************************************************)
EXTENDS QuotationScreens, TLAPS

-----------------------------------------------------------------------------
(***************************************************************************)
(* The operators the actions are built from.                               *)
(***************************************************************************)
\* A request in flight has the fields of its own operation.
LEMMA RequestByOp ==
  ASSUME NEW x \in Request
  PROVE  /\ x.op \in {"UPDATE", "DISCARD", "REVISE"} => x \in DraftRequest
         /\ x.op = "SEND" => x \in SendRequest
         /\ x.op = "INSERT" => x \in InsertRequest
         /\ x.op = "EXPIRE" => x \in ExpireRequest
         /\ x.op \in {"ASK_APPROVAL", "REJECT", "ASK_REVISION"} => x \in AnswerRequest
         /\ x.op = "ACCEPT" => x \in AcceptRequest
         /\ x.op = "APPROVE" => x \in ApproveRequest
         /\ x.op = "DECLINE" => x \in DeclineRequest
         /\ x.op = "MOVE_RFQ" => x \in TriageRequest
  BY DEF Request, Idle, DraftRequest, SendRequest, InsertRequest, ExpireRequest,
         AnswerRequest, AcceptRequest, ApproveRequest, DeclineRequest, TriageRequest

\* moveRfq leaves every RFQ in a status of its lifecycle.
LEMMA MovedRfqType ==
  ASSUME rfq \in [Rfqs -> RfqStatus], NEW f, NEW to \in RfqStatus
  PROVE  MovedRfq(f, to) \in [Rfqs -> RfqStatus]
  BY DEF MovedRfq

LEMMA PeriodType ==
  ASSUME TypeOK, NEW q \in Quotes
  PROVE  Period(q) \in Nat
  <1>1. quote[q].until \in Nat /\ quote[q].created \in Nat
    BY DEF TypeOK, Row
  <1> QED BY <1>1 DEF Period

LEMMA StartType ==
  ASSUME TypeOK, NEW r \in Requests, NEW x \in Request, Start(r, x)
  PROVE  req' \in [Requests -> Request]
  BY DEF TypeOK, Start

LEMMA FinishType ==
  ASSUME TypeOK, NEW r \in Requests, Finish(r)
  PROVE  req' \in [Requests -> Request]
  BY DEF TypeOK, Finish, Request

LEMMA NewDraftType ==
  ASSUME QuotationsAssumption, TypeOK, NEW n \in Nat, NEW v \in Nat,
         NEW f \in Rfqs \cup {NoRfq}, NEW net \in Amounts, NEW days \in Validities
  PROVE  NewDraft(n, v, f, net, days) \in Row
  <1>1. net \in Nat /\ days \in Nat /\ now + days \in Nat
    BY DEF QuotationsAssumption, TypeOK
  <1> QED BY <1>1 DEF NewDraft, Row, TypeOK, QuotationStatus

\* Every status an answer, a decision, a send or an expiry writes is a status.
LEMMA RowUpdateType ==
  ASSUME TypeOK, NEW q \in Quotes, NEW s \in QuotationStatus,
         NEW u \in Users, NEW day \in Nat, NEW net \in Nat
  PROVE  /\ [quote EXCEPT ![q].status = s] \in [Quotes -> Row]
         /\ [quote[q] EXCEPT !.status = s] \in Row
         /\ [quote[q] EXCEPT !.status = s, !.until = day] \in Row
         /\ [quote EXCEPT ![q].net = net, ![q].until = day] \in [Quotes -> Row]
         /\ [quote EXCEPT ![q].status = s, ![q].respondedBy = u] \in [Quotes -> Row]
         /\ [quote EXCEPT ![q].status = s, ![q].approvedBy = u] \in [Quotes -> Row]
         /\ [quote EXCEPT ![q] = [@ EXCEPT !.status = s, !.respondedBy = u,
                                           !.approvedBy = u]] \in [Quotes -> Row]
  <1>1. quote \in [Quotes -> Row]
    BY DEF TypeOK
  <1>2. /\ [quote[q] EXCEPT !.status = s] \in Row
        /\ [quote[q] EXCEPT !.status = s, !.until = day] \in Row
        /\ [quote[q] EXCEPT !.net = net] \in Row
        /\ [quote[q] EXCEPT !.status = s, !.respondedBy = u] \in Row
        /\ [quote[q] EXCEPT !.status = s, !.approvedBy = u] \in Row
    BY <1>1 DEF Row
  <1>3. [quote EXCEPT ![q].status = s] \in [Quotes -> Row]
    BY <1>1 DEF Row
  <1>4. [quote EXCEPT ![q].net = net, ![q].until = day] \in [Quotes -> Row]
    BY <1>1 DEF Row
  <1>5. [quote EXCEPT ![q].status = s, ![q].respondedBy = u] \in [Quotes -> Row]
    BY <1>1 DEF Row
  <1>6. [quote EXCEPT ![q].status = s, ![q].approvedBy = u] \in [Quotes -> Row]
    BY <1>1 DEF Row
  <1>7. [quote[q] EXCEPT !.status = s, !.respondedBy = u, !.approvedBy = u] \in Row
    BY <1>1 DEF Row
  <1> QED BY <1>1, <1>2, <1>3, <1>4, <1>5, <1>6, <1>7

-----------------------------------------------------------------------------
(***************************************************************************)
(* Type correctness.                                                       *)
(***************************************************************************)
LEMMA TypeInit == Init => TypeOK
  <1> SUFFICES ASSUME Init PROVE TypeOK
    OBVIOUS
  <1>1. NoQuote \in Row
    BY DEF NoQuote, NoRow, Row, Absent
  <1>2. quote \in [Quotes -> Row] /\ req \in [Requests -> Request]
    BY <1>1 DEF Init, Request
  <1> QED BY <1>2 DEF Init, TypeOK, RfqStatus, OrgStatus

\* What the first half of a handler keeps is a request.
LEMMA BeginType ==
  ASSUME TypeOK, NEW r \in Requests, Begin(r)
  PROVE  req' \in [Requests -> Request] /\ StartOnly
  <1> USE DEF TypeOK
  <1>1. ASSUME NEW q \in Quotes, BeginUpdate(r, q) PROVE req' \in [Requests -> Request] /\ StartOnly
    <2>1. [op |-> "UPDATE", quote |-> q] \in Request
      BY DEF Request, DraftRequest
    <2> QED BY <1>1, <2>1, StartType DEF BeginUpdate, TakesEdit
  <1>2. ASSUME NEW q \in Quotes, BeginDiscard(r, q) PROVE req' \in [Requests -> Request] /\ StartOnly
    <2>1. [op |-> "DISCARD", quote |-> q] \in Request
      BY DEF Request, DraftRequest
    <2> QED BY <1>2, <2>1, StartType DEF BeginDiscard, TakesEdit
  <1>3. ASSUME NEW q \in Quotes, BeginSend(r, q) PROVE req' \in [Requests -> Request] /\ StartOnly
    <2>1. quote[q].status \in {"DRAFT", "PENDING_APPROVAL"}
      BY <1>3 DEF BeginSend, TakesSend, Exists, Absent, CanTransition, QuotationTransitions, QuotationStatus, Row
    <2>2. now + Period(q) \in Nat
      BY PeriodType
    <2>3. [op |-> "SEND", quote |-> q, from |-> quote[q].status,
           until |-> now + Period(q)] \in Request
      BY <2>1, <2>2 DEF Request, SendRequest
    <2> QED BY <1>3, <2>3, StartType DEF BeginSend, TakesSend
  <1>4. ASSUME NEW q \in Quotes, BeginRevise(r, q) PROVE req' \in [Requests -> Request] /\ StartOnly
    <2>1. [op |-> "REVISE", quote |-> q] \in Request
      BY DEF Request, DraftRequest
    <2> QED BY <1>4, <2>1, StartType DEF BeginRevise, TakesRevise
  <1>5. ASSUME NEW q \in Quotes, BeginPersonalRespond(r, q)
        PROVE  req' \in [Requests -> Request] /\ StartOnly
    <2>1. [op |-> "ACCEPT", quote |-> q, actor |-> Customer, grant |-> NotMember] \in Request
      BY DEF Request, AcceptRequest, Users
    <2>2. \A op \in {"REJECT", "ASK_REVISION"} :
            [op |-> op, quote |-> q, actor |-> Customer] \in Request
      BY DEF Request, AnswerRequest, Users
    <2> QED BY <1>5, <2>1, <2>2, StartType DEF BeginPersonalRespond, TakesPersonalAnswer
  <1>6. ASSUME NEW q \in Quotes, NEW u \in Users, BeginExpire(r, q, u)
        PROVE  req' \in [Requests -> Request] /\ StartOnly
    <2>1. [op |-> "EXPIRE", quote |-> q, from |-> quote[q].status] \in Request
      BY <1>6 DEF BeginExpire, Request, ExpireRequest
    <2> QED BY <1>6, <2>1, StartType DEF BeginExpire
  <1>7. ASSUME NEW q \in Quotes, NEW u \in Users, BeginRespond(r, q, u)
        PROVE  req' \in [Requests -> Request] /\ StartOnly
    <2>1. member[u] \in Memberships \cup {NotMember}
      BY <1>7 DEF BeginRespond, TakesAnswer, MayAct
    <2>2. /\ [op |-> "ASK_APPROVAL", quote |-> q, actor |-> u] \in Request
          /\ [op |-> "ACCEPT", quote |-> q, actor |-> u, grant |-> member[u]] \in Request
          /\ \A op \in {"REJECT", "ASK_REVISION"} :
               [op |-> op, quote |-> q, actor |-> u] \in Request
      BY <2>1 DEF Request, AnswerRequest, AcceptRequest
    <2> QED BY <1>7, <2>2, StartType DEF BeginRespond, TakesAnswer
  <1>8. ASSUME NEW q \in Quotes, NEW u \in Users, BeginDecide(r, q, u)
        PROVE  req' \in [Requests -> Request] /\ StartOnly
    <2>1. u \in Members /\ member[u] \in Memberships \cup {NotMember}
      BY <1>8 DEF BeginDecide, TakesDecision, MayAct
    <2>2. quote[q].respondedBy \in Users \cup {NoUser}
      BY DEF Row
    <2>3. /\ [op |-> "APPROVE", quote |-> q, actor |-> u,
              requester |-> quote[q].respondedBy, grant |-> member[u]] \in Request
          /\ [op |-> "DECLINE", quote |-> q, actor |-> u] \in Request
      BY <2>1, <2>2 DEF Request, ApproveRequest, DeclineRequest
    <2> QED BY <1>8, <2>3, StartType DEF BeginDecide, TakesDecision
  <1>9. ASSUME NEW f \in Rfqs, NEW to \in RfqStatus,
               BeginCancelRfq(r, f) \/ BeginTriage(r, f, to)
        PROVE  req' \in [Requests -> Request] /\ StartOnly
    <2>1. \A t \in RfqStatus : MoveOf(f, t) \in Request
      BY DEF MoveOf, Request, TriageRequest
    <2>2. "CANCELLED" \in RfqStatus
      BY DEF RfqStatus
    <2> QED BY <1>9, <2>1, <2>2, StartType DEF BeginCancelRfq, TakesMove, TakesCancellation, BeginTriage
  <1>10. "CANCELLED" \in RfqStatus /\ RfqMoves \subseteq RfqStatus
    BY QuotationsAssumption DEF RfqStatus
  <1> QED BY <1>1, <1>2, <1>3, <1>4, <1>5, <1>6, <1>7, <1>8, <1>9, <1>10 DEF Begin

\* What a transaction writes is of its type.
LEMMA ProceedType ==
  ASSUME QuotationsAssumption, TypeOK, NEW r \in Requests, Proceed(r)
  PROVE  TypeOK'
  <1>0. /\ req[r] \in Request
        /\ \A f : \A s \in RfqStatus : MovedRfq(f, s) \in [Rfqs -> RfqStatus]
    BY MovedRfqType DEF TypeOK
  <1>1. CASE CommitUpdate(r)
    <2>1. req[r].quote \in Quotes /\ quote[req[r].quote].created \in Nat
      BY <1>0, <1>1, RequestByOp DEF CommitUpdate, Commits, DraftRequest, TypeOK, Row
    <2>2. PICK net \in Amounts, days \in Validities :
            quote' = [quote EXCEPT ![req[r].quote].net = net,
                                   ![req[r].quote].until = quote[req[r].quote].created + days]
      BY <1>1 DEF CommitUpdate
    <2>3. net \in Nat /\ quote[req[r].quote].created + days \in Nat
      BY <2>1 DEF QuotationsAssumption
    <2>4. Customer \in Users /\ "DRAFT" \in QuotationStatus
      BY DEF Users, QuotationStatus
    <2>5. quote' \in [Quotes -> Row]
      BY <2>1, <2>2, <2>3, <2>4, RowUpdateType
    <2> QED BY <1>1, <2>5, FinishType DEF CommitUpdate, TypeOK
  <1>2. CASE CommitDiscard(r)
    <2>1. NoRow("DISCARDED") \in Row
      BY DEF NoRow, Row, Absent
    <2>2. quote' \in [Quotes -> Row]
      BY <1>2, <2>1 DEF CommitDiscard, TypeOK
    <2> QED BY <1>2, <2>2, FinishType DEF CommitDiscard, TypeOK
  <1>3. CASE CommitSend(r)
    <2>1. req[r].quote \in Quotes /\ req[r].until \in Nat
      BY <1>0, <1>3, RequestByOp DEF CommitSend, Commits, SendRequest
    <2>2. Customer \in Users /\ {"SENT", "SUPERSEDED"} \subseteq QuotationStatus
      BY DEF Users, QuotationStatus
    <2>3. quote' \in [Quotes -> Row]
      <3>1. \A p \in Quotes : /\ quote[p] \in Row
                              /\ [quote[p] EXCEPT !.status = "SUPERSEDED"] \in Row
                              /\ [quote[p] EXCEPT !.status = "SENT", !.until = req[r].until] \in Row
        BY <2>1, <2>2, RowUpdateType DEF TypeOK
      <3> QED BY <1>3, <2>1, <3>1 DEF CommitSend
    <2>4. rfq' \in [Rfqs -> RfqStatus]
      BY <1>0, <1>3 DEF CommitSend, RfqStatus
    <2> QED BY <1>3, <2>3, <2>4, FinishType DEF CommitSend, TypeOK
  <1>4. CASE ReadSiblings(r)
    <2>1. req[r].quote \in Quotes
      BY <1>0, <1>4, RequestByOp DEF ReadSiblings, DraftRequest
    <2>2. \A p \in Quotes : quote[p].revision + 1 \in Nat
      BY DEF TypeOK, Row
    <2>3. \A p \in Quotes :
            [op |-> "INSERT", quote |-> req[r].quote, next |-> quote[p].revision + 1] \in Request
      BY <2>1, <2>2 DEF Request, InsertRequest
    <2>4. req' \in [Requests -> Request]
      BY <1>4, <2>3 DEF ReadSiblings, Siblings, TypeOK
    <2> QED BY <1>4, <2>4 DEF ReadSiblings, StartOnly, TypeOK
  <1>5. CASE RefuseRevise(r) \/ Conflict(r)
    BY <1>5, FinishType DEF RefuseRevise, Conflict, StartOnly, TypeOK
  <1>6. ASSUME NEW q \in Quotes, CommitRevise(r, q) PROVE TypeOK'
    <2>1. req[r].quote \in Quotes /\ req[r].next \in Nat
      BY <1>0, <1>6, RequestByOp DEF CommitRevise, Commits, InsertRequest
    <2>2. /\ quote[req[r].quote].number \in Nat
          /\ quote[req[r].quote].rfq \in Rfqs \cup {NoRfq}
      BY <2>1 DEF TypeOK, Row
    <2>3. PICK net \in Amounts, days \in Validities :
            quote' = [quote EXCEPT ![q] =
                        NewDraft(quote[req[r].quote].number, req[r].next,
                                 quote[req[r].quote].rfq, net, days)]
      BY <1>6 DEF CommitRevise
    <2>4. quote' \in [Quotes -> Row]
      BY <2>1, <2>2, <2>3, NewDraftType DEF TypeOK
    <2> QED BY <1>6, <2>4, FinishType DEF CommitRevise, TypeOK
  <1>7. CASE CommitExpire(r)
    <2>1. req[r].quote \in Quotes
      BY <1>0, <1>7, RequestByOp DEF CommitExpire, Commits, ExpireRequest
    <2>2. quote' \in [Quotes -> Row]
      BY <1>7, <2>1 DEF CommitExpire, TypeOK, Row, QuotationStatus
    <2> QED BY <1>7, <2>2, FinishType DEF CommitExpire, TypeOK
  <1>8. CASE CommitAccept(r)
    <2>1. req[r].quote \in Quotes /\ req[r].actor \in Users
      BY <1>0, <1>8, RequestByOp DEF CommitAccept, Commits, AcceptRequest
    <2>2. quote' \in [Quotes -> Row]
      BY <1>8, <2>1, RowUpdateType DEF CommitAccept, QuotationStatus
    <2>3. orders' \subseteq [quote : Quotes, by : Users]
      BY <1>8, <2>1 DEF CommitAccept, PlaceOrder, TypeOK
    <2>4. rfq' \in [Rfqs -> RfqStatus]
      BY <1>0, <1>8 DEF CommitAccept, RfqStatus
    <2> QED BY <1>8, <2>2, <2>3, <2>4, FinishType DEF CommitAccept, TypeOK
  <1>9. CASE CommitAskApproval(r)
    <2>1. req[r].quote \in Quotes /\ req[r].actor \in Users
      BY <1>0, <1>9, RequestByOp DEF CommitAskApproval, Commits, AnswerRequest
    <2>2. quote' \in [Quotes -> Row]
      BY <1>9, <2>1, RowUpdateType DEF CommitAskApproval, QuotationStatus
    <2> QED BY <1>9, <2>2, FinishType DEF CommitAskApproval, TypeOK
  <1>10. CASE CommitReject(r)
    <2>1. req[r].quote \in Quotes /\ req[r].actor \in Users
      BY <1>0, <1>10, RequestByOp DEF CommitReject, Commits, AnswerRequest
    <2>2. quote' \in [Quotes -> Row]
      BY <1>10, <2>1, RowUpdateType DEF CommitReject, QuotationStatus
    <2>3. rfq' \in [Rfqs -> RfqStatus]
      BY <1>0, <1>10 DEF CommitReject, RfqStatus
    <2> QED BY <1>10, <2>2, <2>3, FinishType DEF CommitReject, TypeOK
  <1>11. CASE CommitAskRevision(r)
    <2>1. req[r].quote \in Quotes /\ req[r].actor \in Users
      BY <1>0, <1>11, RequestByOp DEF CommitAskRevision, Commits, AnswerRequest
    <2>2. quote' \in [Quotes -> Row]
      BY <1>11, <2>1, RowUpdateType DEF CommitAskRevision, QuotationStatus
    <2>3. rfq' \in [Rfqs -> RfqStatus]
      BY <1>0, <1>11 DEF CommitAskRevision, RfqStatus
    <2> QED BY <1>11, <2>2, <2>3, FinishType DEF CommitAskRevision, TypeOK
  <1>12. CASE CommitApprove(r)
    <2>1. /\ req[r].quote \in Quotes /\ req[r].actor \in Users
          /\ req[r].requester \in Users \cup {NoUser}
      BY <1>0, <1>12, RequestByOp DEF CommitApprove, Commits, ApproveRequest, Users
    <2>2. quote' \in [Quotes -> Row]
      BY <1>12, <2>1, RowUpdateType DEF CommitApprove, QuotationStatus
    <2>3. orders' \subseteq [quote : Quotes, by : Users]
      BY <1>12, <2>1 DEF CommitApprove, PlaceOrder, TypeOK
    <2>4. rfq' \in [Rfqs -> RfqStatus]
      BY <1>0, <1>12 DEF CommitApprove, RfqStatus
    <2> QED BY <1>12, <2>2, <2>3, <2>4, FinishType DEF CommitApprove, TypeOK
  <1>13. CASE CommitDecline(r)
    <2>1. req[r].quote \in Quotes
      BY <1>0, <1>13, RequestByOp DEF CommitDecline, Commits, DeclineRequest
    <2>2. quote' \in [Quotes -> Row]
      BY <1>13, <2>1 DEF CommitDecline, TypeOK, Row, QuotationStatus
    <2> QED BY <1>13, <2>2, FinishType DEF CommitDecline, TypeOK
  <1>14. CASE CommitMoveRfq(r)
    <2>1. req[r].rfq \in Rfqs /\ req[r].to \in RfqStatus
      BY <1>0, <1>14, RequestByOp DEF CommitMoveRfq, Commits, TriageRequest
    <2>2. rfq' \in [Rfqs -> RfqStatus]
      BY <1>14, <2>1 DEF CommitMoveRfq, TypeOK
    <2> QED BY <1>14, <2>2, FinishType DEF CommitMoveRfq, TypeOK
  <1> QED BY <1>1, <1>2, <1>3, <1>4, <1>5, <1>6, <1>7, <1>8, <1>9, <1>10,
             <1>11, <1>12, <1>13, <1>14 DEF Proceed

LEMMA TypeStep ==
  ASSUME QuotationsAssumption, TypeOK, [Next]_vars
  PROVE  TypeOK'
  <1>1. ASSUME NEW q \in Quotes, NEW f \in Rfqs \cup {NoRfq}, Create(q, f) PROVE TypeOK'
    <2>1. issued + 1 \in Nat
      BY DEF TypeOK
    <2>2. quote' \in [Quotes -> Row]
      <3>1. PICK net \in Amounts, days \in Validities :
              quote' = [quote EXCEPT ![q] = NewDraft(issued + 1, 1, f, net, days)]
        BY <1>1 DEF Create, TakesQuotation
      <3> QED BY <2>1, <3>1, NewDraftType DEF TypeOK
    <2>3. rfq' \in [Rfqs -> RfqStatus]
      BY <1>1, MovedRfqType DEF Create, TakesQuotation, TypeOK, RfqStatus
    <2> QED BY <1>1, <2>1, <2>2, <2>3 DEF Create, TakesQuotation, TypeOK
  <1>2. ASSUME NEW r \in Requests, Begin(r) PROVE TypeOK'
    BY <1>2, BeginType DEF TypeOK, StartOnly
  <1>3. ASSUME NEW r \in Requests, Proceed(r) PROVE TypeOK'
    BY <1>3, ProceedType
  <1>4. ASSUME NEW m \in Members, NEW grant \in Memberships \cup {NotMember},
               ChangeMember(m, grant)
        PROVE  TypeOK'
    BY <1>4 DEF ChangeMember, TypeOK
  <1>5. ASSUME NEW status \in OrgStates, ReviewOrganization(status) PROVE TypeOK'
    BY <1>5 DEF ReviewOrganization, TypeOK, QuotationsAssumption
  <1>6. CASE Tick
    BY <1>6 DEF Tick, TypeOK
  <1>7. CASE UNCHANGED vars
    BY <1>7 DEF vars, TypeOK
  <1> QED BY <1>1, <1>2, <1>3, <1>4, <1>5, <1>6, <1>7 DEF Next

\* Every reachable state is well typed: in particular every request in flight
\* holds what its handler read, and nothing else.
THEOREM TypeCorrect == Spec => []TypeOK
  <1>1. TypeOK /\ [Next]_vars => TypeOK'
    BY TypeStep, QuotationsAssumption
  <1> QED BY <1>1, TypeInit, PTL DEF Spec

-----------------------------------------------------------------------------
(***************************************************************************)
(* An accepted revision and its order.                                     *)
(***************************************************************************)
LEMMA OrdersKept ==
  ASSUME AcceptedHasItsOrder, UNCHANGED orders,
         \A q \in Quotes : quote'[q].status = "ACCEPTED" <=> quote[q].status = "ACCEPTED"
  PROVE  AcceptedHasItsOrder'
  BY DEF AcceptedHasItsOrder, HasOrder

LEMMA OrderPlaced ==
  ASSUME AcceptedHasItsOrder, NEW q \in Quotes, NEW u \in Users, PlaceOrder(q, u),
         ~HasOrder(q), quote'[q].status = "ACCEPTED",
         \A p \in Quotes \ {q} : quote'[p] = quote[p]
  PROVE  AcceptedHasItsOrder'
  <1> DEFINE new == [quote |-> q, by |-> u]
  <1>1. orders' = orders \cup {new} /\ new.quote = q
    BY DEF PlaceOrder
  <1>2. \A p \in Quotes : HasOrder(p)' <=> (HasOrder(p) \/ p = q)
    BY <1>1 DEF HasOrder
  <1>3. \A o, p \in orders' : o.quote = p.quote => o = p
    BY <1>1 DEF AcceptedHasItsOrder, HasOrder
  <1> QED BY <1>2, <1>3 DEF AcceptedHasItsOrder

LEMMA AcceptedProceed ==
  ASSUME TypeOK, AcceptedHasItsOrder, NEW r \in Requests, Proceed(r)
  PROVE  AcceptedHasItsOrder'
  <1>0. req[r] \in Request
    BY DEF TypeOK
  <1> DEFINE q == req[r].quote
             Kept == \A p \in Quotes : quote'[p].status = "ACCEPTED" <=> quote[p].status = "ACCEPTED"
  <1>1. CASE CommitUpdate(r)
    <2>1. q \in Quotes
      BY <1>0, <1>1, RequestByOp DEF CommitUpdate, Commits, DraftRequest
    <2>2. Kept
      BY <1>1, <2>1 DEF CommitUpdate, TypeOK, Row
    <2> QED BY <1>1, <2>2, OrdersKept DEF CommitUpdate
  <1>2. CASE CommitDiscard(r)
    <2>1. q \in Quotes /\ quote[q].status = "DRAFT"
      BY <1>0, <1>2, RequestByOp DEF CommitDiscard, Commits, StillApplies, StillIs, DraftRequest
    <2>2. Kept
      BY <1>2, <2>1 DEF CommitDiscard, NoRow, TypeOK, Row
    <2> QED BY <1>2, <2>2, OrdersKept DEF CommitDiscard
  <1>3. CASE CommitSend(r)
    <2>1. q \in Quotes /\ quote[q].status \in {"DRAFT", "PENDING_APPROVAL"}
      BY <1>0, <1>3, RequestByOp DEF CommitSend, Commits, StillApplies, StillIs, SendRequest
    <2>2. Kept
      BY <1>3, <2>1 DEF CommitSend, Superseded, Siblings, Open, TypeOK, Row
    <2> QED BY <1>3, <2>2, OrdersKept DEF CommitSend
  <1>4. CASE ReadSiblings(r) \/ RefuseRevise(r) \/ CommitMoveRfq(r) \/ Conflict(r)
    BY <1>4, OrdersKept DEF ReadSiblings, RefuseRevise, CommitMoveRfq, Conflict, StartOnly
  <1>5. ASSUME NEW p \in Quotes, CommitRevise(r, p) PROVE AcceptedHasItsOrder'
    <2>1. Kept
      BY <1>5 DEF CommitRevise, NoQuote, NoRow, NewDraft, TypeOK
    <2> QED BY <1>5, <2>1, OrdersKept DEF CommitRevise
  <1>6. CASE CommitExpire(r)
    <2>1. q \in Quotes /\ quote[q].status \in {"SENT", "PENDING_APPROVAL"}
      BY <1>0, <1>6, RequestByOp DEF CommitExpire, Commits, StillApplies, StillIs, ExpireRequest
    <2>2. Kept
      BY <1>6, <2>1 DEF CommitExpire, TypeOK, Row
    <2> QED BY <1>6, <2>2, OrdersKept DEF CommitExpire
  <1>7. CASE CommitAskApproval(r) \/ CommitReject(r) \/ CommitAskRevision(r)
    <2>1. q \in Quotes /\ quote[q].status = "SENT"
      BY <1>0, <1>7, RequestByOp DEF CommitAskApproval, CommitReject, CommitAskRevision,
         Commits, StillApplies, StillOpen, StillIs, AnswerRequest
    <2>2. quote \in [Quotes -> Row]
      BY DEF TypeOK
    <2>3. Kept
      <3>1. CASE CommitAskApproval(r)
        BY <2>1, <2>2, <3>1 DEF CommitAskApproval, Row
      <3>2. CASE CommitReject(r)
        BY <2>1, <2>2, <3>2 DEF CommitReject, Row
      <3>3. CASE CommitAskRevision(r)
        BY <2>1, <2>2, <3>3 DEF CommitAskRevision, Row
      <3> QED BY <1>7, <3>1, <3>2, <3>3
    <2> QED BY <1>7, <2>3, OrdersKept DEF CommitAskApproval, CommitReject, CommitAskRevision
  <1>8. CASE CommitDecline(r)
    <2>1. q \in Quotes /\ quote[q].status = "PENDING_APPROVAL"
      BY <1>0, <1>8, RequestByOp DEF CommitDecline, Commits, StillApplies, StillOpen, StillIs, DeclineRequest
    <2>2. Kept
      BY <1>8, <2>1 DEF CommitDecline, TypeOK, Row
    <2> QED BY <1>8, <2>2, OrdersKept DEF CommitDecline
  <1>9. CASE CommitAccept(r)
    <2>1. q \in Quotes /\ req[r].actor \in Users /\ ~HasOrder(q)
      BY <1>0, <1>9, RequestByOp DEF CommitAccept, Commits, StillApplies, AcceptRequest
    <2>2. quote'[q].status = "ACCEPTED" /\ \A p \in Quotes \ {q} : quote'[p] = quote[p]
      BY <1>9, <2>1 DEF CommitAccept, TypeOK, Row
    <2> QED BY <1>9, <2>1, <2>2, OrderPlaced DEF CommitAccept
  <1>10. CASE CommitApprove(r)
    <2>1. /\ q \in Quotes /\ ~HasOrder(q)
          /\ req[r].actor \in Users /\ req[r].requester \in Users \cup {NoUser}
      BY <1>0, <1>10, RequestByOp DEF CommitApprove, Commits, StillApplies, ApproveRequest, Users
    <2>2. quote'[q].status = "ACCEPTED" /\ \A p \in Quotes \ {q} : quote'[p] = quote[p]
      BY <1>10, <2>1 DEF CommitApprove, TypeOK, Row
    <2>3. PICK u \in Users : PlaceOrder(q, u)
      BY <1>10, <2>1 DEF CommitApprove
    <2> QED BY <2>1, <2>2, <2>3, OrderPlaced
  <1> QED BY <1>1, <1>2, <1>3, <1>4, <1>5, <1>6, <1>7, <1>8, <1>9, <1>10 DEF Proceed

\* A revision is accepted exactly when it has an order, and it has only one: no
\* interleaving of answers, decisions, sends and expiries accepts without an
\* order, orders without accepting, or orders twice.
THEOREM OrderIffAccepted == Spec => []AcceptedHasItsOrder
  <1>1. Init => AcceptedHasItsOrder
    BY DEF Init, AcceptedHasItsOrder, HasOrder, NoQuote, NoRow
  <1>2. TypeOK /\ AcceptedHasItsOrder /\ [Next]_vars => AcceptedHasItsOrder'
    <2> SUFFICES ASSUME TypeOK, AcceptedHasItsOrder, [Next]_vars
                 PROVE  AcceptedHasItsOrder'
      OBVIOUS
    <2>1. ASSUME NEW q \in Quotes, NEW f \in Rfqs \cup {NoRfq}, Create(q, f)
          PROVE  AcceptedHasItsOrder'
      <3>1. \A p \in Quotes : quote'[p].status = "ACCEPTED" <=> quote[p].status = "ACCEPTED"
        BY <2>1 DEF Create, TakesQuotation, NoQuote, NoRow, NewDraft, TypeOK
      <3> QED BY <2>1, <3>1, OrdersKept DEF Create, TakesQuotation
    <2>2. ASSUME NEW r \in Requests, Begin(r) PROVE AcceptedHasItsOrder'
      BY <2>2, BeginType, OrdersKept DEF StartOnly
    <2>3. ASSUME NEW r \in Requests, Proceed(r) PROVE AcceptedHasItsOrder'
      BY <2>3, AcceptedProceed
    <2>4. ASSUME NEW m \in Members, NEW grant, ChangeMember(m, grant)
          PROVE  AcceptedHasItsOrder'
      BY <2>4, OrdersKept DEF ChangeMember
    <2>5. ASSUME NEW status, ReviewOrganization(status) PROVE AcceptedHasItsOrder'
      BY <2>5, OrdersKept DEF ReviewOrganization
    <2>6. CASE Tick \/ UNCHANGED vars
      BY <2>6, OrdersKept DEF Tick, vars
    <2> QED BY <2>1, <2>2, <2>3, <2>4, <2>5, <2>6 DEF Next
  <1> QED BY <1>1, <1>2, TypeCorrect, PTL DEF Spec

-----------------------------------------------------------------------------
(***************************************************************************)
(* What a step does to the rows.  Every step of Next leaves the table as   *)
(* it is or does one of the six things below to one row, and only a send   *)
(* touches another.                                                        *)
(***************************************************************************)
OthersKept(q) == \A p \in Quotes \ {q} : quote'[p] = quote[p]

SamePlace(q) ==
  /\ quote'[q].number = quote[q].number
  /\ quote'[q].revision = quote[q].revision
  /\ quote'[q].rfq = quote[q].rfq

SameTerms(q) ==
  SamePlace(q) /\ quote'[q].net = quote[q].net /\ quote'[q].until = quote[q].until

Inserted(q, n, v, f) ==
  /\ quote[q] = NoQuote
  /\ quote'[q].status = "DRAFT"
  /\ quote'[q].number = n
  /\ quote'[q].revision = v
  /\ quote'[q].rfq = f
  /\ OthersKept(q)

Edited(q) ==
  /\ quote[q].status = "DRAFT"
  /\ quote'[q].status = "DRAFT"
  /\ SamePlace(q)
  /\ OthersKept(q)

Discarded(q) ==
  /\ quote[q].status = "DRAFT"
  /\ quote'[q].status = "DISCARDED"
  /\ OthersKept(q)

Sent(q) ==
  /\ quote[q].status \in {"DRAFT", "PENDING_APPROVAL"}
  /\ quote'[q].status = "SENT"
  /\ SamePlace(q) /\ quote'[q].net = quote[q].net
  /\ \A p \in Superseded(q) \ {q} : quote'[p].status = "SUPERSEDED" /\ SameTerms(p)
  /\ \A p \in Quotes \ (Superseded(q) \cup {q}) : quote'[p] = quote[p]

\* The statuses an answer, a decision or an expiry leads to.
Answers ==
  ({"SENT"} \X {"PENDING_APPROVAL", "ACCEPTED", "REJECTED", "REVISION_REQUESTED", "EXPIRED"})
  \cup ({"PENDING_APPROVAL"} \X {"ACCEPTED", "SENT", "EXPIRED"})

Answered(q) ==
  /\ <<quote[q].status, quote'[q].status>> \in Answers
  /\ SameTerms(q)
  /\ quote'[q].status = "ACCEPTED" => quote[q].until >= now
  /\ quote'[q].status \in Settled => rfq' = MovedRfq(quote[q].rfq, "CLOSED")
  /\ OthersKept(q)

\* A draft is written over; its place in the number is not.
LEMMA UpdateEdits ==
  ASSUME TypeOK, NEW r \in Requests, CommitUpdate(r)
  PROVE  req[r].quote \in Quotes /\ Edited(req[r].quote)
  <1>1. req[r].quote \in Quotes /\ quote[req[r].quote].status = "DRAFT"
    BY RequestByOp DEF CommitUpdate, Commits, StillApplies, StillIs, DraftRequest, TypeOK
  <1>2. quote \in [Quotes -> Row]
    BY DEF TypeOK
  <1> QED BY <1>1, <1>2 DEF CommitUpdate, Edited, SamePlace, OthersKept, Row

LEMMA DiscardDeletes ==
  ASSUME TypeOK, NEW r \in Requests, CommitDiscard(r)
  PROVE  req[r].quote \in Quotes /\ Discarded(req[r].quote)
  <1>1. req[r].quote \in Quotes /\ quote[req[r].quote].status = "DRAFT"
    BY RequestByOp DEF CommitDiscard, Commits, StillApplies, StillIs, DraftRequest, TypeOK
  <1> QED BY <1>1 DEF CommitDiscard, Discarded, OthersKept, NoRow, TypeOK

LEMMA SendSends ==
  ASSUME TypeOK, NEW r \in Requests, CommitSend(r)
  PROVE  req[r].quote \in Quotes /\ Sent(req[r].quote)
  <1> DEFINE q == req[r].quote
  <1>1. q \in Quotes /\ quote[q].status \in {"DRAFT", "PENDING_APPROVAL"}
    BY RequestByOp DEF CommitSend, Commits, StillApplies, StillIs, SendRequest, TypeOK
  <1>2. quote \in [Quotes -> Row] /\ Superseded(q) \subseteq Quotes
    BY DEF TypeOK, Superseded, Siblings
  <1>3. /\ quote'[q] = [quote[q] EXCEPT !.status = "SENT", !.until = req[r].until]
        /\ \A p \in Superseded(q) \ {q} : quote'[p] = [quote[p] EXCEPT !.status = "SUPERSEDED"]
        /\ \A p \in Quotes \ (Superseded(q) \cup {q}) : quote'[p] = quote[p]
    BY <1>1, <1>2 DEF CommitSend
  <1>4. quote'[q].status = "SENT" /\ SamePlace(q) /\ quote'[q].net = quote[q].net
    BY <1>1, <1>2, <1>3 DEF SamePlace, Row
  <1>5. ASSUME NEW p \in Superseded(q) \ {q}
        PROVE  quote'[p].status = "SUPERSEDED" /\ SameTerms(p)
    <2>1. quote[p] \in Row /\ quote'[p] = [quote[p] EXCEPT !.status = "SUPERSEDED"]
      BY <1>2, <1>3, <1>5
    <2> QED BY <2>1 DEF SameTerms, SamePlace, Row
  <1> QED BY <1>1, <1>3, <1>4, <1>5 DEF Sent

\* An answer, a decision and an expiry change the status of an offer, and who
\* gave the answer, but none of the terms.
LEMMA AnswerAnswers ==
  ASSUME TypeOK, NEW r \in Requests,
         \/ CommitExpire(r)  \/ CommitAccept(r)  \/ CommitAskApproval(r) \/ CommitReject(r)
         \/ CommitAskRevision(r) \/ CommitApprove(r) \/ CommitDecline(r)
  PROVE  req[r].quote \in Quotes /\ Answered(req[r].quote)
  <1> DEFINE q == req[r].quote
  <1>0. req[r] \in Request /\ quote \in [Quotes -> Row]
    BY DEF TypeOK
  <1> USE DEF Commits, StillApplies, StillOpen, StillIs
  <1>1. CASE CommitExpire(r)
    <2>1. q \in Quotes /\ quote[q].status \in {"SENT", "PENDING_APPROVAL"}
      BY <1>0, <1>1, RequestByOp DEF CommitExpire, ExpireRequest
    <2> QED BY <1>0, <1>1, <2>1 DEF CommitExpire, Answered, Answers, Settled, SameTerms,
             SamePlace, OthersKept, Row
  <1>2. CASE CommitAccept(r)
    <2>1. q \in Quotes /\ quote[q].status = "SENT" /\ quote[q].until >= now
      BY <1>0, <1>2, RequestByOp DEF CommitAccept, AcceptRequest
    <2> QED BY <1>0, <1>2, <2>1 DEF CommitAccept, Answered, Answers, Settled, SameTerms,
             SamePlace, OthersKept, Row
  <1>3. CASE CommitAskApproval(r)
    <2>1. q \in Quotes /\ quote[q].status = "SENT"
      BY <1>0, <1>3, RequestByOp DEF CommitAskApproval, AnswerRequest
    <2> QED BY <1>0, <1>3, <2>1 DEF CommitAskApproval, Answered, Answers, Settled, SameTerms,
             SamePlace, OthersKept, Row
  <1>4. CASE CommitReject(r)
    <2>1. q \in Quotes /\ quote[q].status = "SENT"
      BY <1>0, <1>4, RequestByOp DEF CommitReject, AnswerRequest
    <2> QED BY <1>0, <1>4, <2>1 DEF CommitReject, Answered, Answers, Settled, SameTerms,
             SamePlace, OthersKept, Row
  <1>5. CASE CommitAskRevision(r)
    <2>1. q \in Quotes /\ quote[q].status = "SENT"
      BY <1>0, <1>5, RequestByOp DEF CommitAskRevision, AnswerRequest
    <2> QED BY <1>0, <1>5, <2>1 DEF CommitAskRevision, Answered, Answers, Settled, SameTerms,
             SamePlace, OthersKept, Row
  <1>6. CASE CommitApprove(r)
    <2>1. q \in Quotes /\ quote[q].status = "PENDING_APPROVAL" /\ quote[q].until >= now
      BY <1>0, <1>6, RequestByOp DEF CommitApprove, ApproveRequest
    <2> QED BY <1>0, <1>6, <2>1 DEF CommitApprove, Answered, Answers, Settled, SameTerms,
             SamePlace, OthersKept, Row
  <1>7. CASE CommitDecline(r)
    <2>1. q \in Quotes /\ quote[q].status = "PENDING_APPROVAL"
      BY <1>0, <1>7, RequestByOp DEF CommitDecline, DeclineRequest
    <2> QED BY <1>0, <1>7, <2>1 DEF CommitDecline, Answered, Answers, Settled, SameTerms,
             SamePlace, OthersKept, Row
  <1> QED BY <1>1, <1>2, <1>3, <1>4, <1>5, <1>6, <1>7

LEMMA ReviseInserts ==
  ASSUME TypeOK, NEW r \in Requests, NEW q \in Quotes, CommitRevise(r, q)
  PROVE  /\ req[r].op = "INSERT" /\ req[r].quote \in Quotes /\ req[r].next \in Nat
         /\ ~RevisionTaken(quote[req[r].quote].number, req[r].next)
         /\ Inserted(q, quote[req[r].quote].number, req[r].next, quote[req[r].quote].rfq)
  <1>1. req[r].quote \in Quotes /\ req[r].next \in Nat /\ req[r].op = "INSERT"
    BY RequestByOp DEF CommitRevise, Commits, InsertRequest, TypeOK
  <1> QED BY <1>1 DEF CommitRevise, Commits, StillApplies, Inserted, OthersKept, NewDraft, TypeOK

LEMMA CreateInserts ==
  ASSUME TypeOK, NEW q \in Quotes, NEW f \in Rfqs \cup {NoRfq}, Create(q, f)
  PROVE  /\ Inserted(q, issued + 1, 1, f) /\ issued' = issued + 1
         /\ f \in Rfqs => Unquoted(f)
  BY DEF Create, TakesQuotation, Inserted, OthersKept, NewDraft, TypeOK

LEMMA RowSteps ==
  ASSUME TypeOK, [Next]_vars
  PROVE  \/ quote' = quote /\ issued' = issued
         \/ \E q \in Quotes : /\ issued' = issued
                              /\ Edited(q) \/ Discarded(q) \/ Sent(q) \/ Answered(q)
         \/ \E q \in Quotes, f \in Rfqs \cup {NoRfq} : Create(q, f)
         \/ \E r \in Requests, q \in Quotes : CommitRevise(r, q) /\ issued' = issued
  <1>1. ASSUME NEW r \in Requests, Begin(r) PROVE quote' = quote /\ issued' = issued
    BY <1>1, BeginType DEF StartOnly
  <1>2. ASSUME NEW r \in Requests, Proceed(r)
        PROVE  \/ quote' = quote /\ issued' = issued
               \/ \E q \in Quotes : /\ issued' = issued
                                    /\ Edited(q) \/ Discarded(q) \/ Sent(q) \/ Answered(q)
               \/ \E q \in Quotes : CommitRevise(r, q) /\ issued' = issued
    <2>1. CASE CommitUpdate(r)
      BY <2>1, UpdateEdits DEF CommitUpdate
    <2>2. CASE CommitDiscard(r)
      BY <2>2, DiscardDeletes DEF CommitDiscard
    <2>3. CASE CommitSend(r)
      BY <2>3, SendSends DEF CommitSend
    <2>4. CASE ReadSiblings(r) \/ RefuseRevise(r) \/ CommitMoveRfq(r) \/ Conflict(r)
      BY <2>4 DEF ReadSiblings, RefuseRevise, CommitMoveRfq, Conflict, StartOnly
    <2>5. ASSUME NEW q \in Quotes, CommitRevise(r, q) PROVE issued' = issued
      BY <2>5 DEF CommitRevise
    <2>6. CASE \/ CommitExpire(r)  \/ CommitAccept(r)  \/ CommitAskApproval(r) \/ CommitReject(r)
               \/ CommitAskRevision(r) \/ CommitApprove(r) \/ CommitDecline(r)
      <3>1. req[r].quote \in Quotes /\ Answered(req[r].quote)
        BY <2>6, AnswerAnswers
      <3>2. issued' = issued
        BY <2>6 DEF CommitExpire, CommitAccept, CommitAskApproval, CommitReject,
           CommitAskRevision, CommitApprove, CommitDecline
      <3> QED BY <3>1, <3>2
    <2> QED BY <1>2, <2>1, <2>2, <2>3, <2>4, <2>5, <2>6 DEF Proceed
  <1>3. ASSUME NEW m \in Members, NEW grant, ChangeMember(m, grant)
        PROVE  quote' = quote /\ issued' = issued
    BY <1>3 DEF ChangeMember
  <1>4. ASSUME NEW status, ReviewOrganization(status) PROVE quote' = quote /\ issued' = issued
    BY <1>4 DEF ReviewOrganization
  <1>5. CASE Tick \/ UNCHANGED vars
    BY <1>5 DEF Tick, vars
  <1> QED BY <1>1, <1>2, <1>3, <1>4, <1>5 DEF Next

\* A row that was issued stays issued, keeps its place in its number and the
\* amount it was issued for; only a send gives it another validity.
Issued(q) == quote[q].status \in QuotationStatus \ {"DRAFT"}

LEMMA IssuedStays ==
  ASSUME TypeOK, [Next]_vars, NEW q \in Quotes, Issued(q)
  PROVE  /\ Issued(q)' /\ SamePlace(q) /\ quote'[q].net = quote[q].net
         /\ quote'[q].until # quote[q].until => quote'[q].status = "SENT"
  <1> USE DEF Issued, QuotationStatus
  <1>1. CASE quote' = quote
    BY <1>1 DEF SamePlace
  <1>2. ASSUME NEW p \in Quotes, Edited(p) \/ Discarded(p)
        PROVE  quote'[q] = quote[q]
    BY <1>2 DEF Edited, Discarded, OthersKept
  <1>3. ASSUME NEW p \in Quotes, Sent(p)
        PROVE  /\ Issued(q)' /\ SamePlace(q) /\ quote'[q].net = quote[q].net
               /\ quote'[q].until # quote[q].until => quote'[q].status = "SENT"
    <2>1. CASE q = p
      BY <1>3, <2>1 DEF Sent
    <2>2. CASE q \in Superseded(p) \ {p}
      BY <1>3, <2>2 DEF Sent, SameTerms
    <2>3. CASE q \in Quotes \ (Superseded(p) \cup {p})
      BY <1>3, <2>3 DEF Sent, SamePlace
    <2> QED BY <2>1, <2>2, <2>3
  <1>4. ASSUME NEW p \in Quotes, Answered(p)
        PROVE  Issued(q)' /\ SameTerms(q)
    BY <1>4 DEF Answered, Answers, OthersKept, SameTerms, SamePlace
  <1>5. ASSUME NEW p \in Quotes, NEW f \in Rfqs \cup {NoRfq}, Create(p, f)
        PROVE  quote'[q] = quote[q]
    BY <1>5, CreateInserts DEF Inserted, OthersKept, NoQuote, NoRow
  <1>6. ASSUME NEW r \in Requests, NEW p \in Quotes, CommitRevise(r, p)
        PROVE  quote'[q] = quote[q]
    BY <1>6, ReviseInserts DEF Inserted, OthersKept, NoQuote, NoRow
  <1> QED BY <1>1, <1>2, <1>3, <1>4, <1>5, <1>6, RowSteps DEF SameTerms, SamePlace

\* Once issued, the terms of an offer stand: no step, whatever was read before
\* it, changes the amount of a revision the customer has been sent.
THEOREM TermsStand == Spec => IssuedTermsStand
  <1>1. TypeOK /\ [Next]_vars => IssuedStep
    <2> SUFFICES ASSUME TypeOK, [Next]_vars, NEW q \in Quotes,
                        Exists(q), quote[q].status # "DRAFT"
                 PROVE  /\ quote'[q].net = quote[q].net
                        /\ quote'[q].until # quote[q].until => quote'[q].status = "SENT"
      BY DEF IssuedStep
    <2>1. Issued(q)
      BY DEF Issued, Exists, TypeOK, Row
    <2> QED BY <2>1, IssuedStays
  <1> QED BY <1>1, TypeCorrect, PTL DEF Spec, IssuedTermsStand

-----------------------------------------------------------------------------
(***************************************************************************)
(* What a handler holds of its reads.                                      *)
(***************************************************************************)
\* The part of what a request holds that must not go stale: the row it revises
\* or orders was issued, the limit that was judged covers the amount, and an RFQ
\* is moved along its lifecycle.
HeldSoundly(x, rows) ==
  /\ x.op \in {"REVISE", "INSERT", "ACCEPT", "APPROVE"}
     => rows[x.quote].status \in QuotationStatus \ {"DRAFT"}
  /\ x.op \in {"ACCEPT", "APPROVE"} /\ rows[x.quote].rfq \notin Personal
     => ~RequiresApproval(x.grant.role, x.grant.limit, rows[x.quote].net)
  /\ x.op = "MOVE_RFQ" => CanTransition(RfqTransitions, x.from, x.to)

ReadsHold == \A r \in Requests : HeldSoundly(req[r], quote)

\* What is held stays sound while the request is in flight.
LEMMA HeldStays ==
  ASSUME TypeOK, [Next]_vars, NEW x \in Request, HeldSoundly(x, quote)
  PROVE  HeldSoundly(x, quote')
  <1>1. CASE x.op \in {"REVISE", "INSERT", "ACCEPT", "APPROVE"}
    <2>1. x.quote \in Quotes
      BY <1>1, RequestByOp DEF DraftRequest, InsertRequest, AcceptRequest, ApproveRequest
    <2>2. /\ Issued(x.quote)' /\ SamePlace(x.quote)
          /\ quote'[x.quote].net = quote[x.quote].net
      BY <1>1, <2>1, IssuedStays DEF HeldSoundly, Issued
    <2> QED BY <1>1, <2>2 DEF HeldSoundly, SamePlace, Issued
  <1>2. CASE x.op \notin {"REVISE", "INSERT", "ACCEPT", "APPROVE"}
    BY <1>2 DEF HeldSoundly
  <1> QED BY <1>1, <1>2

\* What a handler holds when it begins is what it has just checked.
LEMMA BeginHolds ==
  ASSUME TypeOK, NEW r \in Requests, Begin(r)
  PROVE  /\ \A p \in Requests \ {r} : req'[p] = req[p]
         /\ HeldSoundly(req'[r], quote) /\ req'[r].op # "INSERT"
  <1> USE DEF HeldSoundly, Start, TypeOK, QuotationStatus, IsPersonal
  <1>1. ASSUME NEW q \in Quotes,
               BeginUpdate(r, q) \/ BeginDiscard(r, q) \/ BeginSend(r, q) \/ BeginRevise(r, q)
        PROVE  /\ \A p \in Requests \ {r} : req'[p] = req[p]
               /\ HeldSoundly(req'[r], quote) /\ req'[r].op # "INSERT"
    BY <1>1 DEF BeginUpdate, TakesEdit, BeginDiscard, BeginSend, TakesSend, BeginRevise, TakesRevise, Revisable, Open
  <1>2. ASSUME NEW q \in Quotes, BeginPersonalRespond(r, q)
        PROVE  /\ \A p \in Requests \ {r} : req'[p] = req[p]
               /\ HeldSoundly(req'[r], quote) /\ req'[r].op # "INSERT"
    BY <1>2 DEF BeginPersonalRespond, TakesPersonalAnswer
  <1>3. ASSUME NEW q \in Quotes, NEW u \in Users, BeginExpire(r, q, u)
        PROVE  /\ \A p \in Requests \ {r} : req'[p] = req[p]
               /\ HeldSoundly(req'[r], quote) /\ req'[r].op # "INSERT"
    BY <1>3 DEF BeginExpire
  <1>4. ASSUME NEW q \in Quotes, NEW u \in Users, BeginRespond(r, q, u)
        PROVE  /\ \A p \in Requests \ {r} : req'[p] = req[p]
               /\ HeldSoundly(req'[r], quote) /\ req'[r].op # "INSERT"
    BY <1>4 DEF BeginRespond, TakesAnswer, NeedsApproval
  <1>5. ASSUME NEW q \in Quotes, NEW u \in Users, BeginDecide(r, q, u)
        PROVE  /\ \A p \in Requests \ {r} : req'[p] = req[p]
               /\ HeldSoundly(req'[r], quote) /\ req'[r].op # "INSERT"
    BY <1>5 DEF BeginDecide, TakesDecision, NeedsApproval
  <1>6. ASSUME NEW f \in Rfqs, NEW to \in RfqStatus, BeginCancelRfq(r, f) \/ BeginTriage(r, f, to)
        PROVE  /\ \A p \in Requests \ {r} : req'[p] = req[p]
               /\ HeldSoundly(req'[r], quote) /\ req'[r].op # "INSERT"
    BY <1>6 DEF BeginCancelRfq, TakesMove, TakesCancellation, BeginTriage, MoveOf
  <1>7. "SUBMITTED" \in RfqStatus /\ RfqMoves \subseteq RfqStatus
    BY QuotationsAssumption DEF RfqStatus
  <1> QED BY <1>1, <1>2, <1>3, <1>4, <1>5, <1>6, <1>7 DEF Begin

\* Only a begin fills a slot; a transaction empties one, or reads the siblings.
LEMMA RequestSteps ==
  ASSUME TypeOK, [Next]_vars
  PROVE  \/ req' = req
         \/ \E r \in Requests : Begin(r)
         \/ \E r \in Requests : ReadSiblings(r)
         \/ \E r \in Requests : Finish(r)
  BY DEF Next, Proceed, Create, TakesQuotation, ChangeMember, ReviewOrganization, Tick, vars,
     CommitUpdate, CommitDiscard, CommitSend, RefuseRevise, CommitRevise, CommitExpire,
     CommitAccept, CommitAskApproval, CommitReject, CommitAskRevision, CommitApprove,
     CommitDecline, CommitMoveRfq, Conflict

LEMMA ReadsHoldStep ==
  ASSUME TypeOK, TypeOK', ReadsHold, [Next]_vars
  PROVE  ReadsHold'
  <1> SUFFICES ASSUME NEW p \in Requests PROVE HeldSoundly(req'[p], quote')
    BY DEF ReadsHold
  <1>0. req[p] \in Request /\ HeldSoundly(req[p], quote') /\ HeldSoundly(Idle, quote')
    BY HeldStays DEF TypeOK, ReadsHold, HeldSoundly, Idle
  <1>1. CASE req' = req
    BY <1>0, <1>1
  <1>2. ASSUME NEW r \in Requests, Begin(r) PROVE HeldSoundly(req'[p], quote')
    <2>1. quote' = quote
      BY <1>2, BeginType DEF StartOnly
    <2>2. CASE p = r
      BY <1>2, <2>1, <2>2, BeginHolds
    <2>3. CASE p # r
      BY <1>0, <1>2, <2>3, BeginHolds
    <2> QED BY <2>2, <2>3
  <1>3. ASSUME NEW r \in Requests, ReadSiblings(r) PROVE HeldSoundly(req'[p], quote')
    <2>1. CASE p = r
      <3>1. req'[p].op = "INSERT" /\ req'[p].quote = req[p].quote /\ req[p].op = "REVISE"
        BY <1>3, <2>1 DEF ReadSiblings, TypeOK
      <3> QED BY <1>0, <3>1 DEF HeldSoundly
    <2>2. CASE p # r
      BY <1>0, <1>3, <2>2 DEF ReadSiblings, TypeOK
    <2> QED BY <2>1, <2>2
  <1>4. ASSUME NEW r \in Requests, Finish(r) PROVE HeldSoundly(req'[p], quote')
    BY <1>0, <1>4 DEF Finish, TypeOK
  <1> QED BY <1>1, <1>2, <1>3, <1>4, RequestSteps

LEMMA ReadsHoldAlways == Spec => []ReadsHold
  <1>1. Init => ReadsHold
    BY DEF Init, ReadsHold, HeldSoundly, Idle
  <1>2. TypeOK /\ TypeOK' /\ ReadsHold /\ [Next]_vars => ReadsHold'
    BY ReadsHoldStep
  <1> QED BY <1>1, <1>2, TypeCorrect, PTL DEF Spec

\* What was judged cannot be edited under the decision: the amount an order is
\* about to be placed for is still within the limit the handler read.
THEOREM AuthorityHolds == Spec => []AuthorityCoversAmount
  <1>1. ReadsHold => AuthorityCoversAmount
    BY DEF ReadsHold, HeldSoundly, AuthorityCoversAmount, IsPersonal
  <1> QED BY <1>1, ReadsHoldAlways, PTL

-----------------------------------------------------------------------------
(***************************************************************************)
(* The revisions of a number.                                              *)
(***************************************************************************)
\* Only a number that was issued is on a row, so the next one is new.
NumbersIssued == \A q \in Quotes : Exists(q) => quote[q].number <= issued

\* The revision a handler is about to insert follows one that was issued, and so
\* stays; and it is free only while no revision has reached it.
FollowsIssued(n, v) == \E p \in Quotes : Issued(p) /\ quote[p].number = n /\ v = quote[p].revision + 1
FreeOnlyOnTop(n, v) == RevisionTaken(n, v) \/ \A p \in Siblings(n) : quote[p].revision < v

NextIsNewest ==
  \A r \in Requests :
    req[r].op = "INSERT" =>
      LET n == quote[req[r].quote].number
      IN  FollowsIssued(n, req[r].next) /\ FreeOnlyOnTop(n, req[r].next)

RevisionsInv == RevisionsInOrder /\ NumbersIssued /\ NextIsNewest

LEMMA RowFacts ==
  ASSUME TypeOK, NEW p \in Quotes
  PROVE  /\ quote[p].number \in Nat /\ quote[p].revision \in Nat
         /\ Exists(p) <=> (quote[p].status = "DRAFT" \/ Issued(p))
  BY DEF TypeOK, Row, Exists, Issued, Absent, QuotationStatus

\* A step that moves no row within its number, issues no draft and opens no
\* offer keeps the order.
LEMMA OrderKept ==
  ASSUME RevisionsInOrder,
         \A p \in Quotes : /\ Exists(p)' <=> Exists(p)
                           /\ SamePlace(p)
                           /\ quote'[p].status = "DRAFT" <=> quote[p].status = "DRAFT"
                           /\ quote'[p].status \in Open => quote[p].status \in Open
  PROVE  RevisionsInOrder'
  BY DEF RevisionsInOrder, DraftIsLatest, OpenOfferIsNewest, SamePlace

\* Sending a draft issues the newest revision and closes the open earlier ones.
LEMMA OrderSent ==
  ASSUME TypeOK, RevisionsInOrder, NEW q \in Quotes, Sent(q)
  PROVE  /\ RevisionsInOrder'
         /\ \A p \in Quotes : /\ Exists(p)' <=> Exists(p)
                              /\ SamePlace(p)
                              /\ Issued(p) => Issued(p)'
  <1>0. \A p \in Quotes : /\ quote[p].number \in Nat /\ quote[p].revision \in Nat
                          /\ Exists(p) <=> (quote[p].status = "DRAFT" \/ Issued(p))
    BY RowFacts
  <1>1. \A p \in Quotes : SamePlace(p)
    BY DEF Sent, SameTerms, SamePlace
  <1>2. \A p \in Quotes : (Exists(p)' <=> Exists(p)) /\ (Issued(p) => Issued(p)')
    BY DEF Sent, Exists, Absent, Issued, QuotationStatus, Superseded, Siblings
  <1>3. DraftIsLatest'
    <2>1. \A p \in Quotes : quote'[p].status = "DRAFT" => quote[p].status = "DRAFT"
      BY DEF Sent
    <2> QED BY <1>1, <1>2, <2>1 DEF RevisionsInOrder, DraftIsLatest, SamePlace
  <1>4. OpenOfferIsNewest'
    <2> SUFFICES ASSUME NEW a \in Quotes, NEW b \in Quotes, a # b, Exists(b)',
                        quote'[a].number = quote'[b].number,
                        quote'[a].status \in Open, quote'[b].status # "DRAFT"
                 PROVE  quote'[b].revision < quote'[a].revision
      BY DEF OpenOfferIsNewest
    <2>1. /\ Exists(b) /\ quote[a].number = quote[b].number
          /\ quote'[a].revision = quote[a].revision /\ quote'[b].revision = quote[b].revision
      BY <1>1, <1>2 DEF SamePlace
    <2>2. CASE a = q
      <3>1. Exists(q)
        BY DEF Sent, Exists, Absent
      <3>2. CASE quote[q].status = "DRAFT"
        BY <2>1, <2>2, <3>1, <3>2 DEF RevisionsInOrder, DraftIsLatest
      <3>3. CASE quote[q].status # "DRAFT"
        <4>1. quote[q].status \in Open
          BY <3>3 DEF Sent, Open
        <4>2. CASE quote[b].status # "DRAFT"
          BY <2>1, <2>2, <4>1, <4>2 DEF RevisionsInOrder, OpenOfferIsNewest
        <4>3. CASE quote[b].status = "DRAFT"
          <5>1. b \notin Superseded(q)
            BY <4>3 DEF Superseded, Open
          <5> QED BY <2>2, <4>3, <5>1 DEF Sent
        <4> QED BY <4>2, <4>3
      <3> QED BY <3>2, <3>3
    <2>3. CASE a # q
      <3>1. a \notin Superseded(q) /\ quote'[a] = quote[a]
        BY <2>3 DEF Sent, Open
      <3>2. CASE b # q
        <4>1. quote[b].status # "DRAFT"
          BY <3>2 DEF Sent, Superseded, Open
        <4> QED BY <2>1, <3>1, <4>1 DEF RevisionsInOrder, OpenOfferIsNewest
      <3>3. CASE b = q
        \* An open offer of the same number that is not superseded is newer.
        <4>1. quote[a].revision # quote[q].revision
          <5>1. Exists(a)
            BY <3>1 DEF Exists, Open, Absent
          <5> QED BY <2>1, <2>3, <3>3, <5>1 DEF RevisionsInOrder, DraftIsLatest
        <4>2. a \in Siblings(quote[q].number)
          BY <2>1, <3>1, <3>3 DEF Siblings, Exists, Open, Absent
        <4>3. ~(quote[a].revision < quote[q].revision)
          BY <3>1, <4>2 DEF Superseded
        <4> QED BY <1>0, <2>1, <3>3, <4>1, <4>3
      <3> QED BY <3>2, <3>3
    <2> QED BY <2>2, <2>3
  <1> QED BY <1>1, <1>2, <1>3, <1>4 DEF RevisionsInOrder

LEMMA OrderDiscarded ==
  ASSUME RevisionsInOrder, NEW q \in Quotes, Discarded(q)
  PROVE  RevisionsInOrder'
  BY DEF RevisionsInOrder, DraftIsLatest, OpenOfferIsNewest, Discarded, OthersKept,
         Exists, Absent, Open

\* An inserted draft is the newest of its number.
LEMMA OrderInserted ==
  ASSUME TypeOK, RevisionsInOrder, NEW q \in Quotes, NEW n \in Nat, NEW v \in Nat,
         NEW f, Inserted(q, n, v, f),
         \A p \in Siblings(n) : quote[p].revision < v /\ quote[p].status # "DRAFT"
  PROVE  RevisionsInOrder'
  <1>0. \A p \in Quotes : quote[p].number \in Nat /\ quote[p].revision \in Nat
    BY RowFacts
  <1>1. \A p \in Quotes \ {q} : quote'[p] = quote[p] /\ (Exists(p)' <=> Exists(p))
    BY DEF Inserted, OthersKept, Exists
  <1>2. \A p \in Quotes \ {q} : Exists(p) /\ quote[p].number = n =>
          quote[p].revision < v /\ quote[p].status # "DRAFT"
    BY DEF Siblings
  <1>3. DraftIsLatest'
    BY <1>0, <1>1, <1>2 DEF RevisionsInOrder, DraftIsLatest, Inserted
  <1>4. OpenOfferIsNewest'
    BY <1>1 DEF RevisionsInOrder, OpenOfferIsNewest, Inserted, Open
  <1> QED BY <1>3, <1>4 DEF RevisionsInOrder

\* A revision that follows an issued one still does, and is still free only on
\* top, unless a draft is discarded or inserted under it ...
LEMMA TopKept ==
  ASSUME NEW n, NEW v,
         \A p \in Quotes : /\ Exists(p)' <=> Exists(p)
                           /\ SamePlace(p)
                           /\ Issued(p) => Issued(p)',
         FollowsIssued(n, v), FreeOnlyOnTop(n, v)
  PROVE  FollowsIssued(n, v)' /\ FreeOnlyOnTop(n, v)'
  BY DEF FollowsIssued, FreeOnlyOnTop, RevisionTaken, Siblings, SamePlace

\* ... and also then: the draft that is discarded was the newest of its number,
LEMMA TopDiscarded ==
  ASSUME RevisionsInOrder, NEW n, NEW v, NEW q \in Quotes, Discarded(q),
         FollowsIssued(n, v), FreeOnlyOnTop(n, v)
  PROVE  FollowsIssued(n, v)' /\ FreeOnlyOnTop(n, v)'
  <1>1. /\ \A p \in Quotes \ {q} : quote'[p] = quote[p] /\ (Exists(p)' <=> Exists(p))
        /\ ~Exists(q)' /\ Exists(q) /\ quote[q].status = "DRAFT"
    BY DEF Discarded, OthersKept, Exists, Absent
  <1>2. FollowsIssued(n, v)'
    BY <1>1 DEF FollowsIssued, Issued
  <1>3. FreeOnlyOnTop(n, v)'
    BY <1>1 DEF FreeOnlyOnTop, RevisionTaken, Siblings, RevisionsInOrder, DraftIsLatest
  <1> QED BY <1>2, <1>3

\* and the one that is inserted is the one that follows the newest.
LEMMA TopInserted ==
  ASSUME TypeOK, NEW n \in Nat, NEW v \in Nat, NEW q \in Quotes, NEW m \in Nat, NEW w \in Nat,
         NEW f, Inserted(q, m, w, f), m = n => FollowsIssued(n, w),
         FollowsIssued(n, v), FreeOnlyOnTop(n, v)
  PROVE  FollowsIssued(n, v)' /\ FreeOnlyOnTop(n, v)'
  <1>0. \A p \in Quotes : /\ quote[p].number \in Nat /\ quote[p].revision \in Nat
                          /\ Issued(p) => Exists(p)
    BY RowFacts
  <1>1. /\ \A p \in Quotes \ {q} : quote'[p] = quote[p] /\ (Exists(p)' <=> Exists(p))
        /\ ~Exists(q) /\ ~Issued(q) /\ Exists(q)'
        /\ quote'[q].number = m /\ quote'[q].revision = w
    BY DEF Inserted, OthersKept, Exists, Absent, NoQuote, NoRow, Issued, QuotationStatus
  <1>2. FollowsIssued(n, v)'
    BY <1>1 DEF FollowsIssued, Issued
  <1>3. FreeOnlyOnTop(n, v)'
    <2>1. CASE RevisionTaken(n, v)
      BY <1>1, <2>1 DEF FreeOnlyOnTop, RevisionTaken, Siblings
    <2>2. CASE \A p \in Siblings(n) : quote[p].revision < v
      <3>1. CASE m # n
        BY <1>1, <2>2, <3>1 DEF FreeOnlyOnTop, Siblings
      <3>2. CASE m = n
        <4>1. PICK p \in Quotes : Exists(p) /\ quote[p].number = n /\ w = quote[p].revision + 1
          BY <1>0, <3>2 DEF FollowsIssued
        <4>2. quote[p].revision < v
          BY <2>2, <4>1 DEF Siblings
        <4>3. w < v \/ w = v
          BY <1>0, <4>1, <4>2
        <4>4. CASE w = v
          BY <1>1, <3>2, <4>4 DEF FreeOnlyOnTop, RevisionTaken, Siblings
        <4>5. CASE w < v
          BY <1>1, <2>2, <3>2, <4>5 DEF FreeOnlyOnTop, Siblings
        <4> QED BY <4>3, <4>4, <4>5
      <3> QED BY <3>1, <3>2
    <2> QED BY <2>1, <2>2 DEF FreeOnlyOnTop
  <1> QED BY <1>2, <1>3

\* What `revise` inserts is newer than every revision, and there is no draft.
LEMMA ReviseOnTop ==
  ASSUME TypeOK, RevisionsInv, NEW r \in Requests, NEW q \in Quotes, CommitRevise(r, q)
  PROVE  \A p \in Siblings(quote[req[r].quote].number) :
           quote[p].revision < req[r].next /\ quote[p].status # "DRAFT"
  <1> DEFINE n == quote[req[r].quote].number
             v == req[r].next
  <1>0. \A p \in Quotes : /\ quote[p].number \in Nat /\ quote[p].revision \in Nat
                          /\ Issued(p) => Exists(p)
    BY RowFacts
  <1>1. FollowsIssued(n, v) /\ FreeOnlyOnTop(n, v) /\ ~RevisionTaken(n, v)
    BY ReviseInserts DEF RevisionsInv, NextIsNewest
  <1>2. \A p \in Siblings(n) : quote[p].revision < v
    BY <1>1 DEF FreeOnlyOnTop
  <1>3. PICK b \in Quotes : Issued(b) /\ quote[b].number = n /\ v = quote[b].revision + 1
    BY <1>1 DEF FollowsIssued
  <1>4. ASSUME NEW p \in Siblings(n), quote[p].status = "DRAFT" PROVE FALSE
    <2>1. p \in Quotes /\ Exists(p) /\ quote[p].number = n /\ p # b /\ Exists(b)
      BY <1>0, <1>3, <1>4 DEF Siblings, Issued
    <2>2. quote[b].revision < quote[p].revision
      BY <1>3, <1>4, <2>1 DEF RevisionsInv, RevisionsInOrder, DraftIsLatest
    <2> QED BY <1>0, <1>2, <1>3, <1>4, <2>1, <2>2
  <1> QED BY <1>2, <1>4

\* The siblings `revise` has read, none of them a draft, make the next revision.
LEMMA ReadOnTop ==
  ASSUME TypeOK, NEW r \in Requests, ReadSiblings(r)
  PROVE  LET n == quote[req[r].quote].number
         IN  FollowsIssued(n, req'[r].next) /\ FreeOnlyOnTop(n, req'[r].next)
  <1> DEFINE n == quote[req[r].quote].number
  <1>1. PICK latest \in Siblings(n) :
          /\ \A p \in Siblings(n) : quote[p].revision <= quote[latest].revision
          /\ req'[r].next = quote[latest].revision + 1
    BY DEF ReadSiblings, TypeOK
  <1>2. latest \in Quotes /\ Issued(latest) /\ quote[latest].number = n
    BY RowFacts DEF ReadSiblings, Siblings
  <1>3. \A p \in Quotes : quote[p].revision \in Nat
    BY RowFacts
  <1>4. FollowsIssued(n, req'[r].next)
    BY <1>1, <1>2 DEF FollowsIssued
  <1>5. \A p \in Siblings(n) : quote[p].revision < req'[r].next
    BY <1>1, <1>2, <1>3 DEF Siblings
  <1> QED BY <1>4, <1>5 DEF FreeOnlyOnTop

\* Whatever the step, the order of the revisions is kept, and with it every
\* revision that follows an issued one.
LEMMA OrderStep ==
  ASSUME TypeOK, RevisionsInv, [Next]_vars
  PROVE  /\ RevisionsInOrder' /\ NumbersIssued'
         /\ \A n, v \in Nat :
              n <= issued /\ FollowsIssued(n, v) /\ FreeOnlyOnTop(n, v)
              => FollowsIssued(n, v)' /\ FreeOnlyOnTop(n, v)'
  <1> DEFINE Tops == \A n, v \in Nat :
                n <= issued /\ FollowsIssued(n, v) /\ FreeOnlyOnTop(n, v)
                => FollowsIssued(n, v)' /\ FreeOnlyOnTop(n, v)'
             Goal == RevisionsInOrder' /\ NumbersIssued' /\ Tops
  <1>0. /\ RevisionsInOrder /\ NumbersIssued /\ issued \in Nat
        /\ \A p \in Quotes : quote[p].number \in Nat /\ quote[p].revision \in Nat
    BY RowFacts DEF RevisionsInv, TypeOK
  <1>1. ASSUME issued' = issued,
               \A p \in Quotes : /\ Exists(p)' <=> Exists(p)
                                 /\ SamePlace(p)
                                 /\ Issued(p) => Issued(p)'
        PROVE  NumbersIssued' /\ Tops
    <2>1. NumbersIssued'
      BY <1>0, <1>1 DEF NumbersIssued, SamePlace
    <2> QED BY <1>1, <2>1, TopKept
  <1>2. ASSUME quote' = quote, issued' = issued PROVE Goal
    <2>1. \A p \in Quotes : /\ Exists(p)' <=> Exists(p)
                            /\ SamePlace(p)
                            /\ Issued(p) => Issued(p)'
                            /\ quote'[p].status = "DRAFT" <=> quote[p].status = "DRAFT"
                            /\ quote'[p].status \in Open => quote[p].status \in Open
      BY <1>2 DEF Exists, SamePlace, Issued
    <2> QED BY <1>0, <1>1, <1>2, <2>1, OrderKept
  <1>3. ASSUME NEW q \in Quotes, Edited(q) \/ Answered(q), issued' = issued PROVE Goal
    <2>1. \A p \in Quotes : /\ Exists(p)' <=> Exists(p)
                            /\ SamePlace(p)
                            /\ Issued(p) => Issued(p)'
                            /\ quote'[p].status = "DRAFT" <=> quote[p].status = "DRAFT"
                            /\ quote'[p].status \in Open => quote[p].status \in Open
      <3>1. CASE Edited(q)
        BY <3>1 DEF Edited, OthersKept, Exists, SamePlace, Issued, Open, Absent
      <3>2. CASE Answered(q)
        BY <3>2 DEF Answered, Answers, OthersKept, Exists, SameTerms, SamePlace, Issued,
           Open, Absent, QuotationStatus
      <3> QED BY <1>3, <3>1, <3>2
    <2> QED BY <1>0, <1>1, <1>3, <2>1, OrderKept
  <1>4. ASSUME NEW q \in Quotes, Sent(q), issued' = issued PROVE Goal
    BY <1>0, <1>1, <1>4, OrderSent
  <1>5. ASSUME NEW q \in Quotes, Discarded(q), issued' = issued PROVE Goal
    <2>1. NumbersIssued'
      BY <1>0, <1>5 DEF NumbersIssued, Discarded, OthersKept, Exists, Absent
    <2> QED BY <1>0, <1>5, <2>1, OrderDiscarded, TopDiscarded
  <1>6. ASSUME NEW q \in Quotes, NEW f \in Rfqs \cup {NoRfq}, Create(q, f) PROVE Goal
    <2>1. Inserted(q, issued + 1, 1, f) /\ issued' = issued + 1
      BY <1>6, CreateInserts
    <2>2. Siblings(issued + 1) = {}
      BY <1>0 DEF Siblings, NumbersIssued
    <2>3. RevisionsInOrder'
      BY <1>0, <2>1, <2>2, OrderInserted
    <2>4. NumbersIssued'
      BY <1>0, <2>1 DEF NumbersIssued, Inserted, OthersKept, Exists
    <2>5. Tops
      <3>1. \A n \in Nat : n <= issued => issued + 1 # n
        BY <1>0
      <3> QED BY <1>0, <2>1, <3>1, TopInserted
    <2> QED BY <2>3, <2>4, <2>5
  <1>7. ASSUME NEW r \in Requests, NEW q \in Quotes, CommitRevise(r, q), issued' = issued
        PROVE  Goal
    <2> DEFINE m == quote[req[r].quote].number
               w == req[r].next
    <2>1. /\ Inserted(q, m, w, quote[req[r].quote].rfq) /\ w \in Nat /\ m \in Nat
          /\ FollowsIssued(m, w)
      BY <1>0, <1>7, ReviseInserts DEF RevisionsInv, NextIsNewest
    <2>2. m <= issued
      BY <1>0, <2>1, RowFacts DEF FollowsIssued, NumbersIssued
    <2>3. RevisionsInOrder'
      BY <1>0, <1>7, <2>1, ReviseOnTop, OrderInserted
    <2>4. NumbersIssued'
      BY <1>0, <1>7, <2>1, <2>2 DEF NumbersIssued, Inserted, OthersKept, Exists
    <2>5. Tops
      BY <2>1, TopInserted
    <2> QED BY <2>3, <2>4, <2>5
  <1> QED BY <1>2, <1>3, <1>4, <1>5, <1>6, <1>7, RowSteps

LEMMA NewestStep ==
  ASSUME TypeOK, ReadsHold, RevisionsInv, [Next]_vars
  PROVE  NextIsNewest'
  <1> DEFINE Tops == \A n, v \in Nat :
                n <= issued /\ FollowsIssued(n, v) /\ FreeOnlyOnTop(n, v)
                => FollowsIssued(n, v)' /\ FreeOnlyOnTop(n, v)'
  <1>0. Tops
    BY OrderStep
  <1> SUFFICES ASSUME NEW p \in Requests, req'[p].op = "INSERT"
               PROVE  /\ FollowsIssued(quote[req[p].quote].number, req[p].next)'
                      /\ FreeOnlyOnTop(quote[req[p].quote].number, req[p].next)'
    BY DEF NextIsNewest
  <1>1. CASE req'[p] = req[p]
    <2>1. req[p] \in InsertRequest
      BY <1>1, RequestByOp DEF TypeOK
    <2>2. Issued(req[p].quote) /\ req[p].quote \in Quotes /\ req[p].next \in Nat
      BY <1>1, <2>1 DEF InsertRequest, ReadsHold, HeldSoundly, Issued
    <2>3. PICK n \in Nat, v \in Nat : n = quote[req[p].quote].number /\ v = req[p].next
      BY <2>2, RowFacts
    <2>4. n <= issued /\ FollowsIssued(n, v) /\ FreeOnlyOnTop(n, v)
      BY <1>1, <2>2, <2>3, RowFacts DEF RevisionsInv, NextIsNewest, NumbersIssued
    <2>5. FollowsIssued(n, v)' /\ FreeOnlyOnTop(n, v)'
      BY <1>0, <2>4
    <2>6. n = quote'[req'[p].quote].number /\ v = req'[p].next
      BY <1>1, <2>2, <2>3, IssuedStays DEF SamePlace
    <2> QED BY <2>5, <2>6 DEF FollowsIssued, FreeOnlyOnTop, RevisionTaken, Siblings, Exists, Issued
  <1>2. CASE req'[p] # req[p]
    <2>1. ReadSiblings(p)
      <3>1. ASSUME NEW r \in Requests, Begin(r) PROVE FALSE
        BY <1>2, <3>1, BeginHolds
      <3>2. ASSUME NEW r \in Requests, ReadSiblings(r), r # p PROVE FALSE
        BY <1>2, <3>2 DEF ReadSiblings, TypeOK
      <3>3. ASSUME NEW r \in Requests, Finish(r) PROVE FALSE
        BY <1>2, <3>3 DEF Finish, Idle, TypeOK
      <3> QED BY <1>2, <3>1, <3>2, <3>3, RequestSteps
    <2>2. quote' = quote /\ req'[p].quote = req[p].quote
      BY <2>1 DEF ReadSiblings, StartOnly, TypeOK
    <2>3. /\ FollowsIssued(quote[req[p].quote].number, req'[p].next)
          /\ FreeOnlyOnTop(quote[req[p].quote].number, req'[p].next)
      BY <2>1, ReadOnTop
    <2> QED BY <2>2, <2>3 DEF FollowsIssued, FreeOnlyOnTop, RevisionTaken, Siblings, Exists, Issued
  <1> QED BY <1>1, <1>2

\* The revisions of a number keep their order for ever, however many requests
\* revise, send, discard and answer them at the same time: a draft is the newest
\* and the only one, and an offer still open is the newest one issued.
THEOREM RevisionsStayInOrder == Spec => []RevisionsInOrder
  <1>1. Init => RevisionsInv
    BY DEF Init, RevisionsInv, RevisionsInOrder, DraftIsLatest, OpenOfferIsNewest,
       NumbersIssued, NextIsNewest, Exists, Absent, Open, NoQuote, NoRow, Idle
  <1>2. TypeOK /\ ReadsHold /\ RevisionsInv /\ [Next]_vars => RevisionsInv'
    BY OrderStep, NewestStep DEF RevisionsInv
  <1>3. RevisionsInv => RevisionsInOrder
    BY DEF RevisionsInv
  <1> QED BY <1>1, <1>2, <1>3, TypeCorrect, ReadsHoldAlways, PTL DEF Spec

-----------------------------------------------------------------------------
(***************************************************************************)
(* Lifecycles, and the RFQ of a quotation.                                 *)
(***************************************************************************)
LEMMA RfqSteps ==
  ASSUME TypeOK, ReadsHold, [Next]_vars
  PROVE  \A f \in Rfqs : rfq'[f] = rfq[f] \/ CanTransition(RfqTransitions, rfq[f], rfq'[f])
  <1> DEFINE Goal == \A f \in Rfqs : rfq'[f] = rfq[f] \/ CanTransition(RfqTransitions, rfq[f], rfq'[f])
  <1>1. ASSUME NEW f, NEW to, rfq' = MovedRfq(f, to) PROVE Goal
    BY <1>1 DEF MovedRfq, TypeOK
  <1>2. ASSUME NEW r \in Requests, CommitMoveRfq(r) PROVE Goal
    <2>1. /\ rfq[req[r].rfq] = req[r].from
          /\ CanTransition(RfqTransitions, req[r].from, req[r].to)
          /\ rfq' = [rfq EXCEPT ![req[r].rfq] = req[r].to]
      BY <1>2 DEF CommitMoveRfq, Commits, StillApplies, ReadsHold, HeldSoundly
    <2> QED BY <2>1 DEF TypeOK
  <1>3. ASSUME NEW r \in Requests, Proceed(r), ~CommitMoveRfq(r)
        PROVE  rfq' = rfq \/ \E f, to : rfq' = MovedRfq(f, to)
    BY <1>3 DEF Proceed, CommitUpdate, CommitDiscard, CommitSend, ReadSiblings, RefuseRevise,
       CommitRevise, CommitExpire, CommitAccept, CommitAskApproval, CommitReject,
       CommitAskRevision, CommitApprove, CommitDecline, Conflict, StartOnly
  <1>4. ASSUME NEW r \in Requests, Begin(r) PROVE rfq' = rfq
    BY <1>4, BeginType DEF StartOnly
  <1>5. ASSUME NEW q \in Quotes, NEW f \in Rfqs \cup {NoRfq}, Create(q, f)
        PROVE  \E g, to : rfq' = MovedRfq(g, to)
    BY <1>5 DEF Create, TakesQuotation
  <1> QED BY <1>1, <1>2, <1>3, <1>4, <1>5 DEF Next, ChangeMember, ReviewOrganization, Tick, vars

LEMMA RowLifecycle ==
  ASSUME TypeOK, [Next]_vars, NEW q \in Quotes
  PROVE  LET from == quote[q].status
             to   == quote'[q].status
         IN  \/ to = from
             \/ from = "NONE" /\ to = "DRAFT"
             \/ from = "DRAFT" /\ to = "DISCARDED"
             \/ from \in QuotationStatus /\ CanTransition(QuotationTransitions, from, to)
  <1> USE DEF CanTransition, QuotationTransitions, QuotationStatus
  <1>1. ASSUME NEW p \in Quotes, Edited(p) \/ Discarded(p)
        PROVE  \/ quote'[q].status = quote[q].status
               \/ quote[q].status = "DRAFT" /\ quote'[q].status = "DISCARDED"
    BY <1>1 DEF Edited, Discarded, OthersKept
  <1>2. ASSUME NEW p \in Quotes, Sent(p)
        PROVE  \/ quote'[q].status = quote[q].status
               \/ quote[q].status \in {"DRAFT", "PENDING_APPROVAL"} /\ quote'[q].status = "SENT"
               \/ quote[q].status \in Open /\ quote'[q].status = "SUPERSEDED"
    BY <1>2 DEF Sent, Superseded
  <1>3. ASSUME NEW p \in Quotes, Answered(p)
        PROVE  \/ quote'[q].status = quote[q].status
               \/ <<quote[q].status, quote'[q].status>> \in Answers
    BY <1>3 DEF Answered, OthersKept
  <1>4. ASSUME NEW p \in Quotes, NEW n, NEW v, NEW f, Inserted(p, n, v, f)
        PROVE  \/ quote'[q].status = quote[q].status
               \/ quote[q].status = "NONE" /\ quote'[q].status = "DRAFT"
    BY <1>4 DEF Inserted, OthersKept, NoQuote, NoRow
  <1>5. quote'[q].status # quote[q].status =>
          \/ quote[q].status = "DRAFT" /\ quote'[q].status = "DISCARDED"
          \/ quote[q].status \in {"DRAFT", "PENDING_APPROVAL"} /\ quote'[q].status = "SENT"
          \/ quote[q].status \in Open /\ quote'[q].status = "SUPERSEDED"
          \/ <<quote[q].status, quote'[q].status>> \in Answers
          \/ quote[q].status = "NONE" /\ quote'[q].status = "DRAFT"
    BY <1>1, <1>2, <1>3, <1>4, RowSteps, CreateInserts, ReviseInserts
  <1> QED BY <1>5 DEF Answers, Open

\* Every change of a quotation or an RFQ follows its transition map, whatever
\* was read before the write.
THEOREM LifecyclesHold == Spec => LifecycleRespected
  <1>1. TypeOK /\ ReadsHold /\ [Next]_vars => LifecycleStep
    BY RfqSteps, RowLifecycle DEF LifecycleStep
  <1> QED BY <1>1, TypeCorrect, ReadsHoldAlways, PTL DEF Spec, LifecycleRespected

\* An offer is accepted only while it is valid, also when the request was begun
\* in time and its transaction comes later.
THEOREM AcceptanceIsInTime == Spec => AcceptedInTime
  <1> DEFINE InTime == \A q \in Quotes :
               quote[q].status # "ACCEPTED" /\ quote'[q].status = "ACCEPTED"
               => quote[q].until >= now
  <1>1. TypeOK /\ [Next]_vars => InTime
    <2> SUFFICES ASSUME TypeOK, [Next]_vars, NEW q \in Quotes,
                        quote[q].status # "ACCEPTED", quote'[q].status = "ACCEPTED"
                 PROVE  quote[q].until >= now
      OBVIOUS
    <2>1. ASSUME NEW p \in Quotes, Edited(p) \/ Discarded(p) \/ Sent(p) PROVE FALSE
      BY <2>1 DEF Edited, Discarded, Sent, OthersKept
    <2>2. ASSUME NEW p \in Quotes, Answered(p) PROVE quote[q].until >= now
      BY <2>2 DEF Answered, OthersKept
    <2>3. ASSUME NEW p \in Quotes, NEW n, NEW v, NEW f, Inserted(p, n, v, f) PROVE FALSE
      BY <2>3 DEF Inserted, OthersKept
    <2> QED BY <2>1, <2>2, <2>3, RowSteps, CreateInserts, ReviseInserts
  <1> QED BY <1>1, TypeCorrect, PTL DEF Spec, AcceptedInTime

\* A request with a quotation has left SUBMITTED, so an answer can shut it.
QuotedIsUnderWay ==
  \A q \in Quotes : Exists(q) /\ quote[q].rfq \in Rfqs => rfq[quote[q].rfq] # "SUBMITTED"

RfqInv == RfqFollowsQuotations /\ QuotedIsUnderWay

LEMMA OneNumberStep ==
  ASSUME TypeOK, ReadsHold, OneNumberPerRfq, [Next]_vars
  PROVE  OneNumberPerRfq'
  <1>1. ASSUME \A p \in Quotes : Exists(p)' => Exists(p) /\ SamePlace(p)
        PROVE  OneNumberPerRfq'
    BY <1>1 DEF OneNumberPerRfq, SamePlace
  <1>2. ASSUME NEW q \in Quotes, Edited(q) \/ Discarded(q) \/ Sent(q) \/ Answered(q), NEW p \in Quotes
        PROVE  Exists(p)' => Exists(p) /\ SamePlace(p)
    BY <1>2 DEF Edited, Discarded, Sent, Answered, Answers, OthersKept, SameTerms, SamePlace,
       Exists, Absent, Superseded, Siblings
  <1>3. CASE quote' = quote
    BY <1>1, <1>3 DEF Exists, SamePlace
  <1>4. ASSUME NEW q \in Quotes, NEW n, NEW v, NEW f, Inserted(q, n, v, f),
               f \in Rfqs => \A p \in Quotes : Exists(p) /\ quote[p].rfq = f => quote[p].number = n
        PROVE  OneNumberPerRfq'
    BY <1>4 DEF Inserted, OthersKept, OneNumberPerRfq, Exists
  <1>5. ASSUME NEW q \in Quotes, NEW f \in Rfqs \cup {NoRfq}, Create(q, f) PROVE OneNumberPerRfq'
    BY <1>4, <1>5, CreateInserts DEF Unquoted
  <1>6. ASSUME NEW r \in Requests, NEW q \in Quotes, CommitRevise(r, q) PROVE OneNumberPerRfq'
    <2>1. req[r].quote \in Quotes /\ Exists(req[r].quote)
      BY <1>6, ReviseInserts, RowFacts DEF ReadsHold, HeldSoundly, Issued
    <2>2. quote[req[r].quote].rfq \in Rfqs =>
            \A p \in Quotes : Exists(p) /\ quote[p].rfq = quote[req[r].quote].rfq
                              => quote[p].number = quote[req[r].quote].number
      BY <2>1 DEF OneNumberPerRfq
    <2> QED BY <1>4, <1>6, <2>2, ReviseInserts
  <1> QED BY <1>1, <1>2, <1>3, <1>5, <1>6, RowSteps

LEMMA UnderWayStep ==
  ASSUME TypeOK, ReadsHold, QuotedIsUnderWay, [Next]_vars
  PROVE  QuotedIsUnderWay'
  <1>0. \A f \in Rfqs : rfq[f] # "SUBMITTED" => rfq'[f] # "SUBMITTED"
    BY RfqSteps DEF CanTransition, RfqTransitions, TypeOK, RfqStatus
  <1>1. ASSUME \A p \in Quotes : Exists(p)' => Exists(p) /\ SamePlace(p)
        PROVE  QuotedIsUnderWay'
    BY <1>0, <1>1 DEF QuotedIsUnderWay, SamePlace
  <1>2. ASSUME NEW q \in Quotes, Edited(q) \/ Discarded(q) \/ Sent(q) \/ Answered(q), NEW p \in Quotes
        PROVE  Exists(p)' => Exists(p) /\ SamePlace(p)
    BY <1>2 DEF Edited, Discarded, Sent, Answered, Answers, OthersKept, SameTerms, SamePlace,
       Exists, Absent, Superseded, Siblings
  <1>3. CASE quote' = quote
    BY <1>1, <1>3 DEF Exists, SamePlace
  <1>4. ASSUME NEW q \in Quotes, NEW n, NEW v, NEW f, Inserted(q, n, v, f),
               f \in Rfqs => rfq'[f] # "SUBMITTED"
        PROVE  QuotedIsUnderWay'
    BY <1>0, <1>4 DEF Inserted, OthersKept, QuotedIsUnderWay, Exists
  <1>5. ASSUME NEW q \in Quotes, NEW f \in Rfqs \cup {NoRfq}, Create(q, f) PROVE QuotedIsUnderWay'
    <2>1. f \in Rfqs => rfq'[f] # "SUBMITTED"
      BY <1>5 DEF Create, TakesQuotation, MovedRfq, CanTransition, RfqTransitions, TypeOK, RfqStatus
    <2> QED BY <1>4, <1>5, <2>1, CreateInserts
  <1>6. ASSUME NEW r \in Requests, NEW q \in Quotes, CommitRevise(r, q) PROVE QuotedIsUnderWay'
    <2>1. req[r].quote \in Quotes /\ Exists(req[r].quote)
      BY <1>6, ReviseInserts, RowFacts DEF ReadsHold, HeldSoundly, Issued
    <2>2. quote[req[r].quote].rfq \in Rfqs => rfq'[quote[req[r].quote].rfq] # "SUBMITTED"
      BY <1>0, <2>1 DEF QuotedIsUnderWay
    <2> QED BY <1>4, <1>6, <2>2, ReviseInserts
  <1> QED BY <1>1, <1>2, <1>3, <1>5, <1>6, RowSteps

LEMMA SettledStep ==
  ASSUME TypeOK, ReadsHold, SettledRfqIsShut, QuotedIsUnderWay, [Next]_vars
  PROVE  SettledRfqIsShut'
  <1>0. \A f \in Rfqs : rfq[f] \in {"CLOSED", "CANCELLED"} => rfq'[f] = rfq[f]
    BY RfqSteps DEF CanTransition, RfqTransitions
  <1> SUFFICES ASSUME NEW q \in Quotes, quote'[q].status \in Settled, quote'[q].rfq \in Rfqs
               PROVE  rfq'[quote'[q].rfq] \in {"CLOSED", "CANCELLED"}
    BY DEF SettledRfqIsShut
  <1>1. CASE quote[q].status \in Settled
    <2>1. quote'[q].rfq = quote[q].rfq
      BY <1>1, IssuedStays DEF Issued, Settled, QuotationStatus, SamePlace
    <2> QED BY <1>0, <1>1, <2>1 DEF SettledRfqIsShut
  <1>2. CASE quote[q].status \notin Settled
    <2>1. ASSUME NEW p \in Quotes, Edited(p) \/ Discarded(p) \/ Sent(p) PROVE FALSE
      BY <1>2, <2>1 DEF Edited, Discarded, Sent, OthersKept, Settled
    <2>2. ASSUME NEW p \in Quotes, NEW n, NEW v, NEW f, Inserted(p, n, v, f) PROVE FALSE
      BY <1>2, <2>2 DEF Inserted, OthersKept, Settled
    <2>3. Answered(q)
      BY <1>2, <2>1, <2>2, RowSteps, CreateInserts, ReviseInserts DEF Answered, OthersKept
    <2>4. /\ rfq' = MovedRfq(quote[q].rfq, "CLOSED") /\ quote'[q].rfq = quote[q].rfq
          /\ rfq[quote[q].rfq] # "SUBMITTED"
      BY <2>3 DEF Answered, Answers, SameTerms, SamePlace, QuotedIsUnderWay, Exists, Absent
    <2>5. rfq[quote[q].rfq] \in RfqStatus /\ rfq[quote[q].rfq] # "SUBMITTED"
      BY <2>4 DEF TypeOK
    <2> QED BY <2>4, <2>5 DEF MovedRfq, CanTransition, RfqTransitions, RfqStatus, TypeOK
  <1> QED BY <1>1, <1>2

\* An RFQ and its quotations stay one negotiation: all its revisions carry one
\* number, and the answer that settles one of them shuts the RFQ for good.
THEOREM NegotiationIsOne == Spec => []RfqFollowsQuotations
  <1>1. Init => RfqInv
    BY DEF Init, RfqInv, RfqFollowsQuotations, OneNumberPerRfq, SettledRfqIsShut,
       QuotedIsUnderWay, Exists, Absent, Settled, NoQuote, NoRow
  <1>2. TypeOK /\ ReadsHold /\ RfqInv /\ [Next]_vars => RfqInv'
    BY OneNumberStep, UnderWayStep, SettledStep DEF RfqInv, RfqFollowsQuotations
  <1>3. RfqInv => RfqFollowsQuotations
    BY DEF RfqInv
  <1> QED BY <1>1, <1>2, <1>3, TypeCorrect, ReadsHoldAlways, PTL DEF Spec

-----------------------------------------------------------------------------
\* Whatever page, list or document shows an offer, they say the same of it: the
\* decisions of the surfaces, each with code of its own, come out equal in every
\* state, given that an order and an acceptance come together.
THEOREM SurfacesSayTheSame == Spec => []SurfacesAgree
  <1>1. TypeOK /\ AcceptedHasItsOrder => SurfacesAgree
    <2> SUFFICES ASSUME TypeOK, AcceptedHasItsOrder PROVE SurfacesAgree
      OBVIOUS
    <2>1. ASSUME NEW q \in Quotes, Exists(q), quote[q].status # "DRAFT"
          PROVE  /\ quote[q].status \in QuotationStatus \ {"DRAFT"}
                 /\ quote[q].until \in Nat /\ now \in Nat
                 /\ quote[q].status = "ACCEPTED" <=> HasOrder(q)
      BY <2>1 DEF TypeOK, Row, Exists, Absent, AcceptedHasItsOrder
    <2> QED BY <2>1 DEF SurfacesAgree, Badge, AccountBanner, PortalBanner, AdminCallout, Watermark,
         ListLink, IsExpired, Lapsed, StillOpen, StillIs, QuotationStatus
  <1> QED BY <1>1, TypeCorrect, OrderIffAccepted, PTL


-----------------------------------------------------------------------------
(***************************************************************************)
(* What the pages offer.  The Takes operators, which the properties        *)
(* compare with the pages, are the guards of the handlers: a handler that  *)
(* begins has one of the operations taken and keeps what it read for it,   *)
(* and of an idle slot each of them begins, as no other guard is left.     *)
(***************************************************************************)
\* What respond and decideApproval keep of their reads.
Kept(op, u, q) ==
  CASE op = "ACCEPT"  -> [op |-> op, quote |-> q, actor |-> u, grant |-> member[u]]
    [] op = "APPROVE" -> [op |-> op, quote |-> q, actor |-> u,
                          requester |-> quote[q].respondedBy, grant |-> member[u]]
    [] OTHER          -> [op |-> op, quote |-> q, actor |-> u]

LEMMA TradeTakenIsBegun ==
  ASSUME NEW r \in Requests, NEW q \in Quotes, NEW u \in Members
  PROVE  BeginRespond(r, q, u) \/ BeginDecide(r, q, u)
           <=> StartOnly /\ \E op \in TradeTaken(u, q) : Start(r, Kept(op, u, q))
  <1>1. /\ \A op \in {"ACCEPT", "ASK_APPROVAL", "REJECT", "ASK_REVISION"} :
             op \in TradeTaken(u, q) <=> TakesAnswer(q, u, op)
        /\ \A op \in {"APPROVE", "DECLINE"} : op \in TradeTaken(u, q) <=> TakesDecision(q, u)
        /\ TradeTaken(u, q) \subseteq {"ACCEPT", "ASK_APPROVAL", "REJECT", "ASK_REVISION",
                                      "APPROVE", "DECLINE"}
    BY DEF TradeTaken, OnlyIf
  <1>2. BeginRespond(r, q, u)
          <=> StartOnly /\ \E op \in {"ACCEPT", "ASK_APPROVAL", "REJECT", "ASK_REVISION"} :
                             TakesAnswer(q, u, op) /\ Start(r, Kept(op, u, q))
    BY DEF BeginRespond, Kept
  <1>3. BeginDecide(r, q, u)
          <=> StartOnly /\ \E op \in {"APPROVE", "DECLINE"} :
                             TakesDecision(q, u) /\ Start(r, Kept(op, u, q))
    BY DEF BeginDecide, Kept
  <1> QED BY <1>1, <1>2, <1>3

LEMMA PersonalTakenIsBegun ==
  ASSUME NEW r \in Requests, NEW q \in Quotes
  PROVE  BeginPersonalRespond(r, q)
           <=> StartOnly /\ \E op \in PersonalTaken(q) :
                 Start(r, IF op = "ACCEPT"
                          THEN [op |-> op, quote |-> q, actor |-> Customer, grant |-> NotMember]
                          ELSE [op |-> op, quote |-> q, actor |-> Customer])
  BY DEF BeginPersonalRespond, PersonalTaken, OnlyIf

\* A send as far as the bound on a validity lets it be checked.
LEMMA StaffTakenIsBegun ==
  ASSUME NEW r \in Requests, NEW q \in Quotes, Period(q) <= MaxPeriod
  PROVE  BeginUpdate(r, q) \/ BeginDiscard(r, q) \/ BeginSend(r, q) \/ BeginRevise(r, q)
           <=> StartOnly /\ \E op \in StaffTaken(q) :
                 Start(r, IF op = "SEND"
                          THEN [op |-> op, quote |-> q, from |-> quote[q].status,
                                until |-> now + Period(q)]
                          ELSE [op |-> op, quote |-> q])
  BY DEF BeginUpdate, BeginDiscard, BeginSend, BeginRevise, StaffTaken, OnlyIf

\* What a customer's page offers is what the API takes from that customer, for any
\* number of members, whatever their roles and limits.
THEOREM CustomersAreOfferedWhatIsTaken == Spec => []CustomerOffersAreTaken
  <1>1. TypeOK => CustomerOffersAreTaken
    <2> SUFFICES ASSUME TypeOK, orgStatus # "SUSPENDED", NEW q \in Quotes, Exists(q)
                 PROVE  /\ ~IsPersonal(q) =>
                             \A u \in Members : member[u] # NotMember => TradeOffers(u, q) = TradeTaken(u, q)
                        /\ IsPersonal(q) => PersonalOffers(q) = PersonalTaken(q)
      BY DEF CustomerOffersAreTaken
    <2>1. ASSUME NEW u \in Members, member[u] # NotMember, ~IsPersonal(q)
          PROVE  TradeOffers(u, q) = TradeTaken(u, q)
      <3>1. member[u].role \in OrgRole
        BY <2>1, QuotationsAssumption DEF TypeOK
      <3>2. MayAct(u, q, OrgRole) /\ (MayAct(u, q, Approvers) <=> member[u].role \in Approvers)
        BY <2>1, <3>1 DEF MayAct
      <3>3. CASE quote[q].status = "SENT" /\ ~Lapsed(q)
        BY <3>2, <3>3 DEF TradeOffers, TradeTaken, RespondPanel, TakesAnswer, TakesDecision, OnlyIf
      <3>4. CASE quote[q].status = "PENDING_APPROVAL" /\ ~Lapsed(q)
        BY <3>2, <3>4 DEF TradeOffers, TradeTaken, ApprovalPanel, TakesAnswer, TakesDecision, OnlyIf
      <3>5. CASE quote[q].status \notin {"SENT", "PENDING_APPROVAL"} \/ Lapsed(q)
        BY <3>5 DEF TradeOffers, TradeTaken, TakesAnswer, TakesDecision, OnlyIf
      <3> QED BY <3>3, <3>4, <3>5
    <2>2. IsPersonal(q) => PersonalOffers(q) = PersonalTaken(q)
      BY DEF PersonalOffers, PersonalTaken, PersonalRespondPanel, TakesPersonalAnswer, OnlyIf
    <2> QED BY <2>1, <2>2
  <1> QED BY <1>1, TypeCorrect, PTL

\* What the sales pages offer on a quotation and on its RFQ is taken, for any
\* number of both.
THEOREM StaffAreOfferedWhatIsTaken == Spec => []StaffOffersAreTaken
  <1>1. TypeOK => StaffOffersAreTaken
    <2> SUFFICES ASSUME TypeOK PROVE StaffOffersAreTaken
      OBVIOUS
    <2>1. ASSUME NEW q \in Quotes, Exists(q)
          PROVE  /\ StaffOffers(q) \subseteq StaffTaken(q)
                 /\ \A op \in StaffTaken(q) \ StaffOffers(q) :
                      op = "SEND" /\ quote[q].status = "PENDING_APPROVAL"
      <3>1. quote[q].status \in QuotationStatus
        BY <2>1 DEF TypeOK, Row, Exists
      <3>2. TakesSend(q) <=> quote[q].status \in {"DRAFT", "PENDING_APPROVAL"}
        BY <2>1, <3>1 DEF TakesSend, CanTransition, QuotationTransitions, QuotationStatus
      <3>3. TakesRevise(q) <=> quote[q].status \in {"SENT", "REVISION_REQUESTED",
                                                    "PENDING_APPROVAL", "EXPIRED"}
        BY DEF TakesRevise, Revisable, Open
      <3> QED BY <3>2, <3>3 DEF StaffOffers, StaffTaken, DraftForm, OnceIssued, TakesEdit, OnlyIf
    <2>2. ASSUME NEW f \in Rfqs
          PROVE  /\ \A to \in TriageOffers(f) : TakesMove(f, to)
                 /\ OffersQuotation(f) => TakesQuotation(f)
                 /\ f \notin Personal /\ OffersCancellation(f) /\ orgStatus # "SUSPENDED"
                    => TakesCancellation(f)
      BY <2>2 DEF TriageOffers, TakesMove, OffersQuotation, TakesQuotation, OffersCancellation,
           TakesCancellation, CanTransition, RfqTransitions
    <2> QED BY <2>1, <2>2 DEF StaffOffersAreTaken
  <1> QED BY <1>1, TypeCorrect, PTL
=============================================================================
