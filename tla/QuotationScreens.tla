-------------------------- MODULE QuotationScreens --------------------------
(***************************************************************************)
(* What the pages of the web application offer on a quotation and on an    *)
(* RFQ (apps/web).  The pages decide with code of their own, on the row    *)
(* they fetched; QuotationsService and RfqService decide again.  This      *)
(* module puts the two decisions side by side.                             *)
(***************************************************************************)
EXTENDS Quotations

OnlyIf(condition, set) == IF condition THEN set ELSE {}

\* The admin page of a quotation: a draft is a form, an issued offer that may
\* be revised has one button.  A draft is not "sent" from any other status.
DraftForm == {"UPDATE", "DISCARD", "SEND"}

OnceIssued(q) ==
  IF quote[q].status \in {"SENT", "REVISION_REQUESTED", "PENDING_APPROVAL", "EXPIRED"}
  THEN {"REVISE"} ELSE {}

StaffOffers(q) == IF quote[q].status = "DRAFT" THEN DraftForm ELSE OnceIssued(q)

\* The portal's RespondPanel, shown while the offer is sent and unexpired.
RespondPanel(u, q) ==
  {"REJECT", "ASK_REVISION"}
  \cup IF orgStatus # "ACTIVE" THEN {}
       ELSE IF NeedsApproval(u, q) THEN {"ASK_APPROVAL"} ELSE {"ACCEPT"}

MutantApprovalPanelOwnRequest(u, q) ==
  IF member[u].role \in Approvers /\ ~NeedsApproval(u, q)
  THEN {"APPROVE", "DECLINE"}
  ELSE {}

\* Its ApprovalPanel: an approver, not the requester, and within the limit.
ApprovalPanel(u, q) ==
  IF /\ member[u].role \in Approvers
     /\ quote[q].respondedBy # u
     /\ ~NeedsApproval(u, q)
  THEN {"APPROVE", "DECLINE"}
  ELSE {}

\* The page they are on: one of the two panels, or neither.
TradeOffers(u, q) ==
  IF quote[q].status = "SENT" /\ ~Lapsed(q) THEN RespondPanel(u, q)
  ELSE IF quote[q].status = "PENDING_APPROVAL" /\ ~Lapsed(q) THEN ApprovalPanel(u, q)
  ELSE {}

\* The account page of a customer who buys for themselves.
PersonalRespondPanel == {"ACCEPT", "REJECT", "ASK_REVISION"}

PersonalOffers(q) ==
  IF quote[q].status = "SENT" /\ ~Lapsed(q) THEN PersonalRespondPanel ELSE {}

MutantTriageOffersAlways(f) == {"CLOSED", "CANCELLED"}

\* The admin page of an RFQ: statusActions, limited to the lifecycle.
TriageOffers(f) ==
  { to \in {"CLOSED", "CANCELLED"} \cup (IF rfq[f] = "SUBMITTED" THEN {"IN_REVIEW"} ELSE {}) :
      CanTransition(RfqTransitions, rfq[f], to) }

\* Its link to a new quotation.
OffersQuotation(f) == rfq[f] \in {"SUBMITTED", "IN_REVIEW"} /\ Unquoted(f)

\* The portal's page of an RFQ.
OffersCancellation(f) == rfq[f] \in {"SUBMITTED", "IN_REVIEW"}

-----------------------------------------------------------------------------
(***************************************************************************)
(* What each surface says of an issued offer.  The stored status lags the  *)
(* date: an offer that ran out is EXPIRED in the table only once somebody  *)
(* tried to answer it, so every surface has to look at the date as well.   *)
(***************************************************************************)
\* `expired` of the mapper: the isExpired every surface is given.
IsExpired(q) ==
  \/ quote[q].status = "EXPIRED"
  \/ quote[q].status \in {"SENT", "PENDING_APPROVAL"} /\ Lapsed(q)

\* StatusBanner of the portal: an order first, then the date, then the status.
PortalBanner(q) ==
  IF HasOrder(q) THEN "ACCEPTED"
  ELSE IF IsExpired(q) THEN "EXPIRED"
  ELSE IF quote[q].status = "SENT" /\ quote[q].respondedBy # NoUser THEN "DECLINED"
  ELSE quote[q].status

\* StatusBanner of the account page, which has no approvals.
AccountBanner(q) ==
  IF HasOrder(q) THEN "ACCEPTED" ELSE IF IsExpired(q) THEN "EXPIRED" ELSE quote[q].status

MutantAdminCallout(q) == quote[q].status

\* StatusCallout of the admin page: the status first; the date only where no
\* status has a message of its own.
AdminCallout(q) ==
  IF quote[q].status = "SENT" /\ IsExpired(q) THEN "EXPIRED" ELSE quote[q].status

\* QuotationStatusBadge, in every list.
Badge(q) == IF IsExpired(q) THEN "EXPIRED" ELSE quote[q].status

\* The watermark across the PDF, or none.
Watermark(q) ==
  IF quote[q].status = "SUPERSEDED" THEN "SUPERSEDED"
  ELSE IF IsExpired(q) THEN "EXPIRED"
  ELSE IF quote[q].status = "REJECTED" THEN "REJECTED"
  ELSE "NONE"

\* The lists' link to an offer that waits for an answer or a decision.
ListLink(q) ==
  IF (quote[q].status \notin {"SENT", "PENDING_APPROVAL"}) \/ IsExpired(q) THEN "VIEW"
  ELSE IF quote[q].status = "PENDING_APPROVAL" THEN "REVIEW" ELSE "RESPOND"

-----------------------------------------------------------------------------
\* The operations the service takes up rather than refuses.
StaffTaken(q) ==
  OnlyIf(TakesEdit(q), {"UPDATE", "DISCARD"}) \cup OnlyIf(TakesSend(q), {"SEND"})
    \cup OnlyIf(TakesRevise(q), {"REVISE"})

TradeTaken(u, q) ==
  {op \in {"ACCEPT", "ASK_APPROVAL", "REJECT", "ASK_REVISION"} : TakesAnswer(q, u, op)}
    \cup OnlyIf(TakesDecision(q, u), {"APPROVE", "DECLINE"})

PersonalTaken(q) ==
  OnlyIf(TakesPersonalAnswer(q), {"ACCEPT", "REJECT", "ASK_REVISION"})

-----------------------------------------------------------------------------
\* A customer's page offers exactly the answers and decisions the API would
\* take from that customer on that row: nobody is shown a button that can only
\* fail, and nobody who may act is shown none.  (Members of a suspended
\* organisation are refused everything; see the README.)
CustomerOffersAreTaken ==
  orgStatus # "SUSPENDED" =>
    \A q \in Quotes :
      /\ Exists(q) /\ ~IsPersonal(q) =>
           \A u \in Members : member[u] # NotMember => TradeOffers(u, q) = TradeTaken(u, q)
      /\ Exists(q) /\ IsPersonal(q) => PersonalOffers(q) = PersonalTaken(q)

\* What the sales pages offer is taken, on a quotation and on its RFQ; the one
\* thing the API takes and no page offers is to send an offer again while it
\* waits for approval.  A request that shows no quotation can be given one.
StaffOffersAreTaken ==
  /\ \A q \in Quotes : Exists(q) =>
       /\ StaffOffers(q) \subseteq StaffTaken(q)
       /\ \A op \in StaffTaken(q) \ StaffOffers(q) :
            op = "SEND" /\ quote[q].status = "PENDING_APPROVAL"
  /\ \A f \in Rfqs :
       /\ \A to \in TriageOffers(f) : TakesMove(f, to)
       /\ OffersQuotation(f) => TakesQuotation(f)
       /\ f \notin Personal /\ OffersCancellation(f) /\ orgStatus # "SUSPENDED"
          => TakesCancellation(f)

\* Whatever page, list or document somebody looks at, it says of an offer what
\* the others say and what the server would do: expired exactly when no answer
\* is taken any more though nobody gave one, accepted exactly with its order,
\* listed as waiting exactly while somebody's answer would be taken.  The admin
\* page alone still calls an approval pending when its offer has run out.
SurfacesAgree ==
  \A q \in Quotes : Exists(q) /\ quote[q].status # "DRAFT" =>
    LET state == Badge(q)
        pending == quote[q].status = "PENDING_APPROVAL"
    IN  /\ AccountBanner(q) = state
        /\ PortalBanner(q) \in {state} \cup IF state = "SENT" THEN {"DECLINED"} ELSE {}
        /\ pending \/ AdminCallout(q) = state
        /\ Watermark(q) = IF state \in {"EXPIRED", "REJECTED", "SUPERSEDED"} THEN state ELSE "NONE"
        /\ ListLink(q) = "RESPOND" <=> StillOpen(q, "SENT")
        /\ ListLink(q) = "REVIEW" <=> StillOpen(q, "PENDING_APPROVAL")
        /\ state = "ACCEPTED" <=> HasOrder(q)

\* The terms of an offer stay the ones on the customer's page, however long it
\* has been open: once issued, a revision's amount never changes, and its
\* validity only by being sent again.
IssuedStep ==
  \A q \in Quotes :
    /\ Exists(q) /\ quote[q].status # "DRAFT"
    => /\ quote'[q].net = quote[q].net
       /\ quote'[q].until # quote[q].until => quote'[q].status = "SENT"
IssuedTermsStand == [][IssuedStep]_vars
=============================================================================
