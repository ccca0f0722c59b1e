----------------------------- MODULE Workflows -----------------------------
(***************************************************************************)
(* The lifecycles and rules every service of TopFlow Hub shares            *)
(* (packages/shared/src/workflows): the three transition maps, the         *)
(* purchase-approval rule and the two order rules.  Pure operators only:   *)
(* the modules of the services extend this one.                            *)
(***************************************************************************)
EXTENDS Integers, FiniteSets

CONSTANT NoLimit   \* approvalLimit = null: the member has no personal limit

ASSUME NoLimitAssumption == NoLimit \notin Int

OrgRole   == {"OWNER", "APPROVER", "BUYER"}
OrgStatus == {"PENDING_VERIFICATION", "ACTIVE", "SUSPENDED"}
Limit     == Nat \cup {NoLimit}

(***************************************************************************)
(* A finite-state machine is data: every status lists where it may go.     *)
(***************************************************************************)
CanTransition(map, from, to) == to \in map[from]

QuotationTransitions ==
  [ DRAFT              |-> {"SENT"},
    SENT               |-> {"PENDING_APPROVAL", "ACCEPTED", "REJECTED",
                            "REVISION_REQUESTED", "SUPERSEDED", "EXPIRED"},
    PENDING_APPROVAL   |-> {"ACCEPTED", "SENT", "REJECTED", "SUPERSEDED", "EXPIRED"},
    REVISION_REQUESTED |-> {"SUPERSEDED"},
    ACCEPTED           |-> {},
    REJECTED           |-> {},
    EXPIRED            |-> {},
    SUPERSEDED         |-> {} ]

QuotationStatus == {"DRAFT", "SENT", "PENDING_APPROVAL", "REVISION_REQUESTED",
                    "ACCEPTED", "REJECTED", "EXPIRED", "SUPERSEDED"}

RfqTransitions ==
  [ SUBMITTED |-> {"IN_REVIEW", "QUOTED", "CANCELLED"},
    IN_REVIEW |-> {"QUOTED", "CLOSED", "CANCELLED"},
    QUOTED    |-> {"IN_REVIEW", "CLOSED"},
    CLOSED    |-> {},
    CANCELLED |-> {} ]

RfqStatus == {"SUBMITTED", "IN_REVIEW", "QUOTED", "CLOSED", "CANCELLED"}

OrderTransitions ==
  [ PENDING_PAYMENT |-> {"CONFIRMED", "CANCELLED"},
    CONFIRMED       |-> {"PROCESSING", "CANCELLED"},
    PROCESSING      |-> {"DISPATCHED", "CANCELLED"},
    DISPATCHED      |-> {"DELIVERED"},
    DELIVERED       |-> {},
    CANCELLED       |-> {} ]

OrderStatus == {"PENDING_PAYMENT", "CONFIRMED", "PROCESSING",
                "DISPATCHED", "DELIVERED", "CANCELLED"}

PaymentStatus == {"UNPAID", "PAID", "REFUNDED"}

(***************************************************************************)
(* Segregation of duties: does a member with this role and limit need a    *)
(* colleague's sign-off to commit the net amount?  At the limit: no.       *)
(***************************************************************************)
RequiresApproval(role, limit, amount) ==
  IF limit # NoLimit THEN amount > limit ELSE role = "BUYER"

\* The roles that may decide a colleague's pending purchase (PURCHASE_APPROVE).
Approvers == {"OWNER", "APPROVER"}

(***************************************************************************)
(* A customer cancels only before picking starts and while nothing is paid;*)
(* a cancelled order that was paid owes its customer a refund.             *)
(***************************************************************************)
IsCustomerCancellable(status, payment) ==
  /\ payment # "PAID"
  /\ status \in {"PENDING_PAYMENT", "CONFIRMED"}

IsRefundDue(status, payment) == status = "CANCELLED" /\ payment = "PAID"
=============================================================================
