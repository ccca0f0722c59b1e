---------------------------- MODULE OrderScreens ----------------------------
(***************************************************************************)
(* The pages that show an order: the tracker of its progress, which the    *)
(* account page, the portal, the admin page and the mobile app each work   *)
(* out for themselves, and the buttons staff and customers are offered.    *)
(***************************************************************************)
EXTENDS Orders

\* ORDER_PROGRESS: the happy path.
Progress == <<"PENDING_PAYMENT", "CONFIRMED", "PROCESSING", "DISPATCHED", "DELIVERED">>

Position(steps, status) == SelectInSeq(steps, LAMBDA s : s = status)

Entered(o) == {timeline[o][i].to : i \in DOMAIN timeline[o]}

UpTo(steps, n)  == {steps[i] : i \in 1..n}

-----------------------------------------------------------------------------
(***************************************************************************)
(* The portal, the admin page and the app: the path without "pending       *)
(* payment", unless the order is or was there; done up to the status.  For *)
(* a cancelled order they show no tracker.                                 *)
(***************************************************************************)
WithoutUnusedPayment(o) ==
  LET hadPaymentStep == order[o].status = "PENDING_PAYMENT" \/ "PENDING_PAYMENT" \in Entered(o)
  IN  SubSeq(Progress, IF hadPaymentStep THEN 1 ELSE 2, Len(Progress))

PortalTracker(o) ==
  LET steps == WithoutUnusedPayment(o)
  IN  [shown |-> steps, done |-> UpTo(steps, Position(steps, order[o].status))]

AdminTracker(o) ==
  LET steps   == WithoutUnusedPayment(o)
      current == Position(steps, order[o].status)
  IN  [ shown |-> steps, done |-> UpTo(steps, current),
        checked |-> UpTo(steps, current - 1) ]

\* The app dates a step by its last entry in the timeline.
AppTracker(o) ==
  LET steps == WithoutUnusedPayment(o)
      done  == UpTo(steps, Position(steps, order[o].status))
  IN  [shown |-> steps, done |-> done, dated |-> done \cap Entered(o)]

\* buildSteps, the account page: what the timeline has entered or left.
Reached(o) ==
  {order[o].status} \cup Entered(o)
    \cup ({timeline[o][i].from : i \in DOMAIN timeline[o]} \ {"NONE"})

MutantAccountTrackerFromTheTop(o) ==
  LET at   == {i \in DOMAIN Progress : Progress[i] \in Reached(o)}
      last == Max(at)
  IN  [ shown |-> SubSeq(Progress, 1, IF order[o].status = "CANCELLED" THEN last ELSE 5),
        done  |-> UpTo(Progress, last) ]

\* From the first step reached; of a cancelled order only as far as it got.
AccountTracker(o) ==
  LET at    == {i \in DOMAIN Progress : Progress[i] \in Reached(o)}
      first == Min(at)
      last  == Max(at)
  IN  [ shown |-> SubSeq(Progress, first,
                         IF order[o].status = "CANCELLED" THEN last ELSE Len(Progress)),
        done  |-> {Progress[i] : i \in first..last} ]

-----------------------------------------------------------------------------
\* allowedTransitions and canCancel, as the API reports them to staff, and what
\* the admin page adds of its own.
AllowedTransitions(o, role) ==
  {to \in OrderStatus : CanTransition(OrderTransitions, order[o].status, to) /\ MayMoveTo(role, to)}

MutantCanRecordPaymentAnyStatus(o, role) ==
  ManagesOrders(role) /\ order[o].payment = "UNPAID"

CanRecordPayment(o, role) ==
  ManagesOrders(role) /\ order[o].payment = "UNPAID" /\ order[o].status # "CANCELLED"

CanRecordRefund(o, role) ==
  ManagesOrders(role) /\ IsRefundDue(order[o].status, order[o].payment)

\* What a customer's page says of cancelling: a form, how to ask Top Flow once the
\* order is paid, or nothing.
CancelCard(o) ==
  IF IsCustomerCancellable(order[o].status, order[o].payment) THEN {"CANCEL"} ELSE {}

PaymentCard(o) ==
  IF /\ IsCustomerCancellable(order[o].status, "UNPAID")
     /\ order[o].payment = "PAID"
  THEN {"CONTACT_US"} ELSE {}

CustomerOffers(o) == CancelCard(o) \cup PaymentCard(o)

-----------------------------------------------------------------------------
\* Whoever looks at an order sees the same progress: its timeline is the path to
\* its status, the steps marked done are exactly the ones the timeline has
\* entered, in every tracker, and all of them can be dated.  Of a cancelled order
\* the account page marks what it reached.
TrackersAgree ==
  /\ TimelineIsThePath
  /\ \A o \in Orders : Exists(o) =>
       /\ AccountTracker(o).done = Entered(o) \ {"CANCELLED"}
       /\ order[o].status # "CANCELLED" =>
            /\ AccountTracker(o).shown = PortalTracker(o).shown
            /\ PortalTracker(o).done = Entered(o)
            /\ AdminTracker(o).done = Entered(o)
            /\ AdminTracker(o).checked = Entered(o) \ {order[o].status}
            /\ AppTracker(o).dated = Entered(o)

\* Staff are offered exactly what the API would take from them at that moment.
\* The page asks whether the order is unpaid, the API whether it is not paid:
\* the two differ for an order that was refunded and yet is not cancelled.  A
\* customer who is told to ask Top Flow is told so by somebody who can do it.
OrderOffersAreTaken ==
  \A o \in Orders, role \in Staff :
    Exists(o) =>
      /\ AllowedTransitions(o, role) = {to \in OrderStatus : TakesMove(o, to, role)}
      /\ CanRecordPayment(o, role) <=> TakesPayment(o, role)
      /\ CanRecordRefund(o, role) <=> TakesRefund(o, role)
      /\ "CANCEL" \in CustomerOffers(o) <=> TakesCancellation(o)
      /\ "CONTACT_US" \in CustomerOffers(o) /\ ManagesOrders(role)
         => CustomerOffers(o) = {"CONTACT_US"} /\ "CANCELLED" \in AllowedTransitions(o, role)
=============================================================================
