---------------------------- MODULE OrdersProofs ----------------------------
(***************************************************************************)
(* Proofs about Orders and OrderScreens, for every set of orders, products *)
(* and overlapping requests: types, the timeline, the money trail, what    *)
(* the trackers show, and that the handlers implement the order book.      *)
(***************************************************************************)
EXTENDS OrderScreens, Sums, SequenceTheorems, TLAPS

-----------------------------------------------------------------------------
(***************************************************************************)
(* What a request in flight holds.                                         *)
(***************************************************************************)
ByOrder == {"MOVE", "CANCEL", "PAY", "REFUND"}

LEMMA RequestByOp ==
  ASSUME NEW x \in Request
  PROVE  /\ x.op = "CHECKOUT" => x.items \in Baskets
         /\ x.op \in ByOrder =>
              /\ x.order \in Orders /\ x.by \in Actor
              /\ x.from \in OrderStatus /\ x.to \in OrderStatus /\ x.paid \in PaymentStatus
  BY DEF Request, Idle, ByOrder

\* A guarded write that matches is a write to an order that exists, in the
\* status and payment status the handler read.
LEMMA AsReadRow ==
  ASSUME TypeOK, NEW r \in Requests, req[r].op \in ByOrder, AsRead(r)
  PROVE  /\ req[r].order \in Orders /\ Exists(req[r].order)
         /\ order[req[r].order] \in Row
         /\ order[req[r].order].status = req[r].from
         /\ order[req[r].order].payment = req[r].paid
         /\ req[r].by \in Actor /\ req[r].to \in OrderStatus
  <1>1. /\ req[r].order \in Orders /\ req[r].from \in OrderStatus
        /\ req[r].by \in Actor /\ req[r].to \in OrderStatus
    BY RequestByOp DEF TypeOK
  <1>2. order[req[r].order] # NoOrder
    BY <1>1 DEF AsRead, NoOrder, OrderStatus
  <1> QED BY <1>1, <1>2 DEF AsRead, Exists, TypeOK

\* What a request keeps of the order it read is what its handler checked.
Sound(x) ==
  /\ x.op = "MOVE" => /\ CanTransition(OrderTransitions, x.from, x.to)
                      /\ x.to # "CANCELLED"
  /\ x.op = "CANCEL" => /\ x.to = "CANCELLED"
                        /\ CanTransition(OrderTransitions, x.from, "CANCELLED")
                        /\ x.by \notin Staff => IsCustomerCancellable(x.from, x.paid)
  /\ x.op = "PAY" => /\ x.paid # "PAID" /\ x.from # "CANCELLED" /\ x.by \in Staff
                     /\ x.to = IF x.from = "PENDING_PAYMENT" THEN "CONFIRMED" ELSE x.from
  /\ x.op = "REFUND" => /\ x.paid = "PAID" /\ x.from = "CANCELLED" /\ x.by \in Staff
                        /\ x.to = "CANCELLED"

ReadsSound == \A r \in Requests : Sound(req[r])

LEMMA DecideType ==
  ASSUME TypeOK, NEW r \in Requests, NEW op \in ByOrder, NEW o \in Orders,
         NEW to \in OrderStatus, NEW by \in Actor, Exists(o), Decide(r, op, o, to, by)
  PROVE  /\ req' \in [Requests -> Request]
         /\ req'[r] = [ op |-> op, order |-> o, from |-> order[o].status,
                        paid |-> order[o].payment, to |-> to, by |-> by ]
         /\ \A s \in Requests \ {r} : req'[s] = req[s]
         /\ UNCHANGED <<order, stock, received, timeline, money>>
  <1>1. order[o].status \in OrderStatus /\ order[o].payment \in PaymentStatus
    BY DEF TypeOK, Exists, Row
  <1>2. [ op |-> op, order |-> o, from |-> order[o].status,
          paid |-> order[o].payment, to |-> to, by |-> by ] \in Request
    BY <1>1 DEF Request, ByOrder
  <1> QED BY <1>2 DEF Decide, TypeOK

LEMMA BeginSound ==
  ASSUME OrdersAssumption, TypeOK, ReadsSound, NEW r \in Requests, Begin(r)
  PROVE  /\ req' \in [Requests -> Request] /\ ReadsSound'
         /\ UNCHANGED <<order, stock, received, timeline, money>>
  <1> DEFINE Goal == /\ req' \in [Requests -> Request] /\ ReadsSound'
                     /\ UNCHANGED <<order, stock, received, timeline, money>>
  <1>0. \A role \in Staff : role \in Actor /\ "CUSTOMER" \notin Staff
    BY DEF Actor, OrdersAssumption
  <1>1. CASE BeginCheckout(r)
    BY <1>1 DEF BeginCheckout, ReadsSound, Sound, TypeOK, Request
  <1>2. ASSUME NEW o \in Orders, BeginCancel(r, o) PROVE Goal
    <2>1. Exists(o) /\ IsCustomerCancellable(order[o].status, order[o].payment)
          /\ Decide(r, "CANCEL", o, "CANCELLED", "CUSTOMER")
      BY <1>2 DEF BeginCancel, TakesCancellation
    <2>2. "CANCEL" \in ByOrder /\ "CANCELLED" \in OrderStatus /\ "CUSTOMER" \in Actor
      BY DEF ByOrder, OrderStatus, Actor
    <2>3. CanTransition(OrderTransitions, order[o].status, "CANCELLED")
      BY <2>1 DEF IsCustomerCancellable, CanTransition, OrderTransitions
    <2>4. req'[r] = [ op |-> "CANCEL", order |-> o, from |-> order[o].status,
                      paid |-> order[o].payment, to |-> "CANCELLED", by |-> "CUSTOMER" ]
      BY <2>1, <2>2, DecideType
    <2>5. Sound(req'[r])
      BY <2>1, <2>3, <2>4 DEF Sound
    <2> QED BY <2>1, <2>2, <2>5, DecideType DEF ReadsSound
  <1>3. ASSUME NEW o \in Orders, NEW role \in Staff, BeginPay(r, o, role) PROVE Goal
    <2> DEFINE to == IF order[o].status = "PENDING_PAYMENT" THEN "CONFIRMED" ELSE order[o].status
    <2>1. /\ Exists(o) /\ order[o].payment # "PAID" /\ order[o].status # "CANCELLED"
          /\ Decide(r, "PAY", o, to, role)
      BY <1>3 DEF BeginPay, TakesPayment
    <2>2. "PAY" \in ByOrder /\ to \in OrderStatus /\ role \in Actor
      BY <1>0, <2>1 DEF ByOrder, OrderStatus, TypeOK, Exists, Row
    <2>3. req'[r] = [ op |-> "PAY", order |-> o, from |-> order[o].status,
                      paid |-> order[o].payment, to |-> to, by |-> role ]
      BY <2>1 DEF Decide, TypeOK
    <2>4. Sound(req'[r])
      BY <2>1, <2>3 DEF Sound
    <2> QED BY <2>1, <2>2, <2>4, DecideType DEF ReadsSound
  <1>4. ASSUME NEW o \in Orders, NEW role \in Staff, BeginRefund(r, o, role) PROVE Goal
    <2>1. /\ Exists(o) /\ IsRefundDue(order[o].status, order[o].payment)
          /\ Decide(r, "REFUND", o, "CANCELLED", role)
      BY <1>4 DEF BeginRefund, TakesRefund
    <2>2. "REFUND" \in ByOrder /\ "CANCELLED" \in OrderStatus /\ role \in Actor
      BY <1>0 DEF ByOrder, OrderStatus
    <2>3. req'[r] = [ op |-> "REFUND", order |-> o, from |-> order[o].status,
                      paid |-> order[o].payment, to |-> "CANCELLED", by |-> role ]
      BY <2>1 DEF Decide, TypeOK
    <2>4. Sound(req'[r])
      BY <2>1, <2>3 DEF Sound, IsRefundDue
    <2> QED BY <2>1, <2>2, <2>4, DecideType DEF ReadsSound
  <1>5. ASSUME NEW o \in Orders, NEW role \in Staff, NEW to \in OrderStatus, BeginMove(r, o, to, role)
        PROVE  Goal
    <2> DEFINE op == IF to = "CANCELLED" THEN "CANCEL" ELSE "MOVE"
    <2>1. /\ Exists(o) /\ CanTransition(OrderTransitions, order[o].status, to)
          /\ Decide(r, op, o, to, role)
      BY <1>5 DEF BeginMove, TakesMove
    <2>2. op \in ByOrder /\ role \in Actor
      BY <1>0 DEF ByOrder
    <2>3. req'[r] = [ op |-> op, order |-> o, from |-> order[o].status,
                      paid |-> order[o].payment, to |-> to, by |-> role ]
      BY <2>1 DEF Decide, TypeOK
    <2>4. Sound(req'[r])
      BY <2>1, <2>3 DEF Sound
    <2> QED BY <2>1, <2>2, <2>4, DecideType DEF ReadsSound
  <1> QED BY <1>1, <1>2, <1>3, <1>4, <1>5 DEF Begin

LEMMA FinishSound ==
  ASSUME TypeOK, ReadsSound, NEW r \in Requests, Finish(r)
  PROVE  req' \in [Requests -> Request] /\ ReadsSound'
  BY DEF TypeOK, Finish, Request, ReadsSound, Sound, Idle

-----------------------------------------------------------------------------
(***************************************************************************)
(* What a transaction does to an order.  Every commit does one of five     *)
(* things to one order, and nothing to the others.                         *)
(***************************************************************************)
OthersKept(o) ==
  \A p \in Orders \ {o} :
    order'[p] = order[p] /\ timeline'[p] = timeline[p] /\ money'[p] = money[p]

Becomes(o, status, payment) ==
  /\ Exists(o)
  /\ order'[o] = [order[o] EXCEPT !.status = status, !.payment = payment]
  /\ OthersKept(o)

Recorded(o, from, to, by) ==
  timeline'[o] = Append(timeline[o], [from |-> from, to |-> to, by |-> by])

PlacedNew(o) ==
  /\ ~Exists(o)
  /\ order'[o] \in Row
  /\ order'[o].status \in {"PENDING_PAYMENT", "CONFIRMED"}
  /\ order'[o].payment = "UNPAID"
  /\ Recorded(o, "NONE", order'[o].status, "CUSTOMER")
  /\ money'[o] = money[o]
  /\ OthersKept(o)

\* A step of the lifecycle other than a cancellation, perhaps with the payment.
Advanced(o, to, by) ==
  /\ CanTransition(OrderTransitions, order[o].status, to) /\ to # "CANCELLED"
  /\ Recorded(o, order[o].status, to, by)
  /\ \/ Becomes(o, to, order[o].payment) /\ money'[o] = money[o]
     \/ /\ order[o].payment = "UNPAID"
        /\ Becomes(o, to, "PAID") /\ money'[o] = Append(money[o], "PAID")

Cancelled(o, by) ==
  /\ CanTransition(OrderTransitions, order[o].status, "CANCELLED")
  /\ by \notin Staff => IsCustomerCancellable(order[o].status, order[o].payment)
  /\ Recorded(o, order[o].status, "CANCELLED", by)
  /\ Becomes(o, "CANCELLED", order[o].payment) /\ money'[o] = money[o]

PaidInPlace(o) ==
  /\ order[o].payment = "UNPAID" /\ order[o].status # "CANCELLED"
  /\ order[o].status # "PENDING_PAYMENT"
  /\ timeline'[o] = timeline[o]
  /\ Becomes(o, order[o].status, "PAID") /\ money'[o] = Append(money[o], "PAID")

RefundedOnce(o, by) ==
  /\ order[o].payment = "PAID" /\ order[o].status = "CANCELLED" /\ by \in Staff
  /\ Recorded(o, "CANCELLED", "CANCELLED", by)
  /\ Becomes(o, "CANCELLED", "REFUNDED") /\ money'[o] = Append(money[o], "REFUNDED")

\* A guarded write of a MOVE.
LEMMA MovedRow ==
  ASSUME TypeOK, ReadsSound, NEW r \in Requests, req[r].op = "MOVE", AsRead(r),
         NEW payment, Moved(r, payment),
         \A p \in Orders \ {req[r].order} : money'[p] = money[p]
  PROVE  LET o == req[r].order IN
         /\ CanTransition(OrderTransitions, order[o].status, req[r].to) /\ req[r].to # "CANCELLED"
         /\ Recorded(o, order[o].status, req[r].to, req[r].by)
         /\ Becomes(o, req[r].to, payment)
  <1> DEFINE o == req[r].order
  <1>1. /\ o \in Orders /\ Exists(o) /\ order[o] \in Row /\ order[o].status = req[r].from
    BY AsReadRow DEF ByOrder
  <1>2. CanTransition(OrderTransitions, order[o].status, req[r].to) /\ req[r].to # "CANCELLED"
    BY <1>1 DEF ReadsSound, Sound
  <1>3. Recorded(o, order[o].status, req[r].to, req[r].by)
    BY <1>1 DEF Moved, RecordEvent, Recorded, TypeOK
  <1>4. \A p \in Orders \ {o} : order'[p] = order[p] /\ timeline'[p] = timeline[p]
    BY <1>1 DEF Moved, RecordEvent, TypeOK
  <1>5. order'[o] = [order[o] EXCEPT !.status = req[r].to, !.payment = payment]
    BY <1>1 DEF Moved, TypeOK
  <1> QED BY <1>1, <1>2, <1>3, <1>4, <1>5 DEF Becomes, OthersKept

LEMMA MoveAdvances ==
  ASSUME TypeOK, ReadsSound, NEW r \in Requests,
         CommitMove(r) \/ CommitDispatch(r) \/ CommitDeliver(r)
  PROVE  /\ req[r].order \in Orders /\ req[r].by \in Actor /\ req[r].to \in OrderStatus
         /\ Advanced(req[r].order, req[r].to, req[r].by)
  <1> DEFINE o == req[r].order
  <1>1. req[r].op = "MOVE" /\ AsRead(r)
    BY DEF CommitMove, CommitDispatch, CommitDeliver
  <1>2. /\ o \in Orders /\ order[o].payment = req[r].paid
        /\ req[r].by \in Actor /\ req[r].to \in OrderStatus
    BY <1>1, AsReadRow DEF ByOrder
  <1>3. CASE CommitMove(r) \/ CommitDispatch(r) \/ (CommitDeliver(r) /\ ~Collects(r))
    <2>1. Moved(r, req[r].paid) /\ money' = money
      BY <1>3 DEF CommitMove, CommitDispatch, CommitDeliver
    <2> QED BY <1>1, <1>2, <2>1, MovedRow DEF Advanced
  <1>4. CASE CommitDeliver(r) /\ Collects(r)
    <2>1. Moved(r, "PAID") /\ money' = [money EXCEPT ![o] = Append(@, "PAID")]
      BY <1>4 DEF CommitDeliver
    <2>2. /\ \A p \in Orders \ {o} : money'[p] = money[p]
          /\ money'[o] = Append(money[o], "PAID")
      BY <1>2, <2>1 DEF TypeOK
    <2>3. order[o].payment = "UNPAID"
      BY <1>2, <1>4 DEF Collects
    <2> QED BY <1>1, <1>2, <2>1, <2>2, <2>3, MovedRow DEF Advanced
  <1> QED BY <1>3, <1>4

LEMMA CancelCancels ==
  ASSUME TypeOK, ReadsSound, NEW r \in Requests, CommitCancel(r)
  PROVE  /\ req[r].order \in Orders /\ req[r].by \in Actor
         /\ Cancelled(req[r].order, req[r].by)
  <1> DEFINE o == req[r].order
  <1>1. /\ o \in Orders /\ Exists(o) /\ order[o] \in Row /\ order[o].status = req[r].from
        /\ order[o].payment = req[r].paid /\ req[r].by \in Actor
    BY AsReadRow DEF ByOrder, CommitCancel
  <1>2. /\ CanTransition(OrderTransitions, order[o].status, "CANCELLED")
        /\ req[r].by \notin Staff => IsCustomerCancellable(order[o].status, order[o].payment)
    BY <1>1 DEF CommitCancel, ReadsSound, Sound
  <1>3. Recorded(o, order[o].status, "CANCELLED", req[r].by) /\ OthersKept(o) /\ money'[o] = money[o]
    BY <1>1 DEF CommitCancel, RecordEvent, Recorded, OthersKept, TypeOK
  <1>4. order'[o] = [order[o] EXCEPT !.status = "CANCELLED", !.payment = order[o].payment]
    BY <1>1 DEF CommitCancel, TypeOK, Row
  <1> QED BY <1>1, <1>2, <1>3, <1>4 DEF Cancelled, Becomes

LEMMA PayPays ==
  ASSUME TypeOK, ReadsSound, MoneyTrailIsExact, NEW r \in Requests, CommitPay(r)
  PROVE  /\ req[r].order \in Orders /\ req[r].by \in Staff
         /\ order[req[r].order].payment = "UNPAID"
         /\ \/ /\ order[req[r].order].status = "PENDING_PAYMENT"
               /\ Advanced(req[r].order, "CONFIRMED", req[r].by)
               /\ order'[req[r].order].payment = "PAID"
            \/ PaidInPlace(req[r].order)
  <1> DEFINE o == req[r].order
  <1>1. /\ o \in Orders /\ Exists(o) /\ order[o] \in Row /\ order[o].status = req[r].from
        /\ order[o].payment = req[r].paid
    BY AsReadRow DEF ByOrder, CommitPay
  <1>2. /\ req[r].paid # "PAID" /\ req[r].from # "CANCELLED" /\ req[r].by \in Staff
        /\ req[r].to = IF req[r].from = "PENDING_PAYMENT" THEN "CONFIRMED" ELSE req[r].from
    BY DEF CommitPay, ReadsSound, Sound
  <1>3. order[o].payment = "UNPAID"
    BY <1>1, <1>2 DEF MoneyTrailIsExact, Row, PaymentStatus
  <1>4. /\ order'[o] = [order[o] EXCEPT !.status = req[r].to, !.payment = "PAID"]
        /\ \A p \in Orders \ {o} : order'[p] = order[p]
    BY <1>1 DEF CommitPay, TypeOK, Row
  <1>5. money'[o] = Append(money[o], "PAID") /\ \A p \in Orders \ {o} : money'[p] = money[p]
    BY <1>1 DEF CommitPay, TypeOK
  <1>6. CASE req[r].from = "PENDING_PAYMENT"
    <2>1. /\ Recorded(o, order[o].status, "CONFIRMED", req[r].by)
          /\ \A p \in Orders \ {o} : timeline'[p] = timeline[p]
      BY <1>1, <1>6 DEF CommitPay, RecordEvent, Recorded, TypeOK
    <2>2. CanTransition(OrderTransitions, order[o].status, "CONFIRMED")
      BY <1>1, <1>6 DEF CanTransition, OrderTransitions
    <2>3. Becomes(o, "CONFIRMED", "PAID") /\ order'[o].payment = "PAID"
      BY <1>1, <1>2, <1>4, <1>5, <1>6, <2>1 DEF Becomes, OthersKept, Row
    <2> QED BY <1>1, <1>2, <1>3, <1>5, <1>6, <2>1, <2>2, <2>3 DEF Advanced
  <1>7. CASE req[r].from # "PENDING_PAYMENT"
    <2>1. timeline' = timeline
      BY <1>7 DEF CommitPay
    <2>2. Becomes(o, order[o].status, "PAID")
      BY <1>1, <1>2, <1>4, <1>5, <1>7, <2>1 DEF Becomes, OthersKept
    <2> QED BY <1>1, <1>2, <1>3, <1>5, <1>7, <2>1, <2>2 DEF PaidInPlace
  <1> QED BY <1>1, <1>2, <1>3, <1>6, <1>7

LEMMA RefundRefunds ==
  ASSUME TypeOK, ReadsSound, NEW r \in Requests, CommitRefund(r)
  PROVE  /\ req[r].order \in Orders /\ req[r].by \in Staff
         /\ RefundedOnce(req[r].order, req[r].by)
  <1> DEFINE o == req[r].order
  <1>1. /\ o \in Orders /\ Exists(o) /\ order[o] \in Row /\ order[o].status = req[r].from
        /\ order[o].payment = req[r].paid
    BY AsReadRow DEF ByOrder, CommitRefund
  <1>2. req[r].paid = "PAID" /\ req[r].from = "CANCELLED" /\ req[r].by \in Staff
    BY DEF CommitRefund, ReadsSound, Sound
  <1>3. /\ Recorded(o, "CANCELLED", "CANCELLED", req[r].by) /\ OthersKept(o)
        /\ money'[o] = Append(money[o], "REFUNDED")
    BY <1>1 DEF CommitRefund, RecordEvent, Recorded, OthersKept, TypeOK
  <1>4. order'[o] = [order[o] EXCEPT !.status = "CANCELLED", !.payment = "REFUNDED"]
    BY <1>1, <1>2 DEF CommitRefund, TypeOK, Row
  <1> QED BY <1>1, <1>2, <1>3, <1>4 DEF RefundedOnce, Becomes

LEMMA InsertPlaces ==
  ASSUME TypeOK, NEW o \in Orders, NEW items \in Baskets, NEW onDelivery \in BOOLEAN,
         NEW status \in {"PENDING_PAYMENT", "CONFIRMED"},
         Insert(o, items, status, onDelivery, "CUSTOMER"), money' = money
  PROVE  PlacedNew(o)
  <1>1. order'[o] = [ status |-> status, payment |-> "UNPAID", onDelivery |-> onDelivery,
                      items |-> items ]
    BY DEF Insert, TypeOK
  <1>2. order'[o] \in Row /\ order'[o].status = status /\ order'[o].payment = "UNPAID"
    BY <1>1 DEF Row, OrderStatus, PaymentStatus
  <1>3. Recorded(o, "NONE", status, "CUSTOMER") /\ OthersKept(o)
    BY DEF Insert, RecordEvent, Recorded, OthersKept, TypeOK
  <1> QED BY <1>2, <1>3 DEF PlacedNew, Insert, Exists

LEMMA OrderSteps ==
  ASSUME OrdersAssumption, TypeOK, ReadsSound, MoneyTrailIsExact, [Next]_vars
  PROVE  \/ UNCHANGED <<order, timeline, money>>
         \/ \E o \in Orders : PlacedNew(o) \/ PaidInPlace(o)
         \/ \E o \in Orders, to \in OrderStatus, by \in Actor : Advanced(o, to, by)
         \/ \E o \in Orders, by \in Actor : Cancelled(o, by)
         \/ \E o \in Orders, by \in Staff : RefundedOnce(o, by)
  <1> DEFINE Goal == \/ UNCHANGED <<order, timeline, money>>
                     \/ \E o \in Orders : PlacedNew(o) \/ PaidInPlace(o)
                     \/ \E o \in Orders, to \in OrderStatus, by \in Actor : Advanced(o, to, by)
                     \/ \E o \in Orders, by \in Actor : Cancelled(o, by)
                     \/ \E o \in Orders, by \in Staff : RefundedOnce(o, by)
  <1>1. ASSUME NEW r \in Requests, Begin(r) PROVE Goal
    BY <1>1, BeginSound
  <1>2. ASSUME NEW r \in Requests, NEW o \in Orders, CommitCheckout(r, o) PROVE Goal
    <2>1. req[r].items \in Baskets
      BY <1>2, RequestByOp DEF CommitCheckout, TypeOK
    <2>2. PlacedNew(o)
      BY <1>2, <2>1, InsertPlaces DEF CommitCheckout
    <2> QED BY <2>2
  <1>3. ASSUME NEW r \in Requests, CommitMove(r) \/ CommitDispatch(r) \/ CommitDeliver(r) PROVE Goal
    BY <1>3, MoveAdvances
  <1>4. ASSUME NEW r \in Requests, CommitCancel(r) PROVE Goal
    BY <1>4, CancelCancels
  <1>5. ASSUME NEW r \in Requests, CommitPay(r) PROVE Goal
    BY <1>5, PayPays DEF Actor, OrderStatus
  <1>6. ASSUME NEW r \in Requests, CommitRefund(r) PROVE Goal
    BY <1>6, RefundRefunds
  <1>7. ASSUME NEW r \in Requests, RefuseDispatch(r) \/ Conflict(r) PROVE Goal
    BY <1>7 DEF RefuseDispatch, Conflict
  <1>8. ASSUME NEW o \in Orders, PlaceFromQuotation(o) PROVE Goal
    <2>1. PlacedNew(o)
      BY <1>8, InsertPlaces DEF PlaceFromQuotation
    <2> QED BY <2>1
  <1>9. ASSUME NEW p, NEW n, AdjustStock(p, n) PROVE Goal
    BY <1>9 DEF AdjustStock
  <1>10. CASE UNCHANGED vars
    BY <1>10 DEF vars
  <1> QED BY <1>1, <1>2, <1>3, <1>4, <1>5, <1>6, <1>7, <1>8, <1>9, <1>10 DEF Next, Commit

-----------------------------------------------------------------------------
(***************************************************************************)
(* Types, and the shelves.                                                 *)
(***************************************************************************)
\* No shelf holds more than was ever put there.
ShelvesCounted == \A p \in Products : stock[p] <= received[p]

LEMMA ShelvesStep ==
  ASSUME OrdersAssumption, TypeOK, ShelvesCounted, [Next]_vars
  PROVE  /\ stock' \in [Products -> Nat] /\ received' \in [Products -> Nat]
         /\ ShelvesCounted'
  <1> DEFINE Goal == /\ stock' \in [Products -> Nat] /\ received' \in [Products -> Nat]
                     /\ ShelvesCounted'
  <1>1. CASE UNCHANGED <<stock, received>>
    BY <1>1 DEF TypeOK, ShelvesCounted
  <1>2. ASSUME NEW r \in Requests, CommitDispatch(r) PROVE Goal
    <2>1. order[req[r].order] \in Row
      BY <1>2, AsReadRow DEF CommitDispatch, ByOrder
    <2> DEFINE items == order[req[r].order].items
    <2>2. \A p \in Products : items[p] \in Nat /\ items[p] <= stock[p]
      BY <1>2, <2>1 DEF Row, OrdersAssumption, CommitDispatch, Enough
    <2>3. stock' = [p \in Products |-> stock[p] - items[p]] /\ received' = received
      BY <1>2 DEF CommitDispatch
    <2>4. \A p \in Products : stock[p] \in Nat /\ stock[p] - items[p] \in Nat
                              /\ stock[p] - items[p] <= stock[p]
      BY <2>2 DEF TypeOK
    <2> HIDE DEF items
    <2> QED BY <2>3, <2>4 DEF TypeOK, ShelvesCounted
  <1>3. ASSUME NEW p \in Products, NEW n \in Counts, AdjustStock(p, n) PROVE Goal
    <2>1. n \in Nat /\ stock[p] \in Nat /\ received[p] \in Nat /\ stock[p] <= received[p]
      BY DEF OrdersAssumption, TypeOK, ShelvesCounted
    <2>2. received[p] + n - stock[p] \in Nat /\ n <= received[p] + n - stock[p]
      BY <2>1
    <2>3. /\ stock' = [stock EXCEPT ![p] = n]
          /\ received' = [received EXCEPT ![p] = received[p] + n - stock[p]]
      BY <1>3 DEF AdjustStock
    <2> QED BY <2>1, <2>2, <2>3 DEF TypeOK, ShelvesCounted
  <1>4. ASSUME NEW r \in Requests, Begin(r) PROVE UNCHANGED <<stock, received>>
    BY <1>4 DEF Begin, BeginCheckout, BeginCancel, TakesCancellation, BeginPay, TakesPayment, BeginRefund, TakesRefund, BeginMove, TakesMove, Decide
  <1>5. ASSUME NEW r \in Requests, Commit(r), ~CommitDispatch(r) PROVE UNCHANGED <<stock, received>>
    BY <1>5 DEF Commit, CommitCheckout, CommitMove, RefuseDispatch, CommitDeliver, CommitCancel,
       CommitPay, CommitRefund, Conflict
  <1>6. ASSUME NEW o \in Orders, PlaceFromQuotation(o) PROVE UNCHANGED <<stock, received>>
    BY <1>6 DEF PlaceFromQuotation
  <1> QED BY <1>1, <1>2, <1>3, <1>4, <1>5, <1>6 DEF Next, vars

LEMMA ReqStep ==
  ASSUME OrdersAssumption, TypeOK, ReadsSound, [Next]_vars
  PROVE  req' \in [Requests -> Request] /\ ReadsSound'
  <1>1. CASE req' = req
    BY <1>1 DEF TypeOK, ReadsSound
  <1>2. ASSUME NEW r \in Requests, Commit(r) PROVE Finish(r)
    BY <1>2 DEF Commit, CommitCheckout, CommitMove, CommitDispatch, RefuseDispatch, CommitDeliver,
       CommitCancel, CommitPay, CommitRefund, Conflict, Moved
  <1> QED BY <1>1, <1>2, BeginSound, FinishSound DEF Next, PlaceFromQuotation, AdjustStock, vars

\* The tables stay tables: a step that writes a row leaves a function.
LEMMA TablesStay ==
  ASSUME TypeOK, [Next]_vars
  PROVE  /\ order' = [o \in Orders |-> order'[o]]
         /\ timeline' = [o \in Orders |-> timeline'[o]]
         /\ money' = [o \in Orders |-> money'[o]]
  <1> DEFINE Goal == /\ order' = [o \in Orders |-> order'[o]]
                     /\ timeline' = [o \in Orders |-> timeline'[o]]
                     /\ money' = [o \in Orders |-> money'[o]]
  <1>0. CASE UNCHANGED <<order, timeline, money>>
    BY <1>0 DEF TypeOK
  <1>1. ASSUME NEW r \in Requests, Begin(r) PROVE UNCHANGED <<order, timeline, money>>
    BY <1>1 DEF Begin, BeginCheckout, BeginCancel, TakesCancellation, BeginPay, TakesPayment, BeginRefund, TakesRefund, BeginMove, TakesMove, Decide
  <1>2. ASSUME NEW r \in Requests, NEW o \in Orders, CommitCheckout(r, o) PROVE Goal
    BY <1>2 DEF CommitCheckout, Insert, RecordEvent, TypeOK
  <1>3. ASSUME NEW r \in Requests, CommitMove(r) \/ CommitDispatch(r) \/ CommitDeliver(r) PROVE Goal
    BY <1>3 DEF CommitMove, CommitDispatch, CommitDeliver, Moved, RecordEvent, TypeOK
  <1>4. ASSUME NEW r \in Requests, CommitCancel(r) \/ CommitPay(r) \/ CommitRefund(r) PROVE Goal
    BY <1>4 DEF CommitCancel, CommitPay, CommitRefund, RecordEvent, TypeOK
  <1>5. ASSUME NEW o \in Orders, PlaceFromQuotation(o) PROVE Goal
    BY <1>5 DEF PlaceFromQuotation, Insert, RecordEvent, TypeOK
  <1> QED BY <1>0, <1>1, <1>2, <1>3, <1>4, <1>5 DEF Next, Commit, RefuseDispatch, Conflict,
         AdjustStock, vars

LEMMA RecordedType ==
  ASSUME TypeOK, NEW o \in Orders, NEW from \in OrderStatus \cup {"NONE"},
         NEW to \in OrderStatus, NEW by \in Actor, Recorded(o, from, to, by)
  PROVE  timeline'[o] \in Seq(Event)
  <1>1. [from |-> from, to |-> to, by |-> by] \in Event /\ timeline[o] \in Seq(Event)
    BY DEF TypeOK, Event
  <1> QED BY <1>1 DEF Recorded

LEMMA TypeStep ==
  ASSUME OrdersAssumption, TypeOK, ReadsSound, ShelvesCounted, MoneyTrailIsExact, [Next]_vars
  PROVE  TypeOK'
  <1> DEFINE Events    == Seq(Event)
             Payments  == Seq({"PAID", "REFUNDED"})
             RowsTyped == \A o \in Orders : /\ order'[o] \in Row \cup {NoOrder}
                                            /\ timeline'[o] \in Events
                                            /\ money'[o] \in Payments
  <1>0. \A o \in Orders : /\ order[o] \in Row \cup {NoOrder}
                          /\ timeline[o] \in Events
                          /\ money[o] \in Payments
    BY DEF TypeOK
  <1>1. ASSUME NEW o \in Orders, NEW status \in OrderStatus, NEW payment \in PaymentStatus,
               Becomes(o, status, payment),
               timeline'[o] \in Events, money'[o] \in Payments
        PROVE  RowsTyped
    <2>1. order'[o] \in Row
      BY <1>0, <1>1 DEF Becomes, Exists, Row
    <2> QED BY <1>0, <1>1, <2>1 DEF Becomes, OthersKept
  <1>2. \A o \in Orders : Exists(o) => /\ order[o].status \in OrderStatus
                                       /\ order[o].payment \in PaymentStatus
    BY DEF TypeOK, Exists, Row
  <1>3. /\ {"PAID", "REFUNDED"} \subseteq PaymentStatus /\ "CANCELLED" \in OrderStatus
        /\ Staff \subseteq Actor /\ "CUSTOMER" \in Actor
    BY DEF PaymentStatus, OrderStatus, Actor
  <1>4. \A o \in Orders : /\ Append(money[o], "PAID") \in Payments
                          /\ Append(money[o], "REFUNDED") \in Payments
    BY <1>0
  <1>r. \A o \in Orders, from \in OrderStatus \cup {"NONE"}, to \in OrderStatus, by \in Actor :
          Recorded(o, from, to, by) => timeline'[o] \in Events
    BY RecordedType
  <1> HIDE DEF Events, Payments
  <1>5. ASSUME UNCHANGED <<order, timeline, money>> PROVE RowsTyped
    BY <1>0, <1>5
  <1>6. ASSUME NEW o \in Orders, PlacedNew(o) PROVE RowsTyped
    <2>1. timeline'[o] \in Events
      BY <1>r, <1>3, <1>6 DEF PlacedNew, Row
    <2> QED BY <1>0, <1>6, <2>1 DEF PlacedNew, OthersKept
  <1>7. ASSUME NEW o \in Orders, PaidInPlace(o) PROVE RowsTyped
    <2>1. /\ Becomes(o, order[o].status, "PAID") /\ order[o].status \in OrderStatus
          /\ timeline'[o] = timeline[o] /\ money'[o] = Append(money[o], "PAID")
      BY <1>2, <1>7 DEF PaidInPlace, Becomes
    <2> QED BY <1>0, <1>1, <1>3, <1>4, <2>1
  <1>8. ASSUME NEW o \in Orders, NEW to \in OrderStatus, NEW by \in Actor, Advanced(o, to, by)
        PROVE  RowsTyped
    <2>1. timeline'[o] \in Events
      BY <1>r, <1>2, <1>8 DEF Advanced, Becomes
    <2>2. order[o].payment \in PaymentStatus
      BY <1>2, <1>8 DEF Advanced, Becomes
    <2> QED BY <1>0, <1>1, <1>3, <1>4, <1>8, <2>1, <2>2 DEF Advanced
  <1>9. ASSUME NEW o \in Orders, NEW by \in Actor, Cancelled(o, by) PROVE RowsTyped
    <2>1. timeline'[o] \in Events
      BY <1>r, <1>2, <1>3, <1>9 DEF Cancelled, Becomes
    <2> QED BY <1>0, <1>1, <1>2, <1>3, <1>9, <2>1 DEF Cancelled, Becomes
  <1>10. ASSUME NEW o \in Orders, NEW by \in Staff, RefundedOnce(o, by) PROVE RowsTyped
    <2>1. timeline'[o] \in Events
      BY <1>r, <1>3, <1>10 DEF RefundedOnce
    <2> QED BY <1>0, <1>1, <1>3, <1>4, <1>10, <2>1 DEF RefundedOnce
  <1>11. RowsTyped
    BY <1>5, <1>6, <1>7, <1>8, <1>9, <1>10, OrderSteps
  <1>12. /\ order' \in [Orders -> Row \cup {NoOrder}]
         /\ timeline' \in [Orders -> Seq(Event)]
         /\ money' \in [Orders -> Seq({"PAID", "REFUNDED"})]
    BY <1>11, TablesStay DEF Events, Payments
  <1> QED BY <1>12, ShelvesStep, ReqStep DEF TypeOK

-----------------------------------------------------------------------------
(***************************************************************************)
(* The timeline and the money.                                             *)
(***************************************************************************)
\* TimelineIsThePath and MoneyTrailIsExact, of one order; and, which they need,
\* that a timeline names a cancellation only if the order is cancelled.
PathOf(o) ==
  LET t == timeline[o] IN
  IF ~Exists(o) THEN t = <<>>
  ELSE /\ t # <<>>
       /\ t[1].from = "NONE"
       /\ Last(t).to = order[o].status
       /\ \A i \in 2..Len(t) :
            /\ t[i].from = t[i - 1].to
            /\ \/ CanTransition(OrderTransitions, t[i].from, t[i].to)
               \/ i = Len(t) /\ t[i].to = "CANCELLED" /\ order[o].payment = "REFUNDED"

RecordOf(o) ==
  Exists(o) /\ order[o].status # "CANCELLED" =>
    \A i \in DOMAIN timeline[o] : timeline[o][i].to # "CANCELLED"

TrailOf(o) ==
  /\ money[o] = IF ~Exists(o) \/ order[o].payment = "UNPAID" THEN <<>>
                ELSE IF order[o].payment = "PAID" THEN <<"PAID">>
                ELSE <<"PAID", "REFUNDED">>
  /\ Exists(o) /\ order[o].payment = "REFUNDED" => order[o].status = "CANCELLED"
  /\ Exists(o) /\ order[o].status = "CANCELLED" /\ order[o].payment # "UNPAID"
     => \A i \in DOMAIN timeline[o] :
          timeline[o][i].to = "CANCELLED" => timeline[o][i].by \in Staff

HistoryOf(o) == PathOf(o) /\ RecordOf(o) /\ TrailOf(o)
History      == \A o \in Orders : HistoryOf(o)

LEMMA HistoryKept ==
  ASSUME NEW o, order'[o] = order[o], timeline'[o] = timeline[o], money'[o] = money[o],
         HistoryOf(o)
  PROVE  HistoryOf(o)'
  BY DEF HistoryOf, PathOf, RecordOf, TrailOf, Exists

\* What appending an entry does to a timeline.
LEMMA AppendFacts ==
  ASSUME NEW t \in Seq(Event), NEW e \in Event
  PROVE  LET u == Append(t, e) IN
         /\ u \in Seq(Event) /\ u # <<>> /\ Len(u) = Len(t) + 1 /\ DOMAIN u = 1..Len(t) + 1
         /\ Last(u) = e /\ u[Len(t) + 1] = e
         /\ \A i \in 1..Len(t) : u[i] = t[i]
  BY DEF Last

\* An entry that starts where the timeline ends, by a step of the lifecycle or
\* the record of the refund, makes a longer path; nothing follows a refund.
LEMMA PathGrows ==
  ASSUME TypeOK, NEW o \in Orders, Exists(o), PathOf(o), order[o].payment # "REFUNDED",
         NEW to \in OrderStatus, NEW by \in Actor, NEW payment,
         Recorded(o, order[o].status, to, by), Becomes(o, to, payment),
         \/ CanTransition(OrderTransitions, order[o].status, to)
         \/ to = "CANCELLED" /\ payment = "REFUNDED"
  PROVE  PathOf(o)'
  <1> DEFINE t == timeline[o]
             e == [from |-> order[o].status, to |-> to, by |-> by]
             u == timeline'[o]
  <1>0. /\ order[o] \in Row /\ t \in Seq(Event) /\ e \in Event /\ u = Append(t, e)
    BY DEF TypeOK, Exists, Row, Event, Recorded
  <1>1. /\ u # <<>> /\ Len(u) = Len(t) + 1 /\ Last(u) = e /\ u[Len(t) + 1] = e
        /\ \A i \in 1..Len(t) : u[i] = t[i]
    BY <1>0, AppendFacts
  <1>2. /\ t # <<>> /\ t[1].from = "NONE" /\ Last(t).to = order[o].status
        /\ \A i \in 2..Len(t) : /\ t[i].from = t[i - 1].to
                                /\ CanTransition(OrderTransitions, t[i].from, t[i].to)
    BY DEF PathOf
  <1>3. Len(t) \in Nat /\ Len(t) >= 1 /\ Last(t) = t[Len(t)]
    BY <1>0, <1>2 DEF Last
  <1>4. /\ order'[o].status = to /\ order'[o].payment = payment /\ order'[o] # NoOrder
    <2>1. order'[o].status = to /\ order'[o].payment = payment
      BY <1>0 DEF Becomes, Row
    <2>2. to # "NONE"
      BY DEF OrderStatus
    <2> QED BY <2>1, <2>2 DEF NoOrder
  <1> HIDE DEF t, e, u
  <1>5. u[1].from = "NONE" /\ Last(u).to = to
    BY <1>1, <1>2, <1>3 DEF e
  <1>6. \A i \in 2..Len(u) :
           /\ u[i].from = u[i - 1].to
           /\ \/ CanTransition(OrderTransitions, u[i].from, u[i].to)
              \/ i = Len(u) /\ u[i].to = "CANCELLED" /\ payment = "REFUNDED"
    <2> SUFFICES ASSUME NEW i \in 2..Len(u)
                 PROVE  /\ u[i].from = u[i - 1].to
                        /\ \/ CanTransition(OrderTransitions, u[i].from, u[i].to)
                           \/ i = Len(u) /\ u[i].to = "CANCELLED" /\ payment = "REFUNDED"
      OBVIOUS
    <2>1. CASE i <= Len(t)
      <3>1. i \in 2..Len(t) /\ i - 1 \in 1..Len(t) /\ i \in 1..Len(t)
        BY <1>1, <1>3, <2>1
      <3> QED BY <1>1, <1>2, <3>1
    <2>2. CASE i = Len(t) + 1
      <3>1. u[i] = e /\ u[i - 1] = t[Len(t)]
        BY <1>1, <1>3, <2>2
      <3> QED BY <1>1, <1>2, <1>3, <2>2, <3>1 DEF e
    <2> QED BY <1>1, <1>3, <2>1, <2>2
  <1> QED BY <1>1, <1>4, <1>5, <1>6 DEF PathOf, Exists, u

LEMMA HistorySplits == History => TimelineIsThePath /\ MoneyTrailIsExact
  BY DEF History, HistoryOf, PathOf, TrailOf, TimelineIsThePath, MoneyTrailIsExact

LEMMA AppendToOne ==
  ASSUME NEW a, NEW b
  PROVE  Append(<<a>>, b) = <<a, b>>
  <1> DEFINE S == {a, b}
             u == Append(<<a>>, b)
             v == <<a, b>>
  <1>1. u \in Seq(S) /\ Len(u) = 2 /\ u[1] = a /\ u[2] = b
    <2>1. <<a>> \in Seq(S) /\ Len(<<a>>) = 1
      OBVIOUS
    <2> QED BY <2>1
  <1>2. v \in Seq(S) /\ Len(v) = 2 /\ v[1] = a /\ v[2] = b
    OBVIOUS
  <1> HIDE DEF S, u, v
  <1>3. \A i \in 1..Len(u) : u[i] = v[i]
    BY <1>1, <1>2
  <1>4. u = v
    BY <1>1, <1>2, <1>3, SeqEqual
  <1> QED BY <1>4 DEF u, v

LEMMA PlacedHistory ==
  ASSUME TypeOK, NEW o \in Orders, HistoryOf(o), PlacedNew(o)
  PROVE  HistoryOf(o)'
  <1>1. timeline[o] = <<>> /\ money[o] = <<>>
    BY DEF PlacedNew, HistoryOf, PathOf, TrailOf
  <1> DEFINE s == order'[o].status
             e == [from |-> "NONE", to |-> s, by |-> "CUSTOMER"]
  <1>2. /\ s \in {"PENDING_PAYMENT", "CONFIRMED"} /\ order'[o].payment = "UNPAID"
        /\ order'[o] # NoOrder /\ money'[o] = <<>> /\ timeline'[o] = Append(<<>>, e)
    BY <1>1 DEF PlacedNew, Recorded, NoOrder
  <1>3. e \in Event /\ <<>> \in Seq(Event) /\ Len(<<>>) = 0
    BY <1>2 DEF Event, OrderStatus, Actor
  <1>4. /\ timeline'[o] # <<>> /\ Len(timeline'[o]) = 1 /\ DOMAIN timeline'[o] = 1..1
        /\ Last(timeline'[o]) = e /\ timeline'[o][1] = e
    <2> HIDE DEF e
    <2>1. timeline'[o] = <<e>>
      BY <1>2, <1>3
    <2>2. Len(<<e>>) = 1 /\ DOMAIN <<e>> = 1..1 /\ <<e>>[1] = e /\ <<e>> # <<>>
      OBVIOUS
    <2> QED BY <2>1, <2>2 DEF Last
  <1>5. e.from = "NONE" /\ e.to = s /\ s # "CANCELLED"
    BY <1>2
  <1> HIDE DEF s, e
  <1>6. PathOf(o)'
    BY <1>2, <1>4, <1>5 DEF PathOf, Exists, s
  <1>7. RecordOf(o)'
    BY <1>4, <1>5 DEF RecordOf
  <1>8. TrailOf(o)'
    BY <1>2, <1>5 DEF TrailOf, Exists, s
  <1> QED BY <1>6, <1>7, <1>8 DEF HistoryOf

LEMMA AdvancedHistory ==
  ASSUME TypeOK, NEW o \in Orders, HistoryOf(o), NEW to \in OrderStatus, NEW by \in Actor,
         Advanced(o, to, by)
  PROVE  HistoryOf(o)'
  <1> DEFINE e == [from |-> order[o].status, to |-> to, by |-> by]
  <1>1. /\ Exists(o) /\ order[o] \in Row /\ e \in Event /\ timeline[o] \in Seq(Event)
        /\ timeline'[o] = Append(timeline[o], e) /\ e.to # "CANCELLED"
    BY DEF Advanced, Becomes, Recorded, TypeOK, Exists, Row, Event
  <1>2. order[o].status # "CANCELLED" /\ order[o].payment # "REFUNDED"
    BY <1>1 DEF Advanced, HistoryOf, TrailOf, CanTransition, OrderTransitions
  <1>3. PICK payment \in {"UNPAID", "PAID"} :
          /\ Becomes(o, to, payment)
          /\ \/ payment = order[o].payment /\ money'[o] = money[o]
             \/ /\ order[o].payment = "UNPAID" /\ payment = "PAID"
                /\ money'[o] = Append(money[o], "PAID")
    BY <1>1, <1>2 DEF Advanced, Row, PaymentStatus
  <1>4. /\ order'[o].status = to /\ order'[o].payment = payment /\ order'[o] # NoOrder
    <2>1. order'[o].status = to /\ order'[o].payment = payment
      BY <1>1, <1>3 DEF Becomes, Row
    <2>2. to # "NONE"
      BY DEF OrderStatus
    <2> QED BY <2>1, <2>2 DEF NoOrder
  <1>5. PathOf(o)'
    BY <1>1, <1>2, <1>3, PathGrows DEF Advanced, HistoryOf
  <1>6. RecordOf(o)'
    <2>1. \A i \in DOMAIN timeline[o] : timeline[o][i].to # "CANCELLED"
      BY <1>1, <1>2 DEF HistoryOf, RecordOf
    <2> QED BY <1>1, <2>1, AppendFacts DEF RecordOf
  <1>7. TrailOf(o)'
    <2>1. money[o] = IF order[o].payment = "UNPAID" THEN <<>> ELSE <<"PAID">>
      BY <1>1, <1>2 DEF HistoryOf, TrailOf, Row, PaymentStatus
    <2>2. money'[o] = IF payment = "UNPAID" THEN <<>> ELSE <<"PAID">>
      BY <1>3, <2>1
    <2> QED BY <1>1, <1>3, <1>4, <2>2 DEF TrailOf, Exists
  <1> QED BY <1>5, <1>6, <1>7 DEF HistoryOf

\* What a customer cancels was neither paid nor refunded.
LEMMA CancelledHistory ==
  ASSUME TypeOK, NEW o \in Orders, HistoryOf(o), NEW by \in Actor, Cancelled(o, by)
  PROVE  HistoryOf(o)'
  <1> DEFINE e == [from |-> order[o].status, to |-> "CANCELLED", by |-> by]
  <1>0. "CANCELLED" \in OrderStatus
    BY DEF OrderStatus
  <1>1. /\ Exists(o) /\ order[o] \in Row /\ e \in Event /\ timeline[o] \in Seq(Event)
        /\ timeline'[o] = Append(timeline[o], e)
        /\ Becomes(o, "CANCELLED", order[o].payment) /\ money'[o] = money[o]
    BY <1>0 DEF Cancelled, Becomes, Recorded, TypeOK, Exists, Row, Event
  <1>2. order[o].status # "CANCELLED" /\ order[o].payment # "REFUNDED"
    BY <1>1 DEF Cancelled, HistoryOf, TrailOf, CanTransition, OrderTransitions
  <1>3. order'[o].status = "CANCELLED" /\ order'[o].payment = order[o].payment /\ order'[o] # NoOrder
    <2>1. order'[o].status = "CANCELLED" /\ order'[o].payment = order[o].payment
      BY <1>1 DEF Becomes, Row
    <2> QED BY <2>1 DEF NoOrder
  <1>4. PathOf(o)'
    BY <1>0, <1>1, <1>2, PathGrows DEF Cancelled, HistoryOf
  <1>5. RecordOf(o)'
    BY <1>3 DEF RecordOf
  <1>6. order[o].payment # "UNPAID" => by \in Staff
    BY <1>1, <1>2 DEF Cancelled, IsCustomerCancellable, Row, PaymentStatus
  <1>7. \A i \in DOMAIN timeline[o] : timeline[o][i].to # "CANCELLED"
    BY <1>1, <1>2 DEF HistoryOf, RecordOf
  <1>8. order[o].payment # "UNPAID" =>
          \A i \in DOMAIN timeline'[o] :
            timeline'[o][i].to = "CANCELLED" => timeline'[o][i].by \in Staff
    BY <1>1, <1>6, <1>7, AppendFacts
  <1>9. TrailOf(o)'
    BY <1>1, <1>2, <1>3, <1>8 DEF HistoryOf, TrailOf, Exists
  <1> QED BY <1>4, <1>5, <1>9 DEF HistoryOf

LEMMA PaidHistory ==
  ASSUME TypeOK, NEW o \in Orders, HistoryOf(o), PaidInPlace(o)
  PROVE  HistoryOf(o)'
  <1>1. /\ Exists(o) /\ order[o] \in Row
        /\ order'[o] = [order[o] EXCEPT !.status = order[o].status, !.payment = "PAID"]
    BY DEF PaidInPlace, Becomes, TypeOK, Exists
  <1>2. order'[o].status = order[o].status /\ order'[o].payment = "PAID" /\ order'[o] # NoOrder
    <2>1. order'[o].status = order[o].status /\ order'[o].payment = "PAID"
      BY <1>1 DEF Row
    <2>2. order[o].status # "NONE"
      BY <1>1 DEF Row, OrderStatus
    <2> QED BY <2>1, <2>2 DEF NoOrder
  <1>3. PathOf(o)'
    BY <1>1, <1>2 DEF PaidInPlace, HistoryOf, PathOf, Exists
  <1>4. RecordOf(o)'
    BY <1>1, <1>2 DEF PaidInPlace, HistoryOf, RecordOf, Exists
  <1>5. money'[o] = <<"PAID">>
    <2>1. money[o] = <<>>
      BY DEF PaidInPlace, HistoryOf, TrailOf
    <2> QED BY <2>1 DEF PaidInPlace
  <1>6. TrailOf(o)'
    BY <1>2, <1>5 DEF PaidInPlace, TrailOf, Exists
  <1> QED BY <1>3, <1>4, <1>6 DEF HistoryOf

LEMMA RefundedHistory ==
  ASSUME TypeOK, NEW o \in Orders, HistoryOf(o), NEW by \in Staff, RefundedOnce(o, by)
  PROVE  HistoryOf(o)'
  <1> DEFINE e == [from |-> "CANCELLED", to |-> "CANCELLED", by |-> by]
  <1>0. "CANCELLED" \in OrderStatus /\ by \in Actor
    BY DEF OrderStatus, Actor
  <1>1. /\ Exists(o) /\ order[o] \in Row /\ e \in Event /\ timeline[o] \in Seq(Event)
        /\ timeline'[o] = Append(timeline[o], e)
        /\ Becomes(o, "CANCELLED", "REFUNDED") /\ money'[o] = Append(money[o], "REFUNDED")
        /\ order[o].status = "CANCELLED" /\ order[o].payment = "PAID"
    BY <1>0 DEF RefundedOnce, Becomes, Recorded, TypeOK, Exists, Event
  <1>2. order'[o].status = "CANCELLED" /\ order'[o].payment = "REFUNDED" /\ order'[o] # NoOrder
    <2>1. order'[o].status = "CANCELLED" /\ order'[o].payment = "REFUNDED"
      BY <1>1 DEF Becomes, Row
    <2> QED BY <2>1 DEF NoOrder
  <1>3. PathOf(o)'
    BY <1>0, <1>1, PathGrows DEF RefundedOnce, HistoryOf
  <1>4. RecordOf(o)'
    BY <1>2 DEF RecordOf
  <1>5. \A i \in DOMAIN timeline[o] :
           timeline[o][i].to = "CANCELLED" => timeline[o][i].by \in Staff
    BY <1>1 DEF HistoryOf, TrailOf
  <1>6. \A i \in DOMAIN timeline'[o] :
           timeline'[o][i].to = "CANCELLED" => timeline'[o][i].by \in Staff
    BY <1>1, <1>5, AppendFacts
  <1>7. money'[o] = <<"PAID", "REFUNDED">>
    <2>1. money[o] = <<"PAID">>
      BY <1>1 DEF HistoryOf, TrailOf
    <2>2. money'[o] = Append(<<"PAID">>, "REFUNDED")
      BY <1>1, <2>1
    <2> QED BY <2>2, AppendToOne
  <1>8. TrailOf(o)'
    BY <1>2, <1>6, <1>7 DEF TrailOf, Exists
  <1> QED BY <1>3, <1>4, <1>8 DEF HistoryOf

LEMMA HistoryStep ==
  ASSUME OrdersAssumption, TypeOK, ReadsSound, History, [Next]_vars
  PROVE  History'
  <1> SUFFICES ASSUME NEW p \in Orders PROVE HistoryOf(p)'
    BY DEF History
  <1>0. HistoryOf(p) /\ MoneyTrailIsExact
    BY HistorySplits DEF History
  <1>1. ASSUME NEW o \in Orders, OthersKept(o), p # o PROVE HistoryOf(p)'
    BY <1>0, <1>1, HistoryKept DEF OthersKept
  <1>2. CASE UNCHANGED <<order, timeline, money>>
    BY <1>0, <1>2, HistoryKept
  <1>3. ASSUME NEW o \in Orders, PlacedNew(o) PROVE HistoryOf(p)'
    BY <1>0, <1>1, <1>3, PlacedHistory DEF PlacedNew
  <1>4. ASSUME NEW o \in Orders, PaidInPlace(o) PROVE HistoryOf(p)'
    BY <1>0, <1>1, <1>4, PaidHistory DEF PaidInPlace, Becomes
  <1>5. ASSUME NEW o \in Orders, NEW to \in OrderStatus, NEW by \in Actor, Advanced(o, to, by)
        PROVE  HistoryOf(p)'
    BY <1>0, <1>1, <1>5, AdvancedHistory DEF Advanced, Becomes
  <1>6. ASSUME NEW o \in Orders, NEW by \in Actor, Cancelled(o, by) PROVE HistoryOf(p)'
    BY <1>0, <1>1, <1>6, CancelledHistory DEF Cancelled, Becomes
  <1>7. ASSUME NEW o \in Orders, NEW by \in Staff, RefundedOnce(o, by) PROVE HistoryOf(p)'
    BY <1>0, <1>1, <1>7, RefundedHistory DEF RefundedOnce, Becomes
  <1> QED BY <1>0, <1>2, <1>3, <1>4, <1>5, <1>6, <1>7, OrderSteps

OrdersInv == TypeOK /\ ReadsSound /\ ShelvesCounted /\ History

LEMMA OrdersInvInit == OrdersAssumption /\ Init => OrdersInv
  <1> SUFFICES ASSUME OrdersAssumption, Init PROVE OrdersInv
    OBVIOUS
  <1>1. TypeOK
    <2>1. order \in [Orders -> Row \cup {NoOrder}]
      BY DEF Init
    <2>2. stock \in [Products -> Nat] /\ received \in [Products -> Nat]
      BY DEF Init, OrdersAssumption
    <2>3. timeline \in [Orders -> Seq(Event)] /\ money \in [Orders -> Seq({"PAID", "REFUNDED"})]
      BY DEF Init
    <2>4. req \in [Requests -> Request]
      BY DEF Init, Request
    <2> QED BY <2>1, <2>2, <2>3, <2>4 DEF TypeOK
  <1>2. ReadsSound
    BY DEF Init, ReadsSound, Sound, Idle
  <1>3. ShelvesCounted
    BY <1>1 DEF Init, ShelvesCounted, TypeOK
  <1>4. History
    BY DEF Init, History, HistoryOf, PathOf, RecordOf, TrailOf, Exists
  <1> QED BY <1>1, <1>2, <1>3, <1>4 DEF OrdersInv

LEMMA OrdersInvStep == OrdersAssumption /\ OrdersInv /\ [Next]_vars => OrdersInv'
  <1> SUFFICES ASSUME OrdersAssumption, OrdersInv, [Next]_vars PROVE OrdersInv'
    OBVIOUS
  <1>1. TypeOK /\ ReadsSound /\ ShelvesCounted /\ History /\ MoneyTrailIsExact
    BY HistorySplits DEF OrdersInv
  <1> QED BY <1>1, TypeStep, ReqStep, ShelvesStep, HistoryStep DEF OrdersInv

LEMMA OrdersInvAlways == Spec => []OrdersInv
  BY OrdersInvInit, OrdersInvStep, OrdersAssumption, PTL DEF Spec

\* Every reachable state is well typed: no shelf goes below zero, every timeline
\* is a sequence of events, and a request holds what its handler read.
THEOREM TypeCorrect == Spec => []TypeOK
  <1>1. OrdersInv => TypeOK
    BY DEF OrdersInv
  <1> QED BY <1>1, OrdersInvAlways, PTL

\* The timeline of an order is its path through the lifecycle, entry by entry,
\* whichever of the overlapping requests commit first.
THEOREM TimelineHolds == Spec => []TimelineIsThePath
  <1>1. OrdersInv => TimelineIsThePath
    BY HistorySplits DEF OrdersInv
  <1> QED BY <1>1, OrdersInvAlways, PTL

\* Money is taken once and given back once, and the trail says so; an order that
\* was cancelled with its payment recorded was cancelled by staff.
THEOREM MoneyIsExact == Spec => []MoneyTrailIsExact
  <1>1. OrdersInv => MoneyTrailIsExact
    BY HistorySplits DEF OrdersInv
  <1> QED BY <1>1, OrdersInvAlways, PTL

-----------------------------------------------------------------------------
(***************************************************************************)
(* The order book.  A commit writes one row of the book, the way one of    *)
(* the book's steps does; everything else leaves the book alone.           *)
(***************************************************************************)
TheBook == [o \in Orders |-> BookRow(o)]

\* An order as the book has it, and what the book's steps make of the book.
Sale(o, status, payment, by) ==
  [ status |-> status, payment |-> payment, onDelivery |-> order[o].onDelivery,
    items |-> order[o].items, cancelledBy |-> by ]

WithSale(o, sale)              == [TheBook EXCEPT ![o] = sale]
WithStatus(o, status)          == [TheBook EXCEPT ![o].status = status]
WithPayment(o, payment)        == [TheBook EXCEPT ![o].payment = payment]
WithRelease(o, payment, status) ==
  [TheBook EXCEPT ![o].payment = payment, ![o].status = status]
WithCollection(o, status, payment) ==
  [TheBook EXCEPT ![o].status = status, ![o].payment = payment]
WithCancellation(o, status, by) ==
  [TheBook EXCEPT ![o].status = status, ![o].cancelledBy = by]

\* The entries of a timeline that are cancellations.
Cancellations(t) == {i \in DOMAIN t : t[i].to = "CANCELLED" /\ t[i].from # "CANCELLED"}

LEMMA CancellerKept ==
  ASSUME TypeOK, NEW o \in Orders, NEW from \in OrderStatus \cup {"NONE"},
         NEW to \in OrderStatus, NEW by \in Actor, Recorded(o, from, to, by),
         to # "CANCELLED" \/ from = "CANCELLED"
  PROVE  CancelledBy(o)' = CancelledBy(o)
  <1> DEFINE t == timeline[o]
             u == timeline'[o]
             e == [from |-> from, to |-> to, by |-> by]
  <1>1. t \in Seq(Event) /\ e \in Event /\ u = Append(t, e)
    BY DEF TypeOK, Event, Recorded
  <1>2. /\ DOMAIN u = 1..Len(t) + 1 /\ DOMAIN t = 1..Len(t) /\ Len(t) \in Nat
        /\ u[Len(t) + 1] = e /\ \A i \in 1..Len(t) : u[i] = t[i]
    BY <1>1, AppendFacts
  <1>3. ~(e.to = "CANCELLED" /\ e.from # "CANCELLED")
    OBVIOUS
  <1> HIDE DEF t, u, e
  <1>4. Cancellations(u) = Cancellations(t) /\ \A i \in Cancellations(t) : u[i] = t[i]
    BY <1>2, <1>3 DEF Cancellations
  <1> QED BY <1>4 DEF CancelledBy, Cancellations, t, u

LEMMA CancellerNamed ==
  ASSUME TypeOK, NEW o \in Orders, NEW from \in OrderStatus, NEW by \in Actor,
         Recorded(o, from, "CANCELLED", by), from # "CANCELLED",
         \A i \in DOMAIN timeline[o] : timeline[o][i].to # "CANCELLED"
  PROVE  CancelledBy(o)' = IF by = "CUSTOMER" THEN "CUSTOMER" ELSE "STAFF"
  <1> DEFINE t == timeline[o]
             u == timeline'[o]
             e == [from |-> from, to |-> "CANCELLED", by |-> by]
  <1>1. t \in Seq(Event) /\ e \in Event /\ u = Append(t, e)
    BY DEF TypeOK, Event, Recorded, OrderStatus
  <1>2. /\ DOMAIN u = 1..Len(t) + 1 /\ DOMAIN t = 1..Len(t) /\ Len(t) \in Nat
        /\ u[Len(t) + 1] = e /\ \A i \in 1..Len(t) : u[i] = t[i]
    BY <1>1, AppendFacts
  <1>3. e.to = "CANCELLED" /\ e.from # "CANCELLED" /\ e.by = by
        /\ \A i \in DOMAIN t : t[i].to # "CANCELLED"
    OBVIOUS
  <1> HIDE DEF t, u, e
  <1>4. Cancellations(u) = {Len(t) + 1} /\ u[Len(t) + 1].by = by
    BY <1>2, <1>3 DEF Cancellations
  <1> QED BY <1>4 DEF CancelledBy, Cancellations, u

LEMMA NobodyCancelled ==
  ASSUME NEW o \in Orders,
         \A i \in DOMAIN timeline[o] : timeline[o][i].to # "CANCELLED"
  PROVE  CancelledBy(o) = "NOBODY"
  BY DEF CancelledBy

LEMMA RowOfTheBook ==
  ASSUME TypeOK, NEW o \in Orders, Exists(o)
  PROVE  /\ TheBook[o] = Sale(o, order[o].status, order[o].payment, CancelledBy(o))
         /\ TheBook[o] # Book!Unplaced
         /\ order[o] \in Row
  <1>1. order[o] \in Row
    BY DEF TypeOK, Exists
  <1>2. order[o].status # "NONE"
    BY <1>1 DEF Row, OrderStatus
  <1> QED BY <1>1, <1>2 DEF TheBook, BookRow, Sale, Book!Unplaced

\* The book after a write to one order.
LEMMA BookWritten ==
  ASSUME TypeOK, NEW o \in Orders, NEW status \in OrderStatus, NEW payment,
         Becomes(o, status, payment)
  PROVE  TheBook' = WithSale(o, Sale(o, status, payment, CancelledBy(o)'))
  <1>1. order[o] \in Row
    BY DEF Becomes, Exists, TypeOK
  <1>2. /\ order'[o].status = status /\ order'[o].payment = payment
        /\ order'[o].onDelivery = order[o].onDelivery /\ order'[o].items = order[o].items
    BY <1>1 DEF Becomes, Row
  <1>3. order'[o] # NoOrder
    BY <1>2 DEF NoOrder, OrderStatus
  <1>4. BookRow(o)' = [ status |-> status, payment |-> payment,
                        onDelivery |-> order[o].onDelivery, items |-> order[o].items,
                        cancelledBy |-> CancelledBy(o)' ]
    BY <1>2, <1>3 DEF BookRow, Exists
  <1>5. \A p \in Orders \ {o} : BookRow(p)' = BookRow(p)
    BY DEF Becomes, OthersKept, BookRow, Exists, CancelledBy
  <1> QED BY <1>4, <1>5 DEF TheBook, WithSale, Sale

LEMMA BookUntouched ==
  ASSUME UNCHANGED <<order, timeline>>
  PROVE  TheBook' = TheBook
  BY DEF TheBook, BookRow, Exists, CancelledBy

LEMMA PlaceRefines ==
  ASSUME TypeOK, NEW o \in Orders, HistoryOf(o), PlacedNew(o), stock' = stock
  PROVE  Book!Place(o)
  <1>1. /\ order'[o] \in Row /\ order'[o].status \in {"PENDING_PAYMENT", "CONFIRMED"}
        /\ order'[o].payment = "UNPAID" /\ order'[o] # NoOrder
    BY DEF PlacedNew, NoOrder
  <1>2. CancelledBy(o)' = "NOBODY"
    <2>1. timeline[o] = <<>>
      BY DEF PlacedNew, HistoryOf, PathOf
    <2>2. CancelledBy(o) = "NOBODY"
      BY <2>1, NobodyCancelled
    <2>3. CancelledBy(o)' = CancelledBy(o)
      BY <1>1, CancellerKept DEF PlacedNew, Actor, OrderStatus
    <2> QED BY <2>2, <2>3
  <1>3. BookRow(o)' = [ status |-> order'[o].status, payment |-> "UNPAID",
                        onDelivery |-> order'[o].onDelivery, items |-> order'[o].items,
                        cancelledBy |-> "NOBODY" ]
    BY <1>1, <1>2 DEF BookRow, Exists
  <1>4. \A p \in Orders \ {o} : BookRow(p)' = BookRow(p)
    BY DEF PlacedNew, OthersKept, BookRow, Exists, CancelledBy
  <1>5. TheBook' = [TheBook EXCEPT ![o] = BookRow(o)']
    BY <1>4 DEF TheBook
  <1>6. TheBook[o] = Book!Unplaced
    BY DEF TheBook, BookRow, PlacedNew, Book!Unplaced
  <1>7. order'[o].items \in Baskets /\ order'[o].onDelivery \in BOOLEAN
    BY <1>1 DEF Row
  <1>8. ~Book!Placed(o)
    BY <1>6 DEF Book!Placed, TheBook
  <1>9. \E items \in Baskets, onDelivery \in BOOLEAN,
           status \in {"PENDING_PAYMENT", "CONFIRMED"} :
          TheBook' = [TheBook EXCEPT ![o] =
            [ status |-> status, payment |-> "UNPAID", onDelivery |-> onDelivery,
              items |-> items, cancelledBy |-> "NOBODY" ]]
    BY <1>1, <1>3, <1>5, <1>7
  <1> QED BY <1>8, <1>9 DEF Book!Place, TheBook

\* The order book has the workflow maps of the orders.
LEMMA SameRules ==
  ASSUME NEW status, NEW to, NEW payment
  PROVE  /\ Book!CanTransition(Book!OrderTransitions, status, to)
              <=> CanTransition(OrderTransitions, status, to)
         /\ Book!IsCustomerCancellable(status, payment) <=> IsCustomerCancellable(status, payment)
         /\ Book!IsRefundDue(status, payment) <=> IsRefundDue(status, payment)
  BY DEF Book!CanTransition, CanTransition, Book!OrderTransitions, OrderTransitions,
     Book!IsCustomerCancellable, IsCustomerCancellable, Book!IsRefundDue, IsRefundDue

\* The book's steps, with the book by its name.
LEMMA FormOfMayBecome ==
  ASSUME NEW o, NEW to
  PROVE  Book!MayBecome(o, to) <=>
           /\ TheBook[o] # Book!Unplaced
           /\ CanTransition(OrderTransitions, TheBook[o].status, to)
  BY SameRules DEF TheBook, Book!MayBecome, Book!Placed

LEMMA FormOfPay ==
  ASSUME NEW o
  PROVE  Book!Pay(o) <=>
           /\ TheBook[o] # Book!Unplaced /\ TheBook[o].payment = "UNPAID"
           /\ TheBook[o].status # "CANCELLED"
           /\ TheBook' = WithRelease(o, "PAID", IF TheBook[o].status = "PENDING_PAYMENT"
                                                THEN "CONFIRMED" ELSE TheBook[o].status)
           /\ stock' = stock
  BY DEF TheBook, WithRelease, Book!Placed, Book!Pay

LEMMA FormOfDeliver ==
  ASSUME NEW o
  PROVE  Book!Deliver(o) <=>
           /\ Book!MayBecome(o, "DELIVERED")
           /\ TheBook' = WithCollection(o, "DELIVERED", IF TheBook[o].onDelivery THEN "PAID"
                                                        ELSE TheBook[o].payment)
           /\ stock' = stock
  BY DEF TheBook, WithCollection, Book!Deliver

LEMMA FormOfCancel ==
  ASSUME NEW o, NEW by
  PROVE  Book!Cancel(o, by) <=>
           /\ Book!MayBecome(o, "CANCELLED")
           /\ by = "CUSTOMER" => IsCustomerCancellable(TheBook[o].status, TheBook[o].payment)
           /\ TheBook' = WithCancellation(o, "CANCELLED", by)
           /\ stock' = stock
  BY SameRules DEF TheBook, WithCancellation, Book!Cancel

LEMMA FormOfRefund ==
  ASSUME NEW o
  PROVE  Book!Refund(o) <=>
           /\ TheBook[o] # Book!Unplaced
           /\ IsRefundDue(TheBook[o].status, TheBook[o].payment)
           /\ TheBook' = WithPayment(o, "REFUNDED")
           /\ stock' = stock
  BY SameRules DEF TheBook, WithPayment, Book!Placed, Book!Refund

\* Changing fields of a sale of the book is replacing the sale.
LEMMA BookEdits ==
  ASSUME NEW o \in Orders, NEW status, NEW payment, NEW by,
         TheBook[o] = Sale(o, status, payment, by), NEW s, NEW p, NEW c
  PROVE  /\ WithStatus(o, s) = WithSale(o, Sale(o, s, payment, by))
         /\ WithPayment(o, p) = WithSale(o, Sale(o, status, p, by))
         /\ WithCollection(o, s, p) = WithSale(o, Sale(o, s, p, by))
         /\ WithRelease(o, p, s) = WithSale(o, Sale(o, s, p, by))
         /\ WithCancellation(o, s, c) = WithSale(o, Sale(o, s, payment, c))
  <1>0. TheBook = [q \in Orders |-> TheBook[q]]
    BY DEF TheBook
  <1>1. WithStatus(o, s) = WithSale(o, Sale(o, s, payment, by))
    <2> DEFINE x == [TheBook[o] EXCEPT !.status = s]
    <2>1. WithStatus(o, s) = WithSale(o, x)
      BY <1>0 DEF WithStatus, WithSale
    <2>2. x = Sale(o, s, payment, by)
      BY DEF Sale
    <2> HIDE DEF x
    <2> QED BY <2>1, <2>2
  <1>2. WithPayment(o, p) = WithSale(o, Sale(o, status, p, by))
    <2> DEFINE x == [TheBook[o] EXCEPT !.payment = p]
    <2>1. WithPayment(o, p) = WithSale(o, x)
      BY <1>0 DEF WithPayment, WithSale
    <2>2. x = Sale(o, status, p, by)
      BY DEF Sale
    <2> HIDE DEF x
    <2> QED BY <2>1, <2>2
  <1>3. WithCollection(o, s, p) = WithSale(o, Sale(o, s, p, by))
    <2> DEFINE one == [TheBook[o] EXCEPT !.status = s]
               two == [one EXCEPT !.payment = p]
               x   == [TheBook[o] EXCEPT !.status = s, !.payment = p]
    <2>1. WithCollection(o, s, p) = WithSale(o, x)
      BY <1>0 DEF WithCollection, WithSale
    <2>2. one = Sale(o, s, payment, by)
      BY DEF Sale
    <2>3. x = two
      OBVIOUS
    <2>4. two = Sale(o, s, p, by)
      <3> HIDE DEF one
      <3> QED BY <2>2 DEF Sale
    <2> HIDE DEF x, one, two
    <2> QED BY <2>1, <2>3, <2>4
  <1>4. WithRelease(o, p, s) = WithSale(o, Sale(o, s, p, by))
    <2> DEFINE one == [TheBook[o] EXCEPT !.payment = p]
               two == [one EXCEPT !.status = s]
               x   == [TheBook[o] EXCEPT !.payment = p, !.status = s]
    <2>1. WithRelease(o, p, s) = WithSale(o, x)
      BY <1>0 DEF WithRelease, WithSale
    <2>2. one = Sale(o, status, p, by)
      BY DEF Sale
    <2>3. x = two
      OBVIOUS
    <2>4. two = Sale(o, s, p, by)
      <3> HIDE DEF one
      <3> QED BY <2>2 DEF Sale
    <2> HIDE DEF x, one, two
    <2> QED BY <2>1, <2>3, <2>4
  <1>5. WithCancellation(o, s, c) = WithSale(o, Sale(o, s, payment, c))
    <2> DEFINE one == [TheBook[o] EXCEPT !.status = s]
               two == [one EXCEPT !.cancelledBy = c]
               x   == [TheBook[o] EXCEPT !.status = s, !.cancelledBy = c]
    <2>1. WithCancellation(o, s, c) = WithSale(o, x)
      BY <1>0 DEF WithCancellation, WithSale
    <2>2. one = Sale(o, s, payment, by)
      BY DEF Sale
    <2>3. x = two
      OBVIOUS
    <2>4. two = Sale(o, s, payment, c)
      <3> HIDE DEF one
      <3> QED BY <2>2 DEF Sale
    <2> HIDE DEF x, one, two
    <2> QED BY <2>1, <2>3, <2>4
  <1> QED BY <1>1, <1>2, <1>3, <1>4, <1>5

\* What a guarded MOVE writes, as the book sees it.
LEMMA MoveInBook ==
  ASSUME TypeOK, ReadsSound, NEW r \in Requests, req[r].op = "MOVE", AsRead(r),
         NEW payment, Moved(r, payment),
         \A p \in Orders \ {req[r].order} : money'[p] = money[p]
  PROVE  LET o == req[r].order IN
         /\ o \in Orders /\ Exists(o) /\ order[o] \in Row /\ order[o].payment = req[r].paid
         /\ Book!MayBecome(o, req[r].to)
         /\ TheBook[o] = Sale(o, order[o].status, order[o].payment, CancelledBy(o))
         /\ TheBook' = WithSale(o, Sale(o, req[r].to, payment, CancelledBy(o)))
  <1>0. PICK o \in Orders : o = req[r].order
    BY AsReadRow DEF ByOrder
  <1>1. /\ o \in Orders /\ Exists(o) /\ order[o] \in Row /\ order[o].status \in OrderStatus
        /\ req[r].by \in Actor /\ req[r].to \in OrderStatus /\ order[o].payment = req[r].paid
    BY <1>0, AsReadRow DEF ByOrder, Row
  <1>2. /\ CanTransition(OrderTransitions, order[o].status, req[r].to) /\ req[r].to # "CANCELLED"
        /\ Recorded(o, order[o].status, req[r].to, req[r].by)
        /\ Becomes(o, req[r].to, payment)
    BY <1>0, MovedRow
  <1>3. CancelledBy(o)' = CancelledBy(o)
    BY <1>0, <1>1, <1>2, CancellerKept
  <1>4. /\ TheBook[o] = Sale(o, order[o].status, order[o].payment, CancelledBy(o))
        /\ TheBook[o] # Book!Unplaced
    BY <1>0, <1>1, RowOfTheBook
  <1>5. Book!MayBecome(o, req[r].to)
    BY <1>2, <1>4, FormOfMayBecome DEF Sale
  <1>6. TheBook' = WithSale(o, Sale(o, req[r].to, payment, CancelledBy(o)'))
    BY <1>0, <1>1, <1>2, BookWritten
  <1> QED BY <1>0, <1>1, <1>3, <1>4, <1>5, <1>6

LEMMA MoveRefines ==
  ASSUME TypeOK, ReadsSound, NEW r \in Requests, CommitMove(r)
  PROVE  Book!Advance(req[r].order)
  <1>0. PICK o \in Orders : o = req[r].order
    BY AsReadRow DEF ByOrder, CommitMove
  <1>1. /\ req[r].op = "MOVE" /\ AsRead(r) /\ Moved(r, req[r].paid) /\ money' = money
        /\ req[r].to \in {"CONFIRMED", "PROCESSING"} /\ stock' = stock
    BY <1>0 DEF CommitMove
  <1>2. /\ o \in Orders /\ order[o].payment = req[r].paid /\ Book!MayBecome(o, req[r].to)
        /\ TheBook[o] = Sale(o, order[o].status, order[o].payment, CancelledBy(o))
        /\ TheBook' = WithSale(o, Sale(o, req[r].to, req[r].paid, CancelledBy(o)))
    BY <1>0, <1>1, MoveInBook
  <1>3. TheBook' = WithStatus(o, req[r].to)
    BY <1>2, BookEdits
  <1> QED BY <1>0, <1>1, <1>2, <1>3 DEF Book!Advance, TheBook, WithStatus

LEMMA DispatchRefines ==
  ASSUME TypeOK, ReadsSound, NEW r \in Requests, CommitDispatch(r)
  PROVE  Book!Dispatch(req[r].order)
  <1>0. PICK o \in Orders : o = req[r].order
    BY AsReadRow DEF ByOrder, CommitDispatch
  <1> DEFINE items == order[o].items
  <1>1. /\ req[r].op = "MOVE" /\ AsRead(r) /\ Moved(r, req[r].paid) /\ money' = money
        /\ req[r].to = "DISPATCHED" /\ Enough(items)
        /\ stock' = [p \in Products |-> stock[p] - items[p]]
    BY <1>0 DEF CommitDispatch
  <1>2. /\ o \in Orders /\ order[o].payment = req[r].paid /\ Book!MayBecome(o, "DISPATCHED")
        /\ TheBook[o] = Sale(o, order[o].status, order[o].payment, CancelledBy(o))
        /\ TheBook' = WithSale(o, Sale(o, "DISPATCHED", req[r].paid, CancelledBy(o)))
    BY <1>0, <1>1, MoveInBook
  <1> HIDE DEF items
  <1>3. TheBook' = WithStatus(o, "DISPATCHED")
    BY <1>2, BookEdits
  <1>4. TheBook[o].items = items
    BY <1>2 DEF Sale, items
  <1>5. Book!Enough(TheBook[o].items)
    BY <1>0, <1>1, <1>4 DEF Enough, Book!Enough
  <1>6. stock' = [p \in Products |-> stock[p] - TheBook[o].items[p]]
    BY <1>1, <1>4
  <1> QED BY <1>0, <1>2, <1>3, <1>5, <1>6 DEF Book!Dispatch, TheBook, WithStatus

\* Cash on delivery is collected unless it was already paid; and an order on
\* its way is not refunded.
LEMMA DeliverRefines ==
  ASSUME TypeOK, ReadsSound, History, NEW r \in Requests, CommitDeliver(r)
  PROVE  Book!Deliver(req[r].order)
  <1>0. PICK o \in Orders : o = req[r].order
    BY AsReadRow DEF ByOrder, CommitDeliver
  <1> DEFINE payment == IF Collects(r) THEN "PAID" ELSE req[r].paid
  <1>1. /\ req[r].op = "MOVE" /\ AsRead(r) /\ Moved(r, payment) /\ req[r].to = "DELIVERED"
        /\ stock' = stock
        /\ money' = IF Collects(r) THEN [money EXCEPT ![o] = Append(@, "PAID")] ELSE money
    BY <1>0 DEF CommitDeliver
  <1>2. \A p \in Orders \ {o} : money'[p] = money[p]
    BY <1>0, <1>1 DEF TypeOK
  <1>3. /\ o \in Orders /\ Exists(o) /\ order[o] \in Row /\ order[o].payment = req[r].paid
        /\ Book!MayBecome(o, "DELIVERED")
        /\ TheBook[o] = Sale(o, order[o].status, order[o].payment, CancelledBy(o))
        /\ TheBook' = WithSale(o, Sale(o, "DELIVERED", payment, CancelledBy(o)))
    BY <1>0, <1>1, <1>2, MoveInBook
  <1>4. order[o].payment # "REFUNDED"
    <2>1. CanTransition(OrderTransitions, order[o].status, "DELIVERED")
      BY <1>3, FormOfMayBecome DEF Sale
    <2> QED BY <1>3, <2>1 DEF History, HistoryOf, TrailOf, CanTransition, OrderTransitions
  <1>5. payment = IF order[o].onDelivery THEN "PAID" ELSE order[o].payment
    BY <1>0, <1>3, <1>4 DEF Collects, Row, PaymentStatus
  <1> HIDE DEF payment
  <1>6. payment = IF TheBook[o].onDelivery THEN "PAID" ELSE TheBook[o].payment
    BY <1>3, <1>5 DEF Sale
  <1>7. TheBook' = WithCollection(o, "DELIVERED", payment)
    BY <1>3, BookEdits
  <1>8. Book!Deliver(o)
    BY <1>1, <1>3, <1>6, <1>7, FormOfDeliver
  <1> QED BY <1>0, <1>8

LEMMA CancelRefines ==
  ASSUME OrdersAssumption, TypeOK, ReadsSound, History, NEW r \in Requests, CommitCancel(r)
  PROVE  \E by \in Book!Parties : Book!Cancel(req[r].order, by)
  <1>0. PICK o \in Orders : o = req[r].order
    BY AsReadRow DEF ByOrder, CommitCancel
  <1> DEFINE by == IF req[r].by = "CUSTOMER" THEN "CUSTOMER" ELSE "STAFF"
  <1>1. o \in Orders /\ req[r].by \in Actor /\ Cancelled(o, req[r].by) /\ stock' = stock
    BY <1>0, CancelCancels DEF CommitCancel
  <1>2. /\ Exists(o) /\ CanTransition(OrderTransitions, order[o].status, "CANCELLED")
        /\ Becomes(o, "CANCELLED", order[o].payment)
        /\ Recorded(o, order[o].status, "CANCELLED", req[r].by)
    BY <1>0, <1>1 DEF Cancelled, Becomes
  <1>3. order[o].status # "CANCELLED" /\ order[o].status \in OrderStatus
        /\ "CANCELLED" \in OrderStatus
    BY <1>0, <1>1, <1>2 DEF CanTransition, OrderTransitions, TypeOK, Exists, Row, OrderStatus
  <1>4. \A i \in DOMAIN timeline[o] : timeline[o][i].to # "CANCELLED"
    BY <1>0, <1>1, <1>2, <1>3 DEF History, HistoryOf, RecordOf
  <1>5. CancelledBy(o)' = by
    BY <1>0, <1>1, <1>2, <1>3, <1>4, CancellerNamed
  <1>6. by = "CUSTOMER" => IsCustomerCancellable(order[o].status, order[o].payment)
    BY <1>0, <1>1 DEF Cancelled, OrdersAssumption
  <1>7. by \in Book!Parties
    BY <1>0 DEF Book!Parties
  <1> HIDE DEF by
  <1>8. /\ TheBook[o] = Sale(o, order[o].status, order[o].payment, CancelledBy(o))
        /\ TheBook[o] # Book!Unplaced
    BY <1>0, <1>1, <1>2, RowOfTheBook
  <1>9. TheBook' = WithSale(o, Sale(o, "CANCELLED", order[o].payment, by))
    BY <1>0, <1>1, <1>2, <1>3, <1>5, BookWritten
  <1>10. TheBook' = WithCancellation(o, "CANCELLED", by)
    BY <1>8, <1>9, BookEdits
  <1>11. Book!MayBecome(o, "CANCELLED")
    BY <1>2, <1>8, FormOfMayBecome DEF Sale
  <1>12. by = "CUSTOMER" => IsCustomerCancellable(TheBook[o].status, TheBook[o].payment)
    BY <1>6, <1>8 DEF Sale
  <1>13. Book!Cancel(o, by)
    BY <1>1, <1>10, <1>11, <1>12, FormOfCancel
  <1> QED BY <1>0, <1>7, <1>13

LEMMA PayRefines ==
  ASSUME TypeOK, ReadsSound, History, NEW r \in Requests, CommitPay(r)
  PROVE  Book!Pay(req[r].order)
  <1>0. PICK o \in Orders : o = req[r].order
    BY AsReadRow DEF ByOrder, CommitPay
  <1> DEFINE to == IF order[o].status = "PENDING_PAYMENT" THEN "CONFIRMED" ELSE order[o].status
  <1>1. /\ o \in Orders /\ req[r].by \in Staff /\ stock' = stock /\ order[o].payment = "UNPAID"
        /\ \/ /\ order[o].status = "PENDING_PAYMENT"
              /\ Advanced(o, "CONFIRMED", req[r].by) /\ order'[o].payment = "PAID"
           \/ PaidInPlace(o)
    BY <1>0, PayPays, HistorySplits DEF CommitPay
  <1>2. Exists(o)
    BY <1>0, <1>1 DEF Advanced, PaidInPlace, Becomes
  <1>3. order[o] \in Row /\ order[o].status \in OrderStatus /\ order[o].status # "CANCELLED"
        /\ to \in OrderStatus
    BY <1>0, <1>1, <1>2 DEF TypeOK, Exists, Row, PaidInPlace, OrderStatus
  <1>4. Becomes(o, to, "PAID")
    BY <1>0, <1>1, <1>3 DEF Advanced, PaidInPlace, Becomes, Row
  <1>5. CancelledBy(o)' = CancelledBy(o)
    <2>1. CASE PaidInPlace(o)
      BY <1>0, <2>1 DEF PaidInPlace, CancelledBy
    <2>2. CASE Advanced(o, "CONFIRMED", req[r].by)
      BY <1>0, <1>1, <1>3, <2>2, CancellerKept DEF Advanced, Actor, OrderStatus
    <2> QED BY <1>0, <1>1, <2>1, <2>2
  <1> HIDE DEF to
  <1>6. /\ TheBook[o] = Sale(o, order[o].status, order[o].payment, CancelledBy(o))
        /\ TheBook[o] # Book!Unplaced
    BY <1>0, <1>1, <1>2, RowOfTheBook
  <1>7. TheBook' = WithSale(o, Sale(o, to, "PAID", CancelledBy(o)))
    BY <1>0, <1>1, <1>3, <1>4, <1>5, BookWritten
  <1>8. TheBook' = WithRelease(o, "PAID", to)
    BY <1>6, <1>7, BookEdits
  <1>9. /\ TheBook[o].payment = "UNPAID" /\ TheBook[o].status # "CANCELLED"
        /\ to = IF TheBook[o].status = "PENDING_PAYMENT" THEN "CONFIRMED" ELSE TheBook[o].status
    BY <1>1, <1>3, <1>6 DEF Sale, to
  <1>10. Book!Pay(o)
    BY <1>1, <1>6, <1>8, <1>9, FormOfPay
  <1> QED BY <1>0, <1>10

LEMMA RefundRefines ==
  ASSUME TypeOK, ReadsSound, NEW r \in Requests, CommitRefund(r)
  PROVE  Book!Refund(req[r].order)
  <1>0. PICK o \in Orders : o = req[r].order
    BY AsReadRow DEF ByOrder, CommitRefund
  <1>1. o \in Orders /\ req[r].by \in Staff /\ RefundedOnce(o, req[r].by) /\ stock' = stock
    BY <1>0, RefundRefunds DEF CommitRefund
  <1>2. /\ Exists(o) /\ order[o].payment = "PAID" /\ order[o].status = "CANCELLED"
        /\ Recorded(o, "CANCELLED", "CANCELLED", req[r].by)
        /\ Becomes(o, "CANCELLED", "REFUNDED")
    BY <1>0, <1>1 DEF RefundedOnce, Becomes
  <1>3. "CANCELLED" \in OrderStatus /\ req[r].by \in Actor
    BY <1>0, <1>1 DEF OrderStatus, Actor
  <1>4. CancelledBy(o)' = CancelledBy(o)
    BY <1>0, <1>1, <1>2, <1>3, CancellerKept
  <1>5. /\ TheBook[o] = Sale(o, order[o].status, order[o].payment, CancelledBy(o))
        /\ TheBook[o] # Book!Unplaced
    BY <1>0, <1>1, <1>2, RowOfTheBook
  <1>6. TheBook' = WithSale(o, Sale(o, "CANCELLED", "REFUNDED", CancelledBy(o)))
    BY <1>0, <1>1, <1>2, <1>3, <1>4, BookWritten
  <1>7. TheBook' = WithPayment(o, "REFUNDED")
    BY <1>2, <1>5, <1>6, BookEdits
  <1>8. IsRefundDue(TheBook[o].status, TheBook[o].payment)
    BY <1>2, <1>5 DEF IsRefundDue, Sale
  <1>9. Book!Refund(o)
    BY <1>1, <1>5, <1>7, <1>8, FormOfRefund
  <1> QED BY <1>0, <1>9

LEMMA InitRefines == Init => Book!BookInit
  BY DEF Init, Book!BookInit, BookRow, Exists, Book!Unplaced

LEMMA StepRefines ==
  ASSUME OrdersAssumption, OrdersInv, [Next]_vars
  PROVE  [Book!BookNext]_(Book!bookVars)
  <1>0. TypeOK /\ ReadsSound /\ History
    BY DEF OrdersInv
  <1> DEFINE Goal == \/ Book!BookNext
                     \/ TheBook' = TheBook /\ stock' = stock
  <1>1. ASSUME UNCHANGED <<order, timeline, stock>> PROVE Goal
    BY <1>1, BookUntouched
  <1>2. ASSUME NEW r \in Requests, Begin(r) PROVE UNCHANGED <<order, timeline, stock>>
    BY <1>2 DEF Begin, BeginCheckout, BeginCancel, TakesCancellation, BeginPay, TakesPayment, BeginRefund, TakesRefund, BeginMove, TakesMove, Decide
  <1>3. ASSUME NEW r \in Requests, RefuseDispatch(r) \/ Conflict(r)
        PROVE  UNCHANGED <<order, timeline, stock>>
    BY <1>3 DEF RefuseDispatch, Conflict
  <1>4. ASSUME NEW o \in Orders, PlacedNew(o), stock' = stock PROVE Goal
    <2>1. Book!Place(o)
      BY <1>0, <1>4, PlaceRefines DEF History
    <2> QED BY <2>1 DEF Book!BookNext
  <1>5. ASSUME NEW r \in Requests, NEW o \in Orders, CommitCheckout(r, o) PROVE Goal
    <2>1. req[r].items \in Baskets
      BY <1>0, <1>5, RequestByOp DEF CommitCheckout, TypeOK
    <2>2. PlacedNew(o) /\ stock' = stock
      BY <1>0, <1>5, <2>1, InsertPlaces DEF CommitCheckout
    <2> QED BY <1>4, <2>2
  <1>6. ASSUME NEW o \in Orders, PlaceFromQuotation(o) PROVE Goal
    <2>1. PlacedNew(o) /\ stock' = stock
      BY <1>0, <1>6, InsertPlaces DEF PlaceFromQuotation
    <2> QED BY <1>4, <2>1
  <1>7. ASSUME NEW r \in Requests, CommitMove(r) \/ CommitDispatch(r) \/ CommitDeliver(r) PROVE Goal
    <2>1. req[r].order \in Orders
      BY <1>0, <1>7, MoveAdvances
    <2> QED BY <1>0, <1>7, <2>1, MoveRefines, DispatchRefines, DeliverRefines DEF Book!BookNext
  <1>8. ASSUME NEW r \in Requests, CommitCancel(r) PROVE Goal
    BY <1>0, <1>8, CancelCancels, CancelRefines DEF Book!BookNext
  <1>9. ASSUME NEW r \in Requests, CommitPay(r) PROVE Goal
    BY <1>0, <1>9, PayPays, PayRefines, HistorySplits DEF Book!BookNext
  <1>10. ASSUME NEW r \in Requests, CommitRefund(r) PROVE Goal
    BY <1>0, <1>10, RefundRefunds, RefundRefines DEF Book!BookNext
  <1>11. ASSUME NEW p \in Products, NEW n \in Counts, AdjustStock(p, n) PROVE Goal
    <2>1. stock' = [stock EXCEPT ![p] = n] /\ TheBook' = TheBook
      BY <1>11, BookUntouched DEF AdjustStock
    <2>2. Book!Count(p)
      BY <2>1 DEF Book!Count, TheBook
    <2> QED BY <2>2 DEF Book!BookNext
  <1>12. Goal
    BY <1>1, <1>2, <1>3, <1>5, <1>6, <1>7, <1>8, <1>9, <1>10, <1>11 DEF Next, Commit, vars
  <1> QED BY <1>12 DEF Book!bookVars, TheBook

\* Overlapping requests have the effect of steps taken one after another: every
\* commit is one step of the order book, and everything else is none.
THEOREM OrdersRefineTheBook == Spec => ImplementsOrderBook
  <1>1. OrdersAssumption /\ OrdersInv /\ [Next]_vars => [Book!BookNext]_(Book!bookVars)
    BY StepRefines
  <1> QED BY <1>1, InitRefines, OrdersInvAlways, OrdersAssumption, PTL
         DEF Spec, ImplementsOrderBook, Book!BookSpec

-----------------------------------------------------------------------------
(***************************************************************************)
(* The stock.  What left the warehouse is a sum over the orders that left; *)
(* a dispatch moves one order's items from the shelves into that sum, and  *)
(* nothing else touches either, except a hand count that corrects both     *)
(* sides.                                                                  *)
(***************************************************************************)
LeftOrders == {o \in Orders : Left(o)}

LEMMA ShippedIsASum ==
  ASSUME NEW p
  PROVE  /\ Shipped(p) = SumOf([o \in Orders |-> order[o].items[p]], LeftOrders)
         /\ Shipped(p)' = SumOf([o \in Orders |-> order'[o].items[p]], LeftOrders')
  BY DEF Shipped, LeftOrders, SumOf, MapThenSumSet, MapThenFoldSet

LEMMA LeftOrdersTyped ==
  ASSUME OrdersAssumption, TypeOK
  PROVE  /\ IsFiniteSet(LeftOrders) /\ LeftOrders \subseteq Orders
         /\ \A o \in LeftOrders : order[o] \in Row
         /\ \A o \in LeftOrders, p \in Products : order[o].items[p] \in Nat
  <1>1. LeftOrders \in SUBSET Orders
    BY DEF LeftOrders
  <1>2. IsFiniteSet(LeftOrders)
    BY <1>1, FS_Subset DEF OrdersAssumption
  <1>3. \A o \in LeftOrders : order[o] \in Row
    BY DEF LeftOrders, Left, Exists, TypeOK
  <1> QED BY <1>1, <1>2, <1>3 DEF Row, OrdersAssumption

\* The same orders have left, with the same items.
LEMMA ShippedKept ==
  ASSUME OrdersAssumption, TypeOK, LeftOrders' = LeftOrders,
         \A o \in LeftOrders : order'[o].items = order[o].items,
         NEW p \in Products
  PROVE  Shipped(p)' = Shipped(p)
  <1> DEFINE w == [o \in Orders |-> order[o].items[p]]
             v == [o \in Orders |-> order'[o].items[p]]
  <1>1. \A o \in LeftOrders : w[o] \in Nat /\ w[o] = v[o]
    BY LeftOrdersTyped
  <1>2. IsFiniteSet(LeftOrders) /\ Shipped(p) = SumOf(w, LeftOrders) /\ Shipped(p)' = SumOf(v, LeftOrders)
    BY LeftOrdersTyped, ShippedIsASum
  <1> HIDE DEF w, v
  <1> QED BY <1>1, <1>2, SumSame

\* One order more has left.
LEMMA ShippedGrows ==
  ASSUME OrdersAssumption, TypeOK, NEW o \in Orders, order[o] \in Row, ~Left(o),
         LeftOrders' = LeftOrders \cup {o},
         \A q \in LeftOrders \cup {o} : order'[q].items = order[q].items,
         NEW p \in Products
  PROVE  Shipped(p)' = Shipped(p) + order[o].items[p]
  <1> DEFINE w == [q \in Orders |-> order[q].items[p]]
             v == [q \in Orders |-> order'[q].items[p]]
  <1>1. order[o].items[p] \in Nat
    BY DEF Row, OrdersAssumption
  <1>2. /\ w[o] = order[o].items[p]
        /\ \A q \in LeftOrders \cup {o} : w[q] \in Nat /\ w[q] = v[q]
    BY <1>1, LeftOrdersTyped
  <1>3. /\ Shipped(p) = SumOf(w, LeftOrders)
        /\ Shipped(p)' = SumOf(v, LeftOrders \cup {o})
    BY ShippedIsASum
  <1>4. /\ o \notin LeftOrders /\ IsFiniteSet(LeftOrders)
        /\ IsFiniteSet(LeftOrders \cup {o})
    BY LeftOrdersTyped, FS_AddElement DEF LeftOrders
  <1> HIDE DEF w, v
  <1>5. SumOf(w, LeftOrders \cup {o}) = SumOf(w, LeftOrders) + w[o]
    BY <1>2, <1>4, SumAdd
  <1>6. SumOf(w, LeftOrders \cup {o}) = SumOf(v, LeftOrders \cup {o})
    BY <1>2, <1>4, SumSame
  <1> QED BY <1>2, <1>3, <1>5, <1>6

\* A write that does not dispatch the order: it had left and stays so, or it
\* had not and does not now.
LEMMA LeftKept ==
  ASSUME TypeOK, NEW o \in Orders, OthersKept(o),
         \/ order'[o] \in Row /\ order[o] \in Row /\ order'[o].items = order[o].items
            /\ (order'[o].status \in {"DISPATCHED", "DELIVERED"}
                  <=> order[o].status \in {"DISPATCHED", "DELIVERED"})
         \/ ~Exists(o) /\ order'[o].status \notin {"DISPATCHED", "DELIVERED"}
  PROVE  LeftOrders' = LeftOrders /\ \A q \in LeftOrders : order'[q].items = order[q].items
  <1>1. \A x \in Row : x # NoOrder
    BY DEF Row, NoOrder, OrderStatus
  <1> QED BY <1>1 DEF OthersKept, LeftOrders, Left, Exists

LEMMA StockStep ==
  ASSUME OrdersAssumption, OrdersInv, StockConserved, [Next]_vars
  PROVE  StockConserved'
  <1>0. TypeOK /\ ReadsSound /\ MoneyTrailIsExact
    BY HistorySplits DEF OrdersInv
  <1>1. \A p \in Products : /\ stock[p] \in Nat /\ received[p] \in Nat
                            /\ Shipped(p) \in Nat
    <2> TAKE p \in Products
    <2>1. stock[p] \in Nat /\ received[p] \in Nat
      BY <1>0 DEF TypeOK
    <2> DEFINE w == [o \in Orders |-> order[o].items[p]]
    <2>2. \A o \in LeftOrders : w[o] \in Nat
      BY <1>0, LeftOrdersTyped
    <2>3. IsFiniteSet(LeftOrders) /\ Shipped(p) = SumOf(w, LeftOrders)
      BY <1>0, LeftOrdersTyped, ShippedIsASum
    <2> HIDE DEF w
    <2>4. Shipped(p) \in Nat
      BY <2>2, <2>3, SumType
    <2> QED BY <2>1, <2>4
  <1>2. ASSUME LeftOrders' = LeftOrders, \A q \in LeftOrders : order'[q].items = order[q].items
        PROVE  \A p \in Products : Shipped(p)' = Shipped(p)
    BY <1>0, <1>2, ShippedKept
  <1>3. ASSUME LeftOrders' = LeftOrders, \A q \in LeftOrders : order'[q].items = order[q].items,
               UNCHANGED <<stock, received>>
        PROVE  StockConserved'
    BY <1>2, <1>3 DEF StockConserved
  <1>4. ASSUME NEW r \in Requests, CommitDispatch(r) PROVE StockConserved'
    <2>1. PICK o \in Orders : o = req[r].order
      BY <1>0, <1>4, AsReadRow DEF CommitDispatch, ByOrder
    <2>2. /\ order[o] \in Row /\ Exists(o)
          /\ CanTransition(OrderTransitions, order[o].status, "DISPATCHED")
          /\ Becomes(o, "DISPATCHED", req[r].paid)
      BY <1>0, <1>4, <2>1, AsReadRow, MovedRow DEF CommitDispatch, ByOrder
    <2>3. ~Left(o)
      BY <2>2 DEF Left, CanTransition, OrderTransitions
    <2>4. /\ order'[o].status = "DISPATCHED" /\ order'[o].items = order[o].items
          /\ \A q \in Orders \ {o} : order'[q] = order[q]
      BY <2>2 DEF Becomes, OthersKept, Row
    <2>5. order'[o] # NoOrder
      BY <2>4 DEF NoOrder
    <2>6. /\ LeftOrders' = LeftOrders \cup {o}
          /\ \A q \in LeftOrders \cup {o} : order'[q].items = order[q].items
      BY <2>4, <2>5 DEF LeftOrders, Left, Exists
    <2>7. \A p \in Products : Shipped(p)' = Shipped(p) + order[o].items[p]
      BY <1>0, <2>2, <2>3, <2>6, ShippedGrows
    <2>8. \A p \in Products : order[o].items[p] \in Nat
      BY <2>2 DEF Row, OrdersAssumption
    <2>9. stock' = [p \in Products |-> stock[p] - order[o].items[p]] /\ received' = received
      BY <1>4, <2>1 DEF CommitDispatch
    <2> QED BY <1>1, <2>7, <2>8, <2>9 DEF StockConserved
  <1>5. ASSUME NEW p \in Products, NEW n \in Counts, AdjustStock(p, n) PROVE StockConserved'
    <2>1. /\ stock' = [stock EXCEPT ![p] = n] /\ n \in Nat
          /\ received' = [received EXCEPT ![p] = received[p] + n - stock[p]] /\ order' = order
      BY <1>5 DEF AdjustStock, OrdersAssumption
    <2>2. \A q \in Products : Shipped(q)' = Shipped(q)
      BY <1>2, <2>1 DEF LeftOrders, Left, Exists
    <2>3. \A q \in Products :
            /\ stock'[q] = IF q = p THEN n ELSE stock[q]
            /\ received'[q] = IF q = p THEN received[p] + n - stock[p] ELSE received[q]
      BY <1>0, <2>1 DEF TypeOK
    <2>4. \A q \in Products : stock[q] + Shipped(q) = received[q]
      BY DEF StockConserved
    <2> QED BY <1>1, <2>1, <2>2, <2>3, <2>4 DEF StockConserved
  <1>6. ASSUME NEW r \in Requests, Begin(r) PROVE StockConserved'
    BY <1>0, <1>3, <1>6, BeginSound DEF LeftOrders, Left, Exists
  <1>7. ASSUME NEW r \in Requests, Commit(r), ~CommitDispatch(r) PROVE UNCHANGED <<stock, received>>
    BY <1>7 DEF Commit, CommitCheckout, CommitMove, RefuseDispatch, CommitDeliver, CommitCancel,
       CommitPay, CommitRefund, Conflict
  <1>8. ASSUME NEW o \in Orders, PlacedNew(o), UNCHANGED <<stock, received>> PROVE StockConserved'
    BY <1>0, <1>3, <1>8, LeftKept DEF PlacedNew
  <1>9. ASSUME NEW o \in Orders, NEW status \in OrderStatus, NEW payment \in PaymentStatus,
               Becomes(o, status, payment), UNCHANGED <<stock, received>>,
               status \in {"DISPATCHED", "DELIVERED"}
                 <=> order[o].status \in {"DISPATCHED", "DELIVERED"}
        PROVE  StockConserved'
    <2>1. /\ OthersKept(o) /\ order[o] \in Row
          /\ order'[o] = [order[o] EXCEPT !.status = status, !.payment = payment]
      BY <1>0, <1>9 DEF Becomes, TypeOK, Exists
    <2>2. order'[o] \in Row /\ order'[o].items = order[o].items /\ order'[o].status = status
      BY <2>1 DEF Row
    <2> QED BY <1>0, <1>3, <1>9, <2>1, <2>2, LeftKept
  <1>10. ASSUME NEW r \in Requests, NEW o \in Orders, CommitCheckout(r, o) PROVE StockConserved'
    <2>1. req[r].items \in Baskets
      BY <1>0, <1>10, RequestByOp DEF CommitCheckout, TypeOK
    <2>2. PlacedNew(o) /\ UNCHANGED <<stock, received>>
      BY <1>0, <1>10, <2>1, InsertPlaces DEF CommitCheckout
    <2> QED BY <1>8, <2>2
  <1>11. ASSUME NEW o \in Orders, PlaceFromQuotation(o) PROVE StockConserved'
    <2>1. PlacedNew(o) /\ UNCHANGED <<stock, received>>
      BY <1>0, <1>11, InsertPlaces DEF PlaceFromQuotation
    <2> QED BY <1>8, <2>1
  <1>12. ASSUME NEW r \in Requests, CommitMove(r) \/ CommitDeliver(r) PROVE StockConserved'
    <2>1. PICK o \in Orders : o = req[r].order
      BY <1>0, <1>12, MoveAdvances
    <2>2. /\ Advanced(o, req[r].to, req[r].by) /\ req[r].to \in OrderStatus
          /\ req[r].to \in {"CONFIRMED", "PROCESSING", "DELIVERED"}
          /\ UNCHANGED <<stock, received>>
      BY <1>0, <1>12, <2>1, MoveAdvances DEF CommitMove, CommitDeliver
    <2>3. order[o].payment \in PaymentStatus
      BY <1>0, <2>2 DEF Advanced, Becomes, Exists, TypeOK, Row
    <2>4. PICK payment \in PaymentStatus : Becomes(o, req[r].to, payment)
      BY <2>2, <2>3 DEF Advanced, PaymentStatus
    <2>5. /\ order[o].status \in OrderStatus
          /\ req[r].to \in OrderTransitions[order[o].status]
      BY <1>0, <2>2 DEF Advanced, Becomes, Exists, TypeOK, Row, CanTransition
    <2>6. req[r].to \in {"DISPATCHED", "DELIVERED"}
            <=> order[o].status \in {"DISPATCHED", "DELIVERED"}
      <3>1. CASE order[o].status = "PENDING_PAYMENT"
        BY <2>2, <2>5, <3>1 DEF OrderTransitions
      <3>2. CASE order[o].status = "CONFIRMED"
        BY <2>2, <2>5, <3>2 DEF OrderTransitions
      <3>3. CASE order[o].status = "PROCESSING"
        BY <2>2, <2>5, <3>3 DEF OrderTransitions
      <3>4. CASE order[o].status \in {"DISPATCHED", "DELIVERED", "CANCELLED"}
        BY <2>2, <2>5, <3>4 DEF OrderTransitions
      <3> QED BY <2>5, <3>1, <3>2, <3>3, <3>4 DEF OrderStatus
    <2> QED BY <1>9, <2>2, <2>4, <2>6
  <1>13. ASSUME NEW r \in Requests, CommitCancel(r) PROVE StockConserved'
    <2>1. PICK o \in Orders : o = req[r].order
      BY <1>0, <1>13, CancelCancels
    <2>2. /\ Becomes(o, "CANCELLED", order[o].payment) /\ UNCHANGED <<stock, received>>
          /\ CanTransition(OrderTransitions, order[o].status, "CANCELLED")
      BY <1>0, <1>13, <2>1, CancelCancels DEF Cancelled, CommitCancel
    <2>3. /\ order[o].payment \in PaymentStatus /\ "CANCELLED" \in OrderStatus
          /\ order[o].status \notin {"DISPATCHED", "DELIVERED"}
      BY <1>0, <2>2 DEF Becomes, Exists, TypeOK, Row, OrderStatus, CanTransition, OrderTransitions
    <2> QED BY <1>9, <2>2, <2>3
  <1>14. ASSUME NEW r \in Requests, CommitPay(r) PROVE StockConserved'
    <2>1. PICK o \in Orders : o = req[r].order
      BY <1>0, <1>14, PayPays
    <2>2. /\ UNCHANGED <<stock, received>>
          /\ \/ order[o].status = "PENDING_PAYMENT" /\ Advanced(o, "CONFIRMED", req[r].by)
             \/ PaidInPlace(o)
      BY <1>0, <1>14, <2>1, PayPays DEF CommitPay
    <2>3. Exists(o) /\ order[o].status \in OrderStatus /\ order[o].payment \in PaymentStatus
      BY <1>0, <2>2 DEF Advanced, PaidInPlace, Becomes, Exists, TypeOK, Row
    <2>4. CASE PaidInPlace(o)
      BY <1>9, <2>2, <2>3, <2>4 DEF PaidInPlace, PaymentStatus
    <2>5. CASE order[o].status = "PENDING_PAYMENT" /\ Advanced(o, "CONFIRMED", req[r].by)
      <3>1. PICK payment \in PaymentStatus : Becomes(o, "CONFIRMED", payment)
        BY <2>3, <2>5 DEF Advanced, PaymentStatus
      <3> QED BY <1>9, <2>2, <2>5, <3>1 DEF OrderStatus
    <2> QED BY <2>2, <2>4, <2>5
  <1>15. ASSUME NEW r \in Requests, CommitRefund(r) PROVE StockConserved'
    <2>1. PICK o \in Orders : o = req[r].order
      BY <1>0, <1>15, RefundRefunds
    <2>2. /\ Becomes(o, "CANCELLED", "REFUNDED") /\ order[o].status = "CANCELLED"
          /\ UNCHANGED <<stock, received>>
      BY <1>0, <1>15, <2>1, RefundRefunds DEF RefundedOnce, CommitRefund
    <2> QED BY <1>9, <2>2 DEF OrderStatus, PaymentStatus
  <1>16. ASSUME NEW r \in Requests, RefuseDispatch(r) \/ Conflict(r) PROVE StockConserved'
    <2>1. UNCHANGED <<order, stock, received>>
      BY <1>16 DEF RefuseDispatch, Conflict
    <2> QED BY <1>3, <2>1 DEF LeftOrders, Left, Exists
  <1>17. CASE UNCHANGED vars
    BY <1>3, <1>17 DEF vars, LeftOrders, Left, Exists
  <1> QED BY <1>4, <1>5, <1>6, <1>10, <1>11, <1>12, <1>13, <1>14, <1>15, <1>16, <1>17
          DEF Next, Commit

\* Every unit ever on a shelf is there or in an order that left, whichever
\* dispatches, cancellations and hand counts overlap.
THEOREM StockIsConserved == Spec => []StockConserved
  <1>1. Init => StockConserved
    <2> SUFFICES ASSUME Init PROVE StockConserved
      OBVIOUS
    <2>1. LeftOrders = {}
      BY DEF Init, LeftOrders, Left, Exists
    <2>2. \A p \in Products : Shipped(p) = 0
      BY <2>1, ShippedIsASum, SumOfNothing
    <2>3. \A p \in Products : stock[p] \in Nat /\ received[p] = stock[p]
      BY OrdersAssumption DEF Init, OrdersAssumption
    <2> QED BY <2>2, <2>3 DEF StockConserved
  <1>2. OrdersInv /\ StockConserved /\ [Next]_vars => StockConserved'
    BY StockStep, OrdersAssumption
  <1> QED BY <1>1, <1>2, OrdersInvAlways, PTL DEF Spec

-----------------------------------------------------------------------------
(***************************************************************************)
(* The trackers.                                                           *)
(***************************************************************************)
Steps == <<"PENDING_PAYMENT", "CONFIRMED", "PROCESSING", "DISPATCHED", "DELIVERED">>
Run(a, b) == {Steps[i] : i \in a..b}

LEMMA ProgressIs ==
  /\ Progress = Steps /\ Len(Steps) = 5 /\ Steps \in Seq(OrderStatus)
  /\ Steps[1] = "PENDING_PAYMENT" /\ Steps[2] = "CONFIRMED" /\ Steps[3] = "PROCESSING"
  /\ Steps[4] = "DISPATCHED" /\ Steps[5] = "DELIVERED"
  /\ \A i, j \in 1..5 : Steps[i] = Steps[j] => i = j
  /\ \A i \in 1..5 : Steps[i] \in OrderStatus /\ Steps[i] # "CANCELLED" /\ Steps[i] # "NONE"
  <1>1. /\ Len(Steps) = 5
        /\ Steps[1] = "PENDING_PAYMENT" /\ Steps[2] = "CONFIRMED" /\ Steps[3] = "PROCESSING"
        /\ Steps[4] = "DISPATCHED" /\ Steps[5] = "DELIVERED"
    BY DEF Steps
  <1>2. \A i \in 1..5 : i = 1 \/ i = 2 \/ i = 3 \/ i = 4 \/ i = 5
    OBVIOUS
  <1>3. Steps \in Seq(OrderStatus)
    BY DEF Steps, OrderStatus
  <1>4. \A i \in 1..5 : Steps[i] \in OrderStatus /\ Steps[i] # "CANCELLED" /\ Steps[i] # "NONE"
    BY <1>1, <1>2 DEF OrderStatus
  <1>5. \A i, j \in 1..5 : Steps[i] = Steps[j] => i = j
    BY <1>1, <1>2
  <1> QED BY <1>1, <1>3, <1>4, <1>5 DEF Progress, Steps

LEMMA PositionIs ==
  ASSUME NEW s, NEW n \in Nat, Len(s) = n, NEW k \in 1..n, NEW status, s[k] = status,
         \A i \in 1..n : s[i] = status => i = k
  PROVE  Position(s, status) = k
  <1>1. {i \in 1..Len(s) : s[i] = status} = {k}
    OBVIOUS
  <1>2. Min({k}) = k
    BY DEF Min
  <1> QED BY <1>1, <1>2 DEF Position, SelectInSeq

\* Where an order has been: from its first status along the path, until it was
\* cancelled if it was.
Travelled(o) ==
  Exists(o) =>
    \E a \in 1..2, b \in 1..5 :
      /\ a <= b /\ Entered(o) \ {"CANCELLED"} = Run(a, b)
      /\ \A i \in DOMAIN timeline[o] : timeline[o][i].from # "NONE" => timeline[o][i].from \in Entered(o)
      /\ IF order[o].status = "CANCELLED" THEN "CANCELLED" \in Entered(o)
         ELSE order[o].status = Steps[b] /\ "CANCELLED" \notin Entered(o)

\* An entry adds the status it goes to.
LEMMA EnteredGrows ==
  ASSUME TypeOK, NEW o \in Orders, NEW from \in OrderStatus \cup {"NONE"}, NEW to \in OrderStatus,
         NEW by \in Actor, Recorded(o, from, to, by)
  PROVE  /\ Entered(o)' = Entered(o) \cup {to}
         /\ \A i \in DOMAIN timeline'[o] :
              \/ timeline'[o][i].from = from
              \/ i \in DOMAIN timeline[o] /\ timeline'[o][i].from = timeline[o][i].from
  <1> DEFINE e == [from |-> from, to |-> to, by |-> by]
  <1>1. e \in Event /\ e.to = to /\ e.from = from /\ timeline[o] \in Seq(Event)
    BY DEF Event, TypeOK
  <1>2. timeline'[o] = Append(timeline[o], e)
    BY DEF Recorded
  <1> HIDE DEF e
  <1> PICK t \in Seq(Event) : t = timeline[o]
    BY <1>1
  <1> PICK u : u = timeline'[o]
    OBVIOUS
  <1>3. /\ DOMAIN u = 1..Len(t) + 1 /\ DOMAIN t = 1..Len(t) /\ u[Len(t) + 1] = e
        /\ \A i \in 1..Len(t) : u[i] = t[i]
    BY <1>1, <1>2, AppendFacts
  <1>4. Len(t) \in Nat /\ \A i \in 1..Len(t) + 1 : i \in 1..Len(t) \/ i = Len(t) + 1
    OBVIOUS
  <1>5. {u[i].to : i \in DOMAIN u} = {t[i].to : i \in DOMAIN t} \cup {to}
    BY <1>1, <1>3, <1>4
  <1>6. Entered(o)' = Entered(o) \cup {to}
    BY <1>5 DEF Entered
  <1>7. \A i \in DOMAIN u : u[i].from = from \/ (i \in DOMAIN t /\ u[i].from = t[i].from)
    BY <1>1, <1>3, <1>4
  <1> QED BY <1>6, <1>7

LEMMA TravelledKept ==
  ASSUME NEW o, order'[o] = order[o], timeline'[o] = timeline[o], Travelled(o)
  PROVE  Travelled(o)'
  BY DEF Travelled, Exists, Entered

LEMMA PlacedTravels ==
  ASSUME TypeOK, NEW o \in Orders, timeline[o] = <<>>, PlacedNew(o)
  PROVE  Travelled(o)'
  <1> PICK s : s = order'[o].status
    OBVIOUS
  <1>1. s \in {"PENDING_PAYMENT", "CONFIRMED"} /\ s \in OrderStatus /\ "CUSTOMER" \in Actor
    BY DEF PlacedNew, OrderStatus, Actor
  <1>2. Recorded(o, "NONE", s, "CUSTOMER")
    BY DEF PlacedNew
  <1>3. DOMAIN timeline[o] = {} /\ Entered(o) = {}
    BY DEF Entered
  <1>4. Entered(o)' = {s} /\ \A i \in DOMAIN timeline'[o] : timeline'[o][i].from = "NONE"
    BY <1>1, <1>2, <1>3, EnteredGrows
  <1>5. PICK a \in 1..2 : s = Steps[a]
    BY <1>1, ProgressIs
  <1>6. Run(a, a) = {s} /\ s # "CANCELLED"
    BY <1>1, <1>5 DEF Run
  <1> QED BY <1>1, <1>4, <1>5, <1>6 DEF Travelled

LEMMA AdvancedTravels ==
  ASSUME TypeOK, NEW o \in Orders, Travelled(o), NEW to \in OrderStatus, NEW by \in Actor,
         Advanced(o, to, by)
  PROVE  Travelled(o)'
  <1>1. /\ Exists(o) /\ order[o] \in Row /\ order[o].status \in OrderStatus
        /\ Recorded(o, order[o].status, to, by) /\ order'[o].status = to
    BY DEF Advanced, Becomes, TypeOK, Exists, Row
  <1>2. order[o].status # "CANCELLED" /\ to # "CANCELLED"
    BY <1>1 DEF Advanced, CanTransition, OrderTransitions
  <1> PICK a \in 1..2, b \in 1..5 :
      /\ a <= b /\ Entered(o) = Run(a, b)
      /\ \A i \in DOMAIN timeline[o] : timeline[o][i].from # "NONE" => timeline[o][i].from \in Entered(o)
      /\ order[o].status = Steps[b] /\ "CANCELLED" \notin Entered(o)
    BY <1>1, <1>2 DEF Travelled
  <1>3. b + 1 \in 1..5 /\ to = Steps[b + 1]
    BY <1>1, <1>2, ProgressIs DEF Advanced, CanTransition, OrderTransitions
  <1>4. Entered(o)' = Run(a, b + 1)
    <2>1. \A i \in a..(b + 1) : i \in a..b \/ i = b + 1
      OBVIOUS
    <2>2. a..b \subseteq a..(b + 1) /\ b + 1 \in a..(b + 1)
      OBVIOUS
    <2>3. Run(a, b + 1) = Run(a, b) \cup {Steps[b + 1]}
      BY <2>1, <2>2 DEF Run
    <2>4. Entered(o)' = Entered(o) \cup {to}
      BY <1>1, EnteredGrows
    <2> QED BY <1>3, <2>3, <2>4
  <1>5. \A i \in DOMAIN timeline'[o] : timeline'[o][i].from # "NONE" => timeline'[o][i].from \in Entered(o)'
    <2>1. order[o].status \in Entered(o) /\ Entered(o)' = Entered(o) \cup {to}
      BY <1>1, EnteredGrows DEF Run
    <2> QED BY <1>1, <2>1, EnteredGrows
  <1>6. "CANCELLED" \notin Entered(o)'
    BY <1>1, <1>2, EnteredGrows
  <1> QED BY <1>1, <1>2, <1>3, <1>4, <1>5, <1>6 DEF Travelled

\* A cancellation, or the record of a refund.
LEMMA CancelledTravels ==
  ASSUME TypeOK, NEW o \in Orders, Travelled(o), Exists(o), NEW by \in Actor,
         Recorded(o, order[o].status, "CANCELLED", by), order'[o].status = "CANCELLED"
  PROVE  Travelled(o)'
  <1>1. order[o].status \in OrderStatus /\ "CANCELLED" \in OrderStatus
    BY DEF TypeOK, Exists, Row, OrderStatus
  <1> PICK a \in 1..2, b \in 1..5 :
      /\ a <= b /\ Entered(o) \ {"CANCELLED"} = Run(a, b)
      /\ \A i \in DOMAIN timeline[o] : timeline[o][i].from # "NONE" => timeline[o][i].from \in Entered(o)
      /\ IF order[o].status = "CANCELLED" THEN "CANCELLED" \in Entered(o)
         ELSE order[o].status = Steps[b] /\ "CANCELLED" \notin Entered(o)
    BY DEF Travelled
  <1>2. Entered(o)' = Entered(o) \cup {"CANCELLED"}
    BY <1>1, EnteredGrows
  <1>3. Entered(o)' \ {"CANCELLED"} = Run(a, b)
    BY <1>2
  <1>4. order[o].status \in Entered(o)'
    <2>1. Steps[b] \in Run(a, b)
      BY DEF Run
    <2> QED BY <1>2, <1>3, <2>1
  <1>5. \A i \in DOMAIN timeline'[o] : timeline'[o][i].from # "NONE" => timeline'[o][i].from \in Entered(o)'
    BY <1>1, <1>2, <1>4, EnteredGrows
  <1> QED BY <1>2, <1>3, <1>5 DEF Travelled

LEMMA PaidTravels ==
  ASSUME TypeOK, NEW o \in Orders, Travelled(o), PaidInPlace(o)
  PROVE  Travelled(o)'
  <1>1. /\ Exists(o) /\ timeline'[o] = timeline[o] /\ order'[o].status = order[o].status
    BY DEF PaidInPlace, Becomes, TypeOK, Exists, Row
  <1> QED BY <1>1 DEF Travelled, Entered

TravelsAlways == \A o \in Orders : Travelled(o)

LEMMA TravelsStep ==
  ASSUME OrdersAssumption, OrdersInv, TravelsAlways, [Next]_vars
  PROVE  TravelsAlways'
  <1> SUFFICES ASSUME NEW p \in Orders PROVE Travelled(p)'
    BY DEF TravelsAlways
  <1>1. TypeOK /\ ReadsSound /\ MoneyTrailIsExact /\ PathOf(p) /\ Travelled(p)
    BY HistorySplits DEF OrdersInv, History, HistoryOf, TravelsAlways
  <1>2. ASSUME NEW o \in Orders, OthersKept(o), p # o PROVE Travelled(p)'
    BY <1>1, <1>2, TravelledKept DEF OthersKept
  <1>3. CASE UNCHANGED <<order, timeline, money>>
    BY <1>1, <1>3, TravelledKept
  <1>4. ASSUME NEW o \in Orders, PlacedNew(o) PROVE Travelled(p)'
    BY <1>1, <1>2, <1>4, PlacedTravels DEF PlacedNew, PathOf
  <1>5. ASSUME NEW o \in Orders, PaidInPlace(o) PROVE Travelled(p)'
    BY <1>1, <1>2, <1>5, PaidTravels DEF PaidInPlace, Becomes
  <1>6. ASSUME NEW o \in Orders, NEW to \in OrderStatus, NEW by \in Actor, Advanced(o, to, by)
        PROVE  Travelled(p)'
    BY <1>1, <1>2, <1>6, AdvancedTravels DEF Advanced, Becomes
  <1>7. ASSUME NEW o \in Orders, NEW by \in Actor, Cancelled(o, by) \/ (by \in Staff /\ RefundedOnce(o, by))
        PROVE  Travelled(p)'
    <2>1. \E payment : Becomes(o, "CANCELLED", payment)
      BY <1>7 DEF Cancelled, RefundedOnce
    <2>2. OthersKept(o) /\ Exists(o) /\ order[o] \in Row
      BY <1>1, <2>1 DEF Becomes, TypeOK, Exists
    <2>3. order'[o].status = "CANCELLED"
      BY <2>1, <2>2 DEF Becomes, Row
    <2>4. Recorded(o, order[o].status, "CANCELLED", by)
      BY <1>7 DEF Cancelled, RefundedOnce
    <2> QED BY <1>1, <1>2, <2>2, <2>3, <2>4, CancelledTravels
  <1> QED BY <1>1, <1>3, <1>4, <1>5, <1>6, <1>7, OrderSteps DEF Actor

LEMMA TravelsAreAlways == Spec => [](OrdersInv /\ TravelsAlways)
  <1>1. Init => TravelsAlways
    BY DEF Init, TravelsAlways, Travelled, Exists
  <1> QED BY <1>1, OrdersInvInit, OrdersInvStep, TravelsStep, OrdersAssumption, PTL DEF Spec

\* The account page's steps, from where the order has been.
LEMMA AccountShows ==
  ASSUME NEW o \in Orders, NEW a \in 1..2, NEW b \in 1..5, a <= b,
         Entered(o) \ {"CANCELLED"} = Run(a, b),
         \A i \in DOMAIN timeline[o] : timeline[o][i].from # "NONE" => timeline[o][i].from \in Entered(o),
         order[o].status \in Entered(o)
  PROVE  /\ AccountTracker(o).done = Run(a, b)
         /\ order[o].status # "CANCELLED" => AccountTracker(o).shown = SubSeq(Steps, a, 5)
  <1>1. Reached(o) = Entered(o)
    BY DEF Reached
  <1> PICK at : at = {i \in DOMAIN Progress : Progress[i] \in Reached(o)}
    OBVIOUS
  <1>2. at = a..b
    <2>1. DOMAIN Progress = 1..5
      BY ProgressIs
    <2>2. \A i \in 1..5 : Steps[i] \in Entered(o) <=> Steps[i] \in Run(a, b)
      BY ProgressIs
    <2>3. \A i \in 1..5 : Steps[i] \in Run(a, b) <=> i \in a..b
      BY ProgressIs DEF Run
    <2> QED BY <1>1, <2>1, <2>2, <2>3, ProgressIs
  <1>3. Min(at) = a /\ Max(at) = b
    BY <1>2 DEF Min, Max
  <1>4. AccountTracker(o) =
          [ shown |-> SubSeq(Progress, a, IF order[o].status = "CANCELLED" THEN b ELSE Len(Progress)),
            done  |-> {Progress[i] : i \in a..b} ]
    BY <1>3 DEF AccountTracker
  <1> QED BY <1>4, ProgressIs DEF Run

\* The other trackers' steps, of an order that was not cancelled.
LEMMA OthersShow ==
  ASSUME NEW o \in Orders, NEW a \in 1..2, NEW b \in 1..5, a <= b,
         Entered(o) = Run(a, b), order[o].status = Steps[b]
  PROVE  /\ PortalTracker(o).shown = SubSeq(Steps, a, 5)
         /\ PortalTracker(o).done = Run(a, b) /\ AdminTracker(o).done = Run(a, b)
         /\ AppTracker(o).done = Run(a, b)
         /\ AdminTracker(o).checked = Run(a, b) \ {Steps[b]}
  <1> PICK steps : steps = WithoutUnusedPayment(o)
    OBVIOUS
  <1> PICK n \in 1..5 : n = b - a + 1
    OBVIOUS
  <1>1. "PENDING_PAYMENT" \in Entered(o) <=> a = 1
    BY ProgressIs DEF Run
  <1>2. order[o].status = "PENDING_PAYMENT" => a = 1
    <2> SUFFICES ASSUME order[o].status = "PENDING_PAYMENT" PROVE a = 1
      OBVIOUS
    <2>1. Steps[b] = Steps[1]
      BY ProgressIs
    <2>2. b = 1
      BY <2>1, ProgressIs
    <2> QED BY <2>2
  <1>3. steps = SubSeq(Steps, a, 5)
    <2> PICK k : k = IF order[o].status = "PENDING_PAYMENT" \/ "PENDING_PAYMENT" \in Entered(o)
                     THEN 1 ELSE 2
      OBVIOUS
    <2>1. k = a
      BY <1>1, <1>2
    <2>2. steps = SubSeq(Progress, k, Len(Progress))
      BY DEF WithoutUnusedPayment
    <2>3. Progress = Steps /\ Len(Progress) = 5
      BY ProgressIs
    <2>4. steps = SubSeq(Progress, a, 5)
      BY <2>1, <2>2, <2>3, Zenon
    <2> QED BY <2>3, <2>4, Zenon
  <1>4. Len(steps) = 6 - a /\ \A i \in 1..(6 - a) : steps[i] = Steps[a + i - 1]
    BY <1>3, ProgressIs
  <1>5. Position(steps, order[o].status) = n
    <2>1. n \in 1..(6 - a) /\ steps[n] = Steps[b]
      BY <1>4
    <2>2. ASSUME NEW i \in 1..(6 - a), steps[i] = Steps[b] PROVE i = n
      <3>1. a + i - 1 \in 1..5 /\ Steps[a + i - 1] = Steps[b]
        BY <1>4, <2>2
      <3>2. a + i - 1 = b
        BY <3>1, ProgressIs
      <3> QED BY <3>2
    <2>3. 6 - a \in Nat /\ Len(steps) = 6 - a
      BY <1>4
    <2> QED BY <2>1, <2>2, <2>3, PositionIs
  <1>6. UpTo(steps, n) = Run(a, b)
    <2>1. \A i \in 1..n : i \in 1..(6 - a) /\ a + i - 1 \in a..b
      OBVIOUS
    <2>2. \A i \in 1..n : steps[i] = Steps[a + i - 1]
      BY <1>4, <2>1
    <2>3. \A j \in a..b : j - a + 1 \in 1..n /\ a + (j - a + 1) - 1 = j
      OBVIOUS
    <2>4. \A j \in a..b : steps[j - a + 1] = Steps[j]
      BY <2>2, <2>3
    <2>5. UpTo(steps, n) \subseteq Run(a, b)
      BY <2>1, <2>2 DEF UpTo, Run
    <2>6. Run(a, b) \subseteq UpTo(steps, n)
      <3> SUFFICES ASSUME NEW j \in a..b PROVE Steps[j] \in UpTo(steps, n)
        BY DEF Run
      <3>1. j - a + 1 \in 1..n /\ steps[j - a + 1] = Steps[j]
        BY <2>3, <2>4
      <3> QED BY <3>1 DEF UpTo
    <2> QED BY <2>5, <2>6
  <1>7. UpTo(steps, n - 1) = Run(a, b) \ {Steps[b]}
    <2>1. \A i \in 1..(n - 1) : i \in 1..(6 - a) /\ a + i - 1 \in a..(b - 1)
      OBVIOUS
    <2>2. \A i \in 1..(n - 1) : steps[i] = Steps[a + i - 1]
      BY <1>4, <2>1
    <2>3. UpTo(steps, n - 1) = {Steps[j] : j \in a..(b - 1)}
      <3>1. \A j \in a..(b - 1) : j - a + 1 \in 1..(n - 1) /\ a + (j - a + 1) - 1 = j
        OBVIOUS
      <3>2. \A j \in a..(b - 1) : steps[j - a + 1] = Steps[j]
        BY <2>2, <3>1
      <3> QED BY <2>1, <2>2, <3>1, <3>2 DEF UpTo
    <2>4. {Steps[j] : j \in a..(b - 1)} = Run(a, b) \ {Steps[b]}
      <3>1. \A j \in a..b : j \in a..(b - 1) <=> Steps[j] # Steps[b]
        BY ProgressIs
      <3>2. a..(b - 1) \subseteq a..b
        OBVIOUS
      <3> QED BY <3>1, <3>2 DEF Run
    <2> QED BY <2>3, <2>4
  <1> QED BY <1>3, <1>5, <1>6, <1>7 DEF PortalTracker, AdminTracker, AppTracker

\* Whoever looks at an order sees the same progress: the four trackers, each by its
\* own code, mark the steps that the timeline has entered, and all can be dated.
THEOREM TrackersShowTheSame == Spec => []TrackersAgree
  <1>1. ASSUME OrdersInv, TravelsAlways, NEW o \in Orders, Exists(o)
        PROVE  /\ AccountTracker(o).done = Entered(o) \ {"CANCELLED"}
               /\ order[o].status # "CANCELLED" =>
                    /\ AccountTracker(o).shown = PortalTracker(o).shown
                    /\ PortalTracker(o).done = Entered(o)
                    /\ AdminTracker(o).done = Entered(o)
                    /\ AdminTracker(o).checked = Entered(o) \ {order[o].status}
                    /\ AppTracker(o).dated = Entered(o)
    <2> PICK a \in 1..2, b \in 1..5 :
        /\ a <= b /\ Entered(o) \ {"CANCELLED"} = Run(a, b)
        /\ \A i \in DOMAIN timeline[o] : timeline[o][i].from # "NONE" => timeline[o][i].from \in Entered(o)
        /\ IF order[o].status = "CANCELLED" THEN "CANCELLED" \in Entered(o)
           ELSE order[o].status = Steps[b] /\ "CANCELLED" \notin Entered(o)
      BY <1>1 DEF TravelsAlways, Travelled
    <2>1. order[o].status \in Entered(o)
      <3>1. Steps[b] \in Run(a, b)
        BY DEF Run
      <3> QED BY <3>1
    <2>2. /\ AccountTracker(o).done = Run(a, b)
          /\ order[o].status # "CANCELLED" => AccountTracker(o).shown = SubSeq(Steps, a, 5)
      BY <2>1, AccountShows
    <2>3. ASSUME order[o].status # "CANCELLED"
          PROVE  /\ Entered(o) = Run(a, b) /\ order[o].status = Steps[b]
                 /\ PortalTracker(o).shown = SubSeq(Steps, a, 5)
                 /\ PortalTracker(o).done = Run(a, b) /\ AdminTracker(o).done = Run(a, b)
                 /\ AppTracker(o).done = Run(a, b)
                 /\ AdminTracker(o).checked = Run(a, b) \ {Steps[b]}
      <3>1. Entered(o) = Run(a, b) /\ order[o].status = Steps[b]
        BY <2>3
      <3> QED BY <3>1, OthersShow
    <2>4. AppTracker(o).dated = AppTracker(o).done \cap Entered(o)
      BY DEF AppTracker
    <2> QED BY <2>2, <2>3, <2>4
  <1>2. OrdersInv /\ TravelsAlways => TrackersAgree
    BY <1>1, HistorySplits DEF OrdersInv, TrackersAgree
  <1> QED BY <1>2, TravelsAreAlways, PTL

-----------------------------------------------------------------------------
(***************************************************************************)
(* What the order pages offer.                                             *)
(***************************************************************************)
\* Staff are offered what the API would take from them, and customers are: a page
\* asks whether an order is unpaid and the API whether it is paid, and the money
\* trail has shown that only a cancelled order is neither.
THEOREM OrderPagesOfferWhatIsTaken == Spec => []OrderOffersAreTaken
  <1>1. TypeOK /\ MoneyTrailIsExact => OrderOffersAreTaken
    <2> SUFFICES ASSUME TypeOK, MoneyTrailIsExact, NEW o \in Orders, NEW role \in Staff, Exists(o)
                 PROVE  /\ AllowedTransitions(o, role) = {to \in OrderStatus : TakesMove(o, to, role)}
                        /\ CanRecordPayment(o, role) <=> TakesPayment(o, role)
                        /\ CanRecordRefund(o, role) <=> TakesRefund(o, role)
                        /\ "CANCEL" \in CustomerOffers(o) <=> TakesCancellation(o)
                        /\ "CONTACT_US" \in CustomerOffers(o) /\ ManagesOrders(role)
                           => /\ CustomerOffers(o) = {"CONTACT_US"}
                              /\ "CANCELLED" \in AllowedTransitions(o, role)
      BY DEF OrderOffersAreTaken
    <2>1. AllowedTransitions(o, role) = {to \in OrderStatus : TakesMove(o, to, role)}
      BY DEF AllowedTransitions, TakesMove
    <2>2. CanRecordPayment(o, role) <=> TakesPayment(o, role)
      <3>1. order[o].payment \in {"UNPAID", "PAID", "REFUNDED"}
        BY DEF TypeOK, Row, Exists, PaymentStatus
      <3>2. order[o].payment = "REFUNDED" => order[o].status = "CANCELLED"
        BY DEF MoneyTrailIsExact
      <3> QED BY <3>1, <3>2 DEF CanRecordPayment, TakesPayment
    <2>3. CanRecordRefund(o, role) <=> TakesRefund(o, role)
      BY DEF CanRecordRefund, TakesRefund
    <2>4. "CANCEL" \in CustomerOffers(o) <=> TakesCancellation(o)
      BY DEF CustomerOffers, CancelCard, PaymentCard, TakesCancellation
    <2>5. ASSUME "CONTACT_US" \in CustomerOffers(o), ManagesOrders(role)
          PROVE  /\ CustomerOffers(o) = {"CONTACT_US"}
                 /\ "CANCELLED" \in AllowedTransitions(o, role)
      <3>1. IsCustomerCancellable(order[o].status, "UNPAID") /\ order[o].payment = "PAID"
        BY <2>5 DEF CustomerOffers, CancelCard, PaymentCard
      <3>2. CustomerOffers(o) = {"CONTACT_US"}
        BY <3>1 DEF CustomerOffers, CancelCard, PaymentCard, IsCustomerCancellable
      <3>3. order[o].status \in {"PENDING_PAYMENT", "CONFIRMED"}
        BY <3>1 DEF IsCustomerCancellable
      <3> QED BY <2>5, <3>2, <3>3 DEF AllowedTransitions, CanTransition, OrderTransitions,
            OrderStatus, MayMoveTo
    <2> QED BY <2>1, <2>2, <2>3, <2>4, <2>5
  <1> QED BY <1>1, TypeCorrect, MoneyIsExact, PTL
=============================================================================
