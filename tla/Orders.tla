------------------------------- MODULE Orders -------------------------------
(***************************************************************************)
(* OrdersService and ProductsService.adjustStock (apps/api/src/orders,     *)
(* apps/api/src/catalog): an order from its placing to delivery or refund, *)
(* the stock it takes, its timeline and its money trail, under requests    *)
(* that overlap.                                                           *)
(*                                                                         *)
(* As in Quotations a request is a slot of `req`: a Begin action is the    *)
(* handler up to its transaction, and keeps the status and the payment     *)
(* status it read; a Commit action is the transaction, whose first write   *)
(* (applyChange) matches only if the order still has both.  Dispatch.tla   *)
(* opens the transaction that also writes product rows.                    *)
(***************************************************************************)
EXTENDS Workflows, Sequences, SequencesExt

CONSTANTS
  Orders,       \* identities of order rows
  Products,
  Requests,     \* HTTP requests in flight at one moment
  Baskets,      \* what may be ordered: a quantity of each product
  Counts,       \* stock levels a hand count may find
  Staff         \* the staff roles that work on orders

ASSUME OrdersAssumption ==
  /\ IsFiniteSet(Orders) /\ IsFiniteSet(Products)
  /\ Baskets \subseteq [Products -> Nat]
  /\ Counts \subseteq Nat
  /\ Staff \subseteq {"SALES", "WAREHOUSE", "ADMIN"}

VARIABLES
  order,      \* the orders table
  stock,      \* products.stockQuantity
  received,   \* history: units ever on a shelf, by the last count
  timeline,   \* order_status_events, per order
  money,      \* what timeline and audit log say was paid and refunded
  req         \* the requests in flight

vars == <<order, stock, received, timeline, money, req>>

-----------------------------------------------------------------------------
\* ORDER_STATUS_PERMISSION with the roles that hold each permission.
ManagesOrders(role) == role \in {"SALES", "ADMIN"}
FulfilsOrders(role) == role \in {"WAREHOUSE", "ADMIN"}

MayMoveTo(role, to) ==
  IF to \in {"CONFIRMED", "CANCELLED"} THEN ManagesOrders(role) ELSE FulfilsOrders(role)

Actor == Staff \cup {"CUSTOMER"}

NoOrder == [status |-> "NONE"]

Row == [ status : OrderStatus, payment : PaymentStatus, onDelivery : BOOLEAN,
         items : Baskets ]

Event == [ from : OrderStatus \cup {"NONE"}, to : OrderStatus, by : Actor ]

Idle == [op |-> "IDLE"]

Request ==
  {Idle}
  \cup [op : {"CHECKOUT"}, items : Baskets]
  \cup [op : {"MOVE", "CANCEL", "PAY", "REFUND"}, order : Orders,
        from : OrderStatus, paid : PaymentStatus, to : OrderStatus, by : Actor]

Exists(o)  == order[o] # NoOrder
Left(o)    == Exists(o) /\ order[o].status \in {"DISPATCHED", "DELIVERED"}

Enough(items) == \A p \in Products : items[p] <= stock[p]

-----------------------------------------------------------------------------
Init ==
  /\ order = [o \in Orders |-> NoOrder]
  /\ stock \in [Products -> Counts]
  /\ received = stock
  /\ timeline = [o \in Orders |-> <<>>]
  /\ money = [o \in Orders |-> <<>>]
  /\ req = [r \in Requests |-> Idle]

\* The handler has read the order and decided.
Decide(r, op, o, to, by) ==
  /\ req[r] = Idle
  /\ req' = [req EXCEPT ![r] =
       [ op |-> op, order |-> o, from |-> order[o].status,
         paid |-> order[o].payment, to |-> to, by |-> by ]]
  /\ UNCHANGED <<order, stock, received, timeline, money>>

MutantAsReadUnguarded(r) == TRUE
MutantAsReadStatusOnly(r) == order[req[r].order].status = req[r].from

\* applyChange: the order still has the status and payment status that were read.
AsRead(r) ==
  /\ order[req[r].order].status = req[r].from
  /\ order[req[r].order].payment = req[r].paid

Finish(r) == req' = [req EXCEPT ![r] = Idle]

\* recordEvent: the timeline entry, with the status the handler read.
RecordEvent(o, from, to, by) ==
  timeline' = [timeline EXCEPT ![o] = Append(@, [from |-> from, to |-> to, by |-> by])]

\* A new order row, with its first timeline entry.
Insert(o, items, status, onDelivery, by) ==
  /\ order[o] = NoOrder
  /\ order' = [order EXCEPT ![o] =
       [ status |-> status, payment |-> "UNPAID", onDelivery |-> onDelivery,
         items |-> items ]]
  /\ RecordEvent(o, "NONE", status, by)

(***************************************************************************)
(* Placing orders.                                                         *)
(***************************************************************************)
\* checkout, up to its transaction: stock is looked at but not reserved.
BeginCheckout(r) ==
  /\ req[r] = Idle
  /\ \E items \in Baskets :
       /\ Enough(items)
       /\ req' = [req EXCEPT ![r] = [op |-> "CHECKOUT", items |-> items]]
  /\ UNCHANGED <<order, stock, received, timeline, money>>

CommitCheckout(r, o) ==
  /\ req[r].op = "CHECKOUT"
  /\ Insert(o, req[r].items, "CONFIRMED", TRUE, "CUSTOMER")
  /\ Finish(r)
  /\ UNCHANGED <<stock, received, money>>

\* createFromQuotation, in the accepting transaction: a personal purchase is
\* paid on delivery; an organisation's is released on credit or waits for
\* payment (CreditRelease decides which).
PlaceFromQuotation(o) ==
  /\ \E items \in Baskets :
       \/ Insert(o, items, "CONFIRMED", TRUE, "CUSTOMER")
       \/ \E status \in {"PENDING_PAYMENT", "CONFIRMED"} :
            Insert(o, items, status, FALSE, "CUSTOMER")
  /\ UNCHANGED <<stock, received, money, req>>

(***************************************************************************)
(* Fulfilment.                                                             *)
(***************************************************************************)
TakesMove(o, to, role) ==
  /\ Exists(o)
  /\ CanTransition(OrderTransitions, order[o].status, to)
  /\ MayMoveTo(role, to)

\* transition, up to its transaction.
BeginMove(r, o, to, role) ==
  /\ TakesMove(o, to, role)
  /\ Decide(r, IF to = "CANCELLED" THEN "CANCEL" ELSE "MOVE", o, to, role)

MutantBeginCancelAlsoPaid(r, o) ==
  /\ Exists(o)
  /\ order[o].status \in {"PENDING_PAYMENT", "CONFIRMED"}
  /\ Decide(r, "CANCEL", o, "CANCELLED", "CUSTOMER")

TakesCancellation(o) ==
  Exists(o) /\ IsCustomerCancellable(order[o].status, order[o].payment)

\* cancelMine, and cancelForOrganization by an approver or owner.
BeginCancel(r, o) ==
  /\ TakesCancellation(o)
  /\ Decide(r, "CANCEL", o, "CANCELLED", "CUSTOMER")

\* The guarded write of a MOVE, and its timeline entry.
Moved(r, payment) ==
  /\ order' = [order EXCEPT ![req[r].order].status = req[r].to,
                            ![req[r].order].payment = payment]
  /\ RecordEvent(req[r].order, req[r].from, req[r].to, req[r].by)
  /\ Finish(r)

\* To CONFIRMED or PROCESSING.
CommitMove(r) ==
  /\ req[r].op = "MOVE" /\ req[r].to \in {"CONFIRMED", "PROCESSING"}
  /\ AsRead(r)
  /\ Moved(r, req[r].paid)
  /\ UNCHANGED <<stock, received, money>>

\* commitStock: every product has enough, or the whole transaction is undone.
CommitDispatch(r) ==
  LET items == order[req[r].order].items IN
  /\ req[r].op = "MOVE" /\ req[r].to = "DISPATCHED"
  /\ AsRead(r)
  /\ Enough(items)
  /\ Moved(r, req[r].paid)
  /\ stock' = [p \in Products |-> stock[p] - items[p]]
  /\ UNCHANGED <<received, money>>

RefuseDispatch(r) ==
  /\ req[r].op = "MOVE" /\ req[r].to = "DISPATCHED"
  /\ AsRead(r)
  /\ ~Enough(order[req[r].order].items)
  /\ Finish(r)
  /\ UNCHANGED <<order, stock, received, timeline, money>>

\* Cash on delivery that was still unpaid when the handler read the order.
Collects(r) == order[req[r].order].onDelivery /\ req[r].paid = "UNPAID"

CommitDeliver(r) ==
  /\ req[r].op = "MOVE" /\ req[r].to = "DELIVERED"
  /\ AsRead(r)
  /\ Moved(r, IF Collects(r) THEN "PAID" ELSE req[r].paid)
  /\ money' = IF Collects(r) THEN [money EXCEPT ![req[r].order] = Append(@, "PAID")]
                             ELSE money
  /\ UNCHANGED <<stock, received>>

CommitCancel(r) ==
  /\ req[r].op = "CANCEL"
  /\ AsRead(r)
  /\ order' = [order EXCEPT ![req[r].order].status = "CANCELLED"]
  /\ RecordEvent(req[r].order, req[r].from, "CANCELLED", req[r].by)
  /\ Finish(r)
  /\ UNCHANGED <<stock, received, money>>

(***************************************************************************)
(* Money.                                                                  *)
(***************************************************************************)
TakesPayment(o, role) ==
  /\ Exists(o)
  /\ ManagesOrders(role)
  /\ order[o].payment # "PAID"
  /\ order[o].status # "CANCELLED"

\* recordPayment, up to its transaction.
BeginPay(r, o, role) ==
  /\ TakesPayment(o, role)
  /\ Decide(r, "PAY", o,
            IF order[o].status = "PENDING_PAYMENT" THEN "CONFIRMED" ELSE order[o].status,
            role)

\* A prepaid order is released with its payment; only then is there an entry.
CommitPay(r) ==
  /\ req[r].op = "PAY"
  /\ AsRead(r)
  /\ order' = [order EXCEPT ![req[r].order].payment = "PAID",
                            ![req[r].order].status = req[r].to]
  /\ IF req[r].from = "PENDING_PAYMENT"
     THEN RecordEvent(req[r].order, req[r].from, "CONFIRMED", req[r].by)
     ELSE UNCHANGED timeline
  /\ money' = [money EXCEPT ![req[r].order] = Append(@, "PAID")]
  /\ Finish(r)
  /\ UNCHANGED <<stock, received>>

TakesRefund(o, role) ==
  /\ Exists(o)
  /\ ManagesOrders(role)
  /\ IsRefundDue(order[o].status, order[o].payment)

\* recordRefund, up to its transaction.
BeginRefund(r, o, role) ==
  /\ TakesRefund(o, role)
  /\ Decide(r, "REFUND", o, "CANCELLED", role)

CommitRefund(r) ==
  /\ req[r].op = "REFUND"
  /\ AsRead(r)
  /\ order' = [order EXCEPT ![req[r].order].payment = "REFUNDED"]
  /\ RecordEvent(req[r].order, "CANCELLED", "CANCELLED", req[r].by)
  /\ money' = [money EXCEPT ![req[r].order] = Append(@, "REFUNDED")]
  /\ Finish(r)
  /\ UNCHANGED <<stock, received>>

\* 409 CONCURRENT_UPDATE: nothing is written.
Conflict(r) ==
  /\ req[r].op \in {"MOVE", "CANCEL", "PAY", "REFUND"}
  /\ ~AsRead(r)
  /\ Finish(r)
  /\ UNCHANGED <<order, stock, received, timeline, money>>

(***************************************************************************)
(* adjustStock: a count made by hand replaces the level.                   *)
(***************************************************************************)
AdjustStock(p, n) ==
  /\ stock' = [stock EXCEPT ![p] = n]
  /\ received' = [received EXCEPT ![p] = @ + n - stock[p]]
  /\ UNCHANGED <<order, timeline, money, req>>

-----------------------------------------------------------------------------
Begin(r) ==
  \/ BeginCheckout(r)
  \/ \E o \in Orders :
       \/ BeginCancel(r, o)
       \/ \E role \in Staff :
            \/ BeginPay(r, o, role) \/ BeginRefund(r, o, role)
            \/ \E to \in OrderStatus : BeginMove(r, o, to, role)

Commit(r) ==
  \/ \E o \in Orders : CommitCheckout(r, o)
  \/ CommitMove(r)    \/ CommitDispatch(r) \/ RefuseDispatch(r) \/ CommitDeliver(r)
  \/ CommitCancel(r)  \/ CommitPay(r)      \/ CommitRefund(r)   \/ Conflict(r)

Next ==
  \/ \E r \in Requests : Begin(r) \/ Commit(r)
  \/ \E o \in Orders : PlaceFromQuotation(o)
  \/ \E p \in Products, n \in Counts : AdjustStock(p, n)

Spec == Init /\ [][Next]_vars

-----------------------------------------------------------------------------
(***************************************************************************)
(* Properties.                                                             *)
(***************************************************************************)
TypeOK ==
  /\ order \in [Orders -> Row \cup {NoOrder}]
  /\ stock \in [Products -> Nat]
  /\ received \in [Products -> Nat]
  /\ timeline \in [Orders -> Seq(Event)]
  /\ money \in [Orders -> Seq({"PAID", "REFUNDED"})]
  /\ req \in [Requests -> Request]

\* Units of a product in the orders that have left the warehouse.
Shipped(p) == MapThenSumSet(LAMBDA o : order[o].items[p], {o \in Orders : Left(o)})

\* Every unit ever on a shelf is there or in an order that left: stock goes
\* down once per dispatched order, by exactly what it holds, however its
\* dispatch overlaps another dispatch, a cancellation or a hand count.
StockConserved == \A p \in Products : stock[p] + Shipped(p) = received[p]

\* The timeline tells how the order got where it is: its entries follow one
\* another, each but the record of a refund is a step of the lifecycle, and the
\* last one is the order's status.
TimelineIsThePath ==
  \A o \in Orders :
    LET t == timeline[o] IN
    IF ~Exists(o) THEN t = <<>>
    ELSE /\ t # <<>>
         /\ t[1].from = "NONE"
         /\ Last(t).to = order[o].status
         /\ \A i \in 2..Len(t) :
              /\ t[i].from = t[i - 1].to
              /\ \/ CanTransition(OrderTransitions, t[i].from, t[i].to)
                 \/ i = Len(t) /\ t[i].to = "CANCELLED" /\ order[o].payment = "REFUNDED"

\* Money is taken once and given back once, the trail says so, and only a
\* cancelled order is refunded: also when finance records a payment while the
\* driver collects it, or two refunds are recorded together.  An order that was
\* cancelled with its payment recorded was cancelled by staff, who arrange the
\* refund.
MoneyTrailIsExact ==
  \A o \in Orders :
    /\ money[o] = IF ~Exists(o) \/ order[o].payment = "UNPAID" THEN <<>>
                  ELSE IF order[o].payment = "PAID" THEN <<"PAID">>
                  ELSE <<"PAID", "REFUNDED">>
    /\ Exists(o) /\ order[o].payment = "REFUNDED" => order[o].status = "CANCELLED"
    /\ Exists(o) /\ order[o].status = "CANCELLED" /\ order[o].payment # "UNPAID"
       => \A i \in DOMAIN timeline[o] :
            timeline[o][i].to = "CANCELLED" => timeline[o][i].by \in Staff

(***************************************************************************)
(* Orders implements OrderBook: overlapping handlers have the effect of    *)
(* steps taken one after another on orders and stock.                      *)
(***************************************************************************)
CancelledBy(o) ==
  LET cancellation == {i \in DOMAIN timeline[o] :
                         timeline[o][i].to = "CANCELLED" /\ timeline[o][i].from # "CANCELLED"}
  IN  IF cancellation = {} THEN "NOBODY"
      ELSE IF \E i \in cancellation : timeline[o][i].by = "CUSTOMER" THEN "CUSTOMER"
      ELSE "STAFF"

\* An order as the book has it: its row, and who cancelled it.
BookRow(o) ==
  IF Exists(o)
  THEN [ status |-> order[o].status, payment |-> order[o].payment,
         onDelivery |-> order[o].onDelivery, items |-> order[o].items,
         cancelledBy |-> CancelledBy(o) ]
  ELSE [status |-> "NONE"]

Book == INSTANCE OrderBook WITH book <- [o \in Orders |-> BookRow(o)]

\* Every step of overlapping requests is one step of the order book, or none.
ImplementsOrderBook == Book!BookSpec
=============================================================================
