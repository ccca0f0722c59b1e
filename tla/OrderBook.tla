----------------------------- MODULE OrderBook -----------------------------
(***************************************************************************)
(* What OrdersService promises its users: each order goes through its      *)
(* lifecycle one step at a time, as if requests never overlapped.  Orders  *)
(* implements this specification (see Orders!Book).                        *)
(***************************************************************************)
EXTENDS Workflows

CONSTANTS
  Orders, Products,
  Baskets,   \* what may be ordered: a quantity of each product
  Counts     \* stock levels a hand count may find

VARIABLES
  book,   \* the orders
  stock   \* units in the warehouse

bookVars == <<book, stock>>

\* Top Flow's staff may always cancel what has not left; a customer only
\* before picking, and only while nothing is paid.
Parties == {"CUSTOMER", "STAFF"}

Unplaced == [status |-> "NONE"]

Sale == [ status : OrderStatus, payment : PaymentStatus, onDelivery : BOOLEAN,
          items : Baskets, cancelledBy : Parties \cup {"NOBODY"} ]

Enough(items) == \A p \in Products : items[p] <= stock[p]

-----------------------------------------------------------------------------
Placed(o)        == book[o] # Unplaced
MayBecome(o, to) == Placed(o) /\ CanTransition(OrderTransitions, book[o].status, to)

BookInit ==
  /\ book = [o \in Orders |-> Unplaced]
  /\ stock \in [Products -> Counts]

Place(o) ==
  /\ ~Placed(o)
  /\ \E items \in Baskets, onDelivery \in BOOLEAN,
        status \in {"PENDING_PAYMENT", "CONFIRMED"} :
       book' = [book EXCEPT ![o] =
                 [ status |-> status, payment |-> "UNPAID", onDelivery |-> onDelivery,
                   items |-> items, cancelledBy |-> "NOBODY" ]]
  /\ UNCHANGED stock

Advance(o) ==
  /\ \E to \in {"CONFIRMED", "PROCESSING"} :
       MayBecome(o, to) /\ book' = [book EXCEPT ![o].status = to]
  /\ UNCHANGED stock

Dispatch(o) ==
  /\ MayBecome(o, "DISPATCHED")
  /\ Enough(book[o].items)
  /\ book' = [book EXCEPT ![o].status = "DISPATCHED"]
  /\ stock' = [p \in Products |-> stock[p] - book[o].items[p]]

Deliver(o) ==
  /\ MayBecome(o, "DELIVERED")
  /\ book' = [book EXCEPT ![o].status = "DELIVERED",
                          ![o].payment = IF book[o].onDelivery THEN "PAID" ELSE @]
  /\ UNCHANGED stock

Pay(o) ==
  /\ Placed(o) /\ book[o].payment = "UNPAID" /\ book[o].status # "CANCELLED"
  /\ book' = [book EXCEPT ![o].payment = "PAID",
                          ![o].status = IF @ = "PENDING_PAYMENT" THEN "CONFIRMED" ELSE @]
  /\ UNCHANGED stock

Cancel(o, by) ==
  /\ MayBecome(o, "CANCELLED")
  /\ by = "CUSTOMER" => IsCustomerCancellable(book[o].status, book[o].payment)
  /\ book' = [book EXCEPT ![o].status = "CANCELLED", ![o].cancelledBy = by]
  /\ UNCHANGED stock

Refund(o) ==
  /\ Placed(o) /\ IsRefundDue(book[o].status, book[o].payment)
  /\ book' = [book EXCEPT ![o].payment = "REFUNDED"]
  /\ UNCHANGED stock

Count(p) ==
  /\ \E n \in Counts : stock' = [stock EXCEPT ![p] = n]
  /\ UNCHANGED book

BookNext ==
  \/ \E o \in Orders :
       \/ Place(o) \/ Advance(o) \/ Dispatch(o) \/ Deliver(o) \/ Pay(o) \/ Refund(o)
       \/ \E by \in Parties : Cancel(o, by)
  \/ \E p \in Products : Count(p)

BookSpec == BookInit /\ [][BookNext]_bookVars
=============================================================================
