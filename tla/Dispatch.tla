------------------------------ MODULE Dispatch ------------------------------
(***************************************************************************)
(* OrdersService.transition to DISPATCHED, statement by statement: several *)
(* orders that share products are dispatched at the same moment, while     *)
(* orders are cancelled and shelves are counted by hand.                   *)
(*                                                                         *)
(* A transaction's writes become visible when it commits; until then it    *)
(* keeps the rows it wrote locked, and whoever wants one of them waits.    *)
(***************************************************************************)
EXTENDS Workflows, Integers, Sequences, FiniteSetsExt

CONSTANTS
  Orders,
  ProductCount,  \* products are numbered as byCodeUnit orders their ids
  Lines,      \* the lines of each order as stored: a product and a quantity
  Requests,   \* requests to dispatch an order
  OrderOf,    \* the order of each request
  Counts      \* stock levels a hand count may find

\* A line whose product was deleted has no product id, which sorts first.
NoProduct == 0
Products == 1..ProductCount

ASSUME DispatchAssumption ==
  /\ ProductCount \in Nat
  /\ Lines \in [Orders -> Seq([product : Products \cup {NoProduct}, quantity : Nat \ {0}])]
  /\ OrderOf \in [Requests -> Orders]
  /\ Counts \subseteq Nat

VARIABLES
  status,   \* committed status of each order
  stock,    \* committed stock of each product
  pc,       \* where each request is
  left      \* the lines commitStock has yet to deduct for each request

vars == <<status, stock, pc, left>>

LinesOf(r) == DOMAIN Lines[OrderOf[r]]
Line(r, i) == Lines[OrderOf[r]][i]

MutantIsNextAsStored(r, i) == i \in left[r] /\ \A j \in left[r] : i <= j

\* commitStock goes through the lines in the order of their product ids; the
\* sort is stable.
IsNext(r, i) ==
  /\ i \in left[r]
  /\ \A j \in left[r] :
       \/ Line(r, i).product < Line(r, j).product
       \/ Line(r, i).product = Line(r, j).product /\ i <= j

\* The rows a request has locked: its order's, and the products it took.
HoldsOrder(r, o)   == pc[r] = "stock" /\ OrderOf[r] = o
HoldsProduct(r, p) ==
  pc[r] = "stock" /\ \E i \in LinesOf(r) \ left[r] : Line(r, i).product = p

\* Units of a product on some of an order's lines.
Units(o, lines, p) ==
  MapThenSumSet(LAMBDA i : Lines[o][i].quantity, {i \in lines : Lines[o][i].product = p})

\* Units of a product the request's transaction has deducted so far.
Taken(r, p) == Units(OrderOf[r], LinesOf(r) \ left[r], p)

OrderIsFree(o)   == \A r \in Requests : ~HoldsOrder(r, o)
ProductIsFree(p) == \A r \in Requests : ~HoldsProduct(r, p)

-----------------------------------------------------------------------------
Init ==
  /\ status = [o \in Orders |-> "PROCESSING"]
  /\ stock \in [Products -> Counts]
  /\ pc = [r \in Requests |-> "idle"]
  /\ left = [r \in Requests |-> LinesOf(r)]

\* The order is read outside the transaction, and may be dispatched.
Begin(r) ==
  /\ pc[r] = "idle"
  /\ CanTransition(OrderTransitions, status[OrderOf[r]], "DISPATCHED")
  /\ pc' = [pc EXCEPT ![r] = "read"]
  /\ UNCHANGED <<status, stock, left>>

\* applyChange: waits for the order's row, and writes it only as it was read.
ApplyChange(r) ==
  /\ pc[r] = "read"
  /\ OrderIsFree(OrderOf[r])
  /\ pc' = [pc EXCEPT ![r] = IF status[OrderOf[r]] = "PROCESSING" THEN "stock" ELSE "refused"]
  /\ UNCHANGED <<status, stock, left>>

MutantEnoughOnShelf(r, i) == stock[Line(r, i).product] >= Line(r, i).quantity
\* The shelf as this transaction sees it has the line's quantity.
Enough(r, i) ==
  stock[Line(r, i).product] - Taken(r, Line(r, i).product) >= Line(r, i).quantity

\* The conditional decrement of one product, once nobody else has its row; a
\* line without a product is passed over.
TakeLine(r, i) ==
  /\ pc[r] = "stock" /\ IsNext(r, i)
  /\ Line(r, i).product # NoProduct =>
       /\ \A q \in Requests \ {r} : ~HoldsProduct(q, Line(r, i).product)
       /\ Enough(r, i)
  /\ left' = [left EXCEPT ![r] = @ \ {i}]
  /\ UNCHANGED <<status, stock, pc>>

\* Insufficient stock, or a statement that fails: the transaction rolls back.
Refuse(r) ==
  /\ pc[r] = "stock"
  /\ pc' = [pc EXCEPT ![r] = "refused"]
  /\ left' = [left EXCEPT ![r] = LinesOf(r)]
  /\ UNCHANGED <<status, stock>>

\* Status, timeline and stock become visible together.
Commit(r) ==
  /\ pc[r] = "stock" /\ left[r] = {}
  /\ status' = [status EXCEPT ![OrderOf[r]] = "DISPATCHED"]
  /\ stock' = [p \in Products |-> stock[p] - Taken(r, p)]
  /\ pc' = [pc EXCEPT ![r] = "done"]
  /\ left' = [left EXCEPT ![r] = LinesOf(r)]

\* cancel: one conditional write of the order's row.
Cancel(o) ==
  /\ OrderIsFree(o)
  /\ CanTransition(OrderTransitions, status[o], "CANCELLED")
  /\ status' = [status EXCEPT ![o] = "CANCELLED"]
  /\ UNCHANGED <<stock, pc, left>>

\* adjustStock writes what was counted, whatever the row says by then.
AdjustStock(p, n) ==
  /\ ProductIsFree(p)
  /\ stock' = [stock EXCEPT ![p] = n]
  /\ UNCHANGED <<status, pc, left>>

Next ==
  \/ \E r \in Requests :
       \/ Begin(r) \/ ApplyChange(r) \/ Refuse(r) \/ Commit(r)
       \/ \E i \in LinesOf(r) : TakeLine(r, i)
  \/ \E o \in Orders : Cancel(o)
  \/ \E p \in Products, n \in Counts : AdjustStock(p, n)

Spec == Init /\ [][Next]_vars

-----------------------------------------------------------------------------
\* Types; nothing is dispatched that is not on the shelf.
TypeOK ==
  /\ status \in [Orders -> {"PROCESSING", "DISPATCHED", "CANCELLED"}]
  /\ stock \in [Products -> Nat]
  /\ pc \in [Requests -> {"idle", "read", "stock", "refused", "done"}]
  /\ \A r \in Requests : left[r] \subseteq LinesOf(r)
  /\ \A r \in Requests : pc[r] # "stock" => left[r] = LinesOf(r)

\* A request waits for another one that has a row it wants.
WaitsFor(r, q) ==
  /\ q # r
  /\ \/ pc[r] = "read" /\ HoldsOrder(q, OrderOf[r])
     \/ /\ pc[r] = "stock"
        /\ \E i \in left[r] : /\ IsNext(r, i)
                              /\ Line(r, i).product # NoProduct
                              /\ HoldsProduct(q, Line(r, i).product)

\* Whatever products the orders share and however their lines are stored,
\* dispatches never wait for each other in a circle: in every group of
\* requests, one does not wait for any other of the group.
NoCircularWait ==
  \A group \in (SUBSET Requests) \ {{}} :
    \E r \in group : \A q \in group : ~WaitsFor(r, q)

\* The orders and the shelves, as the order book has them.
Items == [o \in Orders |-> [p \in Products |-> Units(o, DOMAIN Lines[o], p)]]
Book == INSTANCE OrderBook WITH
  Baskets <- [Products -> Nat],
  book <- [o \in Orders |->
            [ status |-> status[o], payment |-> "UNPAID", onDelivery |-> FALSE,
              items |-> Items[o],
              cancelledBy |-> IF status[o] = "CANCELLED" THEN "STAFF" ELSE "NOBODY" ]]

\* Seen by everybody else, a dispatch is one step: all its lines leave the
\* shelves or none does, they were all there, and the order moves with them.
DispatchIsOneStep ==
  [][<<status, stock>>' # <<status, stock>> => Book!BookNext]_vars
=============================================================================
