-------------------------------- MODULE Shop --------------------------------
(***************************************************************************)
(* The basket of a customer and the order it becomes.  The basket lives on *)
(* the customer's side: in the mobile app, where it is read back from the  *)
(* device after the app has started, or in the tabs of a browser, which    *)
(* share one stored copy and hear of each other's changes through storage  *)
(* events.  Its lines cache catalogue prices that staff may change; a      *)
(* refresh loads each product and applies the answers later.  Checkout     *)
(* sends the total on screen and the API prices the order again.           *)
(*                                                                         *)
(* Storing the basket is best effort: a browser's write may fail, and the  *)
(* app does not wait for the device, so a write may fail unnoticed, or be  *)
(* lost with an app that is killed before it has ended.                    *)
(***************************************************************************)
EXTENDS Money, Sequences, Functions

CONSTANTS
  Products,
  Offers,       \* what the catalogue may say of a product: net price in fils, minimum order
  App, Tabs,    \* the mobile app, or the tabs of a browser
  Refreshes,    \* price refreshes in flight at once
  Attempts,     \* order requests in flight at once
  MaxQuantity,  \* MAX_LINE_QUANTITY of the app
  MaxPicks,     \* bound, by client: lines ever added to the basket
  MaxEdits,     \* bound: catalogue changes
  MaxOrders,    \* bound, by client: orders, and requests in flight
  MaxTogether,  \* bound: lines added and orders, or requests in flight, together
  Idle, Waiting, Failed

ASSUME ShopConstants ==
  /\ IsFiniteSet(Products)
  /\ MaxQuantity \in Nat \ {0}
  /\ Offers \subseteq [price : Nat, min : 1..MaxQuantity]
  /\ MaxEdits \in Nat /\ MaxTogether \in Nat
  /\ MaxPicks \in [{"APP", "BROWSER"} -> Nat] /\ MaxOrders \in [{"APP", "BROWSER"} -> Nat]
  /\ App \notin Tabs /\ Idle \notin Attempts

VARIABLES
  client,       \* "APP" or "BROWSER"
  catalogue,    \* [Products -> Offers]
  edits,        \* how many times it has changed
  carts,        \* [Views -> the basket in memory]
  ready,        \* the app has read the saved basket
  saved,        \* the basket as stored: in the browser, or on the app's device
  news,         \* tabs with a storage event they have not handled
  due,          \* the app's products changed since its last refresh began
  refreshes,    \* [Refreshes -> a refresh in flight, or Idle]
  attempts,     \* [Attempts -> an order request in flight, or Idle]
  orders,       \* the orders placed, in order
  picks,        \* how many lines were ever added
  loose         \* lines of requests whose page was left, or whose answer is lost,
                \* and lines that were gone from memory and came back from the device

vars == <<client, catalogue, edits, carts, ready, saved, news, due,
          refreshes, attempts, orders, picks, loose>>
store == <<carts, saved, news, due>>

Views   == {App} \cup Tabs
Open    == IF client = "APP" THEN {App} ELSE Tabs
Picks   == 1..MaxPicks["APP"] \cup 1..MaxPicks["BROWSER"]
Line    == [price : {c.price : c \in Offers}, min : 1..MaxQuantity, qty : 1..MaxQuantity,
            pick : Picks]
Cart    == UNION {[S -> Line] : S \in SUBSET Products}
Empty   == [p \in {} |-> Idle]

\* What each product was found to cost, for a refresh, and after which refusal.
Refresh == [view : Views, of : Attempts \cup {Idle},
            found : UNION {[S -> Offers \cup {Waiting, Failed}] : S \in SUBSET Products}]
Attempt == [view : Views, items : Cart, shown : Nat,
            phase : {"SENT", "PLACED", "REFUSED"}, heard : {"PAGE", "GONE", "NEVER"}]
Order   == [view : Views, picks : SUBSET Picks, shown : Nat, total : Nat]

ASSUME ShopNothing == Idle \notin Refresh \cup Attempt

TypeOK ==
  /\ client \in {"APP", "BROWSER"}
  /\ catalogue \in [Products -> Offers]
  /\ edits \in 0..MaxEdits
  /\ carts \in [Views -> Cart] /\ saved \in Cart
  /\ ready \in BOOLEAN
  /\ news \subseteq Tabs /\ due \in BOOLEAN
  /\ refreshes \in [Refreshes -> Refresh \cup {Idle}]
  /\ attempts \in [Attempts -> Attempt \cup {Idle}]
  /\ orders \in Seq(Order) /\ Len(orders) <= MaxOrders[client]
  /\ picks \in 0..MaxPicks[client] /\ loose \subseteq 1..picks

-----------------------------------------------------------------------------
(***************************************************************************)
(* The cart store.                                                         *)
(***************************************************************************)
Max2(a, b) == IF a >= b THEN a ELSE b
Min2(a, b) == IF a <= b THEN a ELSE b

\* clampQuantity
Clamp(qty, min) == Min2(MaxQuantity, Max2(min, qty))

\* commit: the basket in memory and, once the app has read it, the stored one, which
\* the other tabs of a browser are told of.  Storing is best effort: localStorage may
\* refuse, a write of AsyncStorage fail, or the app be killed before it.  Only an app
\* that starts reads the device, so whether a write got there is settled when it is sent.
\* The app's basket screen, which stays mounted, reloads prices when the products change.
Commit(v, cart) ==
  /\ carts' = [carts EXCEPT ![v] = cart]
  /\ \/ /\ client = "BROWSER" \/ ready
        /\ saved' = cart
        /\ news' = IF client = "BROWSER" THEN news \cup (Tabs \ {v}) ELSE news
     \/ UNCHANGED <<saved, news>>
  /\ due' = (due \/ (client = "APP" /\ DOMAIN cart # DOMAIN carts[v]))

\* What a reader of the stored basket gets: nothing when it cannot be read.
Stored == {saved, Empty}

\* hydrateCart: what was added before it finishes takes precedence.
HydrateWith(stored, cart) ==
  [p \in DOMAIN cart \cup DOMAIN stored |-> IF p \in DOMAIN cart THEN cart[p] ELSE stored[p]]

Hydrate ==
  /\ client = "APP" /\ ~ready
  /\ ready' = TRUE
  /\ \E stored \in Stored :
       LET merged == HydrateWith([p \in DOMAIN stored |->
                         [stored[p] EXCEPT !.qty = Clamp(@, stored[p].min)]], carts[App])
       IN carts' = [carts EXCEPT ![App] = merged] /\ saved' \in {merged, saved}
  /\ due' = TRUE
  /\ UNCHANGED <<client, catalogue, edits, news, refreshes, attempts, orders, picks, loose>>

\* addToCart.  The app refreshes the line and keeps its quantity in bounds...
AddedInApp(p, n) ==
  LET c == catalogue[p]
      inCart == p \in DOMAIN carts[App]
  IN [price |-> c.price, min |-> c.min,
      pick |-> IF inCart THEN carts[App][p].pick ELSE picks + 1,
      qty |-> Clamp((IF inCart THEN carts[App][p].qty ELSE 0) + n, c.min)]

\* ...the site keeps what the line cached, and adds to it.
AddedOnSite(v, p, n) ==
  LET c == catalogue[p]
  IN IF p \in DOMAIN carts[v] THEN [carts[v][p] EXCEPT !.qty = @ + n]
     ELSE [price |-> c.price, min |-> c.min, qty |-> Max2(n, c.min), pick |-> picks + 1]

WithLine(cart, p, line) ==
  [q \in DOMAIN cart \cup {p} |-> IF q = p THEN line ELSE cart[q]]

Added(v, p, n) == IF client = "APP" THEN AddedInApp(p, n) ELSE AddedOnSite(v, p, n)

\* The button on a product's page, with the quantity chosen there.
AddToCart(v, p) ==
  /\ \E n \in 1..MaxQuantity :
       /\ \/ p \in DOMAIN carts[v]
          \/ picks < MaxPicks[client] /\ picks + Len(orders) < MaxTogether
       /\ client = "BROWSER" => Added(v, p, n).qty <= MaxQuantity   \* bound: the site has none
       /\ Commit(v, WithLine(carts[v], p, Added(v, p, n)))
  /\ picks' = IF p \in DOMAIN carts[v] THEN picks ELSE picks + 1
  /\ UNCHANGED <<client, catalogue, edits, ready, refreshes, attempts, orders, loose>>

\* setQuantity, with the quantity of the stepper or typed by the customer.
SetQuantity(v, p) ==
  /\ p \in DOMAIN carts[v]
  /\ client = "APP" => ready
  /\ \E q \in 1..MaxQuantity :
       LET n == IF client = "APP" THEN Clamp(q, carts[v][p].min) ELSE q
       IN n # carts[v][p].qty /\ Commit(v, [carts[v] EXCEPT ![p].qty = n])
  /\ UNCHANGED <<client, catalogue, edits, ready, refreshes, attempts, orders, picks, loose>>

RemoveFromCart(v, p) ==
  /\ p \in DOMAIN carts[v]
  /\ client = "APP" => ready
  /\ Commit(v, Restrict(carts[v], DOMAIN carts[v] \ {p}))
  /\ UNCHANGED <<client, catalogue, edits, ready, refreshes, attempts, orders, picks, loose>>

\* onStorage: another tab wrote the stored basket.
OnStorage(v) ==
  /\ v \in news
  /\ news' = news \ {v}
  /\ \E stored \in Stored : carts' = [carts EXCEPT ![v] = stored]
  /\ UNCHANGED <<client, catalogue, edits, ready, saved, due,
                 refreshes, attempts, orders, picks, loose>>

-----------------------------------------------------------------------------
(***************************************************************************)
(* Catalogue prices.                                                       *)
(***************************************************************************)
EditProduct(p) ==
  /\ edits < MaxEdits
  /\ edits' = edits + 1
  /\ \E c \in Offers : c # catalogue[p] /\ catalogue' = [catalogue EXCEPT ![p] = c]
  /\ UNCHANGED <<client, ready, refreshes, attempts, orders, picks, loose>> /\ UNCHANGED store

NewRefresh(v, a) ==
  [view |-> v, found |-> [p \in DOMAIN carts[v] |-> Waiting], of |-> a]

\* useCartPriceRefresh: in a browser, whenever the basket or checkout is opened.
BeginRefresh(r, v) ==
  /\ client = "BROWSER" \/ due
  /\ ready /\ refreshes[r] = Idle
  /\ due' = FALSE
  /\ refreshes' = IF carts[v] = Empty THEN refreshes
                  ELSE [refreshes EXCEPT ![r] = NewRefresh(v, Idle)]
  /\ UNCHANGED <<client, catalogue, edits, carts, ready, saved, news,
                 attempts, orders, picks, loose>>

\* A product is answered as it is now, or could not be loaded.
LoadProduct(r, p) ==
  /\ refreshes[r] # Idle
  /\ p \in DOMAIN refreshes[r].found /\ refreshes[r].found[p] = Waiting
  /\ \E answer \in {catalogue[p], Failed} :
       refreshes' = [refreshes EXCEPT ![r].found[p] = answer]
  /\ UNCHANGED <<client, catalogue, edits, ready, attempts, orders, picks, loose>> /\ UNCHANGED store

\* withCataloguePrices; the site leaves quantities alone.
Repriced(line, c) ==
  [line EXCEPT !.price = c.price, !.min = c.min,
               !.qty = IF client = "APP" THEN Max2(@, c.min) ELSE @]

MutantWithCataloguePrices(cart, found) ==
  [p \in DOMAIN found \ {q \in DOMAIN found : found[q] = Failed} |->
     IF p \in DOMAIN cart THEN Repriced(cart[p], found[p])
     ELSE [price |-> found[p].price, min |-> found[p].min, qty |-> found[p].min, pick |-> 1]]

\* refreshCartPrices, once every product has answered: the basket as it is now.
WithCataloguePrices(cart, found) ==
  [p \in DOMAIN cart |-> IF p \in DOMAIN found /\ found[p] # Failed
                         THEN Repriced(cart[p], found[p]) ELSE cart[p]]

EndRefresh(r) ==
  /\ refreshes[r] # Idle
  /\ \A p \in DOMAIN refreshes[r].found : refreshes[r].found[p] # Waiting
  /\ LET v == refreshes[r].view
         a == refreshes[r].of
         next == WithCataloguePrices(carts[v], refreshes[r].found)
     IN /\ IF next = carts[v] THEN UNCHANGED store ELSE Commit(v, next)
        /\ attempts' = IF a = Idle THEN attempts ELSE [attempts EXCEPT ![a] = Idle]
  /\ refreshes' = [refreshes EXCEPT ![r] = Idle]
  /\ UNCHANGED <<client, catalogue, edits, ready, orders, picks, loose>>

-----------------------------------------------------------------------------
(***************************************************************************)
(* Checkout.                                                               *)
(***************************************************************************)
MutantCartTotal(cart) ==
  LET net == SumOver(LAMBDA l : l.price * l.qty, cart)
      fee == RetailDelivery(net)
  IN SumOver(LAMBDA l : (l.price + ApplyRate(l.price, VatRate)) * l.qty, cart)
       + fee + ApplyRate(fee, VatRate)

\* cartTotals and retailTotals: what the screen shows.
CartTotal(cart) == RetailTotals(cart).total

\* checkout: products and quantities are the client's, prices the catalogue's.
InvoiceTotal(items) ==
  RetailTotals([p \in DOMAIN items |-> [items[p] EXCEPT !.price = catalogue[p].price]]).total

MutantPlacing(v) == FALSE

\* `placing`: the button waits for the answer.
Placing(v) == \E a \in Attempts : /\ attempts[a] # Idle
                                  /\ attempts[a].view = v /\ attempts[a].heard = "PAGE"

PicksOf(items) == {items[p].pick : p \in DOMAIN items}

\* placeOrder, on the customer's side.
PlaceOrder(a, v) ==
  /\ attempts[a] = Idle /\ ~Placing(v)
  /\ carts[v] # Empty /\ ready
  /\ LET underWay == Cardinality({b \in Attempts : attempts[b] # Idle})
     IN underWay < MaxOrders[client] /\ picks + underWay < MaxTogether
  /\ attempts' = [attempts EXCEPT ![a] =
       [view |-> v, items |-> carts[v], shown |-> CartTotal(carts[v]),
        phase |-> "SENT", heard |-> "PAGE"]]
  /\ UNCHANGED <<client, catalogue, edits, ready, refreshes, orders, picks, loose>> /\ UNCHANGED store

Sent(a) == attempts[a] # Idle /\ attempts[a].phase = "SENT"

Available(items) ==
  \A p \in DOMAIN items : items[p].qty >= catalogue[p].min

MutantTotalAgreed(a) == TRUE

\* expectedTotal
TotalAgreed(a) == InvoiceTotal(attempts[a].items) = attempts[a].shown

\* The API places the order.
Checkout(a) ==
  /\ Sent(a)
  /\ Len(orders) < MaxOrders[client] /\ picks + Len(orders) < MaxTogether
  /\ Available(attempts[a].items) /\ TotalAgreed(a)
  /\ orders' = Append(orders,
       [view |-> attempts[a].view, picks |-> PicksOf(attempts[a].items),
        shown |-> attempts[a].shown, total |-> InvoiceTotal(attempts[a].items)])
  /\ attempts' = [attempts EXCEPT ![a].phase = "PLACED"]
  /\ UNCHANGED <<client, catalogue, edits, ready, refreshes, picks, loose>> /\ UNCHANGED store

\* 409 PRICE_CHANGED: the page loads the current prices before it may be sent again.
RefusePrice(a) ==
  /\ Sent(a)
  /\ Available(attempts[a].items) /\ ~TotalAgreed(a)
  /\ LET v == attempts[a].view IN
     \/ /\ attempts[a].heard = "NEVER"
        /\ attempts' = [attempts EXCEPT ![a] = Idle] /\ refreshes' = refreshes
     \/ /\ attempts[a].heard # "NEVER"
        /\ attempts' = [attempts EXCEPT ![a].phase = "REFUSED"]
        /\ \E r \in Refreshes : /\ refreshes[r] = Idle
                                /\ refreshes' = [refreshes EXCEPT ![r] = NewRefresh(v, a)]
  /\ UNCHANGED <<client, catalogue, edits, ready, orders, picks, loose>> /\ UNCHANGED store

\* Any other refusal: not available, too little in stock, an address that is gone.
Refuse(a) ==
  /\ Sent(a)
  /\ attempts' = [attempts EXCEPT ![a] = Idle]
  /\ UNCHANGED <<client, catalogue, edits, ready, refreshes, orders, picks, loose>> /\ UNCHANGED store

\* The order is answered: the basket is emptied, whatever it holds by now.
Answered(a) ==
  /\ attempts[a] # Idle /\ attempts[a].phase = "PLACED" /\ attempts[a].heard # "NEVER"
  /\ LET v == attempts[a].view
     IN IF client = "APP" /\ carts[v] = Empty THEN UNCHANGED store ELSE Commit(v, Empty)
  /\ attempts' = [attempts EXCEPT ![a] = Idle]
  /\ UNCHANGED <<client, catalogue, edits, ready, refreshes, orders, picks, loose>>

Loosen(hit, heard) ==
  /\ attempts' = [a \in Attempts |-> IF a \in hit THEN [attempts[a] EXCEPT !.heard = heard]
                                     ELSE attempts[a]]
  /\ loose' = loose \cup UNION {PicksOf(attempts[a].items) : a \in hit}

\* The request times out, or its answer is lost: the page takes it for a failure,
\* and the API may still place the order.
LoseAnswer(a) ==
  /\ attempts[a] # Idle /\ attempts[a].phase \in {"SENT", "PLACED"}
  /\ attempts[a].heard # "NEVER"
  /\ Loosen({a}, "NEVER")
  /\ UNCHANGED <<client, catalogue, edits, ready, refreshes, orders, picks>> /\ UNCHANGED store

\* Nobody waits for this answer any more.
Forget(a) ==
  /\ attempts[a] # Idle /\ attempts[a].phase = "PLACED" /\ attempts[a].heard = "NEVER"
  /\ attempts' = [attempts EXCEPT ![a] = Idle]
  /\ UNCHANGED <<client, catalogue, edits, ready, refreshes, orders, picks, loose>> /\ UNCHANGED store

\* The checkout page is taken down; its request goes on, and so does its handler.
LeavePage(v) ==
  /\ Placing(v)
  /\ Loosen({a \in Attempts : attempts[a] # Idle /\ attempts[a].view = v
                                /\ attempts[a].heard = "PAGE"}, "GONE")
  /\ UNCHANGED <<client, catalogue, edits, ready, refreshes, orders, picks>> /\ UNCHANGED store

\* Lines the app no longer has, and the device would give it back.
Revived(v) ==
  IF client = "APP" /\ ready THEN PicksOf(saved) \ PicksOf(carts[v]) ELSE {}

\* The app is killed, or the tab reloaded: what was in memory is gone.
Restart(v) ==
  /\ LET mine == {a \in Attempts : attempts[a] # Idle /\ attempts[a].view = v} IN
     /\ attempts' = [a \in Attempts |->
          IF a \notin mine THEN attempts[a]
          ELSE IF attempts[a].phase = "REFUSED" THEN Idle
          ELSE [attempts[a] EXCEPT !.heard = "NEVER"]]
     /\ loose' = loose \cup Revived(v) \cup UNION {PicksOf(attempts[a].items) : a \in mine}
  /\ \E stored \in Stored :
       carts' = [carts EXCEPT ![v] = IF client = "APP" THEN Empty ELSE stored]
  /\ ready' = (client = "BROWSER")
  /\ refreshes' = [r \in Refreshes |-> IF refreshes[r] # Idle /\ refreshes[r].view = v
                                       THEN Idle ELSE refreshes[r]]
  /\ news' = news \ {v} /\ due' = FALSE
  /\ UNCHANGED <<client, catalogue, edits, saved, orders, picks>>

-----------------------------------------------------------------------------
Init ==
  /\ client \in {"APP", "BROWSER"}
  /\ catalogue \in [Products -> Offers]
  /\ edits = 0 /\ picks = 0 /\ loose = {}
  /\ carts = [v \in Views |-> Empty] /\ saved = Empty
  /\ ready = (client = "BROWSER")
  /\ news = {} /\ due = FALSE
  /\ refreshes = [r \in Refreshes |-> Idle]
  /\ attempts = [a \in Attempts |-> Idle]
  /\ orders = <<>>

Next ==
  \/ Hydrate
  \/ \E p \in Products : EditProduct(p)
  \/ \E v \in Open :
       \/ \E p \in Products : AddToCart(v, p) \/ SetQuantity(v, p) \/ RemoveFromCart(v, p)
       \/ OnStorage(v) \/ LeavePage(v) \/ Restart(v)
       \/ \E r \in Refreshes : BeginRefresh(r, v)
       \/ \E a \in Attempts : PlaceOrder(a, v)
  \/ \E r \in Refreshes : EndRefresh(r) \/ \E p \in Products : LoadProduct(r, p)
  \/ \E a \in Attempts : Checkout(a) \/ RefusePrice(a) \/ Refuse(a) \/ Answered(a)
                           \/ LoseAnswer(a) \/ Forget(a)

Spec == Init /\ [][Next]_vars

-----------------------------------------------------------------------------
(***************************************************************************)
(* Properties.                                                             *)
(***************************************************************************)
\* Staff may change a price between the screen, the request and the order: no
\* customer is charged a total other than the one on screen when they ordered.
ChargedAsShown == \A o \in 1..Len(orders) : orders[o].total = orders[o].shown

\* The clients and the API compute one and the same total: an order is refused
\* for its price only if the catalogue has changed under the basket.
RefusedOnlyIfStale ==
  [][\A a \in Attempts :
       /\ attempts[a] # Idle /\ attempts[a].phase = "SENT"
       /\ attempts'[a] # Idle /\ attempts'[a].phase = "REFUSED"
       => \E p \in DOMAIN attempts[a].items :
            attempts[a].items[p].price # catalogue[p].price]_vars

\* One line of the app's basket is ordered once, however often the button is pressed
\* while its order is answered, unless the answer was lost, the page was left, or the
\* app was killed before the device had the emptied basket and brought the line back.
OrderedOnce ==
  client = "APP" =>
    \A i, j \in 1..Len(orders) :
      i # j => orders[i].picks \cap orders[j].picks \subseteq loose

\* Prices that arrive late change prices only: no line that was removed while
\* they loaded comes back, none that was added is lost, no quantity shrinks.
RefreshKeepsChoice ==
  [][\A r \in Refreshes :
       EndRefresh(r)
       => LET old == carts[refreshes[r].view]
              new == carts'[refreshes[r].view]
          IN /\ DOMAIN new = DOMAIN old
             /\ \A p \in DOMAIN new : new[p].pick = old[p].pick /\ new[p].qty >= old[p].qty]_vars
=============================================================================
