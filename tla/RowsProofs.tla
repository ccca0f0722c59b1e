----------------------------- MODULE RowsProofs -----------------------------
(***************************************************************************)
(* Proofs about the three modules in which requests meet on rows of the    *)
(* database: Dispatch, CreditRelease and Catalogue.                        *)
(*                                                                         *)
(* Dispatch, for any number of orders, lines, products and overlapping     *)
(* requests: requests take their lines in the order of the products, so    *)
(* nobody waits in a circle, and seen from outside a dispatch is one step. *)
(*                                                                         *)
(* CreditRelease, for any number of acceptances, checkouts, totals and     *)
(* limits: order numbers leave no hole and repeat nowhere, and what is     *)
(* released on credit fits the limit with everything that is outstanding.  *)
(* The argument is the one behind the two locks of the code.  From         *)
(* SELECT ... FOR UPDATE to its commit an acceptance holds the             *)
(* organisation's row: nobody else commits an order of the organisation,   *)
(* so its exposure can only shrink, and nobody changes its terms.  From    *)
(* the upsert to its commit a transaction holds the sequence's row: the    *)
(* number it drew is still the next one when it commits.                   *)
(*                                                                         *)
(* Catalogue, for any number of people, categories and prices: the number  *)
(* beside a category is the number its page lists, and a save changes what *)
(* its user changed.                                                       *)
(***************************************************************************)
EXTENDS Dispatch, CreditRelease, Catalogue, Sums, TLAPS

\* A set of numbers that has a bound has a greatest element.
LEMMA Greatest ==
  ASSUME NEW n \in Nat, NEW S, S \subseteq 0..n, S # {}
  PROVE  \E x \in S : \A y \in S : y <= x
  <1> DEFINE T == {n - x : x \in S}
             R == {p \in Nat \X Nat : p[1] < p[2]}
  <1>1. IsWellFoundedOn(R, Nat)
    BY NatLessThanWellFounded DEF OpToRel
  <1>2. T \subseteq Nat /\ T # {}
    <2>1. \A x \in S : n - x \in Nat
      OBVIOUS
    <2>2. PICK x \in S : TRUE
      OBVIOUS
    <2>3. n - x \in T
      BY <2>2
    <2> QED BY <2>1, <2>3
  <1> HIDE DEF T, R
  <1>3. PICK d \in T : \A e \in T : ~(<<e, d>> \in R)
    BY <1>1, <1>2, WFMin
  <1>4. PICK x \in S : d = n - x
    BY DEF T
  <1>5. ASSUME NEW y \in S PROVE y <= x
    <2>1. n - y \in T
      BY DEF T
    <2>2. ~(n - y < d)
      BY <1>2, <1>3, <2>1 DEF R
    <2> QED BY <1>4, <2>2
  <1> QED BY <1>5

-----------------------------------------------------------------------------
(***************************************************************************)
(* The inductive invariant: requests take their lines in the order of the  *)
(* products, and a product's row is held by one request.                   *)
(***************************************************************************)
Typed ==
  /\ pc \in [Requests -> {"idle", "read", "stock", "refused", "done"}]
  /\ left \in [Requests -> SUBSET Nat]
  /\ \A r \in Requests : left[r] \subseteq LinesOf(r)
  /\ \A r \in Requests : pc[r] # "stock" => left[r] = LinesOf(r)

TakenInOrder ==
  \A r \in Requests : \A i \in LinesOf(r) \ left[r], j \in left[r] :
    Line(r, i).product <= Line(r, j).product

OneHolder ==
  \A r, q \in Requests, p \in Products :
    HoldsProduct(r, p) /\ HoldsProduct(q, p) => r = q

LockInv == Typed /\ TakenInOrder /\ OneHolder

LEMMA LineType ==
  ASSUME NEW r \in Requests, NEW i \in LinesOf(r)
  PROVE  Line(r, i).product \in 0..ProductCount /\ i \in Nat
  <1>1. OrderOf[r] \in Orders
    BY DispatchAssumption DEF DispatchAssumption
  <1> DEFINE L == [product : Products \cup {NoProduct}, quantity : Nat \ {0}]
             lines == Lines[OrderOf[r]]
  <1>2. lines \in Seq(L)
    BY <1>1, DispatchAssumption DEF DispatchAssumption
  <1> HIDE DEF L, lines
  <1>3. i \in 1..Len(lines) /\ lines[i] \in L
    BY <1>2 DEF LinesOf, lines
  <1>4. i \in Nat
    BY <1>2, <1>3
  <1>5. ProductCount \in Nat
    BY DispatchAssumption DEF DispatchAssumption
  <1> QED BY <1>3, <1>4, <1>5 DEF Line, Products, NoProduct, L, lines

LEMMA LockInit == Init => LockInv
  <1> SUFFICES ASSUME Init PROVE LockInv
    OBVIOUS
  <1>1. /\ pc = [r \in Requests |-> "idle"]
        /\ left = [r \in Requests |-> LinesOf(r)]
    BY DEF Init
  <1>2. Typed
    BY <1>1, LineType DEF Typed
  <1>3. TakenInOrder
    BY <1>1 DEF TakenInOrder
  <1>4. OneHolder
    BY <1>1 DEF OneHolder, HoldsProduct
  <1> QED BY <1>2, <1>3, <1>4 DEF LockInv

LEMMA LockStep == LockInv /\ [Next]_vars => LockInv'
  <1> SUFFICES ASSUME LockInv, [Next]_vars PROVE LockInv'
    OBVIOUS
  <1> USE DEF LockInv
  <1>1. ASSUME NEW r \in Requests, Begin(r) \/ ApplyChange(r)
        PROVE  LockInv'
    <2>1. /\ UNCHANGED left /\ pc[r] # "stock"
          /\ pc' \in [Requests -> {"idle", "read", "stock", "refused", "done"}]
          /\ \A q \in Requests \ {r} : pc'[q] = pc[q]
      BY <1>1 DEF Begin, ApplyChange, Typed
    <2>2. left[r] = LinesOf(r)
      BY <2>1 DEF Typed
    <2>3. Typed'
      BY <2>1, <2>2 DEF Typed, LinesOf
    <2>4. TakenInOrder'
      BY <2>1 DEF TakenInOrder, LinesOf, Line
    <2>5. \A q \in Requests, p \in Products : HoldsProduct(q, p)' => HoldsProduct(q, p)
      BY <2>1, <2>2 DEF HoldsProduct, LinesOf, Line
    <2>6. OneHolder'
      BY <2>5 DEF OneHolder
    <2> QED BY <2>3, <2>4, <2>6
  <1>2. ASSUME NEW r \in Requests, NEW k \in LinesOf(r), TakeLine(r, k)
        PROVE  LockInv'
    <2>1. /\ UNCHANGED pc /\ pc[r] = "stock" /\ IsNext(r, k) /\ k \in left[r]
          /\ left' = [left EXCEPT ![r] = @ \ {k}]
      BY <1>2 DEF TakeLine, IsNext
    <2>2. /\ left'[r] = left[r] \ {k}
          /\ \A q \in Requests \ {r} : left'[q] = left[q]
      BY <2>1 DEF Typed
    <2>3. Typed'
      BY <2>1, <2>2 DEF Typed, LinesOf
    <2>4. TakenInOrder'
      <3> SUFFICES ASSUME NEW q \in Requests, NEW i \in LinesOf(q) \ left'[q], NEW j \in left'[q]
                   PROVE  Line(q, i).product <= Line(q, j).product
        BY DEF TakenInOrder, LinesOf, Line
      <3>1. CASE q # r
        BY <2>2, <3>1 DEF TakenInOrder
      <3>2. CASE q = r /\ i # k
        BY <2>2, <3>2 DEF TakenInOrder
      <3>3. CASE q = r /\ i = k
        <4>1. j \in left[r] /\ j \in LinesOf(r)
          BY <2>2, <3>3 DEF Typed
        <4>2. /\ Line(r, k).product \in Nat /\ Line(r, j).product \in Nat
          BY <4>1, LineType
        <4> QED BY <2>1, <3>3, <4>1, <4>2 DEF IsNext
      <3> QED BY <3>1, <3>2, <3>3
    <2>5. \A q \in Requests \ {r}, p \in Products : HoldsProduct(q, p)' => HoldsProduct(q, p)
      BY <2>1, <2>2 DEF HoldsProduct, LinesOf, Line
    <2>6. \A p \in Products : HoldsProduct(r, p)' => HoldsProduct(r, p) \/ p = Line(r, k).product
      BY <2>1, <2>2 DEF HoldsProduct, LinesOf, Line
    <2>7. \A p \in Products : p = Line(r, k).product =>
            \A q \in Requests \ {r} : ~HoldsProduct(q, p)
      BY <1>2 DEF TakeLine, Products, NoProduct
    <2>8. OneHolder'
      BY <2>5, <2>6, <2>7 DEF OneHolder
    <2> QED BY <2>3, <2>4, <2>8
  <1>3. ASSUME NEW r \in Requests, Refuse(r) \/ Commit(r)
        PROVE  LockInv'
    <2>1. /\ pc'[r] # "stock"
          /\ pc' \in [Requests -> {"idle", "read", "stock", "refused", "done"}]
          /\ left' = [left EXCEPT ![r] = LinesOf(r)]
          /\ \A q \in Requests \ {r} : pc'[q] = pc[q]
      BY <1>3 DEF Refuse, Commit, Typed
    <2>2. /\ left'[r] = LinesOf(r)
          /\ \A q \in Requests \ {r} : left'[q] = left[q]
      BY <2>1 DEF Typed
    <2>3. Typed'
      <3>1. left' \in [Requests -> SUBSET Nat]
        <4>1. LinesOf(r) \in SUBSET Nat
          BY LineType
        <4> QED BY <2>1, <4>1 DEF Typed
      <3> QED BY <2>1, <2>2, <3>1 DEF Typed, LinesOf
    <2>4. TakenInOrder'
      BY <2>2 DEF TakenInOrder, LinesOf, Line
    <2>5. \A q \in Requests, p \in Products : HoldsProduct(q, p)' => HoldsProduct(q, p)
      BY <2>1, <2>2 DEF HoldsProduct, LinesOf, Line
    <2>6. OneHolder'
      BY <2>5 DEF OneHolder
    <2> QED BY <2>3, <2>4, <2>6
  <1>4. ASSUME UNCHANGED <<pc, left>>
        PROVE  LockInv'
    BY <1>4 DEF Typed, TakenInOrder, OneHolder, HoldsProduct, LinesOf, Line
  <1>5. CASE \E o \in Orders : Cancel(o)
    BY <1>4, <1>5 DEF Cancel
  <1>6. CASE \E p \in Products, n \in Counts : AdjustStock(p, n)
    BY <1>4, <1>6 DEF AdjustStock
  <1>7. CASE UNCHANGED vars
    BY <1>4, <1>7 DEF vars
  <1> QED BY <1>1, <1>2, <1>3, <1>5, <1>6, <1>7 DEF Next

-----------------------------------------------------------------------------
(***************************************************************************)
(* The argument: in a circle, each request would want a product that comes *)
(* after the one before it wants, and one of them comes last.              *)
(***************************************************************************)
\* The product a waiting request wants.
Wants(r, p) ==
  \E i \in left[r] : IsNext(r, i) /\ Line(r, i).product = p /\ p # NoProduct

\* Whoever holds a product that another request waits for, and waits itself,
\* wants a later one.
LEMMA HolderWantsLater ==
  ASSUME LockInv, NEW r \in Requests, NEW q \in Requests, NEW s \in Requests,
         NEW p \in Products, r # q, q # s,
         HoldsProduct(q, p), WaitsFor(q, s)
  PROVE  \E n \in Products : Wants(q, n) /\ p < n /\ HoldsProduct(s, n)
  <1>1. pc[q] = "stock"
    BY DEF HoldsProduct
  <1>2. PICK i \in left[q] : /\ IsNext(q, i)
                             /\ Line(q, i).product # NoProduct
                             /\ HoldsProduct(s, Line(q, i).product)
    BY <1>1 DEF WaitsFor
  <1>3. PICK j \in LinesOf(q) \ left[q] : Line(q, j).product = p
    BY DEF HoldsProduct
  <1>4. p <= Line(q, i).product
    BY <1>2, <1>3 DEF LockInv, TakenInOrder
  <1>5. Line(q, i).product \in Products
    BY <1>2, LineType DEF LockInv, Typed, Products, NoProduct
  <1>6. Line(q, i).product # p
    BY <1>2, <1>5 DEF LockInv, OneHolder
  <1>7. p < Line(q, i).product
    BY <1>4, <1>5, <1>6 DEF Products
  <1> QED BY <1>2, <1>5, <1>7 DEF Wants

LEMMA NoCircle == LockInv => NoCircularWait
  <1> SUFFICES ASSUME LockInv, NEW group \in SUBSET Requests, group # {},
                      \A r \in group : \E q \in group : WaitsFor(r, q)
               PROVE  FALSE
    BY DEF NoCircularWait
  <1> DEFINE Wanted == {p \in Products : \E r \in group, q \in group :
                                           WaitsFor(r, q) /\ HoldsProduct(q, p)}
  <1>1. ProductCount \in Nat /\ Wanted \subseteq 0..ProductCount
    BY DispatchAssumption DEF DispatchAssumption, Products
  <1>2. \A p \in Wanted : \E n \in Wanted : p < n
    <2> SUFFICES ASSUME NEW p \in Wanted PROVE \E n \in Wanted : p < n
      OBVIOUS
    <2>1. PICK r \in group, q \in group : WaitsFor(r, q) /\ HoldsProduct(q, p)
      OBVIOUS
    <2>2. PICK s \in group : WaitsFor(q, s)
      OBVIOUS
    <2>3. r # q /\ q # s
      BY <2>1, <2>2 DEF WaitsFor
    <2>4. PICK n \in Products : p < n /\ HoldsProduct(s, n)
      BY <2>1, <2>2, <2>3, HolderWantsLater
    <2>5. n \in Wanted
      BY <2>2, <2>4
    <2> QED BY <2>4, <2>5
  <1>3. Wanted # {}
    <2>1. PICK r \in group : TRUE
      OBVIOUS
    <2>2. PICK q \in group : WaitsFor(r, q)
      OBVIOUS
    <2>3. PICK s \in group : WaitsFor(q, s)
      OBVIOUS
    <2>4. pc[q] = "stock"
      BY <2>2 DEF WaitsFor, HoldsOrder, HoldsProduct
    <2>5. PICK i \in left[q] : /\ Line(q, i).product # NoProduct
                               /\ HoldsProduct(s, Line(q, i).product)
      BY <2>3, <2>4 DEF WaitsFor
    <2>6. Line(q, i).product \in Products
      BY <2>5, LineType DEF LockInv, Typed, Products, NoProduct
    <2> QED BY <2>3, <2>5, <2>6
  <1> HIDE DEF Wanted
  <1>4. PICK p \in Wanted : \A n \in Wanted : n <= p
    BY <1>1, <1>3, Greatest
  <1>5. PICK n \in Wanted : p < n
    BY <1>2
  <1>6. n <= p /\ n \in Int /\ p \in Int
    BY <1>1, <1>4
  <1> QED BY <1>5, <1>6

\* Dispatches that share products never wait for each other in a circle.
THEOREM DispatchesNeverCircle == Spec => []NoCircularWait
  <1>1. Spec => []LockInv
    BY LockInit, LockStep, PTL DEF Spec
  <1> QED BY <1>1, NoCircle, PTL

-----------------------------------------------------------------------------
(***************************************************************************)
(* A dispatch is one step.  What the transaction of a request has deducted *)
(* is a sum over the lines it took; the shelf has it all until the commit, *)
(* because the rows it took are locked, and the order's row is locked too. *)
(***************************************************************************)
Quantities(o) == [i \in DOMAIN Lines[o] |-> Lines[o][i].quantity]
Of(o, lines, p) == {i \in lines : Lines[o][i].product = p}
Share(o, k, p) == IF Lines[o][k].product = p THEN Lines[o][k].quantity ELSE 0

LEMMA LinesTyped ==
  ASSUME NEW o \in Orders
  PROVE  /\ IsFiniteSet(DOMAIN Lines[o])
         /\ \A i \in DOMAIN Lines[o] : Lines[o][i].quantity \in Nat
  <1> DEFINE L == [product : Products \cup {NoProduct}, quantity : Nat \ {0}]
             lines == Lines[o]
  <1>1. lines \in Seq(L)
    BY DispatchAssumption
  <1> HIDE DEF L, lines
  <1>2. Len(lines) \in Nat /\ DOMAIN lines = 1..Len(lines) /\ \A i \in DOMAIN lines : lines[i] \in L
    BY <1>1
  <1>3. IsFiniteSet(1..Len(lines))
    BY <1>2, FS_Interval
  <1> QED BY <1>2, <1>3 DEF L, lines

LEMMA UnitsAreASum ==
  ASSUME NEW o \in Orders, NEW lines \in SUBSET DOMAIN Lines[o], NEW p
  PROVE  /\ Units(o, lines, p) = SumOf(Quantities(o), Of(o, lines, p))
         /\ IsFiniteSet(Of(o, lines, p)) /\ Units(o, lines, p) \in Nat
         /\ \A i \in Of(o, lines, p) : Quantities(o)[i] \in Nat
  <1>1. Of(o, lines, p) \in SUBSET DOMAIN Lines[o]
    BY DEF Of
  <1>2. IsFiniteSet(Of(o, lines, p)) /\ \A i \in Of(o, lines, p) : Quantities(o)[i] \in Nat
    BY <1>1, LinesTyped, FS_Subset DEF Quantities
  <1>3. Units(o, lines, p) = SumOf(Quantities(o), Of(o, lines, p))
    BY <1>1 DEF Units, Of, Quantities, SumOf, MapThenSumSet, MapThenFoldSet
  <1> QED BY <1>2, <1>3, SumType

LEMMA UnitsOfNone ==
  ASSUME NEW o \in Orders, NEW lines \in SUBSET DOMAIN Lines[o], NEW p,
         \A i \in lines : Lines[o][i].product # p
  PROVE  Units(o, lines, p) = 0
  <1>1. Of(o, lines, p) = {}
    BY DEF Of
  <1> QED BY <1>1, UnitsAreASum, SumOfNothing

\* One line more.
LEMMA UnitsAdd ==
  ASSUME NEW o \in Orders, NEW lines, lines \in SUBSET DOMAIN Lines[o],
         NEW k, k \in DOMAIN Lines[o], k \notin lines, NEW p
  PROVE  Units(o, lines \cup {k}, p) = Units(o, lines, p) + Share(o, k, p)
  <1> DEFINE more == lines \cup {k}
  <1>1. more \in SUBSET DOMAIN Lines[o]
    OBVIOUS
  <1> HIDE DEF more
  <1>2. Units(o, more, p) = SumOf(Quantities(o), Of(o, more, p))
    BY <1>1, UnitsAreASum
  <1>3. Units(o, lines, p) = SumOf(Quantities(o), Of(o, lines, p)) /\ Units(o, lines, p) \in Nat
    BY UnitsAreASum
  <1>4. CASE Lines[o][k].product = p
    <2>1. Of(o, more, p) = Of(o, lines, p) \cup {k} /\ k \notin Of(o, lines, p)
      BY <1>4 DEF Of, more
    <2>2. /\ IsFiniteSet(Of(o, lines, p))
          /\ \A i \in Of(o, lines, p) \cup {k} : Quantities(o)[i] \in Nat
      BY <1>1, <2>1, UnitsAreASum
    <2>3. SumOf(Quantities(o), Of(o, lines, p) \cup {k})
            = SumOf(Quantities(o), Of(o, lines, p)) + Quantities(o)[k]
      BY <2>1, <2>2, SumAdd
    <2>4. Quantities(o)[k] = Lines[o][k].quantity
      BY DEF Quantities
    <2> QED BY <1>2, <1>3, <1>4, <2>1, <2>3, <2>4 DEF more, Share
  <1>5. CASE Lines[o][k].product # p
    <2>1. Of(o, more, p) = Of(o, lines, p)
      BY <1>5 DEF Of, more
    <2> QED BY <1>2, <1>3, <1>5, <2>1 DEF more, Share
  <1> QED BY <1>4, <1>5

Rows ==
  /\ status \in [Orders -> {"PROCESSING", "DISPATCHED", "CANCELLED"}]
  /\ stock \in [Products -> Nat]

\* The row of an order is locked by one request, and says what it said.
OrderHeld ==
  /\ \A r, q \in Requests :
       pc[r] = "stock" /\ pc[q] = "stock" /\ OrderOf[r] = OrderOf[q] => r = q
  /\ \A r \in Requests : pc[r] = "stock" => status[OrderOf[r]] = "PROCESSING"

\* What a request took is on the shelf for it to take.
OnShelf == \A r \in Requests, p \in Products : pc[r] = "stock" => Taken(r, p) <= stock[p]

ShelfInv == Rows /\ OrderHeld /\ OnShelf

LEMMA TakenFacts ==
  ASSUME LockInv, NEW r \in Requests, NEW p \in Products
  PROVE  /\ Taken(r, p) \in Nat
         /\ pc[r] = "stock" /\ ~HoldsProduct(r, p) => Taken(r, p) = 0
  <1> PICK o \in Orders : o = OrderOf[r]
    BY DispatchAssumption
  <1> PICK lines \in SUBSET DOMAIN Lines[o] : lines = LinesOf(r) \ left[r]
    BY DEF LinesOf
  <1>1. Taken(r, p) = Units(o, lines, p)
    BY DEF Taken
  <1>2. Units(o, lines, p) \in Nat
    BY UnitsAreASum
  <1>3. ASSUME pc[r] = "stock", ~HoldsProduct(r, p) PROVE Units(o, lines, p) = 0
    <2>1. \A i \in lines : Lines[o][i].product # p
      BY <1>3 DEF HoldsProduct, Line
    <2> QED BY <2>1, UnitsOfNone
  <1> QED BY <1>1, <1>2, <1>3

LEMMA NothingTaken ==
  ASSUME NEW r \in Requests, left[r] = LinesOf(r)
  PROVE  \A p \in Products : Taken(r, p) = 0
  <1>1. OrderOf[r] \in Orders
    BY DispatchAssumption
  <1>2. LinesOf(r) \ left[r] = {}
    OBVIOUS
  <1>3. \A p \in Products : Units(OrderOf[r], {}, p) = 0
    BY <1>1, UnitsOfNone
  <1> QED BY <1>2, <1>3 DEF Taken

LEMMA TakenSame ==
  ASSUME NEW r \in Requests, left'[r] = left[r]
  PROVE  \A p \in Products : Taken(r, p)' = Taken(r, p)
  BY DEF Taken, LinesOf

LEMMA ShelfInit == Init => ShelfInv
  BY DispatchAssumption DEF Init, ShelfInv, Rows, OrderHeld, OnShelf

\* Nobody is between the lock and the commit but who was.
LEMMA ShelfKept ==
  ASSUME ShelfInv, UNCHANGED <<status, stock>>,
         \A r \in Requests : pc'[r] = "stock" => pc[r] = "stock" /\ left'[r] = left[r]
  PROVE  ShelfInv'
  <1>1. Rows' /\ OrderHeld'
    BY DEF ShelfInv, Rows, OrderHeld
  <1>2. OnShelf'
    BY TakenSame DEF ShelfInv, OnShelf
  <1> QED BY <1>1, <1>2 DEF ShelfInv

LEMMA ApplyShelf ==
  ASSUME LockInv, ShelfInv, NEW r \in Requests, ApplyChange(r)
  PROVE  ShelfInv'
  <1>1. /\ UNCHANGED <<status, stock, left>> /\ left[r] = LinesOf(r) /\ pc[r] = "read"
        /\ \A q \in Requests \ {r} : pc'[q] = pc[q]
        /\ pc'[r] = "stock" => status[OrderOf[r]] = "PROCESSING"
        /\ \A q \in Requests : pc[q] = "stock" => OrderOf[q] # OrderOf[r]
    BY DEF ApplyChange, LockInv, Typed, OrderIsFree, HoldsOrder
  <1>2. Rows' /\ OrderHeld'
    BY <1>1 DEF ShelfInv, Rows, OrderHeld
  <1>3. ASSUME NEW q \in Requests, NEW p \in Products, pc'[q] = "stock"
        PROVE  Taken(q, p)' <= stock'[p]
    <2>1. Taken(q, p)' = Taken(q, p)
      BY <1>1, TakenSame
    <2>2. CASE q = r
      BY <1>1, <2>1, <2>2, NothingTaken DEF ShelfInv, Rows
    <2>3. CASE q # r
      BY <1>1, <1>3, <2>1, <2>3 DEF ShelfInv, OnShelf
    <2> QED BY <2>2, <2>3
  <1> QED BY <1>2, <1>3 DEF ShelfInv, OnShelf

LEMMA TakeShelf ==
  ASSUME LockInv, ShelfInv, NEW r \in Requests, NEW k \in LinesOf(r), TakeLine(r, k)
  PROVE  ShelfInv'
  <1>1. /\ UNCHANGED <<status, stock, pc>> /\ pc[r] = "stock" /\ k \in left[r]
        /\ left'[r] = left[r] \ {k} /\ \A q \in Requests \ {r} : left'[q] = left[q]
        /\ Line(r, k).product # NoProduct => Enough(r, k)
    BY DEF TakeLine, IsNext, LockInv, Typed
  <1>2. Rows' /\ OrderHeld'
    BY <1>1 DEF ShelfInv, Rows, OrderHeld
  <1> PICK o \in Orders : o = OrderOf[r]
    BY DispatchAssumption
  <1> PICK lines \in SUBSET DOMAIN Lines[o] : lines = LinesOf(r) \ left[r]
    BY DEF LinesOf
  <1>3. ASSUME NEW p \in Products
        PROVE  /\ Taken(r, p)' = Taken(r, p)
                    + (IF Line(r, k).product = p THEN Line(r, k).quantity ELSE 0)
               /\ Taken(r, p) \in Nat
    <2>1. LinesOf(r) \ left'[r] = lines \cup {k} /\ k \notin lines /\ k \in DOMAIN Lines[o]
      BY <1>1 DEF LinesOf
    <2>2. Units(o, lines \cup {k}, p) = Units(o, lines, p) + Share(o, k, p)
      BY <2>1, UnitsAdd
    <2>3. Taken(r, p) = Units(o, lines, p) /\ Taken(r, p)' = Units(o, lines \cup {k}, p)
      BY <2>1 DEF Taken, LinesOf
    <2> QED BY <2>2, <2>3, TakenFacts DEF Line, Share
  <1>4. ASSUME NEW q \in Requests, NEW p \in Products, pc'[q] = "stock"
        PROVE  Taken(q, p)' <= stock'[p]
    <2>1. CASE q # r
      <3>1. Taken(q, p)' = Taken(q, p)
        BY <1>1, <2>1, TakenSame
      <3> QED BY <1>1, <1>4, <3>1 DEF ShelfInv, OnShelf
    <2>2. CASE q = r /\ Line(r, k).product # p
      BY <1>1, <1>3, <1>4, <2>2 DEF ShelfInv, OnShelf
    <2>3. CASE q = r /\ Line(r, k).product = p
      <3>1. stock[p] - Taken(r, p) >= Line(r, k).quantity
        BY <1>1, <2>3 DEF Enough, Products, NoProduct
      <3>2. Line(r, k).quantity \in Nat
        BY LinesTyped DEF Line, LinesOf
      <3>3. stock[p] \in Nat
        BY DEF ShelfInv, Rows
      <3> QED BY <1>1, <1>3, <2>3, <3>1, <3>2, <3>3
    <2> QED BY <2>1, <2>2, <2>3
  <1> QED BY <1>2, <1>4 DEF ShelfInv, OnShelf

\* The commit takes from the shelves what nobody else holds.
LEMMA CommitShelf ==
  ASSUME LockInv, ShelfInv, NEW r \in Requests, Commit(r)
  PROVE  ShelfInv'
  <1>1. /\ pc[r] = "stock" /\ pc'[r] = "done"
        /\ \A q \in Requests \ {r} : pc'[q] = pc[q] /\ left'[q] = left[q]
        /\ stock' = [p \in Products |-> stock[p] - Taken(r, p)]
        /\ status' = [status EXCEPT ![OrderOf[r]] = "DISPATCHED"]
    BY DEF Commit, LockInv, Typed
  <1>2. \A p \in Products : /\ stock[p] \in Nat /\ Taken(r, p) \in Nat /\ Taken(r, p) <= stock[p]
                            /\ stock'[p] = stock[p] - Taken(r, p)
    BY <1>1, TakenFacts DEF ShelfInv, Rows, OnShelf
  <1>3. Rows'
    <2>1. stock' \in [Products -> Nat]
      <3>1. \A p \in Products : stock[p] - Taken(r, p) \in Nat
        BY <1>2
      <3> QED BY <1>1, <3>1
    <2>2. status' \in [Orders -> {"PROCESSING", "DISPATCHED", "CANCELLED"}]
      BY <1>1 DEF ShelfInv, Rows
    <2> QED BY <2>1, <2>2 DEF Rows
  <1>4. OrderHeld'
    <2>1. \A q \in Requests : pc'[q] = "stock" => q # r /\ pc[q] = "stock" /\ OrderOf[q] # OrderOf[r]
      BY <1>1 DEF ShelfInv, OrderHeld
    <2>2. \A q \in Requests : OrderOf[q] \in Orders
      BY DispatchAssumption
    <2> QED BY <1>1, <2>1, <2>2 DEF ShelfInv, OrderHeld, Rows
  <1>5. ASSUME NEW q \in Requests, NEW p \in Products, pc'[q] = "stock"
        PROVE  Taken(q, p)' <= stock'[p]
    <2>1. q # r /\ pc[q] = "stock" /\ Taken(q, p)' = Taken(q, p)
      BY <1>1, <1>5, TakenSame
    <2>2. CASE HoldsProduct(q, p)
      <3>1. ~HoldsProduct(r, p)
        BY <2>1, <2>2 DEF LockInv, OneHolder
      <3>2. Taken(r, p) = 0
        BY <1>1, <3>1, TakenFacts
      <3>3. Taken(q, p) <= stock[p]
        BY <2>1 DEF ShelfInv, OnShelf
      <3> QED BY <1>2, <2>1, <3>2, <3>3
    <2>3. CASE ~HoldsProduct(q, p)
      <3>1. Taken(q, p) = 0
        BY <2>1, <2>3, TakenFacts
      <3> QED BY <1>2, <2>1, <3>1
    <2> QED BY <2>2, <2>3
  <1> QED BY <1>3, <1>4, <1>5 DEF ShelfInv, OnShelf

LEMMA CancelShelf ==
  ASSUME LockInv, ShelfInv, NEW o \in Orders, Cancel(o)
  PROVE  ShelfInv'
  <1>1. /\ UNCHANGED <<stock, pc, left>> /\ status' = [status EXCEPT ![o] = "CANCELLED"]
        /\ \A q \in Requests : pc[q] = "stock" => OrderOf[q] # o
    BY DEF Cancel, OrderIsFree, HoldsOrder
  <1>2. Rows' /\ OrderHeld'
    BY <1>1, DispatchAssumption DEF ShelfInv, Rows, OrderHeld
  <1>3. OnShelf'
    BY <1>1, TakenSame DEF ShelfInv, OnShelf
  <1> QED BY <1>2, <1>3 DEF ShelfInv

LEMMA CountShelfKeeps ==
  ASSUME LockInv, ShelfInv, NEW c \in Products, NEW n \in Counts, AdjustStock(c, n)
  PROVE  ShelfInv'
  <1>1. /\ UNCHANGED <<status, pc, left>> /\ stock' = [stock EXCEPT ![c] = n]
        /\ \A q \in Requests : ~HoldsProduct(q, c)
    BY DEF AdjustStock, ProductIsFree
  <1>2. n \in Nat
    BY DispatchAssumption
  <1>3. Rows' /\ OrderHeld'
    BY <1>1, <1>2 DEF ShelfInv, Rows, OrderHeld
  <1>4. ASSUME NEW q \in Requests, NEW p \in Products, pc'[q] = "stock"
        PROVE  Taken(q, p)' <= stock'[p]
    <2>1. pc[q] = "stock" /\ Taken(q, p)' = Taken(q, p)
      BY <1>1, <1>4, TakenSame
    <2>2. CASE p = c
      <3>1. Taken(q, p) = 0
        BY <1>1, <2>1, <2>2, TakenFacts
      <3> QED BY <1>1, <1>2, <2>1, <2>2, <3>1 DEF ShelfInv, Rows
    <2>3. CASE p # c
      BY <1>1, <2>1, <2>3 DEF ShelfInv, Rows, OnShelf
    <2> QED BY <2>2, <2>3
  <1> QED BY <1>3, <1>4 DEF ShelfInv, OnShelf

LEMMA ShelfStep == LockInv /\ ShelfInv /\ [Next]_vars => ShelfInv'
  <1> SUFFICES ASSUME LockInv, ShelfInv, [Next]_vars PROVE ShelfInv'
    OBVIOUS
  <1>1. ASSUME NEW r \in Requests, Begin(r) PROVE ShelfInv'
    <2>1. /\ UNCHANGED <<status, stock, left>>
          /\ \A q \in Requests : pc'[q] = "stock" => pc[q] = "stock"
      BY <1>1 DEF Begin, LockInv, Typed
    <2> QED BY <2>1, ShelfKept
  <1>2. ASSUME NEW r \in Requests, Refuse(r) PROVE ShelfInv'
    <2>1. /\ UNCHANGED <<status, stock>>
          /\ \A q \in Requests : pc'[q] = "stock" => pc[q] = "stock" /\ left'[q] = left[q]
      BY <1>2 DEF Refuse, LockInv, Typed
    <2> QED BY <2>1, ShelfKept
  <1>3. CASE UNCHANGED vars
    BY <1>3, ShelfKept DEF vars
  <1> QED BY <1>1, <1>2, <1>3, ApplyShelf, TakeShelf, CommitShelf, CancelShelf, CountShelfKeeps
          DEF Next

\* What moves in the order book: one dispatch, one cancellation or one count.
Sale(o, state, by) ==
  [ status |-> state, payment |-> "UNPAID", onDelivery |-> FALSE, items |-> Items[o],
    cancelledBy |-> by ]

TheBook == [o \in Orders |->
             Sale(o, status[o], IF status[o] = "CANCELLED" THEN "STAFF" ELSE "NOBODY")]

WithSale(o, sale)        == [TheBook EXCEPT ![o] = sale]
WithStatus(o, state)     == [TheBook EXCEPT ![o].status = state]
WithCancellation(o, by)  == [TheBook EXCEPT ![o].status = "CANCELLED", ![o].cancelledBy = by]

LEMMA RowRewritten ==
  ASSUME NEW from, NEW p, NEW d, NEW i, NEW by, NEW row,
         row = [ status |-> from, payment |-> p, onDelivery |-> d, items |-> i,
                 cancelledBy |-> by ],
         NEW s, NEW c
  PROVE  /\ [row EXCEPT !.status = s]
              = [ status |-> s, payment |-> p, onDelivery |-> d, items |-> i,
                  cancelledBy |-> by ]
         /\ [row EXCEPT !.cancelledBy = c]
              = [ status |-> from, payment |-> p, onDelivery |-> d, items |-> i,
                  cancelledBy |-> c ]
  OBVIOUS

LEMMA SaleRewritten ==
  ASSUME NEW o \in Orders, NEW from, NEW by, NEW row, row = Sale(o, from, by), NEW s, NEW c
  PROVE  /\ [row EXCEPT !.status = s] = Sale(o, s, by)
         /\ [row EXCEPT !.cancelledBy = c] = Sale(o, from, c)
  <1> DEFINE p == "UNPAID"
             d == FALSE
             i == Items[o]
             sale(status1, by1) == [ status |-> status1, payment |-> p, onDelivery |-> d,
                                     items |-> i, cancelledBy |-> by1 ]
  <1>1. Sale(o, s, by) = sale(s, by) /\ Sale(o, from, c) = sale(from, c)
        /\ Sale(o, from, by) = sale(from, by)
    BY DEF Sale
  <1> HIDE DEF p, d, i
  <1>2. [row EXCEPT !.status = s] = sale(s, by) /\ [row EXCEPT !.cancelledBy = c] = sale(from, c)
    BY <1>1, RowRewritten
  <1> QED BY <1>1, <1>2

LEMMA Rewritten ==
  ASSUME NEW o \in Orders, NEW state, NEW by, TheBook[o] = Sale(o, state, by), NEW s, NEW c
  PROVE  /\ WithStatus(o, s) = WithSale(o, Sale(o, s, by))
         /\ WithCancellation(o, c) = WithSale(o, Sale(o, "CANCELLED", c))
  <1>0. TheBook = [q \in Orders |-> TheBook[q]]
    BY DEF TheBook
  <1> DEFINE row == TheBook[o]
             one == [row EXCEPT !.status = s]
             two == [row EXCEPT !.status = "CANCELLED"]
             both == [two EXCEPT !.cancelledBy = c]
  <1>1. one = Sale(o, s, by) /\ two = Sale(o, "CANCELLED", by)
    <2> HIDE DEF row
    <2> QED BY SaleRewritten DEF row
  <1>2. both = Sale(o, "CANCELLED", c)
    <2> HIDE DEF two
    <2> QED BY <1>1, SaleRewritten
  <1>3. WithStatus(o, s) = WithSale(o, one)
    BY <1>0 DEF WithStatus, WithSale
  <1>4. WithCancellation(o, c) = WithSale(o, both)
    <2> DEFINE x == [TheBook[o] EXCEPT !.status = "CANCELLED", !.cancelledBy = c]
    <2>1. WithCancellation(o, c) = WithSale(o, x)
      BY <1>0 DEF WithCancellation, WithSale
    <2>2. x = both
      OBVIOUS
    <2> HIDE DEF x, both
    <2> QED BY <2>1, <2>2
  <1> HIDE DEF one, both
  <1> QED BY <1>1, <1>2, <1>3, <1>4

\* One order moves, and its row in the book with it.
LEMMA BookWritten ==
  ASSUME Rows, NEW o \in Orders, NEW state, status' = [status EXCEPT ![o] = state]
  PROVE  TheBook' = WithSale(o, Sale(o, state, IF state = "CANCELLED" THEN "STAFF" ELSE "NOBODY"))
  <1>1. status'[o] = state /\ \A q \in Orders \ {o} : status'[q] = status[q]
    BY DEF Rows
  <1>2. TheBook' = [q \in Orders |-> Sale(q, status'[q],
                                       IF status'[q] = "CANCELLED" THEN "STAFF" ELSE "NOBODY")]
    BY DEF TheBook, Sale, Items
  <1>3. \A q \in Orders \ {o} : TheBook[q] = Sale(q, status'[q],
                                       IF status'[q] = "CANCELLED" THEN "STAFF" ELSE "NOBODY")
    BY <1>1 DEF TheBook
  <1>4. TheBook = [q \in Orders |-> TheBook[q]]
    BY DEF TheBook
  <1> HIDE DEF TheBook
  <1> QED BY <1>1, <1>2, <1>3, <1>4 DEF WithSale

LEMMA SameTransitions ==
  ASSUME NEW from, NEW to
  PROVE  Book!CanTransition(Book!OrderTransitions, from, to)
           <=> CanTransition(OrderTransitions, from, to)
  BY DEF Book!CanTransition, CanTransition, Book!OrderTransitions, OrderTransitions

LEMMA RowMayBecome ==
  ASSUME NEW o \in Orders, NEW to
  PROVE  /\ TheBook[o] # Book!Unplaced /\ TheBook[o].status = status[o]
         /\ TheBook[o].items = Items[o]
         /\ Book!MayBecome(o, to) <=> CanTransition(OrderTransitions, status[o], to)
  <1>1. /\ TheBook[o].status = status[o] /\ TheBook[o].items = Items[o]
        /\ TheBook[o] # Book!Unplaced
    BY DEF TheBook, Sale, Book!Unplaced
  <1> QED BY <1>1, SameTransitions DEF TheBook, Sale, Book!MayBecome, Book!Placed

LEMMA CommitIsADispatch ==
  ASSUME LockInv, ShelfInv, NEW r \in Requests, Commit(r)
  PROVE  Book!BookNext
  <1> PICK o \in Orders : o = OrderOf[r]
    BY DispatchAssumption
  <1>1. /\ pc[r] = "stock" /\ left[r] = {}
        /\ status[o] = "PROCESSING" /\ status' = [status EXCEPT ![o] = "DISPATCHED"]
        /\ stock' = [p \in Products |-> stock[p] - Taken(r, p)]
    BY DEF Commit, ShelfInv, OrderHeld
  <1>2. \A p \in Products : Taken(r, p) = Items[o][p]
    BY <1>1 DEF Taken, Items, LinesOf
  <1>3. \A p \in Products : Items[o][p] <= stock[p]
    BY <1>1, <1>2 DEF ShelfInv, OnShelf
  <1>4. stock' = [p \in Products |-> stock[p] - Items[o][p]]
    BY <1>1, <1>2
  <1>5. TheBook[o] = Sale(o, "PROCESSING", "NOBODY")
    BY <1>1 DEF TheBook
  <1>6. TheBook' = WithStatus(o, "DISPATCHED")
    <2>1. TheBook' = WithSale(o, Sale(o, "DISPATCHED", "NOBODY"))
      BY <1>1, BookWritten DEF ShelfInv
    <2> QED BY <1>5, <2>1, Rewritten
  <1>7. Book!MayBecome(o, "DISPATCHED")
    BY <1>1, RowMayBecome DEF CanTransition, OrderTransitions
  <1>8. TheBook[o].items = Items[o]
    BY RowMayBecome
  <1>9. Book!Dispatch(o)
    BY <1>3, <1>4, <1>6, <1>7, <1>8
       DEF TheBook, Sale, WithStatus, Book!Dispatch, Book!Enough
  <1> QED BY <1>9 DEF Book!BookNext

LEMMA CancelIsACancellation ==
  ASSUME ShelfInv, NEW o \in Orders, Cancel(o)
  PROVE  Book!BookNext
  <1>1. /\ CanTransition(OrderTransitions, status[o], "CANCELLED")
        /\ status' = [status EXCEPT ![o] = "CANCELLED"] /\ stock' = stock
    BY DEF Cancel
  <1>2. TheBook' = WithCancellation(o, "STAFF")
    <2>1. TheBook' = WithSale(o, Sale(o, "CANCELLED", "STAFF"))
      BY <1>1, BookWritten DEF ShelfInv
    <2>2. PICK by : TheBook[o] = Sale(o, status[o], by)
      BY DEF TheBook
    <2> QED BY <2>1, <2>2, Rewritten
  <1>3. Book!MayBecome(o, "CANCELLED")
    BY <1>1, RowMayBecome
  <1>4. Book!Cancel(o, "STAFF")
    BY <1>1, <1>2, <1>3 DEF TheBook, Sale, WithCancellation, Book!Cancel
  <1> QED BY <1>4 DEF Book!BookNext, Book!Parties

LEMMA AdjustIsACount ==
  ASSUME NEW p \in Products, NEW n \in Counts, AdjustStock(p, n)
  PROVE  Book!BookNext
  <1>1. stock' = [stock EXCEPT ![p] = n] /\ status' = status
    BY DEF AdjustStock
  <1>2. TheBook' = TheBook
    BY <1>1 DEF TheBook, Sale, Items
  <1>3. Book!Count(p)
    BY <1>1, <1>2 DEF TheBook, Sale, Book!Count
  <1> QED BY <1>3 DEF Book!BookNext

LEMMA StepsOfTheBook ==
  LockInv /\ ShelfInv /\ [Next]_vars
    => [<<status, stock>>' # <<status, stock>> => Book!BookNext]_vars
  <1> SUFFICES ASSUME LockInv, ShelfInv, [Next]_vars, <<status, stock>>' # <<status, stock>>
               PROVE  Book!BookNext
    OBVIOUS
  <1>1. ASSUME NEW r \in Requests, \/ Begin(r) \/ ApplyChange(r) \/ Refuse(r)
                                   \/ \E i \in LinesOf(r) : TakeLine(r, i)
        PROVE  Book!BookNext
    BY <1>1 DEF Begin, ApplyChange, Refuse, TakeLine
  <1>2. CASE UNCHANGED vars
    BY <1>2 DEF vars
  <1> QED BY <1>1, <1>2, CommitIsADispatch, CancelIsACancellation, AdjustIsACount DEF Next

LEMMA ShelfAlways == Spec => [](LockInv /\ ShelfInv)
  BY LockInit, LockStep, ShelfInit, ShelfStep, PTL DEF Spec

\* Nothing is dispatched that is not on the shelf: a stock is never negative.
THEOREM DispatchTypes == Spec => []TypeOK
  <1>1. LockInv /\ ShelfInv => TypeOK
    BY DEF LockInv, ShelfInv, Typed, Rows, TypeOK
  <1> QED BY <1>1, ShelfAlways, PTL

\* Seen by everybody else, a dispatch is one step: all its lines leave the
\* shelves together with the order, and every one of them was there.
THEOREM DispatchesAreOneStep == Spec => DispatchIsOneStep
  BY ShelfAlways, StepsOfTheBook, PTL DEF Spec, DispatchIsOneStep

-----------------------------------------------------------------------------
(***************************************************************************)
(* The release of orders on credit.                                        *)
(***************************************************************************)
Running == {"sum", "number", "insert"}

Committed == {t \in Transactions : at[t] = "done"}

\* Who has reached a statement that needs a lock, has it.
LocksAreHeld ==
  /\ \A a \in Acceptances : at[a] \in Running => orgLock = a
  /\ \A t \in Transactions : at[t] = "insert" => seqLock = t /\ number[t] = counter + 1

\* The orders there are belong to transactions that committed.
OrdersAreCommitted ==
  /\ IsFiniteSet(Committed)
  /\ \A a \in Acceptances : at[a] # "done" => orders[a].status = "NONE"

\* What an acceptance read and decided under the lock still stands.
RoomIsKept ==
  \A a \in Acceptances :
    /\ at[a] \in Running => seen[a] = terms
    /\ at[a] \in {"number", "insert"} /\ release[a] = "CONFIRMED"
       => seen[a] # Prepaid /\ Exposure + Total[a] <= seen[a]

CreditInv ==
  CreditTypeOK /\ LocksAreHeld /\ OrdersAreCommitted /\ RoomIsKept /\ OrderNumbersGapFree

-----------------------------------------------------------------------------
\* Type correctness of the transactions that place orders, of their locks and
\* of the organisation's orders.
THEOREM CreditTypes == CreditSpec => []CreditTypeOK
  <1>1. CreditInit => CreditTypeOK
    BY CreditAssumption DEF CreditInit, CreditTypeOK, At, NoOrder, Transactions
  <1>2. CreditTypeOK /\ [CreditNext]_creditVars => CreditTypeOK'
    <2> SUFFICES ASSUME CreditTypeOK, [CreditNext]_creditVars PROVE CreditTypeOK'
      OBVIOUS
    <2> USE CreditAssumption DEF CreditTypeOK, Transactions
    <2>1. CASE UNCHANGED creditVars
      BY <2>1 DEF creditVars
    <2>2. ASSUME NEW t \in Transactions, BeginCheckout(t) PROVE CreditTypeOK'
      BY <2>2 DEF BeginCheckout, Goto, At
    <2>3. ASSUME NEW a \in Acceptances, LockTerms(a) PROVE CreditTypeOK'
      BY <2>3 DEF LockTerms, Goto, At
    <2>4. ASSUME NEW a \in Acceptances, Decide(a) PROVE CreditTypeOK'
      BY <2>4 DEF Decide, Goto, At
    <2>5. ASSUME NEW t \in Transactions, DrawNumber(t) PROVE CreditTypeOK'
      BY <2>5 DEF DrawNumber, Goto, At
    <2>6. ASSUME NEW t \in Transactions, CommitOrder(t) PROVE CreditTypeOK'
      BY <2>6 DEF CommitOrder, Goto, At
    <2>7. ASSUME NEW t \in Transactions, Rollback(t) PROVE CreditTypeOK'
      BY <2>7 DEF Rollback, Goto, At
    <2>8. ASSUME NEW new \in Limits \cup {Prepaid}, Review(new) PROVE CreditTypeOK'
      BY <2>8 DEF Review
    <2>9. ASSUME NEW a \in Acceptances, RecordPayment(a) PROVE CreditTypeOK'
      BY <2>9 DEF RecordPayment
    <2>10. ASSUME NEW a \in Acceptances, NEW to \in {"CONFIRMED", "CANCELLED"}, MoveOrder(a, to)
           PROVE CreditTypeOK'
      BY <2>10 DEF MoveOrder
    <2> QED
      BY <2>1, <2>2, <2>3, <2>4, <2>5, <2>6, <2>7, <2>8, <2>9, <2>10 DEF CreditNext, CreditStep
  <1> QED BY <1>1, <1>2, PTL DEF CreditSpec

-----------------------------------------------------------------------------
(* The exposure as a sum over the outstanding orders.                      *)

LEMMA ExposureIsASum ==
  Exposure = SumOf(Total, Outstanding) /\ Exposure' = SumOf(Total, Outstanding')
  BY DEF Exposure, SumOf, MapThenSumSet, MapThenFoldSet

LEMMA OutstandingIsFinite ==
  ASSUME CreditTypeOK, OrdersAreCommitted
  PROVE  IsFiniteSet(Outstanding) /\ Outstanding \subseteq Committed \cap Acceptances
  <1>1. Outstanding \in SUBSET Committed
    BY DEF Outstanding, Committed, OrdersAreCommitted, Transactions
  <1> QED BY <1>1, FS_Subset DEF OrdersAreCommitted, Outstanding

LEMMA ExposureIsANumber ==
  ASSUME CreditTypeOK, OrdersAreCommitted
  PROVE  Exposure \in Nat
  <1>1. IsFiniteSet(Outstanding) /\ \A a \in Outstanding : Total[a] \in Nat
    BY OutstandingIsFinite, CreditAssumption DEF Outstanding
  <1> QED BY <1>1, SumType, ExposureIsASum

\* Fewer outstanding orders: less exposure.
LEMMA ExposureShrinks ==
  ASSUME CreditTypeOK, OrdersAreCommitted, Outstanding' \subseteq Outstanding
  PROVE  Exposure' \in Nat /\ Exposure' <= Exposure
  <1>1. IsFiniteSet(Outstanding) /\ \A a \in Outstanding : Total[a] \in Nat
    BY OutstandingIsFinite, CreditAssumption DEF Outstanding
  <1>2. IsFiniteSet(Outstanding') /\ \A a \in Outstanding' : Total[a] \in Nat
    BY <1>1, FS_Subset
  <1>3. Outstanding' \in SUBSET Outstanding
    OBVIOUS
  <1> QED BY <1>1, <1>2, <1>3, SumType, SumOfFewer, ExposureIsASum

\* One more: more exposure, by its total.
LEMMA ExposureGrows ==
  ASSUME CreditTypeOK, OrdersAreCommitted, NEW a \in Acceptances, a \notin Outstanding,
         Outstanding' = Outstanding \cup {a}
  PROVE  Exposure' = Exposure + Total[a]
  <1>1. IsFiniteSet(Outstanding) /\ \A b \in Outstanding \cup {a} : Total[b] \in Nat
    BY OutstandingIsFinite, CreditAssumption DEF Outstanding
  <1> QED BY <1>1, SumAdd, ExposureIsASum

-----------------------------------------------------------------------------
(* One lemma per kind of step.                                             *)

\* Every number drawn by a committed transaction is one that was handed out.
LEMMA DrawnBefore ==
  ASSUME OrderNumbersGapFree, CreditTypeOK
  PROVE  \A t \in Committed : number[t] \in 1..counter
  BY DEF OrderNumbersGapFree, Committed

\* The numbers do not change while no transaction commits and the committed
\* ones keep what they drew.
LEMMA NumbersKept ==
  ASSUME OrderNumbersGapFree, Committed' = Committed, counter' = counter,
         \A t \in Committed : number'[t] = number[t]
  PROVE  OrderNumbersGapFree'
  <1>1. {number'[t] : t \in Committed} = {number[t] : t \in Committed}
    OBVIOUS
  <1> QED BY <1>1 DEF OrderNumbersGapFree, Committed

\* A step that leaves the acceptances' progress and the locks alone, and adds
\* no order, keeps the invariant.
LEMMA RoomStays ==
  ASSUME CreditInv, CreditTypeOK', Outstanding' \subseteq Outstanding,
         UNCHANGED <<seen, release>>,
         \A a \in Acceptances : at'[a] \in Running => at[a] \in Running /\ terms' = terms,
         \A a \in Acceptances : at'[a] \in {"number", "insert"} => at[a] \in {"number", "insert"}
  PROVE  RoomIsKept'
  <1>1. Exposure' \in Nat /\ Exposure \in Nat /\ Exposure' <= Exposure
    BY ExposureShrinks, ExposureIsANumber DEF CreditInv
  <1>2. ASSUME NEW a \in Acceptances, at'[a] \in Running PROVE seen'[a] = terms'
    BY <1>2 DEF CreditInv, RoomIsKept
  <1>3. ASSUME NEW a \in Acceptances, at'[a] \in {"number", "insert"}, release'[a] = "CONFIRMED"
        PROVE  seen'[a] # Prepaid /\ Exposure' + Total[a] <= seen'[a]
    <2>1. seen[a] # Prepaid /\ Exposure + Total[a] <= seen[a]
      BY <1>3 DEF CreditInv, RoomIsKept
    <2>2. Total[a] \in Nat /\ seen[a] \in Nat
      BY <2>1, CreditAssumption DEF CreditInv, CreditTypeOK
    <2> QED BY <1>1, <2>1, <2>2
  <1> QED BY <1>2, <1>3 DEF RoomIsKept

LEMMA LockTermsStep ==
  ASSUME CreditInv, CreditTypeOK', NEW a \in Acceptances, LockTerms(a)
  PROVE  CreditInv'
  <1> USE DEF CreditInv, CreditTypeOK, LockTerms, Goto, Transactions
  <1>1. \A t \in Transactions : t # a => at'[t] = at[t]
    OBVIOUS
  <1>2. Committed' = Committed
    BY DEF Committed
  <1>3. Outstanding' = Outstanding
    BY DEF Outstanding
  <1>4. \A b \in Acceptances : at[b] \notin Running
    BY CreditAssumption DEF LocksAreHeld
  <1>5. LocksAreHeld'
    BY <1>4, <1>1 DEF LocksAreHeld, Running
  <1>6. OrdersAreCommitted'
    BY <1>2 DEF OrdersAreCommitted
  <1>7. RoomIsKept'
    BY <1>4 DEF RoomIsKept, Running
  <1>8. OrderNumbersGapFree'
    BY <1>2, NumbersKept
  <1> QED BY <1>5, <1>6, <1>7, <1>8

LEMMA DecideStep ==
  ASSUME CreditInv, CreditTypeOK', NEW a \in Acceptances, Decide(a)
  PROVE  CreditInv'
  <1> USE DEF CreditInv, CreditTypeOK, Decide, Goto, Transactions
  <1>1. Committed' = Committed
    BY DEF Committed
  <1>2. LocksAreHeld'
    BY DEF LocksAreHeld, Running
  <1>3. OrdersAreCommitted'
    BY <1>1 DEF OrdersAreCommitted
  <1>4. Exposure' = Exposure
    <2>1. Outstanding' = Outstanding
      BY DEF Outstanding
    <2> QED BY <2>1, ExposureIsASum
  <1>5. \A b \in Acceptances : at[b] \in Running => b = a
    BY CreditAssumption DEF LocksAreHeld, Running
  <1>6. RoomIsKept'
    BY <1>4, <1>5 DEF RoomIsKept, Running
  <1>7. OrderNumbersGapFree'
    BY <1>1, NumbersKept
  <1> QED BY <1>2, <1>3, <1>6, <1>7

\* BeginCheckout, DrawNumber and Rollback move one transaction that has not
\* committed and does not commit.
LEMMA DrawNumberStep ==
  ASSUME CreditInv, CreditTypeOK', NEW t \in Transactions, DrawNumber(t) \/ BeginCheckout(t)
  PROVE  CreditInv'
  <1> USE DEF CreditInv, CreditTypeOK, DrawNumber, BeginCheckout, Goto, Transactions
  <1>1. Committed' = Committed /\ \A s \in Committed : number'[s] = number[s]
    BY DEF Committed
  <1>2. LocksAreHeld'
    BY CreditAssumption DEF LocksAreHeld, Running
  <1>3. OrdersAreCommitted'
    BY <1>1 DEF OrdersAreCommitted
  <1>4. RoomIsKept'
    <2>1. Outstanding' = Outstanding
      BY DEF Outstanding
    <2>2. \A a \in Acceptances : at'[a] \in Running => at[a] \in Running /\ terms' = terms
      BY CreditAssumption DEF Running
    <2>3. \A a \in Acceptances : at'[a] \in {"number", "insert"} => at[a] \in {"number", "insert"}
      BY CreditAssumption
    <2> QED BY <2>1, <2>2, <2>3, RoomStays
  <1>5. OrderNumbersGapFree'
    BY <1>1, NumbersKept
  <1> QED BY <1>2, <1>3, <1>4, <1>5

LEMMA RollbackStep ==
  ASSUME CreditInv, CreditTypeOK', NEW t \in Transactions, Rollback(t)
  PROVE  CreditInv'
  <1> USE DEF CreditInv, CreditTypeOK, Rollback, Goto, Transactions
  <1>1. Committed' = Committed /\ \A s \in Committed : number'[s] = number[s]
    BY DEF Committed
  <1>2. LocksAreHeld'
    BY CreditAssumption DEF LocksAreHeld, Running
  <1>3. OrdersAreCommitted'
    BY <1>1 DEF OrdersAreCommitted
  <1>4. RoomIsKept'
    <2>1. Outstanding' = Outstanding
      BY DEF Outstanding
    <2>2. \A a \in Acceptances : at'[a] \in Running => at[a] \in Running /\ terms' = terms
      BY DEF Running
    <2>3. \A a \in Acceptances : at'[a] \in {"number", "insert"} => at[a] \in {"number", "insert"}
      OBVIOUS
    <2> QED BY <2>1, <2>2, <2>3, RoomStays
  <1>5. OrderNumbersGapFree'
    BY <1>1, NumbersKept
  <1> QED BY <1>2, <1>3, <1>4, <1>5

\* Nobody has the organisation's row when its terms change.
LEMMA ReviewStep ==
  ASSUME CreditInv, CreditTypeOK', NEW new \in Limits \cup {Prepaid}, Review(new)
  PROVE  CreditInv'
  <1> USE DEF CreditInv, CreditTypeOK, Review, Transactions
  <1>1. Committed' = Committed /\ Outstanding' = Outstanding
    BY DEF Committed, Outstanding
  <1>2. \A a \in Acceptances : at[a] \notin Running
    BY CreditAssumption DEF LocksAreHeld
  <1>3. LocksAreHeld' /\ OrdersAreCommitted'
    BY <1>1 DEF LocksAreHeld, OrdersAreCommitted
  <1>4. RoomIsKept'
    BY <1>2 DEF RoomIsKept, Running
  <1>5. OrderNumbersGapFree'
    BY <1>1, NumbersKept
  <1> QED BY <1>3, <1>4, <1>5

\* A payment and a move by hand release or cancel what is already committed.
LEMMA SettleStep ==
  ASSUME CreditInv, CreditTypeOK', NEW a \in Acceptances,
         \/ RecordPayment(a)
         \/ \E to \in {"CONFIRMED", "CANCELLED"} : MoveOrder(a, to)
  PROVE  CreditInv'
  <1>1. /\ UNCHANGED <<at, terms, orgLock, seqLock, counter, seen, release, number>>
        /\ \A b \in Acceptances : b # a => orders'[b] = orders[b]
        /\ orders[a].status \in {"PENDING_PAYMENT", "CONFIRMED"}
    BY DEF RecordPayment, MoveOrder, Outstanding, CreditInv, CreditTypeOK
  <1>2. orders'[a].status = "CANCELLED" \/ orders'[a].paid \/ orders'[a].paid = orders[a].paid
    BY DEF RecordPayment, MoveOrder, Outstanding, CreditInv, CreditTypeOK
  <1>3. Outstanding' \subseteq Outstanding
    BY <1>1, <1>2 DEF Outstanding
  <1>4. Committed' = Committed
    BY <1>1 DEF Committed
  <1>5. LocksAreHeld'
    BY <1>1 DEF CreditInv, LocksAreHeld
  <1>6. at[a] = "done"
    BY <1>1 DEF CreditInv, OrdersAreCommitted
  <1>7. OrdersAreCommitted'
    BY <1>1, <1>4, <1>6 DEF CreditInv, OrdersAreCommitted
  <1>8. RoomIsKept'
    BY <1>1, <1>3, RoomStays
  <1>9. OrderNumbersGapFree'
    BY <1>1, <1>4, NumbersKept DEF CreditInv
  <1> QED BY <1>5, <1>7, <1>8, <1>9 DEF CreditInv

\* The numbers up to the next one.
LEMMA CountTo == \A n \in Nat : (1..n) \cup {n + 1} = 1..(n + 1)
  <1> SUFFICES ASSUME NEW n \in Nat PROVE (1..n) \cup {n + 1} = 1..(n + 1)
    OBVIOUS
  <1>1. ASSUME NEW i PROVE i \in (1..n) \cup {n + 1} <=> i \in 1..(n + 1)
    OBVIOUS
  <1> QED BY <1>1

\* The commit: the order joins the exposure, and the counter the number drawn.
LEMMA CommitStep ==
  ASSUME CreditInv, CreditTypeOK', NEW t \in Transactions, CommitOrder(t)
  PROVE  /\ CreditInv'
         /\ t \in Acceptances /\ release[t] = "CONFIRMED" => terms # Prepaid /\ Exposure' <= terms
  <1> USE DEF CreditInv, CreditTypeOK, Transactions
  <1>1. /\ at[t] = "insert" /\ at' = [at EXCEPT ![t] = "done"]
        /\ counter' = number[t] /\ number[t] = counter + 1
        /\ UNCHANGED <<terms, seen, release, number>>
        /\ seqLock = t
    BY DEF CommitOrder, Goto, LocksAreHeld
  <1>2. Committed' = Committed \cup {t} /\ t \notin Committed
    BY <1>1 DEF Committed
  <1>3. IsFiniteSet(Committed)
    BY DEF OrdersAreCommitted
  <1>4. LocksAreHeld'
    <2>1. ASSUME NEW a \in Acceptances, at'[a] \in Running PROVE orgLock' = a
      <3>1. a # t /\ at[a] \in Running
        BY <1>1, <2>1 DEF Running
      <3>2. orgLock = a
        BY <3>1 DEF LocksAreHeld
      <3> QED BY <3>1, <3>2 DEF CommitOrder
    <2>2. \A s \in Transactions : at'[s] # "insert"
      <3>1. \A s \in Transactions : at[s] = "insert" => s = t
        BY <1>1 DEF LocksAreHeld
      <3> QED BY <1>1, <3>1
    <2> QED BY <2>1, <2>2 DEF LocksAreHeld
  <1>5. OrdersAreCommitted'
    <2>1. IsFiniteSet(Committed')
      BY <1>2, <1>3, FS_AddElement
    <2>2. ASSUME NEW a \in Acceptances, at'[a] # "done" PROVE orders'[a].status = "NONE"
      <3>1. a # t /\ at[a] # "done"
        BY <1>1, <2>2
      <3>2. orders'[a] = orders[a]
        BY <3>1 DEF CommitOrder
      <3> QED BY <3>1, <3>2 DEF OrdersAreCommitted
    <2> QED BY <2>1, <2>2 DEF OrdersAreCommitted
  <1>6. OrderNumbersGapFree'
    <2>1. {number'[s] : s \in Committed'} = {number[s] : s \in Committed} \cup {counter + 1}
      BY <1>1, <1>2
    <2>2. {number[s] : s \in Committed} = 1..counter /\ Cardinality(Committed) = counter
      BY DEF OrderNumbersGapFree, Committed
    <2>3. {number'[s] : s \in Committed'} = 1..counter'
      <3>1. (1..counter) \cup {counter + 1} = 1..(counter + 1)
        BY CountTo DEF CreditTypeOK
      <3>2. {number'[s] : s \in Committed'} = 1..(counter + 1)
        BY <2>1, <2>2, <3>1
      <3> QED BY <1>1, <3>2
    <2>4. Cardinality(Committed') = counter'
      BY <1>1, <1>2, <1>3, <2>2, FS_AddElement
    <2> QED BY <2>3, <2>4 DEF OrderNumbersGapFree, Committed
  <1>7. CASE t \in Acceptances
    <2>1. orgLock = t /\ seen[t] = terms
      BY <1>1, <1>7 DEF LocksAreHeld, RoomIsKept, Running
    <2>2. \A a \in Acceptances : at'[a] \notin Running
      <3>1. \A a \in Acceptances : at[a] \in Running => a = t
        BY <2>1 DEF LocksAreHeld
      <3> QED BY <1>1, <3>1 DEF Running
    <2>3. RoomIsKept'
      BY <2>2 DEF RoomIsKept, Running
    <2>4. t \notin Outstanding
      BY <1>1, <1>7 DEF Outstanding, OrdersAreCommitted
    <2>5. Outstanding' = Outstanding \cup {t}
      <3>1. orders' = [orders EXCEPT ![t] = [status |-> release[t], paid |-> FALSE]]
        BY <1>7 DEF CommitOrder
      <3> QED BY <1>7, <3>1 DEF Outstanding
    <2>6. Exposure' = Exposure + Total[t]
      BY <1>7, <2>4, <2>5, ExposureGrows
    <2>7. release[t] = "CONFIRMED" => terms # Prepaid /\ Exposure + Total[t] <= terms
      BY <1>1, <1>7, <2>1 DEF RoomIsKept
    <2> QED BY <1>4, <1>5, <1>6, <2>3, <2>6, <2>7
  <1>8. CASE t \notin Acceptances
    <2>1. orders' = orders
      BY <1>8 DEF CommitOrder
    <2>2. Outstanding' = Outstanding
      BY <2>1 DEF Outstanding
    <2>3. \A a \in Acceptances : at'[a] = at[a]
      BY <1>1, <1>8
    <2>4. RoomIsKept'
      BY <1>1, <2>2, <2>3, RoomStays
    <2> QED BY <1>4, <1>5, <1>6, <1>8, <2>4
  <1> QED BY <1>7, <1>8

-----------------------------------------------------------------------------
\* The invariant, and what a committing acceptance finds when it commits.
LEMMA CreditInvStep ==
  ASSUME CreditInv, CreditTypeOK', [CreditNext]_creditVars
  PROVE  CreditInv'
  <1>1. CASE UNCHANGED creditVars
    <2>1. Outstanding' = Outstanding /\ Committed' = Committed
      BY <1>1 DEF creditVars, Outstanding, Committed
    <2>2. LocksAreHeld' /\ OrdersAreCommitted'
      BY <1>1, <2>1 DEF creditVars, CreditInv, LocksAreHeld, OrdersAreCommitted
    <2>3. RoomIsKept'
      BY <1>1, <2>1, RoomStays DEF creditVars
    <2>4. OrderNumbersGapFree'
      BY <1>1, <2>1, NumbersKept DEF creditVars, CreditInv
    <2> QED BY <2>2, <2>3, <2>4 DEF CreditInv
  <1>2. ASSUME NEW t \in Transactions, CreditStep(t) \/ Rollback(t) PROVE CreditInv'
    BY <1>2, LockTermsStep, DecideStep, DrawNumberStep, CommitStep, RollbackStep DEF CreditStep
  <1>3. ASSUME NEW new \in Limits \cup {Prepaid}, Review(new) PROVE CreditInv'
    BY <1>3, ReviewStep
  <1>4. ASSUME NEW a \in Acceptances,
               RecordPayment(a) \/ MoveOrder(a, "CONFIRMED") \/ MoveOrder(a, "CANCELLED")
        PROVE  CreditInv'
    BY <1>4, SettleStep
  <1> QED BY <1>1, <1>2, <1>3, <1>4 DEF CreditNext

LEMMA CreditInvHolds == CreditSpec => []CreditInv
  <1>1. CreditInit => LocksAreHeld /\ OrdersAreCommitted /\ RoomIsKept /\ OrderNumbersGapFree
    <2> SUFFICES ASSUME CreditInit
                 PROVE  LocksAreHeld /\ OrdersAreCommitted /\ RoomIsKept /\ OrderNumbersGapFree
      OBVIOUS
    <2>1. Committed = {}
      BY DEF CreditInit, Committed
    <2>2. \A t \in Transactions : at[t] = "idle"
      BY DEF CreditInit
    <2>3. LocksAreHeld /\ RoomIsKept
      BY <2>2 DEF LocksAreHeld, RoomIsKept, Running, Transactions
    <2>4. OrdersAreCommitted
      BY <2>1, FS_EmptySet DEF CreditInit, OrdersAreCommitted, NoOrder
    <2>5. {number[t] : t \in Committed} = 1..counter /\ Cardinality(Committed) = counter
      BY <2>1, FS_EmptySet DEF CreditInit
    <2> QED BY <2>3, <2>4, <2>5 DEF OrderNumbersGapFree, Committed
  <1>2. CreditTypeOK /\ CreditTypeOK' /\ CreditInv /\ [CreditNext]_creditVars => CreditInv'
    BY CreditInvStep
  <1>3. CreditSpec => []CreditTypeOK
    BY CreditTypes
  <1>4. CreditTypeOK /\ CreditInit => CreditInv
    BY <1>1 DEF CreditInv
  <1> QED BY <1>2, <1>3, <1>4, PTL DEF CreditSpec

\* Order numbers are 1, 2, 3, ... over the transactions that commit, however
\* many there are, however they interleave and whichever roll back.
THEOREM NumbersAreGapFree == CreditSpec => []OrderNumbersGapFree
  <1>1. CreditInv => OrderNumbersGapFree
    BY DEF CreditInv
  <1> QED BY <1>1, CreditInvHolds, PTL

\* What is released on credit fits the limit in force at the commit, with
\* everything outstanding at that moment.
THEOREM ReleasesFitTheLimit == CreditSpec => ReleasedWithinLimit
  <1> DEFINE Fits == \A a \in Acceptances :
                       at[a] = "insert" /\ at'[a] = "done" /\ release[a] = "CONFIRMED"
                       => /\ terms # Prepaid
                          /\ Exposure' <= terms
  <1>1. CreditInv /\ CreditTypeOK' /\ [CreditNext]_creditVars => Fits
    <2> SUFFICES ASSUME CreditInv, CreditTypeOK', [CreditNext]_creditVars,
                        NEW a \in Acceptances, at[a] = "insert", at'[a] = "done",
                        release[a] = "CONFIRMED"
                 PROVE  terms # Prepaid /\ Exposure' <= terms
      OBVIOUS
    <2>1. at \in [Transactions -> At]
      BY DEF CreditInv, CreditTypeOK
    <2>2. PICK t \in Transactions : CreditStep(t) \/ Rollback(t)
      BY DEF CreditNext, creditVars, Review, RecordPayment, MoveOrder
    <2>3. CASE CommitOrder(t)
      <3>1. a = t
        BY <2>1, <2>3 DEF CommitOrder, Goto
      <3> QED BY <2>3, <3>1, CommitStep
    <2>4. CASE ~CommitOrder(t)
      <3>1. PICK to \in At \ {"done"} : at' = [at EXCEPT ![t] = to]
        BY <2>2, <2>4 DEF CreditStep, BeginCheckout, LockTerms, Decide, DrawNumber, Rollback, Goto, At
      <3>2. at'[a] # "done"
        BY <2>1, <3>1
      <3> QED BY <3>2
    <2> QED BY <2>3, <2>4
  <1> QED BY <1>1, CreditInvHolds, CreditTypes, PTL DEF CreditSpec, ReleasedWithinLimit

-----------------------------------------------------------------------------
(***************************************************************************)
(* The catalogue.  A price range has both ends or neither, in order: in    *)
(* the row, and in what every editor loaded and changed.  No category is   *)
(* its own parent, so that nothing is counted twice.                       *)
(***************************************************************************)
InRange(p) == (p.priceMin = 0) = (p.priceMax = 0) /\ p.priceMin <= p.priceMax

RangesInOrder ==
  /\ InRange(product)
  /\ \A s \in Staff : form[s] # Closed => InRange(form[s].base) /\ InRange(form[s].draft)

NotItsOwnParent == \A c \in Category : parent[c] # c

CatalogueInv == CatalogueTypeOK /\ RangesInOrder /\ NotItsOwnParent

LEMMA CategoriesAre ==
  /\ Category \subseteq Int /\ NoCategory \notin Category /\ Gone \notin Category
  /\ NoCategory # Gone /\ Amounts \subseteq Nat /\ {0, 1, 2} \subseteq Amounts
  /\ MaxSaves \in Nat
  BY CatalogueAssumption DEF NoCategory, Gone

Opened(base, draft)       == [at |-> "open", base |-> base, draft |-> draft]
Reads(base, draft, stored) == [at |-> "read", base |-> base, draft |-> draft, stored |-> stored]

\* An editor is closed, or open on what it loaded, or saving.
EditorState ==
  {Closed} \cup [at : {"open"}, base : Product, draft : Product]
           \cup [at : {"read"}, base : Product, draft : Product, stored : [Ends -> Amounts]]
PickerState ==
  {Closed} \cup [at : {"open"}, list : [Category -> Category \cup {NoCategory, -1}],
                 edits : Category]

LEMMA CatalogueStarts == CatalogueInit => CatalogueInv
  <1> SUFFICES ASSUME CatalogueInit PROVE CatalogueInv
    OBVIOUS
  <1>1. PICK c \in Category : product = [ priceMin |-> 1, priceMax |-> 2, stock |-> 1,
                  stockStatus |-> "IN_STOCK", isActive |-> TRUE, isTradeOnly |-> FALSE,
                  category |-> c ]
    BY CatalogueAssumption DEF CatalogueInit
  <1>2. product \in Product /\ InRange(product)
    BY <1>1, CategoriesAre DEF Product, InRange
  <1>3. CatalogueTypeOK
    BY <1>2, CategoriesAre DEF CatalogueInit, CatalogueTypeOK, NoCategory
  <1>4. RangesInOrder /\ NotItsOwnParent
    BY <1>2, CategoriesAre DEF CatalogueInit, RangesInOrder, NotItsOwnParent
  <1> QED BY <1>3, <1>4 DEF CatalogueInv

\* What a sitting changes in a form is a product again.
LEMMA DraftsAreProducts ==
  ASSUME CatalogueTypeOK, NEW base \in Product, NEW draft \in Drafts(base)
  PROVE  draft \in Product
  <1>1. [base EXCEPT !.stock = 2] \in Product /\ [base EXCEPT !.isTradeOnly = TRUE] \in Product
    <2>1. ASSUME NEW n \in 0..2 PROVE [base EXCEPT !.stock = n] \in Product
      BY DEF Product
    <2>2. ASSUME NEW b \in BOOLEAN PROVE [base EXCEPT !.isTradeOnly = b] \in Product
      BY DEF Product
    <2>3. 2 \in 0..2 /\ TRUE \in BOOLEAN
      OBVIOUS
    <2> QED BY <2>1, <2>2, <2>3
  <1>2. ASSUME NEW row \in Product, NEW a \in Amounts
        PROVE  [row EXCEPT !.priceMin = a] \in Product /\ [row EXCEPT !.priceMax = a] \in Product
    BY DEF Product
  <1>3. [base EXCEPT !.priceMin = 0, !.priceMax = 0] \in Product
    <2> DEFINE one == [base EXCEPT !.priceMin = 0]
               two == [one EXCEPT !.priceMax = 0]
               x   == [base EXCEPT !.priceMin = 0, !.priceMax = 0]
    <2>1. one \in Product
      BY <1>2, CategoriesAre
    <2>2. two \in Product
      <3> HIDE DEF one
      <3> QED BY <1>2, <2>1, CategoriesAre
    <2>3. x = two
      OBVIOUS
    <2> HIDE DEF two
    <2> QED BY <2>2, <2>3, Zenon
  <1>4. base.priceMin \in Amounts /\ base.priceMax \in Amounts
    BY DEF Product
  <1>5. ASSUME NEW c \in Existing(parent) PROVE [base EXCEPT !.category = c] \in Product
    BY DEF Product, Existing
  <1>6. \/ draft = [base EXCEPT !.stock = 2] \/ draft = [base EXCEPT !.isTradeOnly = TRUE]
        \/ draft = [base EXCEPT !.priceMin = 0, !.priceMax = 0]
        \/ draft = [base EXCEPT !.priceMin = base.priceMax]
        \/ draft = [base EXCEPT !.priceMax = base.priceMin]
        \/ \E c \in Existing(parent) : draft = [base EXCEPT !.category = c]
    BY ZenonT(30) DEF Drafts
  <1>7. [base EXCEPT !.priceMin = base.priceMax] \in Product
        /\ [base EXCEPT !.priceMax = base.priceMin] \in Product
    BY <1>2, <1>4
  <1> QED BY <1>1, <1>3, <1>5, <1>6, <1>7, Zenon

LEMMA OpenEditorKeeps ==
  ASSUME CatalogueInv, NEW s \in Staff, OpenEditor(s)
  PROVE  CatalogueInv'
  <1>1. /\ form' = [form EXCEPT ![s] = Opened(product, product)]
        /\ UNCHANGED <<product, parent, picker, saves>>
    BY DEF OpenEditor, Opened
  <1>2. product \in Product /\ form \in [Staff -> EditorState]
    BY DEF CatalogueInv, CatalogueTypeOK, EditorState
  <1>3. Opened(product, product) \in EditorState
    BY <1>2 DEF Opened, EditorState
  <1>4. CatalogueTypeOK'
    BY <1>1, <1>2, <1>3 DEF CatalogueInv, CatalogueTypeOK, EditorState
  <1>5. RangesInOrder' /\ NotItsOwnParent'
    BY <1>1, <1>2 DEF CatalogueInv, RangesInOrder, NotItsOwnParent, Opened
  <1> QED BY <1>4, <1>5 DEF CatalogueInv

LEMMA EditKeeps ==
  ASSUME CatalogueInv, NEW s \in Staff, form[s].at = "open",
         NEW draft \in Drafts(form[s].base), Edit(s, draft)
  PROVE  CatalogueInv'
  <1>1. /\ UNCHANGED <<product, parent, picker, saves>>
        /\ InRange(draft)
    BY DEF Edit, InRange
  <1>2. /\ form \in [Staff -> EditorState] /\ form[s] # Closed
        /\ form[s] \in [at : {"open"}, base : Product, draft : Product]
    BY DEF CatalogueInv, CatalogueTypeOK, EditorState, Closed
  <1>3. form[s].base \in Product /\ draft \in Product
    BY <1>2, DraftsAreProducts DEF CatalogueInv
  <1>4. form' = [form EXCEPT ![s] = Opened(form[s].base, draft)]
    <2>1. form' = [form EXCEPT ![s].draft = draft]
      BY DEF Edit
    <2>2. form'[s] = Opened(form[s].base, draft)
      BY <1>2, <2>1 DEF Opened
    <2>3. DOMAIN form' = Staff /\ \A q \in Staff \ {s} : form'[q] = form[q]
      BY <1>2, <2>1
    <2>4. form' = [q \in Staff |-> form'[q]]
      BY <1>2, <2>1
    <2> QED BY <1>2, <2>2, <2>3, <2>4
  <1>5. Opened(form[s].base, draft) \in EditorState
    BY <1>3 DEF Opened, EditorState
  <1>6. CatalogueTypeOK'
    BY <1>1, <1>2, <1>4, <1>5 DEF CatalogueInv, CatalogueTypeOK, EditorState
  <1>7. RangesInOrder' /\ NotItsOwnParent'
    BY <1>1, <1>2, <1>4 DEF CatalogueInv, RangesInOrder, NotItsOwnParent, Opened
  <1> QED BY <1>6, <1>7 DEF CatalogueInv

LEMMA ReadRowKeeps ==
  ASSUME CatalogueInv, NEW s \in Staff, ReadRow(s)
  PROVE  CatalogueInv'
  <1> DEFINE row == [f \in Ends |-> product[f]]
  <1>1. /\ form' = [form EXCEPT ![s] = Reads(form[s].base, form[s].draft, row)]
        /\ UNCHANGED <<product, parent, picker>> /\ saves < MaxSaves /\ saves' = saves + 1
    BY DEF ReadRow, Saved, Reads
  <1>2. /\ form \in [Staff -> EditorState] /\ form[s] # Closed
        /\ form[s] \in [at : {"open"}, base : Product, draft : Product]
    BY DEF ReadRow, CatalogueInv, CatalogueTypeOK, EditorState, Closed
  <1>3. row \in [Ends -> Amounts]
    BY DEF CatalogueInv, CatalogueTypeOK, Product, Ends
  <1> HIDE DEF row
  <1>4. Reads(form[s].base, form[s].draft, row) \in EditorState
    BY <1>2, <1>3 DEF Reads, EditorState
  <1>5. saves' \in 0..MaxSaves
    BY <1>1, CategoriesAre DEF CatalogueInv, CatalogueTypeOK
  <1>6. CatalogueTypeOK'
    BY <1>1, <1>2, <1>4, <1>5 DEF CatalogueInv, CatalogueTypeOK, EditorState
  <1>7. RangesInOrder' /\ NotItsOwnParent'
    BY <1>1, <1>2 DEF CatalogueInv, RangesInOrder, NotItsOwnParent, Reads
  <1> QED BY <1>6, <1>7 DEF CatalogueInv

\* What a save writes: the fields sent, over the row as it is by then.
Written(body) == [f \in DOMAIN product |-> IF f \in DOMAIN body THEN body[f] ELSE product[f]]

LEMMA BodySent ==
  ASSUME NEW base \in Product, NEW draft \in Product
  PROVE  /\ DOMAIN Body(base, draft) \subseteq DOMAIN draft
         /\ \A f \in DOMAIN Body(base, draft) : Body(base, draft)[f] = draft[f]
         /\ \A f \in DOMAIN draft \ Ends : f \in DOMAIN Body(base, draft) <=> draft[f] # base[f]
         /\ \/ Ends \subseteq DOMAIN Body(base, draft)
            \/ Ends \cap DOMAIN Body(base, draft) = {}
  <1>1. Ends \subseteq DOMAIN draft
    BY DEF Ends, Product
  <1> QED BY <1>1 DEF Body

\* The row after a save: typed, with its range in order.
LEMMA WrittenIsAProduct ==
  ASSUME product \in Product, NEW base \in Product, NEW draft \in Product,
         InRange(product), InRange(draft)
  PROVE  /\ Written(Body(base, draft)) \in Product
         /\ InRange(Written(Body(base, draft)))
         /\ \A f \in DOMAIN product \ Ends :
              draft[f] = base[f] => Written(Body(base, draft))[f] = product[f]
  <1> DEFINE body == Body(base, draft)
             row  == Written(body)
             fields == {"priceMin", "priceMax", "stock", "stockStatus", "isActive",
                        "isTradeOnly", "category"}
  <1>1. DOMAIN product = fields /\ DOMAIN draft = fields
    BY DEF Product
  <1>2. \A f \in fields : row[f] = IF f \in DOMAIN body THEN draft[f] ELSE product[f]
    <2>1. \A f \in DOMAIN body : body[f] = draft[f]
      BY BodySent
    <2> HIDE DEF body
    <2> QED BY <1>1, <2>1 DEF Written
  <1>3. DOMAIN row = fields /\ row = [f \in fields |-> row[f]]
    BY <1>1 DEF Written
  <1>4. /\ \A f \in fields \ Ends : f \in DOMAIN body <=> draft[f] # base[f]
        /\ Ends \subseteq DOMAIN body \/ Ends \cap DOMAIN body = {}
    BY <1>1, BodySent
  <1> HIDE DEF row, body
  <1>5. \A f \in fields : row[f] = draft[f] \/ row[f] = product[f]
    BY <1>2
  <1>6. /\ row.priceMin \in Amounts /\ row.priceMax \in Amounts
        /\ row.stock \in 0..2 /\ row.stockStatus \in {"IN_STOCK", "ON_ORDER"}
        /\ row.isActive \in BOOLEAN /\ row.isTradeOnly \in BOOLEAN
        /\ row.category \in Category \cup {NoCategory}
    BY <1>5 DEF Product
  <1>7. row = [ priceMin |-> row.priceMin, priceMax |-> row.priceMax, stock |-> row.stock,
                stockStatus |-> row.stockStatus, isActive |-> row.isActive,
                isTradeOnly |-> row.isTradeOnly, category |-> row.category ]
    BY <1>3
  <1>8. row \in Product
    BY <1>6, <1>7 DEF Product
  <1>9. \/ row.priceMin = draft.priceMin /\ row.priceMax = draft.priceMax
        \/ row.priceMin = product.priceMin /\ row.priceMax = product.priceMax
    BY <1>2, <1>4 DEF Ends
  <1>10. InRange(row)
    BY <1>9 DEF InRange
  <1> QED BY <1>1, <1>2, <1>4, <1>8, <1>10 DEF row, body

LEMMA UpdateKeeps ==
  ASSUME CatalogueInv, NEW s \in Staff, Update(s)
  PROVE  /\ CatalogueInv'
         /\ \A f \in DOMAIN product \ Ends :
              form[s].draft[f] = form[s].base[f] => product'[f] = product[f]
  <1> DEFINE base == form[s].base
             draft == form[s].draft
  <1>1. /\ product' = Written(Body(base, draft))
        /\ form' = [form EXCEPT ![s] = Closed] /\ UNCHANGED <<parent, picker, saves>>
    BY DEF Update, Written
  <1>2. /\ form \in [Staff -> EditorState] /\ form[s] # Closed
        /\ form[s] \in [at : {"read"}, base : Product, draft : Product, stored : [Ends -> Amounts]]
    BY DEF Update, CatalogueInv, CatalogueTypeOK, EditorState, Closed
  <1>3. base \in Product /\ draft \in Product /\ product \in Product /\ InRange(product)
        /\ InRange(draft)
    BY <1>2 DEF CatalogueInv, CatalogueTypeOK, RangesInOrder
  <1>4. /\ product' \in Product /\ InRange(product)'
        /\ \A f \in DOMAIN product \ Ends : draft[f] = base[f] => product'[f] = product[f]
    BY <1>1, <1>3, WrittenIsAProduct DEF InRange
  <1>5. CatalogueTypeOK'
    BY <1>1, <1>2, <1>4 DEF CatalogueInv, CatalogueTypeOK, EditorState
  <1>6. RangesInOrder' /\ NotItsOwnParent'
    BY <1>1, <1>2, <1>4 DEF CatalogueInv, RangesInOrder, NotItsOwnParent
  <1> QED BY <1>4, <1>5, <1>6 DEF CatalogueInv

LEMMA EditorKeeps ==
  ASSUME CatalogueInv, NEW s \in Staff, Refused(s) \/ CloseEditor(s)
  PROVE  CatalogueInv'
  <1>1. UNCHANGED <<product, parent, picker, saves>>
    BY DEF Refused, CloseEditor
  <1>2. form \in [Staff -> EditorState]
    BY DEF CatalogueInv, CatalogueTypeOK, EditorState
  <1>3. PICK state \in EditorState : /\ form' = [form EXCEPT ![s] = state]
           /\ \/ state = Closed
              \/ form[s] # Closed /\ state.base = form[s].base /\ state.draft = form[s].draft
    <2>1. CASE Refused(s)
      <3>1. form[s] # Closed /\ form[s].base \in Product /\ form[s].draft \in Product
        BY <1>2, <2>1 DEF Refused, EditorState, Closed
      <3>2. Opened(form[s].base, form[s].draft) \in EditorState
        BY <3>1 DEF Opened, EditorState
      <3> QED BY <2>1, <3>1, <3>2 DEF Refused, Opened
    <2>2. CASE CloseEditor(s)
      <3>1. Closed \in EditorState
        BY DEF EditorState
      <3> QED BY <2>2, <3>1 DEF CloseEditor
    <2> QED BY <2>1, <2>2
  <1>4. CatalogueTypeOK'
    <2>1. form' \in [Staff -> EditorState]
      BY <1>2, <1>3
    <2> QED BY <1>1, <2>1 DEF CatalogueInv, CatalogueTypeOK, EditorState
  <1>5. RangesInOrder'
    <2>1. ASSUME NEW q \in Staff, form'[q] # Closed
          PROVE  InRange(form'[q].base) /\ InRange(form'[q].draft)
      BY <1>2, <1>3, <2>1 DEF CatalogueInv, RangesInOrder
    <2> QED BY <1>1, <2>1 DEF CatalogueInv, RangesInOrder, InRange
  <1>6. NotItsOwnParent'
    BY <1>1 DEF CatalogueInv, NotItsOwnParent
  <1> QED BY <1>4, <1>5, <1>6 DEF CatalogueInv

\* A count, an archived or a restored product, a product without its category.
LEMMA ProductKeeps ==
  ASSUME CatalogueInv, UNCHANGED <<form, picker>>, saves' \in 0..MaxSaves,
         product' \in Product, product'.priceMin = product.priceMin,
         product'.priceMax = product.priceMax,
         parent' \in [Category -> Category \cup {NoCategory, -1}], NotItsOwnParent'
  PROVE  CatalogueInv'
  BY DEF CatalogueInv, CatalogueTypeOK, RangesInOrder, InRange

LEMMA SavedOnce == ASSUME CatalogueTypeOK, Saved PROVE saves' \in 0..MaxSaves
  BY CategoriesAre DEF CatalogueTypeOK, Saved

LEMMA CountShelfKept ==
  ASSUME CatalogueInv, NEW n \in 0..2, CountShelf(n)
  PROVE  CatalogueInv'
  <1> DEFINE one == [product EXCEPT !.stock = n]
             two == [one EXCEPT !.stockStatus = IF n > 0 THEN "IN_STOCK" ELSE "ON_ORDER"]
  <1>1. product' = two /\ UNCHANGED <<form, parent, picker>> /\ saves' \in 0..MaxSaves
    BY SavedOnce DEF CountShelf, CatalogueInv
  <1>2. product \in Product /\ one \in Product
        /\ one.priceMin = product.priceMin /\ one.priceMax = product.priceMax
    BY DEF CatalogueInv, CatalogueTypeOK, Product
  <1>3. two \in Product /\ two.priceMin = one.priceMin /\ two.priceMax = one.priceMax
    <2> HIDE DEF one
    <2> QED BY <1>2 DEF Product
  <1> HIDE DEF one, two
  <1>4. NotItsOwnParent' /\ parent' \in [Category -> Category \cup {NoCategory, -1}]
    BY <1>1 DEF CatalogueInv, CatalogueTypeOK, NotItsOwnParent
  <1> QED BY <1>1, <1>2, <1>3, <1>4, ProductKeeps

LEMMA ActiveKept ==
  ASSUME CatalogueInv, Archive \/ Restore
  PROVE  CatalogueInv'
  <1>1. PICK a \in BOOLEAN : product' = [product EXCEPT !.isActive = a]
    BY DEF Archive, Restore
  <1>2. UNCHANGED <<form, parent, picker>> /\ saves' \in 0..MaxSaves
    BY SavedOnce DEF Archive, Restore, CatalogueInv
  <1>3. /\ product' \in Product /\ product'.priceMin = product.priceMin
        /\ product'.priceMax = product.priceMax
    BY <1>1 DEF CatalogueInv, CatalogueTypeOK, Product
  <1>4. NotItsOwnParent' /\ parent' \in [Category -> Category \cup {NoCategory, -1}]
    BY <1>2 DEF CatalogueInv, CatalogueTypeOK, NotItsOwnParent
  <1> QED BY <1>2, <1>3, <1>4, ProductKeeps

LEMMA RemoveKeeps ==
  ASSUME CatalogueInv, NEW c \in Category, RemoveCategory(c)
  PROVE  CatalogueInv'
  <1>1. PICK k : /\ product' = [product EXCEPT !.category = k]
                 /\ k = IF product.category = c THEN NoCategory ELSE product.category
    BY DEF RemoveCategory
  <1>2. UNCHANGED <<form, picker>> /\ saves' \in 0..MaxSaves
    BY SavedOnce DEF RemoveCategory, CatalogueInv
  <1>3. k \in Category \cup {NoCategory}
    BY <1>1 DEF CatalogueInv, CatalogueTypeOK, Product
  <1>4. /\ product' \in Product /\ product'.priceMin = product.priceMin
        /\ product'.priceMax = product.priceMax
    BY <1>1, <1>3 DEF CatalogueInv, CatalogueTypeOK, Product
  <1>5. NotItsOwnParent' /\ parent' \in [Category -> Category \cup {NoCategory, -1}]
    BY CategoriesAre DEF RemoveCategory, CatalogueInv, CatalogueTypeOK, NotItsOwnParent, Gone
  <1> QED BY <1>2, <1>3, <1>4, <1>5, ProductKeeps

LEMMA CreateKeeps ==
  ASSUME CatalogueInv, NEW c \in Category, NEW p \in Category \cup {NoCategory},
         CreateCategory(c, p)
  PROVE  CatalogueInv'
  <1>1. UNCHANGED <<product, form, picker>> /\ saves' \in 0..MaxSaves
    BY SavedOnce DEF CreateCategory, CatalogueInv
  <1>2. p # c
    BY CategoriesAre DEF CreateCategory, TopLevel
  <1>3. NotItsOwnParent' /\ parent' \in [Category -> Category \cup {NoCategory, -1}]
    BY <1>2 DEF CreateCategory, CatalogueInv, CatalogueTypeOK, NotItsOwnParent
  <1> QED BY <1>1, <1>3, ProductKeeps DEF CatalogueInv, CatalogueTypeOK

LEMMA PickerKeeps ==
  ASSUME CatalogueInv, NEW s \in Staff,
         \/ \E c \in Category : OpenCategory(s, c)
         \/ CloseCategory(s)
         \/ \E p \in Category \cup {NoCategory} : UpdateCategory(s, p)
  PROVE  CatalogueInv'
  <1>1. picker \in [Staff -> PickerState] /\ product' = product /\ form' = form
    BY DEF CatalogueInv, CatalogueTypeOK, PickerState, OpenCategory, CloseCategory, UpdateCategory
  <1>2. picker' \in [Staff -> PickerState]
    <2>1. ASSUME NEW c \in Category, OpenCategory(s, c) PROVE picker' \in [Staff -> PickerState]
      <3>1. [at |-> "open", list |-> parent, edits |-> c] \in PickerState
        BY DEF CatalogueInv, CatalogueTypeOK, PickerState
      <3> QED BY <1>1, <2>1, <3>1 DEF OpenCategory
    <2> QED BY <1>1, <2>1 DEF CloseCategory, UpdateCategory, PickerState
  <1>3. saves' \in 0..MaxSaves /\ NotItsOwnParent'
        /\ parent' \in [Category -> Category \cup {NoCategory, -1}]
    <2>1. ASSUME NEW p \in Category \cup {NoCategory}, UpdateCategory(s, p)
          PROVE  saves' \in 0..MaxSaves /\ NotItsOwnParent'
                 /\ parent' \in [Category -> Category \cup {NoCategory, -1}]
      <3>1. picker[s].edits \in Category
        BY <1>1, <2>1 DEF UpdateCategory, PickerState, Closed
      <3>2. \/ UNCHANGED <<parent, saves>>
            \/ p # picker[s].edits /\ Saved /\ parent' = [parent EXCEPT ![picker[s].edits] = p]
        BY <2>1 DEF UpdateCategory
      <3> QED BY <3>1, <3>2, SavedOnce DEF CatalogueInv, CatalogueTypeOK, NotItsOwnParent
    <2>2. CASE \E c \in Category : OpenCategory(s, c)
      BY <2>2 DEF OpenCategory, CatalogueInv, CatalogueTypeOK, NotItsOwnParent
    <2>3. CASE CloseCategory(s)
      BY <2>3 DEF CloseCategory, CatalogueInv, CatalogueTypeOK, NotItsOwnParent
    <2> QED BY <2>1, <2>2, <2>3
  <1>4. CatalogueTypeOK'
    BY <1>1, <1>2, <1>3 DEF CatalogueInv, CatalogueTypeOK, PickerState
  <1>5. RangesInOrder'
    BY <1>1 DEF CatalogueInv, RangesInOrder
  <1> QED BY <1>3, <1>4, <1>5 DEF CatalogueInv

LEMMA CatalogueStep == CatalogueInv /\ [CatalogueNext]_catalogueVars => CatalogueInv'
  <1> SUFFICES ASSUME CatalogueInv, [CatalogueNext]_catalogueVars PROVE CatalogueInv'
    OBVIOUS
  <1>1. CASE UNCHANGED catalogueVars
    BY <1>1 DEF catalogueVars, CatalogueInv, CatalogueTypeOK, RangesInOrder, NotItsOwnParent
  <1> QED BY <1>1, OpenEditorKeeps, EditKeeps, ReadRowKeeps, UpdateKeeps, EditorKeeps,
             CountShelfKept, ActiveKept, RemoveKeeps, CreateKeeps, PickerKeeps
          DEF CatalogueNext

LEMMA CatalogueInvAlways == CatalogueSpec => []CatalogueInv
  BY CatalogueStarts, CatalogueStep, PTL DEF CatalogueSpec

\* Every form, row and list of the catalogue is what it should be.
THEOREM CatalogueTypes == CatalogueSpec => []CatalogueTypeOK
  <1>1. CatalogueInv => CatalogueTypeOK
    BY DEF CatalogueInv
  <1> QED BY <1>1, CatalogueInvAlways, PTL

\* The number beside a category is the number its page lists.
THEOREM CountsAreHonest == CatalogueSpec => []CountsMatchTheFilter
  <1>1. CatalogueInv => CountsMatchTheFilter
    <2> SUFFICES ASSUME CatalogueInv, NEW c \in Existing(parent)
                 PROVE  ShownCount(parent, product, c)
                          = IF Lists(parent, product, c) THEN 1 ELSE 0
      BY DEF CountsMatchTheFilter
    <2> DEFINE k == product.category
    <2>1. /\ c \in Category /\ parent[c] # Gone /\ parent[c] # c /\ c # NoCategory /\ c # Gone
          /\ k \in Category \cup {NoCategory}
      BY CategoriesAre DEF Existing, CatalogueInv, NotItsOwnParent, CatalogueTypeOK, Product
    <2>2. OwnCount(product, c) = IF product.isActive /\ ~product.isTradeOnly /\ k = c THEN 1 ELSE 0
      BY DEF OwnCount
    <2>3. OwnCount(product, k) = IF product.isActive /\ ~product.isTradeOnly THEN 1 ELSE 0
      BY DEF OwnCount
    <2>4. k \in ChildrenOf(parent, c) <=> k # NoCategory /\ parent[k] = c
      BY <2>1, CategoriesAre DEF ChildrenOf, Existing
    <2> QED BY <2>1, <2>2, <2>3, <2>4 DEF ShownCount, Lists
  <1> QED BY <1>1, CatalogueInvAlways, PTL

\* A save changes what its user changed, and leaves the range in order.
THEOREM SavesMindTheirOwn == CatalogueSpec => SavesKeepOthers
  <1> DEFINE Mine(s) ==
        form[s].at = "read" /\ form'[s].at = "closed" =>
         /\ \A f \in DOMAIN product \ Ends :
              form[s].draft[f] = form[s].base[f] => product'[f] = product[f]
         /\ (product'.priceMin = 0) = (product'.priceMax = 0)
         /\ InOrder(product'.priceMin, product'.priceMax)
  <1>1. CatalogueInv /\ CatalogueInv' /\ [CatalogueNext]_catalogueVars
          => [\A s \in Staff : Mine(s)]_catalogueVars
    <2> SUFFICES ASSUME CatalogueInv, CatalogueInv', CatalogueNext, NEW s \in Staff,
                        form[s].at = "read", form'[s].at = "closed"
                 PROVE  Mine(s)
      OBVIOUS
    <2>1. Update(s)
      <3>1. form \in [Staff -> EditorState]
        BY DEF CatalogueInv, CatalogueTypeOK, EditorState
      <3>2. ASSUME NEW q \in Staff, NEW draft, OpenEditor(q) \/ Edit(q, draft) PROVE FALSE
        <4>1. form[q].at # "read" /\ form'[q].at = "open" /\ \A r \in Staff \ {q} : form'[r] = form[r]
          BY <3>1, <3>2 DEF OpenEditor, Edit, Closed, EditorState
        <4> QED BY <4>1
      <3>3. ASSUME NEW q \in Staff, ReadRow(q) \/ Refused(q) \/ CloseEditor(q) PROVE FALSE
        <4>1. /\ \A r \in Staff \ {q} : form'[r] = form[r]
              /\ form[q].at # "read" \/ form'[q].at # "closed"
          BY <3>1, <3>3 DEF ReadRow, Refused, CloseEditor
        <4> QED BY <4>1
      <3>4. ASSUME NEW q \in Staff, Update(q) PROVE q = s
        BY <3>1, <3>4 DEF Update
      <3>5. form' # form
        OBVIOUS
      <3>6. \E q \in Staff : \/ OpenEditor(q) \/ ReadRow(q) \/ Update(q) \/ Refused(q)
                             \/ CloseEditor(q) \/ \E draft \in Drafts(form[q].base) : Edit(q, draft)
        BY <3>5 DEF CatalogueNext, CountShelf, Archive, Restore, OpenCategory, CloseCategory,
                    UpdateCategory, RemoveCategory, CreateCategory
      <3> QED BY <3>2, <3>3, <3>4, <3>6
    <2>2. /\ (product'.priceMin = 0) = (product'.priceMax = 0)
          /\ InOrder(product'.priceMin, product'.priceMax)
      BY DEF CatalogueInv, RangesInOrder, InRange, InOrder
    <2> QED BY <2>1, <2>2, UpdateKeeps
  <1> QED BY <1>1, CatalogueInvAlways, PTL DEF CatalogueSpec, SavesKeepOthers
=============================================================================
