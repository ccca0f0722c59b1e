---------------------------- MODULE ClientProofs ----------------------------
(***************************************************************************)
(* Proofs about what runs on the customer's side.                          *)
(*   The basket and its checkout, in the app and in a browser, for any     *)
(* number of products, tabs, refreshes and order requests: nobody is       *)
(* charged another total than the one on screen, an order is refused for   *)
(* its price only if the catalogue has changed, late prices change prices  *)
(* only, and a line of the app's basket is ordered once.                   *)
(*   The app's session, for any number of users, calls, sign-ins and       *)
(* tokens: while the account on screen is the one the store follows, the   *)
(* orders on screen are its own.                                           *)
(***************************************************************************)
EXTENDS Shop, MobileSession, Sums, SequenceTheorems, TLAPS

InFlight(a) == attempts[a] # Idle
Reading(r)  == refreshes[r] # Idle

-----------------------------------------------------------------------------
(***************************************************************************)
(* Lines and baskets.                                                      *)
(***************************************************************************)
LEMMA OffersAre ==
  ASSUME NEW c \in Offers
  PROVE  c.price \in Nat /\ c.min \in 1..MaxQuantity /\ c.price \in {d.price : d \in Offers}
  BY ShopConstants

\* A line whose quantity or price changes is the same line.
LEMMA LineKept ==
  ASSUME NEW line \in Line
  PROVE  /\ \A q \in 1..MaxQuantity : /\ [line EXCEPT !.qty = q] \in Line
                                      /\ [line EXCEPT !.qty = q].pick = line.pick
         /\ \A c \in Offers : /\ Repriced(line, c) \in Line
                              /\ Repriced(line, c).pick = line.pick
                              /\ Repriced(line, c).qty >= line.qty
  <1>1. ASSUME NEW q \in 1..MaxQuantity
        PROVE  [line EXCEPT !.qty = q] \in Line /\ [line EXCEPT !.qty = q].pick = line.pick
    BY DEF Line
  <1>2. ASSUME NEW c \in Offers
        PROVE  /\ Repriced(line, c) \in Line
               /\ Repriced(line, c).pick = line.pick
               /\ Repriced(line, c).qty >= line.qty
    <2>1. PICK q : q = IF client = "APP" THEN Max2(line.qty, c.min) ELSE line.qty
      OBVIOUS
    <2>2. q \in 1..MaxQuantity /\ q >= line.qty
      BY <2>1, OffersAre, ShopConstants DEF Max2, Line
    <2>3. Repriced(line, c) = [line EXCEPT !.price = c.price, !.min = c.min, !.qty = q]
      BY <2>1 DEF Repriced
    <2> QED BY <2>2, <2>3, OffersAre DEF Line
  <1> QED BY <1>1, <1>2

LEMMA ClampIn ==
  ASSUME NEW q \in Nat, NEW m \in 1..MaxQuantity
  PROVE  Clamp(q, m) \in 1..MaxQuantity
  BY ShopConstants DEF Clamp, Min2, Max2

LEMMA CartShape ==
  ASSUME NEW c \in Cart
  PROVE  c \in [DOMAIN c -> Line] /\ DOMAIN c \in SUBSET Products
  BY DEF Cart

LEMMA CartMade ==
  ASSUME NEW S \in SUBSET Products, NEW c \in [S -> Line]
  PROVE  c \in Cart /\ DOMAIN c = S
  BY DEF Cart

LEMMA EmptyCart == Empty \in Cart /\ PicksOf(Empty) = {}
  <1>1. Empty \in [{} -> Line] /\ {} \in SUBSET Products /\ DOMAIN Empty = {}
    BY DEF Empty
  <1>2. Empty \in Cart
    BY <1>1, CartMade
  <1>3. PicksOf(Empty) = {}
    BY <1>1 DEF PicksOf
  <1> QED BY <1>2, <1>3

LEMMA PicksMove ==
  ASSUME NEW c \in Cart, NEW d \in Cart, NEW X,
         \A p \in DOMAIN d : d[p].pick \in X \/ (p \in DOMAIN c /\ d[p].pick = c[p].pick)
  PROVE  PicksOf(d) \subseteq PicksOf(c) \cup X
  BY DEF PicksOf

\* addToCart puts in one line.
LEMMA LinePut ==
  ASSUME NEW c \in Cart, NEW p \in Products, NEW line \in Line
  PROVE  /\ WithLine(c, p, line) \in Cart
         /\ PicksOf(WithLine(c, p, line)) \subseteq PicksOf(c) \cup {line.pick}
  <1> PICK d : d = WithLine(c, p, line)
    OBVIOUS
  <1>1. d \in [DOMAIN c \cup {p} -> Line] /\ DOMAIN c \cup {p} \in SUBSET Products
    BY CartShape DEF WithLine
  <1>2. d \in Cart /\ DOMAIN d = DOMAIN c \cup {p}
    BY <1>1, CartMade
  <1>3. \A q \in DOMAIN d : d[q] = IF q = p THEN line ELSE c[q]
    BY <1>2 DEF WithLine
  <1>4. PicksOf(d) \subseteq PicksOf(c) \cup {line.pick}
    BY <1>2, <1>3, PicksMove
  <1> QED BY <1>2, <1>4

\* setQuantity
LEMMA QuantitySet ==
  ASSUME NEW c \in Cart, NEW p \in DOMAIN c, NEW n \in 1..MaxQuantity
  PROVE  /\ [c EXCEPT ![p].qty = n] \in Cart
         /\ PicksOf([c EXCEPT ![p].qty = n]) \subseteq PicksOf(c)
  <1> PICK d : d = [c EXCEPT ![p].qty = n]
    OBVIOUS
  <1>1. c \in [DOMAIN c -> Line] /\ DOMAIN c \in SUBSET Products
    BY CartShape
  <1>2. [c[p] EXCEPT !.qty = n] \in Line /\ [c[p] EXCEPT !.qty = n].pick = c[p].pick
    BY <1>1, LineKept
  <1>3. d = [c EXCEPT ![p] = [c[p] EXCEPT !.qty = n]]
    OBVIOUS
  <1>4. d \in Cart /\ DOMAIN d = DOMAIN c
    BY <1>1, <1>2, <1>3, CartMade
  <1>5. \A q \in DOMAIN d : d[q].pick = c[q].pick
    BY <1>1, <1>2, <1>3
  <1> QED BY <1>4, <1>5 DEF PicksOf

\* removeFromCart
LEMMA LineRemoved ==
  ASSUME NEW c \in Cart, NEW p
  PROVE  /\ Restrict(c, DOMAIN c \ {p}) \in Cart
         /\ PicksOf(Restrict(c, DOMAIN c \ {p})) \subseteq PicksOf(c)
  <1> PICK d : d = Restrict(c, DOMAIN c \ {p})
    OBVIOUS
  <1>1. d \in [DOMAIN c \ {p} -> Line] /\ DOMAIN c \ {p} \in SUBSET Products
    BY CartShape DEF Restrict
  <1>2. d \in Cart /\ DOMAIN d = DOMAIN c \ {p}
    BY <1>1, CartMade
  <1>3. \A q \in DOMAIN d : d[q] = c[q]
    BY <1>2 DEF Restrict
  <1> QED BY <1>2, <1>3 DEF PicksOf

\* hydrateCart
LEMMA CartHydrated ==
  ASSUME NEW old \in Cart, NEW c \in Cart
  PROVE  LET stored == [p \in DOMAIN old |-> [old[p] EXCEPT !.qty = Clamp(@, old[p].min)]]
         IN  /\ HydrateWith(stored, c) \in Cart
             /\ PicksOf(HydrateWith(stored, c)) \subseteq PicksOf(old) \cup PicksOf(c)
  <1> DEFINE clamped(p) == [old[p] EXCEPT !.qty = Clamp(@, old[p].min)]
  <1> PICK stored : stored = [p \in DOMAIN old |-> clamped(p)]
    OBVIOUS
  <1>1. ASSUME NEW p \in DOMAIN old
        PROVE  clamped(p) \in Line /\ clamped(p).pick = old[p].pick
    <2>1. old[p] \in Line
      BY CartShape
    <2>2. Clamp(old[p].qty, old[p].min) \in 1..MaxQuantity
      BY <2>1, ClampIn DEF Line
    <2>3. clamped(p) = [old[p] EXCEPT !.qty = Clamp(old[p].qty, old[p].min)]
      BY <2>1 DEF Line
    <2> QED BY <2>1, <2>2, <2>3, LineKept
  <1> HIDE DEF clamped
  <1> PICK d : d = HydrateWith(stored, c)
    OBVIOUS
  <1>2. stored \in [DOMAIN old -> Line] /\ \A p \in DOMAIN old : stored[p].pick = old[p].pick
    BY <1>1
  <1>3. c \in [DOMAIN c -> Line] /\ DOMAIN c \cup DOMAIN old \in SUBSET Products
    BY CartShape
  <1>4. d = [p \in DOMAIN c \cup DOMAIN old |-> IF p \in DOMAIN c THEN c[p] ELSE stored[p]]
    BY <1>2 DEF HydrateWith
  <1>5. d \in [DOMAIN c \cup DOMAIN old -> Line]
    BY <1>2, <1>3, <1>4
  <1>6. d \in Cart
    BY <1>3, <1>5, CartMade
  <1>7. \A p \in DOMAIN d : \/ p \in DOMAIN c /\ d[p].pick = c[p].pick
                            \/ p \in DOMAIN old /\ d[p].pick = old[p].pick
    BY <1>2, <1>4
  <1>8. PicksOf(d) \subseteq PicksOf(old) \cup PicksOf(c)
    BY <1>7 DEF PicksOf
  <1> QED BY <1>6, <1>8 DEF clamped

Found == UNION {[S -> Offers \cup {Waiting, Failed}] : S \in SUBSET Products}

\* refreshCartPrices, once no product is waited for.
LEMMA CartRepriced ==
  ASSUME NEW c \in Cart, NEW found \in Found, \A p \in DOMAIN found : found[p] # Waiting
  PROVE  LET d == WithCataloguePrices(c, found)
         IN  /\ d \in Cart /\ DOMAIN d = DOMAIN c
             /\ \A p \in DOMAIN d : d[p].pick = c[p].pick /\ d[p].qty >= c[p].qty
             /\ PicksOf(d) \subseteq PicksOf(c)
  <1> PICK d : d = WithCataloguePrices(c, found)
    OBVIOUS
  <1>1. c \in [DOMAIN c -> Line] /\ DOMAIN c \in SUBSET Products
    BY CartShape
  <1>2. \A p \in DOMAIN found : found[p] # Failed => found[p] \in Offers
    BY DEF Found
  <1>3. ASSUME NEW p \in DOMAIN c
        PROVE  d[p] \in Line /\ d[p].pick = c[p].pick /\ d[p].qty >= c[p].qty
    <2>1. c[p] \in Line /\ c[p].qty \in Nat
      BY <1>1 DEF Line
    <2>2. CASE p \in DOMAIN found /\ found[p] # Failed
      <3>1. d[p] = Repriced(c[p], found[p])
        BY <2>2 DEF WithCataloguePrices
      <3> QED BY <2>1, <2>2, <3>1, <1>2, LineKept
    <2>3. CASE ~(p \in DOMAIN found /\ found[p] # Failed)
      BY <2>1, <2>3 DEF WithCataloguePrices
    <2> QED BY <2>2, <2>3
  <1>4. d \in [DOMAIN c -> Line]
    <2>1. d = [p \in DOMAIN c |-> d[p]]
      BY DEF WithCataloguePrices
    <2> QED BY <1>3, <2>1
  <1>5. d \in Cart /\ DOMAIN d = DOMAIN c
    BY <1>1, <1>4, CartMade
  <1>6. PicksOf(d) \subseteq PicksOf(c)
    BY <1>3, <1>5 DEF PicksOf
  <1> QED BY <1>3, <1>5, <1>6

-----------------------------------------------------------------------------
(***************************************************************************)
(* The total on screen is an amount.                                       *)
(***************************************************************************)
LEMMA RateOfNat ==
  ASSUME NEW n \in Nat
  PROVE  /\ ApplyRate(n, VatRate) \in Nat
         /\ ApplyRate(n, 0) = 0
  BY DEF ApplyRate, VatRate

LEMMA ProductIsNat == \A m, n \in Nat : m * n \in Nat
  OBVIOUS

\* What calculateTotals adds up are amounts.
AddsSubtotal(g, L) ==
  g = [s \in SUBSET DOMAIN L |->
         IF s = {} THEN 0
         ELSE LineSubtotal(L[CHOOSE x \in s : TRUE]) + g[s \ {CHOOSE x \in s : TRUE}]]

LEMMA SubtotalIsSum ==
  ASSUME NEW L, IsFiniteSet(DOMAIN L), \A k \in DOMAIN L : LineSubtotal(L[k]) \in Nat
  PROVE  /\ Subtotal(L) \in Nat
         /\ Subtotal(L) = SumOf([k \in DOMAIN L |-> LineSubtotal(L[k])], DOMAIN L)
  <1> DEFINE D == DOMAIN L
             w == [k \in D |-> LineSubtotal(L[k])]
             count == [s \in SUBSET D |-> Cardinality(Marks(w, s))]
             added == CHOOSE g : AddsSubtotal(g, L)
             pick(s) == CHOOSE x \in s : TRUE
  <1>1. \A k \in D : w[k] = LineSubtotal(L[k]) /\ w[k] \in Nat
    OBVIOUS
  <1> HIDE DEF w
  <1>2. ASSUME NEW g PROVE AddsSubtotal(g, L) <=> SolvesSums(g, w, D)
    <2>1. ASSUME NEW s \in SUBSET D, s # {} PROVE w[pick(s)] = LineSubtotal(L[pick(s)])
      <3>1. pick(s) \in D
        BY <2>1
      <3> QED BY <1>1, <3>1
    <2>2. \A s \in SUBSET D :
            (IF s = {} THEN 0 ELSE LineSubtotal(L[pick(s)]) + g[s \ {pick(s)}])
              = (IF s = {} THEN 0 ELSE w[pick(s)] + g[s \ {pick(s)}])
      BY <2>1
    <2>3. [s \in SUBSET D |-> IF s = {} THEN 0 ELSE LineSubtotal(L[pick(s)]) + g[s \ {pick(s)}]]
            = [s \in SUBSET D |-> IF s = {} THEN 0 ELSE w[pick(s)] + g[s \ {pick(s)}]]
      BY <2>2, Zenon
    <2> QED BY <2>3, Zenon DEF AddsSubtotal, SolvesSums
  <1>3. SolvesSums(count, w, D)
    BY <1>1, CountingSolves
  <1> HIDE DEF count
  <1>4. AddsSubtotal(added, L)
    BY <1>2, <1>3
  <1>5. SolvesSums(added, w, D)
    BY <1>2, <1>4
  <1>6. added[D] = Solution(w, D)[D]
    BY <1>5, OneSolution DEF Solution
  <1>7. SumOf(w, D) = Solution(w, D)[D]
    BY DEF SumOf, MapThenSumSet, MapThenFoldSet, Solution, SolvesSums
  <1>8. Subtotal(L) = added[D]
    BY DEF Subtotal, SumOver, MapThenSumSet, MapThenFoldSet, AddsSubtotal
  <1>9. SumOf(w, D) = SumOf([k \in DOMAIN L |-> LineSubtotal(L[k])], DOMAIN L)
    BY Zenon DEF w
  <1> QED BY <1>1, <1>6, <1>7, <1>8, <1>9, SumType

AddsLinesVat(g, L) ==
  g = [s \in SUBSET DOMAIN L |->
         IF s = {} THEN 0
         ELSE LineVat(L[CHOOSE x \in s : TRUE]) + g[s \ {CHOOSE x \in s : TRUE}]]

LEMMA LinesVatIsSum ==
  ASSUME NEW L, IsFiniteSet(DOMAIN L), \A k \in DOMAIN L : LineVat(L[k]) \in Nat
  PROVE  /\ LinesVat(L) \in Nat
         /\ LinesVat(L) = SumOf([k \in DOMAIN L |-> LineVat(L[k])], DOMAIN L)
  <1> DEFINE D == DOMAIN L
             w == [k \in D |-> LineVat(L[k])]
             count == [s \in SUBSET D |-> Cardinality(Marks(w, s))]
             added == CHOOSE g : AddsLinesVat(g, L)
             pick(s) == CHOOSE x \in s : TRUE
  <1>1. \A k \in D : w[k] = LineVat(L[k]) /\ w[k] \in Nat
    OBVIOUS
  <1> HIDE DEF w
  <1>2. ASSUME NEW g PROVE AddsLinesVat(g, L) <=> SolvesSums(g, w, D)
    <2>1. ASSUME NEW s \in SUBSET D, s # {} PROVE w[pick(s)] = LineVat(L[pick(s)])
      <3>1. pick(s) \in D
        BY <2>1
      <3> QED BY <1>1, <3>1
    <2>2. \A s \in SUBSET D :
            (IF s = {} THEN 0 ELSE LineVat(L[pick(s)]) + g[s \ {pick(s)}])
              = (IF s = {} THEN 0 ELSE w[pick(s)] + g[s \ {pick(s)}])
      BY <2>1
    <2>3. [s \in SUBSET D |-> IF s = {} THEN 0 ELSE LineVat(L[pick(s)]) + g[s \ {pick(s)}]]
            = [s \in SUBSET D |-> IF s = {} THEN 0 ELSE w[pick(s)] + g[s \ {pick(s)}]]
      BY <2>2, Zenon
    <2> QED BY <2>3, Zenon DEF AddsLinesVat, SolvesSums
  <1>3. SolvesSums(count, w, D)
    BY <1>1, CountingSolves
  <1> HIDE DEF count
  <1>4. AddsLinesVat(added, L)
    BY <1>2, <1>3
  <1>5. SolvesSums(added, w, D)
    BY <1>2, <1>4
  <1>6. added[D] = Solution(w, D)[D]
    BY <1>5, OneSolution DEF Solution
  <1>7. SumOf(w, D) = Solution(w, D)[D]
    BY DEF SumOf, MapThenSumSet, MapThenFoldSet, Solution, SolvesSums
  <1>8. LinesVat(L) = added[D]
    BY DEF LinesVat, SumOver, MapThenSumSet, MapThenFoldSet, AddsLinesVat
  <1>9. SumOf(w, D) = SumOf([k \in DOMAIN L |-> LineVat(L[k])], DOMAIN L)
    BY Zenon DEF w
  <1> QED BY <1>1, <1>6, <1>7, <1>8, <1>9, SumType

AddsDiscount(g, L) ==
  g = [s \in SUBSET DOMAIN L |->
         IF s = {} THEN 0
         ELSE LineDiscount(L[CHOOSE x \in s : TRUE]) + g[s \ {CHOOSE x \in s : TRUE}]]

LEMMA DiscountIsSum ==
  ASSUME NEW L, IsFiniteSet(DOMAIN L), \A k \in DOMAIN L : LineDiscount(L[k]) \in Nat
  PROVE  /\ Discount(L) \in Nat
         /\ Discount(L) = SumOf([k \in DOMAIN L |-> LineDiscount(L[k])], DOMAIN L)
  <1> DEFINE D == DOMAIN L
             w == [k \in D |-> LineDiscount(L[k])]
             count == [s \in SUBSET D |-> Cardinality(Marks(w, s))]
             added == CHOOSE g : AddsDiscount(g, L)
             pick(s) == CHOOSE x \in s : TRUE
  <1>1. \A k \in D : w[k] = LineDiscount(L[k]) /\ w[k] \in Nat
    OBVIOUS
  <1> HIDE DEF w
  <1>2. ASSUME NEW g PROVE AddsDiscount(g, L) <=> SolvesSums(g, w, D)
    <2>1. ASSUME NEW s \in SUBSET D, s # {} PROVE w[pick(s)] = LineDiscount(L[pick(s)])
      <3>1. pick(s) \in D
        BY <2>1
      <3> QED BY <1>1, <3>1
    <2>2. \A s \in SUBSET D :
            (IF s = {} THEN 0 ELSE LineDiscount(L[pick(s)]) + g[s \ {pick(s)}])
              = (IF s = {} THEN 0 ELSE w[pick(s)] + g[s \ {pick(s)}])
      BY <2>1
    <2>3. [s \in SUBSET D |-> IF s = {} THEN 0 ELSE LineDiscount(L[pick(s)]) + g[s \ {pick(s)}]]
            = [s \in SUBSET D |-> IF s = {} THEN 0 ELSE w[pick(s)] + g[s \ {pick(s)}]]
      BY <2>2, Zenon
    <2> QED BY <2>3, Zenon DEF AddsDiscount, SolvesSums
  <1>3. SolvesSums(count, w, D)
    BY <1>1, CountingSolves
  <1> HIDE DEF count
  <1>4. AddsDiscount(added, L)
    BY <1>2, <1>3
  <1>5. SolvesSums(added, w, D)
    BY <1>2, <1>4
  <1>6. added[D] = Solution(w, D)[D]
    BY <1>5, OneSolution DEF Solution
  <1>7. SumOf(w, D) = Solution(w, D)[D]
    BY DEF SumOf, MapThenSumSet, MapThenFoldSet, Solution, SolvesSums
  <1>8. Discount(L) = added[D]
    BY DEF Discount, SumOver, MapThenSumSet, MapThenFoldSet, AddsDiscount
  <1>9. SumOf(w, D) = SumOf([k \in DOMAIN L |-> LineDiscount(L[k])], DOMAIN L)
    BY Zenon DEF w
  <1> QED BY <1>1, <1>6, <1>7, <1>8, <1>9, SumType

LEMMA UndiscountedLine ==
  ASSUME NEW line, line.price \in Nat, line.qty \in Nat
  PROVE  /\ LineSubtotal(Undiscounted(line)) = line.price * line.qty
         /\ LineSubtotal(Undiscounted(line)) \in Nat /\ LineVat(Undiscounted(line)) \in Nat
  <1> PICK x \in Nat : x = line.price
    OBVIOUS
  <1> PICK y \in Nat : y = line.qty
    OBVIOUS
  <1> PICK u : u = Undiscounted(line)
    OBVIOUS
  <1>1. u.price = x /\ u.qty = y /\ u.discount = 0
    BY DEF Undiscounted
  <1>2. ApplyRate(x, 0) = 0
    BY RateOfNat
  <1>3. UnitPrice(u) = x
    BY <1>1, <1>2 DEF UnitPrice
  <1>4. LineSubtotal(u) = x * y
    BY <1>1, <1>3 DEF LineSubtotal
  <1>5. LineSubtotal(u) \in Nat
    BY <1>4, ProductIsNat
  <1>6. LineVat(u) \in Nat
    BY <1>5, RateOfNat DEF LineVat
  <1> QED BY <1>4, <1>5, <1>6

\* A rate is applied to the nearest fil, half a fil upwards; none of up to 100% exceeds its amount.
LEMMA RateIsNearest ==
  ASSUME NEW fils \in Nat, NEW rate \in Nat, NEW x, x = fils * rate
  PROVE  /\ ApplyRate(fils, rate) \in Nat
         /\ 10000 * ApplyRate(fils, rate) <= x + 5000 /\ x < 10000 * ApplyRate(fils, rate) + 5000
         /\ rate <= 10000 => ApplyRate(fils, rate) <= fils
  <1>1. ApplyRate(fils, rate) = (x + 5000) \div 10000 /\ x \in Nat
    BY ProductIsNat DEF ApplyRate
  <1>2. rate <= 10000 => x <= fils * 10000
    OBVIOUS
  <1>q. PICK q : q = (x + 5000) \div 10000
    OBVIOUS
  <1>3. q \in Nat /\ 10000 * q <= x + 5000 /\ x + 5000 < 10000 * q + 10000
    BY <1>1, <1>q
  <1>4. x <= fils * 10000 => q <= fils
    BY <1>1, <1>3
  <1> QED BY <1>1, <1>2, <1>q, <1>3, <1>4

LEMMA VatIsNearest ==
  ASSUME NEW n \in Nat
  PROVE  /\ ApplyRate(n, VatRate) \in 0..n
         /\ 10000 * ApplyRate(n, VatRate) <= 500 * n + 5000
         /\ 500 * n <= 10000 * ApplyRate(n, VatRate) + 5000
  <1>x. PICK x : x = n * VatRate
    OBVIOUS
  <1>1. x = 500 * n /\ VatRate \in Nat /\ VatRate <= 10000
    BY <1>x DEF VatRate
  <1>2. /\ ApplyRate(n, VatRate) \in Nat
        /\ 10000 * ApplyRate(n, VatRate) <= x + 5000 /\ x < 10000 * ApplyRate(n, VatRate) + 5000
        /\ VatRate <= 10000 => ApplyRate(n, VatRate) <= n
    BY <1>x, <1>1, RateIsNearest
  <1> QED BY <1>1, <1>2

\* The lines calculateLine takes.
Priced(line) == line.price \in Nat /\ line.qty \in Nat /\ line.discount \in 0..10000

\* A line's discount and VAT lie between nothing and what the line costs.
Sound(line) ==
  /\ LineSubtotal(line) \in Nat /\ LineDiscount(line) \in Nat
  /\ LineSubtotal(line) + LineDiscount(line) = line.price * line.qty
  /\ LineVat(line) \in 0..LineSubtotal(line)
  /\ 10000 * LineVat(line) <= 500 * LineSubtotal(line) + 5000
  /\ 500 * LineSubtotal(line) <= 10000 * LineVat(line) + 5000

LEMMA LineIsSound ==
  ASSUME NEW line, Priced(line)
  PROVE  Sound(line)
  <1>p. PICK p \in Nat : p = line.price
    BY DEF Priced
  <1>n. PICK n \in Nat : n = line.qty
    BY DEF Priced
  <1>r. PICK r \in 0..10000 : r = line.discount
    BY DEF Priced
  <1>u. PICK u : u = UnitPrice(line)
    OBVIOUS
  <1>1. ApplyRate(p, r) \in 0..p
    <2>1. r \in Nat /\ r <= 10000
      OBVIOUS
    <2>2. ApplyRate(p, r) \in Nat /\ ApplyRate(p, r) <= p
      BY <2>1, RateIsNearest
    <2> QED BY <2>2
  <1>2. u \in 0..p
    BY <1>p, <1>r, <1>u, <1>1 DEF UnitPrice
  <1>s. PICK s : s = u * n
    OBVIOUS
  <1>x. PICK x : x = p * n
    OBVIOUS
  <1>3. s \in Nat /\ x \in Nat /\ s <= x
    <2>1. \A a, b, m \in Nat : b <= a => b * m \in Nat /\ a * m \in Nat /\ b * m <= a * m
      OBVIOUS
    <2> QED BY <1>2, <1>s, <1>x, <2>1
  <1>4. LineSubtotal(line) = s /\ LineDiscount(line) = x - s /\ line.price * line.qty = x
    BY <1>p, <1>n, <1>u, <1>s, <1>x DEF LineSubtotal, LineDiscount
  <1>5. LineVat(line) = ApplyRate(s, VatRate)
    BY <1>4 DEF LineVat
  <1>6. /\ ApplyRate(s, VatRate) \in 0..s
        /\ 10000 * ApplyRate(s, VatRate) <= 500 * s + 5000
        /\ 500 * s <= 10000 * ApplyRate(s, VatRate) + 5000
    BY <1>3, VatIsNearest
  <1> QED BY <1>3, <1>4, <1>5, <1>6 DEF Sound

\* Of any document, however many lines: the discount is what is missing between the
\* lines' list prices and the subtotal; and the VAT, rounded line by line, differs
\* from that of the whole by half a fil a line at most.
THEOREM DocumentsAddUp ==
  ASSUME NEW lines, IsFiniteSet(DOMAIN lines), \A k \in DOMAIN lines : Priced(lines[k])
  PROVE  /\ Subtotal(lines) + Discount(lines)
              = SumOf([k \in DOMAIN lines |-> lines[k].price * lines[k].qty], DOMAIN lines)
         /\ LinesVat(lines) \in 0..Subtotal(lines)
         /\ 10000 * LinesVat(lines) <= VatRate * Subtotal(lines) + 5000 * Cardinality(DOMAIN lines)
         /\ VatRate * Subtotal(lines) <= 10000 * LinesVat(lines) + 5000 * Cardinality(DOMAIN lines)
  <1>D. PICK D : D = DOMAIN lines
    OBVIOUS
  <1>s. PICK s : s = [k \in D |-> LineSubtotal(lines[k])]
    OBVIOUS
  <1>d. PICK d : d = [k \in D |-> LineDiscount(lines[k])]
    OBVIOUS
  <1>v. PICK v : v = [k \in D |-> LineVat(lines[k])]
    OBVIOUS
  <1>p. PICK p : p = [k \in D |-> lines[k].price * lines[k].qty]
    OBVIOUS
  <1>0. IsFiniteSet(D)
    BY <1>D
  <1>1. ASSUME NEW k \in D
        PROVE  /\ s[k] = LineSubtotal(lines[k]) /\ d[k] = LineDiscount(lines[k]) /\ v[k] = LineVat(lines[k])
               /\ s[k] \in Nat /\ d[k] \in Nat /\ v[k] \in Nat /\ v[k] <= s[k]
               /\ p[k] = s[k] + d[k]
               /\ 10000 * v[k] <= 500 * s[k] + 5000 /\ 500 * s[k] <= 10000 * v[k] + 5000
    <2>l. PICK line : line = lines[k]
      OBVIOUS
    <2>1. Sound(line)
      BY <1>D, <2>l, LineIsSound
    <2>2. s[k] = LineSubtotal(line) /\ d[k] = LineDiscount(line) /\ v[k] = LineVat(line)
      BY <1>s, <1>d, <1>v, <2>l
    <2>3. p[k] = line.price * line.qty
      BY <1>p, <2>l
    <2> QED BY <2>1, <2>2, <2>3, <2>l DEF Sound
  <1>2. /\ Subtotal(lines) = SumOf(s, D) /\ Discount(lines) = SumOf(d, D) /\ LinesVat(lines) = SumOf(v, D)
        /\ SumOf(s, D) \in Nat /\ SumOf(d, D) \in Nat /\ SumOf(v, D) \in Nat
    <2>1. \A k \in DOMAIN lines : /\ LineSubtotal(lines[k]) \in Nat /\ LineDiscount(lines[k]) \in Nat
                                  /\ LineVat(lines[k]) \in Nat
      BY <1>D, <1>1
    <2>2. Subtotal(lines) = SumOf(s, D) /\ Subtotal(lines) \in Nat
      BY <1>D, <1>s, <2>1, SubtotalIsSum
    <2>3. Discount(lines) = SumOf(d, D) /\ Discount(lines) \in Nat
      BY <1>D, <1>d, <2>1, DiscountIsSum
    <2>4. LinesVat(lines) = SumOf(v, D) /\ LinesVat(lines) \in Nat
      BY <1>D, <1>v, <2>1, LinesVatIsSum
    <2> QED BY <2>2, <2>3, <2>4
  <1>3. SumOf(p, D) = SumOf(s, D) + SumOf(d, D)
    <2>1. \A k \in D : s[k] \in Nat /\ d[k] \in Nat /\ p[k] = s[k] + d[k]
      BY <1>1
    <2>w. PICK w : w = [k \in D |-> s[k] + d[k]]
      OBVIOUS
    <2>2. SumOf(w, D) = SumOf(s, D) + SumOf(d, D)
      BY <1>0, <2>1, <2>w, SumPlus
    <2>3. \A k \in D : p[k] \in Nat /\ p[k] = w[k]
      BY <2>1, <2>w
    <2>4. SumOf(p, D) = SumOf(w, D)
      BY <1>0, <2>3, SumSame
    <2> QED BY <2>2, <2>4
  <1>4. SumOf(v, D) <= SumOf(s, D)
    <2>1. \A k \in D : v[k] \in Nat /\ s[k] \in Nat /\ v[k] <= s[k]
      BY <1>1
    <2> QED BY <1>0, <2>1, SumAtMost
  <1>h. PICK h : h = [k \in D |-> 5000]
    OBVIOUS
  <1>S. PICK S : S = [k \in D |-> 500 * s[k]]
    OBVIOUS
  <1>V. PICK V : V = [k \in D |-> 10000 * v[k]]
    OBVIOUS
  <1>5. /\ SumOf(h, D) = 5000 * Cardinality(D)
        /\ SumOf(S, D) = 500 * SumOf(s, D)
        /\ SumOf(V, D) = 10000 * SumOf(v, D)
    <2>1. \A k \in D : s[k] \in Nat /\ v[k] \in Nat
      BY <1>1
    <2>2. SumOf(h, D) = 5000 * Cardinality(D)
      BY <1>0, <1>h, SumOfSame
    <2>3. SumOf(S, D) = 500 * SumOf(s, D)
      BY <1>0, <1>S, <2>1, SumTimes
    <2>4. SumOf(V, D) = 10000 * SumOf(v, D)
      BY <1>0, <1>V, <2>1, SumTimes
    <2> QED BY <2>2, <2>3, <2>4
  <1>6. \A k \in D : /\ h[k] = 5000 /\ S[k] \in Nat /\ V[k] \in Nat
                     /\ V[k] <= S[k] + h[k] /\ S[k] <= V[k] + h[k]
    BY <1>1, <1>h, <1>S, <1>V
  <1>7. SumOf(V, D) <= SumOf(S, D) + SumOf(h, D)
    <2>1. PICK w : w = [k \in D |-> S[k] + h[k]]
      OBVIOUS
    <2>2. SumOf(w, D) = SumOf(S, D) + SumOf(h, D)
      BY <1>0, <1>6, <2>1, SumPlus
    <2>3. \A k \in D : V[k] \in Nat /\ w[k] \in Nat /\ V[k] <= w[k]
      BY <1>6, <2>1
    <2>4. SumOf(V, D) <= SumOf(w, D)
      BY <1>0, <2>3, SumAtMost
    <2> QED BY <2>2, <2>4
  <1>8. SumOf(S, D) <= SumOf(V, D) + SumOf(h, D)
    <2>1. PICK w : w = [k \in D |-> V[k] + h[k]]
      OBVIOUS
    <2>2. SumOf(w, D) = SumOf(V, D) + SumOf(h, D)
      BY <1>0, <1>6, <2>1, SumPlus
    <2>3. \A k \in D : S[k] \in Nat /\ w[k] \in Nat /\ S[k] <= w[k]
      BY <1>6, <2>1
    <2>4. SumOf(S, D) <= SumOf(w, D)
      BY <1>0, <2>3, SumAtMost
    <2> QED BY <2>2, <2>4
  <1>9. SumOf([k \in DOMAIN lines |-> lines[k].price * lines[k].qty], DOMAIN lines) = SumOf(p, D)
    BY <1>D, <1>p, Zenon
  <1> QED BY <1>2, <1>3, <1>4, <1>5, <1>7, <1>8, <1>9, <1>D DEF VatRate

LEMMA TotalIsNat ==
  ASSUME NEW lines, IsFiniteSet(DOMAIN lines),
         \A k \in DOMAIN lines : lines[k].price \in Nat /\ lines[k].qty \in Nat
  PROVE  RetailTotals(lines).total \in Nat
  <1> PICK L : L = [k \in DOMAIN lines |-> Undiscounted(lines[k])]
    OBVIOUS
  <1> PICK fee : fee = RetailDelivery(RetailNet(lines))
    OBVIOUS
  <1>1. IsFiniteSet(DOMAIN L)
    OBVIOUS
  <1>2. \A k \in DOMAIN L : LineSubtotal(L[k]) \in Nat /\ LineVat(L[k]) \in Nat
    BY UndiscountedLine
  <1>3. Subtotal(L) \in Nat /\ LinesVat(L) \in Nat
    BY <1>1, <1>2, SubtotalIsSum, LinesVatIsSum
  <1>4. fee \in Nat /\ ApplyRate(fee, VatRate) \in Nat
    <2>1. fee \in Nat
      BY DEF RetailDelivery, DeliveryFee
    <2> QED BY <2>1, RateOfNat
  <1>5. RetailTotals(lines) = Totals(L, fee)
    BY DEF RetailTotals
  <1>6. Totals(L, fee).total = Subtotal(L) + fee + (LinesVat(L) + ApplyRate(fee, VatRate))
    BY DEF Totals
  <1> QED BY <1>3, <1>4, <1>5, <1>6

LEMMA CartTotals ==
  ASSUME NEW c \in Cart
  PROVE  CartTotal(c) \in Nat
  <1>1. c \in [DOMAIN c -> Line] /\ DOMAIN c \in SUBSET Products
    BY CartShape
  <1>2. IsFiniteSet(DOMAIN c)
    BY <1>1, ShopConstants, FS_Subset
  <1>3. \A p \in DOMAIN c : c[p].price \in Nat /\ c[p].qty \in Nat
    BY <1>1, OffersAre, ShopConstants DEF Line
  <1> QED BY <1>2, <1>3, TotalIsNat DEF CartTotal

\* The lines as the API prices them.
LEMMA CartAtCatalogue ==
  ASSUME catalogue \in [Products -> Offers], NEW c \in Cart
  PROVE  InvoiceTotal(c) \in Nat
  <1> DEFINE priced == [p \in DOMAIN c |-> [c[p] EXCEPT !.price = catalogue[p].price]]
  <1>1. c \in [DOMAIN c -> Line] /\ DOMAIN c \in SUBSET Products
    BY CartShape
  <1>2. ASSUME NEW p \in DOMAIN c
        PROVE  [c[p] EXCEPT !.price = catalogue[p].price] \in Line
    <2>1. c[p] \in Line /\ catalogue[p] \in Offers
      BY <1>1
    <2> QED BY <2>1, OffersAre DEF Line
  <1>3. priced \in Cart
    BY <1>1, <1>2, CartMade
  <1> HIDE DEF priced
  <1>4. CartTotal(priced) \in Nat
    BY <1>3, CartTotals
  <1> QED BY <1>4 DEF priced, InvoiceTotal, CartTotal

\* While no price has changed, the API and the screen compute one total.
LEMMA SameTotal ==
  ASSUME NEW c \in Cart, \A p \in DOMAIN c : c[p].price = catalogue[p].price
  PROVE  InvoiceTotal(c) = CartTotal(c)
  <1>1. c = [p \in DOMAIN c |-> c[p]] /\ \A p \in DOMAIN c : c[p] \in Line
    BY CartShape
  <1>2. \A p \in DOMAIN c : [c[p] EXCEPT !.price = catalogue[p].price] = c[p]
    BY <1>1 DEF Line
  <1>3. [p \in DOMAIN c |-> [c[p] EXCEPT !.price = catalogue[p].price]] = c
    BY <1>1, <1>2
  <1> QED BY <1>3 DEF InvoiceTotal, CartTotal

-----------------------------------------------------------------------------
(***************************************************************************)
(* What a step does, to each part of the state.                            *)
(***************************************************************************)
\* The lines in the open baskets and in the stored one.
Carried == PicksOf(saved) \cup UNION {PicksOf(carts[v]) : v \in Open}

\* The lines of the app's basket: in memory, or on the device until they are read.
Basket == PicksOf(carts[App]) \cup IF ready THEN {} ELSE PicksOf(saved)

StoreTyped ==
  /\ carts' \in [Views -> Cart] /\ saved' \in Cart
  /\ news' \subseteq Tabs /\ due' \in BOOLEAN

StoreMoves ==
  /\ StoreTyped
  /\ Carried' \subseteq Carried \cup ((picks + 1)..picks')
  /\ client = "APP" => Basket' \subseteq Basket \cup ((picks + 1)..picks') \cup loose'

RefreshesMove ==
  /\ refreshes' \in [Refreshes -> Refresh \cup {Idle}]
  /\ \A r \in Refreshes :
       Reading(r)' => refreshes'[r].view \in Open \/ (Reading(r) /\ refreshes'[r].view = refreshes[r].view)

\* A request is for lines of an open basket and shows their total; from then on
\* it changes only in where it stands and in who hears of it.
SameRequest(a) ==
  /\ InFlight(a) /\ attempts'[a].view = attempts[a].view
  /\ attempts'[a].items = attempts[a].items /\ attempts'[a].shown = attempts[a].shown

Requested(a) ==
  \E v \in Open : /\ attempts'[a].view = v /\ attempts'[a].items = carts[v]
                  /\ attempts'[a].shown = CartTotal(carts[v])

AttemptsMove ==
  /\ attempts' \in [Attempts -> Attempt \cup {Idle}]
  /\ \A a \in Attempts : InFlight(a)' => SameRequest(a) \/ Requested(a)

OrdersMove ==
  \/ orders' = orders
  \/ \E a \in Attempts :
       /\ Checkout(a)
       /\ Len(orders) < MaxOrders[client]
       /\ orders' = Append(orders,
            [view |-> attempts[a].view, picks |-> PicksOf(attempts[a].items),
             shown |-> attempts[a].shown, total |-> attempts[a].shown])

CountsMove ==
  /\ picks' \in picks..MaxPicks[client]
  /\ loose \subseteq loose'
  /\ loose' \subseteq loose \cup PicksOf(saved)
                 \cup UNION {PicksOf(attempts[a].items) : a \in {b \in Attempts : InFlight(b)}}
  /\ ready' \in BOOLEAN /\ edits' \in 0..MaxEdits
  /\ catalogue' \in [Products -> Offers] /\ client' = client

Moves == StoreMoves /\ RefreshesMove /\ AttemptsMove /\ OrdersMove /\ CountsMove

LEMMA OpenViews == Open \subseteq Views /\ (client = "APP" => Open = {App})
  BY DEF Open, Views

LEMMA AttemptShape ==
  ASSUME TypeOK, NEW a \in Attempts, InFlight(a)
  PROVE  /\ attempts[a] \in Attempt /\ attempts[a].view \in Views
         /\ attempts[a].items \in Cart /\ attempts[a].shown \in Nat
  BY DEF TypeOK, InFlight, Attempt

LEMMA RefreshShape ==
  ASSUME TypeOK, NEW r \in Refreshes, Reading(r)
  PROVE  /\ refreshes[r] \in Refresh /\ refreshes[r].view \in Views
         /\ refreshes[r].found \in Found /\ refreshes[r].of \in Attempts \cup {Idle}
  BY DEF TypeOK, Reading, Refresh, Found

LEMMA StoreKept ==
  ASSUME TypeOK, UNCHANGED store, client' = client, ready' = ready, picks' \in Nat
  PROVE  StoreMoves
  BY DEF TypeOK, store, StoreMoves, StoreTyped, Carried, Basket, Open

\* commit, and what it leaves of the lines.
LEMMA Committed ==
  ASSUME TypeOK, NEW v \in Open, NEW cart \in Cart, Commit(v, cart), client' = client
  PROVE  /\ StoreTyped
         /\ carts'[v] = cart /\ \A u \in Views \ {v} : carts'[u] = carts[u]
         /\ saved' \in {saved, cart} /\ (client = "APP" /\ ~ready => saved' = saved)
         /\ Carried' \subseteq Carried \cup PicksOf(cart)
  <1>1. v \in Views
    BY OpenViews
  <1>2. carts'[v] = cart /\ \A u \in Views \ {v} : carts'[u] = carts[u]
    BY <1>1 DEF Commit, TypeOK
  <1>3. saved' \in {saved, cart} /\ (client = "APP" /\ ~ready => saved' = saved)
    BY DEF Commit
  <1>4. StoreTyped
    BY <1>1 DEF Commit, TypeOK, StoreTyped
  <1>5. Open' = Open
    BY DEF Open
  <1>6. Carried' \subseteq Carried \cup PicksOf(cart)
    BY <1>2, <1>3, <1>5, OpenViews DEF Carried
  <1> QED BY <1>2, <1>3, <1>4, <1>6

LEMMA StoreCommitted ==
  ASSUME TypeOK, NEW v \in Open, NEW cart \in Cart, Commit(v, cart), client' = client,
         ready' = ready, picks' \in Nat,
         PicksOf(cart) \subseteq PicksOf(carts[v]) \cup ((picks + 1)..picks')
  PROVE  StoreMoves
  <1>1. Carried' \subseteq Carried \cup ((picks + 1)..picks')
    BY Committed DEF Carried
  <1>2. ASSUME client = "APP" PROVE Basket' \subseteq Basket \cup ((picks + 1)..picks')
    <2>1. v = App
      BY <1>2, OpenViews
    <2> QED BY <1>2, <2>1, Committed DEF Basket
  <1> QED BY <1>1, <1>2, Committed DEF StoreMoves

\* Whatever keeps the requests, refreshes and orders keeps their part.
LEMMA RestKept ==
  ASSUME TypeOK, UNCHANGED <<client, catalogue, edits, refreshes, attempts, orders, loose>>,
         picks' \in picks..MaxPicks[client], ready' \in BOOLEAN
  PROVE  RefreshesMove /\ AttemptsMove /\ OrdersMove /\ CountsMove
  BY DEF TypeOK, RefreshesMove, AttemptsMove, OrdersMove, CountsMove, Reading, InFlight, SameRequest

LEMMA CountsKept ==
  ASSUME TypeOK, UNCHANGED <<client, catalogue, edits, ready, picks, loose>>
  PROVE  CountsMove
  BY ShopConstants DEF TypeOK, CountsMove

LEMMA RefreshesKept ==
  ASSUME TypeOK, UNCHANGED refreshes
  PROVE  RefreshesMove
  BY DEF TypeOK, RefreshesMove, Reading

LEMMA AttemptsKept ==
  ASSUME TypeOK, UNCHANGED attempts
  PROVE  AttemptsMove
  BY DEF TypeOK, AttemptsMove, InFlight, SameRequest

\* One request changes where it stands, or is gone.
LEMMA AttemptMarked ==
  ASSUME TypeOK, NEW a \in Attempts, InFlight(a),
         \/ attempts' = [attempts EXCEPT ![a] = Idle]
         \/ \E s \in {"SENT", "PLACED", "REFUSED"} : attempts' = [attempts EXCEPT ![a].phase = s]
  PROVE  /\ AttemptsMove
         /\ \A b \in Attempts \ {a} : attempts'[b] = attempts[b]
  <1>1. \A b \in Attempts \ {a} : attempts'[b] = attempts[b]
    BY DEF TypeOK
  <1>2. attempts'[a] = Idle \/ (attempts'[a] \in Attempt /\ SameRequest(a))
    <2>1. CASE attempts' = [attempts EXCEPT ![a] = Idle]
      BY <2>1 DEF TypeOK
    <2>2. ASSUME NEW s \in {"SENT", "PLACED", "REFUSED"}, attempts' = [attempts EXCEPT ![a].phase = s]
          PROVE  attempts'[a] \in Attempt /\ SameRequest(a)
      <3>1. attempts'[a] = [attempts[a] EXCEPT !.phase = s]
        BY <2>2 DEF TypeOK
      <3> QED BY <2>2, <3>1, AttemptShape DEF Attempt, SameRequest
    <2> QED BY <2>1, <2>2
  <1>3. attempts' \in [Attempts -> Attempt \cup {Idle}]
    BY <1>1, <1>2 DEF TypeOK
  <1> QED BY <1>1, <1>2, <1>3 DEF AttemptsMove, InFlight, SameRequest

\* Nobody on the page hears of some requests any more.
LEMMA AttemptsLoosened ==
  ASSUME TypeOK, NEW hit \in SUBSET Attempts, \A a \in hit : InFlight(a),
         NEW heard \in {"GONE", "NEVER"}, Loosen(hit, heard)
  PROVE  /\ AttemptsMove
         /\ \A a \in hit : /\ InFlight(a)' /\ attempts'[a].heard = heard
                           /\ attempts'[a].phase = attempts[a].phase
         /\ \A a \in Attempts \ hit : attempts'[a] = attempts[a]
         /\ loose' = loose \cup UNION {PicksOf(attempts[a].items) : a \in hit}
  <1>1. ASSUME NEW a \in hit
        PROVE  /\ attempts'[a] \in Attempt /\ SameRequest(a) /\ attempts'[a].heard = heard
               /\ attempts'[a].phase = attempts[a].phase
    <2>1. attempts'[a] = [attempts[a] EXCEPT !.heard = heard]
      BY DEF Loosen
    <2> QED BY <2>1, AttemptShape DEF Attempt, SameRequest
  <1>2. \A a \in Attempts \ hit : attempts'[a] = attempts[a]
    BY DEF Loosen
  <1>3. attempts' = [a \in Attempts |-> attempts'[a]]
    BY DEF Loosen
  <1>4. attempts' \in [Attempts -> Attempt \cup {Idle}]
    BY <1>1, <1>2, <1>3 DEF TypeOK
  <1>5. \A a \in hit : InFlight(a)'
    BY <1>1, ShopNothing DEF InFlight
  <1> QED BY <1>1, <1>2, <1>4, <1>5 DEF AttemptsMove, InFlight, SameRequest, Loosen

-----------------------------------------------------------------------------
(***************************************************************************)
(* The actions, one by one.                                                *)
(***************************************************************************)
\* Requests and refreshes in flight are those of pages there are.
ViewsAreOpen ==
  /\ \A a \in Attempts : InFlight(a) => attempts[a].view \in Open
  /\ \A r \in Refreshes : Reading(r) => refreshes[r].view \in Open

LEMMA PicksRange ==
  ASSUME TypeOK
  PROVE  /\ client \in {"APP", "BROWSER"} /\ picks \in Nat /\ MaxPicks[client] \in Nat
         /\ picks <= MaxPicks[client] /\ picks \in picks..MaxPicks[client]
         /\ picks < MaxPicks[client] => picks + 1 \in Picks /\ picks + 1 \in picks..MaxPicks[client]
         /\ ready \in BOOLEAN
  <1>1. client \in {"APP", "BROWSER"} /\ MaxPicks[client] \in Nat /\ picks \in 0..MaxPicks[client]
    BY ShopConstants DEF TypeOK
  <1> QED BY <1>1 DEF Picks, TypeOK

LEMMA HydrateMoves ==
  ASSUME TypeOK, Hydrate
  PROVE  Moves
  <1> PICK old \in Stored :
        LET merged == HydrateWith([p \in DOMAIN old |->
                          [old[p] EXCEPT !.qty = Clamp(@, old[p].min)]], carts[App])
        IN carts' = [carts EXCEPT ![App] = merged] /\ saved' \in {merged, saved}
    BY DEF Hydrate
  <1> DEFINE stored == [p \in DOMAIN old |-> [old[p] EXCEPT !.qty = Clamp(@, old[p].min)]]
  <1> PICK merged : merged = HydrateWith(stored, carts[App])
    OBVIOUS
  <1>1. client = "APP" /\ Open = {App} /\ App \in Views
    BY OpenViews DEF Hydrate, Views
  <1>2. old \in Cart /\ carts[App] \in Cart /\ PicksOf(old) \subseteq PicksOf(saved)
    BY <1>1, EmptyCart DEF TypeOK, Stored
  <1>3. merged \in Cart /\ PicksOf(merged) \subseteq PicksOf(saved) \cup PicksOf(carts[App])
    BY <1>2, CartHydrated
  <1>4. carts' = [carts EXCEPT ![App] = merged] /\ saved' \in {merged, saved}
    OBVIOUS
  <1> HIDE DEF stored
  <1>5. StoreTyped
    BY <1>1, <1>3, <1>4 DEF Hydrate, TypeOK, StoreTyped
  <1>6. Open' = Open /\ carts'[App] = merged
    BY <1>1, <1>4 DEF Hydrate, Open, TypeOK
  <1>7. Carried' \subseteq Carried
    BY <1>1, <1>3, <1>4, <1>6 DEF Carried
  <1>8. Basket' \subseteq Basket
    BY <1>3, <1>6 DEF Hydrate, Basket
  <1>9. StoreMoves
    BY <1>5, <1>7, <1>8 DEF StoreMoves
  <1>10. RefreshesMove /\ AttemptsMove /\ OrdersMove /\ CountsMove
    BY RestKept, PicksRange DEF Hydrate
  <1> QED BY <1>9, <1>10 DEF Moves

LEMMA AddedLine ==
  ASSUME TypeOK, NEW v \in Open, NEW p \in Products, NEW n \in 1..MaxQuantity,
         p \in DOMAIN carts[v] \/ picks < MaxPicks[client],
         client = "BROWSER" => Added(v, p, n).qty <= MaxQuantity
  PROVE  /\ Added(v, p, n) \in Line
         /\ Added(v, p, n).pick = IF p \in DOMAIN carts[v] THEN carts[v][p].pick ELSE picks + 1
  <1> PICK c \in Offers : c = catalogue[p]
    BY DEF TypeOK
  <1>1. c.price \in {d.price : d \in Offers} /\ c.min \in 1..MaxQuantity /\ c.min \in Nat
    BY OffersAre
  <1>2. v \in Views /\ carts[v] \in Cart
    BY OpenViews DEF TypeOK
  <1>3. p \in DOMAIN carts[v] => carts[v][p] \in Line
    BY <1>2, CartShape
  <1>4. CASE client = "APP"
    <2>1. v = App
      BY <1>4, OpenViews
    <2> PICK m : m = IF p \in DOMAIN carts[v] THEN carts[v][p].qty ELSE 0
      OBVIOUS
    <2> PICK k : k = IF p \in DOMAIN carts[v] THEN carts[v][p].pick ELSE picks + 1
      OBVIOUS
    <2>2. m + n \in Nat /\ k \in Picks
      BY <1>3, PicksRange, ShopConstants DEF Line
    <2>3. Added(v, p, n) = [price |-> c.price, min |-> c.min, pick |-> k, qty |-> Clamp(m + n, c.min)]
      BY <1>4, <2>1 DEF Added, AddedInApp
    <2>4. Clamp(m + n, c.min) \in 1..MaxQuantity
      BY <1>1, <2>2, ClampIn
    <2> QED BY <1>1, <2>2, <2>3, <2>4 DEF Line
  <1>5. CASE client # "APP" /\ p \in DOMAIN carts[v]
    <2> PICK line \in Line : line = carts[v][p]
      BY <1>3, <1>5
    <2>1. Added(v, p, n) = [line EXCEPT !.qty = line.qty + n]
      BY <1>5 DEF Added, AddedOnSite, Line
    <2>2. line.qty + n \in Nat \ {0} /\ client = "BROWSER"
      BY <1>5, PicksRange, ShopConstants DEF Line
    <2>3. [line EXCEPT !.qty = line.qty + n].qty = line.qty + n
      BY DEF Line
    <2>4. line.qty + n \in 1..MaxQuantity
      BY <2>1, <2>2, <2>3, ShopConstants
    <2> QED BY <1>5, <2>1, <2>4, LineKept
  <1>6. CASE client # "APP" /\ p \notin DOMAIN carts[v]
    <2>1. Added(v, p, n) = [price |-> c.price, min |-> c.min, qty |-> Max2(n, c.min), pick |-> picks + 1]
      BY <1>6 DEF Added, AddedOnSite
    <2>2. Max2(n, c.min) \in 1..MaxQuantity
      BY <1>1, ShopConstants DEF Max2
    <2>3. picks + 1 \in Picks
      BY <1>6, PicksRange
    <2> QED BY <1>1, <1>6, <2>1, <2>2, <2>3 DEF Line
  <1> QED BY <1>4, <1>5, <1>6

LEMMA AddMoves ==
  ASSUME TypeOK, NEW v \in Open, NEW p \in Products, AddToCart(v, p)
  PROVE  Moves
  <1> PICK n \in 1..MaxQuantity :
        /\ p \in DOMAIN carts[v] \/ picks < MaxPicks[client]
        /\ client = "BROWSER" => Added(v, p, n).qty <= MaxQuantity
        /\ Commit(v, WithLine(carts[v], p, Added(v, p, n)))
    BY DEF AddToCart
  <1> PICK line : line = Added(v, p, n)
    OBVIOUS
  <1>1. line \in Line /\ line.pick = IF p \in DOMAIN carts[v] THEN carts[v][p].pick ELSE picks + 1
    BY AddedLine
  <1>2. carts[v] \in Cart
    BY OpenViews DEF TypeOK
  <1> PICK cart : cart = WithLine(carts[v], p, line)
    OBVIOUS
  <1>3. cart \in Cart /\ PicksOf(cart) \subseteq PicksOf(carts[v]) \cup {line.pick}
    BY <1>1, <1>2, LinePut
  <1>4. picks' = (IF p \in DOMAIN carts[v] THEN picks ELSE picks + 1) /\ picks' \in picks..MaxPicks[client]
    BY PicksRange DEF AddToCart
  <1>5. line.pick \in PicksOf(carts[v]) \cup ((picks + 1)..picks')
    BY <1>1, <1>4, PicksRange DEF PicksOf
  <1>6. PicksOf(cart) \subseteq PicksOf(carts[v]) \cup ((picks + 1)..picks')
    BY <1>3, <1>5
  <1>7. StoreMoves
    BY <1>3, <1>4, <1>6, StoreCommitted, PicksRange DEF AddToCart
  <1>8. RefreshesMove /\ AttemptsMove /\ OrdersMove /\ CountsMove
    BY <1>4, RestKept, PicksRange DEF AddToCart
  <1> QED BY <1>7, <1>8 DEF Moves

LEMMA QuantityMoves ==
  ASSUME TypeOK, NEW v \in Open, NEW p \in Products, SetQuantity(v, p)
  PROVE  Moves
  <1>1. carts[v] \in Cart /\ p \in DOMAIN carts[v]
    BY OpenViews DEF TypeOK, SetQuantity
  <1>2. carts[v][p] \in Line
    BY <1>1, CartShape
  <1> PICK q \in 1..MaxQuantity : \E n :
        /\ n = IF client = "APP" THEN Clamp(q, carts[v][p].min) ELSE q
        /\ Commit(v, [carts[v] EXCEPT ![p].qty = n])
    BY DEF SetQuantity
  <1> PICK n :
        /\ n = IF client = "APP" THEN Clamp(q, carts[v][p].min) ELSE q
        /\ Commit(v, [carts[v] EXCEPT ![p].qty = n])
    OBVIOUS
  <1>3. n \in 1..MaxQuantity
    BY <1>2, ClampIn, ShopConstants DEF Line
  <1> PICK cart : cart = [carts[v] EXCEPT ![p].qty = n]
    OBVIOUS
  <1>4. cart \in Cart /\ PicksOf(cart) \subseteq PicksOf(carts[v])
    BY <1>1, <1>3, QuantitySet
  <1>5. StoreMoves
    BY <1>4, StoreCommitted, PicksRange DEF SetQuantity
  <1>6. RefreshesMove /\ AttemptsMove /\ OrdersMove /\ CountsMove
    BY RestKept, PicksRange DEF SetQuantity
  <1> QED BY <1>5, <1>6 DEF Moves

LEMMA RemoveMoves ==
  ASSUME TypeOK, NEW v \in Open, NEW p \in Products, RemoveFromCart(v, p)
  PROVE  Moves
  <1>1. carts[v] \in Cart
    BY OpenViews DEF TypeOK
  <1> PICK cart : cart = Restrict(carts[v], DOMAIN carts[v] \ {p})
    OBVIOUS
  <1>2. cart \in Cart /\ PicksOf(cart) \subseteq PicksOf(carts[v])
    BY <1>1, LineRemoved
  <1>3. StoreMoves
    BY <1>2, StoreCommitted, PicksRange DEF RemoveFromCart
  <1>4. RefreshesMove /\ AttemptsMove /\ OrdersMove /\ CountsMove
    BY RestKept, PicksRange DEF RemoveFromCart
  <1> QED BY <1>3, <1>4 DEF Moves

LEMMA StorageMoves ==
  ASSUME TypeOK, NEW v \in Open, OnStorage(v)
  PROVE  Moves
  <1>1. v \in Views /\ Open' = Open
    BY OpenViews DEF OnStorage, Open
  <1>2. StoreTyped
    BY <1>1, EmptyCart DEF OnStorage, Stored, TypeOK, StoreTyped
  <1>3. \A u \in Open : carts'[u] \in {carts[u], saved, Empty}
    BY <1>1, OpenViews DEF OnStorage, Stored, TypeOK
  <1>4. Carried' \subseteq Carried
    BY <1>1, <1>3, EmptyCart DEF OnStorage, Carried
  <1>5. client # "APP"
    BY OpenViews, ShopConstants DEF OnStorage, TypeOK
  <1>6. StoreMoves
    BY <1>2, <1>4, <1>5 DEF StoreMoves
  <1>7. RefreshesMove /\ AttemptsMove /\ OrdersMove /\ CountsMove
    BY RestKept, PicksRange DEF OnStorage
  <1> QED BY <1>6, <1>7 DEF Moves

LEMMA EditMoves ==
  ASSUME TypeOK, NEW p \in Products, EditProduct(p)
  PROVE  Moves
  <1>1. catalogue' \in [Products -> Offers] /\ edits' \in 0..MaxEdits
    BY ShopConstants DEF EditProduct, TypeOK
  <1>2. StoreMoves
    BY StoreKept, PicksRange DEF EditProduct
  <1>3. RefreshesMove /\ AttemptsMove /\ OrdersMove
    BY RefreshesKept, AttemptsKept DEF EditProduct, OrdersMove
  <1>4. CountsMove
    BY <1>1, PicksRange DEF CountsMove, EditProduct, TypeOK
  <1> QED BY <1>2, <1>3, <1>4 DEF Moves

LEMMA RefreshStarted ==
  ASSUME TypeOK, NEW v \in Open, NEW r \in Refreshes, NEW a \in Attempts \cup {Idle}
  PROVE  /\ NewRefresh(v, a) \in Refresh /\ NewRefresh(v, a).view = v /\ NewRefresh(v, a).of = a
         /\ refreshes' = [refreshes EXCEPT ![r] = NewRefresh(v, a)] => RefreshesMove
  <1>1. v \in Views /\ carts[v] \in Cart
    BY OpenViews DEF TypeOK
  <1>2. [p \in DOMAIN carts[v] |-> Waiting] \in Found
    BY <1>1, CartShape DEF Found
  <1>3. NewRefresh(v, a) \in Refresh /\ NewRefresh(v, a).view = v /\ NewRefresh(v, a).of = a
    BY <1>1, <1>2 DEF NewRefresh, Refresh, Found
  <1>4. ASSUME refreshes' = [refreshes EXCEPT ![r] = NewRefresh(v, a)] PROVE RefreshesMove
    BY <1>3, <1>4 DEF TypeOK, RefreshesMove, Reading
  <1> QED BY <1>3, <1>4

LEMMA BeginRefreshMoves ==
  ASSUME TypeOK, NEW v \in Open, NEW r \in Refreshes, BeginRefresh(r, v)
  PROVE  Moves
  <1>1. RefreshesMove
    BY RefreshStarted, RefreshesKept DEF BeginRefresh
  <1>2. StoreMoves
    BY PicksRange DEF BeginRefresh, TypeOK, StoreMoves, StoreTyped, Carried, Basket, Open
  <1>3. AttemptsMove /\ OrdersMove /\ CountsMove
    BY AttemptsKept, CountsKept DEF BeginRefresh, OrdersMove
  <1> QED BY <1>1, <1>2, <1>3 DEF Moves

LEMMA LoadMoves ==
  ASSUME TypeOK, NEW r \in Refreshes, NEW p \in Products, LoadProduct(r, p)
  PROVE  Moves
  <1> PICK x : x = refreshes[r]
    OBVIOUS
  <1>1. x \in Refresh /\ p \in DOMAIN x.found
    BY RefreshShape DEF LoadProduct, Reading
  <1> PICK answer \in {catalogue[p], Failed} : refreshes' = [refreshes EXCEPT ![r].found[p] = answer]
    BY DEF LoadProduct
  <1>2. answer \in Offers \cup {Failed}
    BY DEF TypeOK
  <1> PICK found : found = [x.found EXCEPT ![p] = answer]
    OBVIOUS
  <1>3. found \in Found
    <2>1. PICK S \in SUBSET Products : x.found \in [S -> Offers \cup {Waiting, Failed}]
      BY <1>1 DEF Refresh
    <2>2. found \in [S -> Offers \cup {Waiting, Failed}]
      BY <1>2, <2>1
    <2> QED BY <2>2 DEF Found
  <1>4. refreshes' = [refreshes EXCEPT ![r] = [x EXCEPT !.found = found]]
    BY DEF TypeOK
  <1>5. [x EXCEPT !.found = found] \in Refresh /\ [x EXCEPT !.found = found].view = x.view
    BY <1>1, <1>3 DEF Refresh, Found
  <1>6. RefreshesMove
    BY <1>4, <1>5 DEF TypeOK, RefreshesMove, Reading, LoadProduct
  <1>7. StoreMoves /\ AttemptsMove /\ OrdersMove /\ CountsMove
    BY StoreKept, AttemptsKept, CountsKept, PicksRange DEF LoadProduct, OrdersMove
  <1> QED BY <1>6, <1>7 DEF Moves

\* The basket after a refresh, on which both the types and the property rest.
LEMMA RefreshEnded ==
  ASSUME TypeOK, ViewsAreOpen, NEW r \in Refreshes, EndRefresh(r)
  PROVE  LET v == refreshes[r].view
             next == WithCataloguePrices(carts[v], refreshes[r].found)
         IN  /\ v \in Open /\ v \in Views /\ carts[v] \in Cart /\ next \in Cart
             /\ DOMAIN next = DOMAIN carts[v]
             /\ \A p \in DOMAIN next : next[p].pick = carts[v][p].pick /\ next[p].qty >= carts[v][p].qty
             /\ PicksOf(next) \subseteq PicksOf(carts[v])
             /\ (next = carts[v] /\ UNCHANGED store) \/ Commit(v, next)
             /\ attempts' = IF refreshes[r].of = Idle THEN attempts
                            ELSE [attempts EXCEPT ![refreshes[r].of] = Idle]
  <1>1. Reading(r)
    BY DEF EndRefresh, Reading
  <1> PICK v : v = refreshes[r].view
    OBVIOUS
  <1> PICK found : found = refreshes[r].found
    OBVIOUS
  <1>2. v \in Open /\ v \in Views /\ found \in Found
    BY <1>1, RefreshShape DEF ViewsAreOpen
  <1>3. carts[v] \in Cart /\ \A p \in DOMAIN found : found[p] # Waiting
    BY <1>2 DEF TypeOK, EndRefresh
  <1> PICK next : next = WithCataloguePrices(carts[v], found)
    OBVIOUS
  <1>4. /\ next \in Cart /\ DOMAIN next = DOMAIN carts[v]
        /\ \A p \in DOMAIN next : next[p].pick = carts[v][p].pick /\ next[p].qty >= carts[v][p].qty
        /\ PicksOf(next) \subseteq PicksOf(carts[v])
    BY <1>2, <1>3, CartRepriced
  <1>5. (next = carts[v] /\ UNCHANGED store) \/ Commit(v, next)
    BY DEF EndRefresh
  <1>6. attempts' = IF refreshes[r].of = Idle THEN attempts
                    ELSE [attempts EXCEPT ![refreshes[r].of] = Idle]
    BY DEF EndRefresh
  <1> QED BY <1>2, <1>3, <1>4, <1>5, <1>6

LEMMA EndRefreshMoves ==
  ASSUME TypeOK, ViewsAreOpen, NEW r \in Refreshes, EndRefresh(r)
  PROVE  Moves
  <1> PICK v \in Open : v = refreshes[r].view
    BY RefreshEnded
  <1> PICK next \in Cart : /\ PicksOf(next) \subseteq PicksOf(carts[v])
                           /\ (next = carts[v] /\ UNCHANGED store) \/ Commit(v, next)
    BY RefreshEnded
  <1>1. client' = client /\ picks' = picks /\ ready' = ready
    BY DEF EndRefresh
  <1>2. PicksOf(next) \subseteq PicksOf(carts[v]) \cup ((picks + 1)..picks')
    OBVIOUS
  <1>3. StoreMoves
    BY <1>1, <1>2, StoreKept, StoreCommitted, PicksRange
  <1>4. RefreshesMove
    BY DEF EndRefresh, TypeOK, RefreshesMove, Reading
  <1>5. AttemptsMove
    <2>1. attempts' \in [Attempts -> Attempt \cup {Idle}] /\ \A a \in Attempts : attempts'[a] \in {attempts[a], Idle}
      BY RefreshEnded DEF TypeOK
    <2> QED BY <2>1 DEF AttemptsMove, InFlight, SameRequest
  <1>6. OrdersMove /\ CountsMove
    BY CountsKept DEF EndRefresh, OrdersMove
  <1> QED BY <1>3, <1>4, <1>5, <1>6 DEF Moves

LEMMA Placed ==
  ASSUME TypeOK, NEW a \in Attempts, NEW v \in Open, PlaceOrder(a, v)
  PROVE  /\ attempts' \in [Attempts -> Attempt \cup {Idle}]
         /\ Requested(a) /\ ~InFlight(a) /\ InFlight(a)'
         /\ attempts'[a].view = v /\ attempts'[a].items = carts[v]
         /\ attempts'[a].phase = "SENT" /\ attempts'[a].heard = "PAGE"
         /\ \A b \in Attempts \ {a} : attempts'[b] = attempts[b]
  <1>1. v \in Views /\ carts[v] \in Cart /\ CartTotal(carts[v]) \in Nat
    BY OpenViews, CartTotals DEF TypeOK
  <1> DEFINE new == [view |-> v, items |-> carts[v], shown |-> CartTotal(carts[v]),
                     phase |-> "SENT", heard |-> "PAGE"]
  <1>2. new \in Attempt
    BY <1>1 DEF Attempt
  <1>3. attempts' = [attempts EXCEPT ![a] = new]
    BY DEF PlaceOrder
  <1>4. /\ attempts' \in [Attempts -> Attempt \cup {Idle}] /\ attempts'[a] = new
        /\ \A b \in Attempts \ {a} : attempts'[b] = attempts[b]
    BY <1>2, <1>3 DEF TypeOK
  <1>5. ~InFlight(a) /\ InFlight(a)'
    BY <1>2, <1>4, ShopNothing DEF PlaceOrder, InFlight
  <1> QED BY <1>1, <1>4, <1>5 DEF Requested

LEMMA PlaceMoves ==
  ASSUME TypeOK, NEW a \in Attempts, NEW v \in Open, PlaceOrder(a, v)
  PROVE  Moves
  <1>1. AttemptsMove
    BY Placed DEF AttemptsMove, InFlight, SameRequest
  <1>2. StoreMoves /\ RefreshesMove /\ OrdersMove /\ CountsMove
    BY StoreKept, RefreshesKept, CountsKept, PicksRange DEF PlaceOrder, OrdersMove
  <1> QED BY <1>1, <1>2 DEF Moves

LEMMA CheckoutMoves ==
  ASSUME TypeOK, NEW a \in Attempts, Checkout(a)
  PROVE  Moves
  <1>1. AttemptsMove
    BY AttemptMarked DEF Checkout, Sent, InFlight
  <1>2. orders' = Append(orders,
            [view |-> attempts[a].view, picks |-> PicksOf(attempts[a].items),
             shown |-> attempts[a].shown, total |-> attempts[a].shown])
    BY DEF Checkout, TotalAgreed
  <1>3. OrdersMove
    BY <1>2 DEF OrdersMove, Checkout
  <1>4. StoreMoves /\ RefreshesMove /\ CountsMove
    BY StoreKept, RefreshesKept, CountsKept, PicksRange DEF Checkout
  <1> QED BY <1>1, <1>3, <1>4 DEF Moves

LEMMA RefuseMoves ==
  ASSUME TypeOK, ViewsAreOpen, NEW a \in Attempts, Refuse(a) \/ Forget(a) \/ RefusePrice(a)
  PROVE  Moves
  <1>1. InFlight(a)
    BY DEF Refuse, Forget, RefusePrice, Sent, InFlight
  <1>2. AttemptsMove
    BY <1>1, AttemptMarked DEF Refuse, Forget, RefusePrice
  <1>3. RefreshesMove
    BY <1>1, RefreshStarted, RefreshesKept DEF ViewsAreOpen, Refuse, Forget, RefusePrice
  <1>4. StoreMoves /\ OrdersMove /\ CountsMove
    BY StoreKept, CountsKept, PicksRange DEF Refuse, Forget, RefusePrice, OrdersMove
  <1> QED BY <1>2, <1>3, <1>4 DEF Moves

LEMMA AnsweredMoves ==
  ASSUME TypeOK, ViewsAreOpen, NEW a \in Attempts, Answered(a)
  PROVE  Moves
  <1>1. InFlight(a)
    BY DEF Answered, InFlight
  <1> PICK v \in Open : v = attempts[a].view
    BY <1>1 DEF ViewsAreOpen
  <1>2. UNCHANGED store \/ Commit(v, Empty)
    BY DEF Answered
  <1>3. StoreMoves
    BY <1>2, StoreKept, StoreCommitted, EmptyCart, PicksRange DEF Answered
  <1>4. AttemptsMove /\ RefreshesMove /\ OrdersMove /\ CountsMove
    BY <1>1, AttemptMarked, RefreshesKept, CountsKept DEF Answered, OrdersMove
  <1> QED BY <1>3, <1>4 DEF Moves

LEMMA LosingMoves ==
  ASSUME TypeOK, NEW hit \in SUBSET Attempts, \A a \in hit : InFlight(a),
         NEW heard \in {"GONE", "NEVER"}, Loosen(hit, heard),
         UNCHANGED <<client, catalogue, edits, ready, refreshes, orders, picks>>, UNCHANGED store
  PROVE  Moves
  <1>1. AttemptsMove /\ loose' = loose \cup UNION {PicksOf(attempts[a].items) : a \in hit}
    BY AttemptsLoosened
  <1>2. CountsMove
    BY <1>1, PicksRange DEF CountsMove, TypeOK
  <1>3. StoreMoves /\ RefreshesMove /\ OrdersMove
    BY StoreKept, RefreshesKept, PicksRange DEF OrdersMove
  <1> QED BY <1>1, <1>2, <1>3 DEF Moves

OnPage(v) == {a \in Attempts : attempts[a] # Idle /\ attempts[a].view = v /\ attempts[a].heard = "PAGE"}
Mine(v)   == {a \in Attempts : attempts[a] # Idle /\ attempts[a].view = v}

LEMMA LoseMoves ==
  ASSUME TypeOK, NEW a \in Attempts, LoseAnswer(a)
  PROVE  Moves
  BY LosingMoves DEF LoseAnswer, InFlight

LEMMA LeaveMoves ==
  ASSUME TypeOK, NEW v \in Open, LeavePage(v)
  PROVE  Moves
  <1>1. Loosen(OnPage(v), "GONE")
    BY DEF LeavePage, OnPage
  <1> QED BY <1>1, LosingMoves DEF LeavePage, OnPage, InFlight

LEMMA Restarted ==
  ASSUME TypeOK, NEW v \in Open, Restart(v)
  PROVE  /\ attempts' \in [Attempts -> Attempt \cup {Idle}]
         /\ \A a \in Attempts \ Mine(v) : attempts'[a] = attempts[a]
         /\ \A a \in Mine(v) :
              IF attempts[a].phase = "REFUSED" THEN attempts'[a] = Idle
              ELSE /\ SameRequest(a) /\ attempts'[a].phase = attempts[a].phase
                   /\ attempts'[a].heard = "NEVER"
         /\ loose' = loose \cup Revived(v) \cup UNION {PicksOf(attempts[a].items) : a \in Mine(v)}
  <1>1. attempts' = [a \in Attempts |->
          IF a \notin Mine(v) THEN attempts[a]
          ELSE IF attempts[a].phase = "REFUSED" THEN Idle
          ELSE [attempts[a] EXCEPT !.heard = "NEVER"]]
    BY DEF Restart, Mine
  <1>2. loose' = loose \cup Revived(v) \cup UNION {PicksOf(attempts[a].items) : a \in Mine(v)}
    BY DEF Restart, Mine
  <1>3. \A a \in Attempts \ Mine(v) : attempts'[a] = attempts[a]
    BY <1>1
  <1>4. ASSUME NEW a \in Mine(v)
        PROVE  /\ attempts'[a] \in Attempt \cup {Idle}
               /\ IF attempts[a].phase = "REFUSED" THEN attempts'[a] = Idle
                  ELSE /\ SameRequest(a) /\ attempts'[a].phase = attempts[a].phase
                       /\ attempts'[a].heard = "NEVER"
    <2>1. a \in Attempts /\ attempts[a] \in Attempt /\ InFlight(a)
      BY AttemptShape DEF Mine, InFlight
    <2>2. CASE attempts[a].phase = "REFUSED"
      BY <1>1, <2>1, <2>2
    <2>3. CASE attempts[a].phase # "REFUSED"
      <3>1. attempts'[a] = [attempts[a] EXCEPT !.heard = "NEVER"]
        BY <1>1, <2>1, <2>3
      <3> QED BY <2>1, <2>3, <3>1 DEF Attempt, SameRequest
    <2> QED BY <2>2, <2>3
  <1>5. attempts' \in [Attempts -> Attempt \cup {Idle}]
    BY <1>1, <1>3, <1>4 DEF TypeOK
  <1> QED BY <1>2, <1>3, <1>4, <1>5

LEMMA RestartMoves ==
  ASSUME TypeOK, NEW v \in Open, Restart(v)
  PROVE  Moves
  <1>1. v \in Views /\ Open' = Open
    BY OpenViews DEF Restart, Open
  <1> PICK stored \in Stored :
        carts' = [carts EXCEPT ![v] = IF client = "APP" THEN Empty ELSE stored]
    BY DEF Restart
  <1>2. stored \in Cart /\ stored \in {saved, Empty}
    BY EmptyCart DEF Stored, TypeOK
  <1>3. StoreTyped
    BY <1>1, <1>2, EmptyCart DEF Restart, TypeOK, StoreTyped
  <1>4. \A u \in Open : carts'[u] \in {carts[u], saved, Empty}
    BY <1>1, <1>2, OpenViews DEF TypeOK
  <1>5. Carried' \subseteq Carried
    BY <1>1, <1>4, EmptyCart DEF Restart, Carried
  <1>6. ASSUME client = "APP" PROVE Basket' \subseteq Basket \cup loose'
    <2>1. v = App /\ carts'[App] = Empty /\ saved' = saved
      BY <1>1, <1>6, OpenViews DEF Restart, TypeOK
    <2>2. Basket' = PicksOf(saved)
      BY <1>6, <2>1, EmptyCart DEF Restart, Basket
    <2>3. Revived(v) \subseteq loose'
      BY Restarted
    <2> QED BY <1>6, <2>1, <2>2, <2>3 DEF Basket, Revived
  <1>7. StoreMoves
    BY <1>3, <1>5, <1>6 DEF StoreMoves
  <1>8. RefreshesMove
    BY DEF Restart, TypeOK, RefreshesMove, Reading
  <1>9. AttemptsMove
    BY Restarted DEF AttemptsMove, InFlight, SameRequest
  <1>10. OrdersMove
    BY DEF Restart, OrdersMove
  <1>11. CountsMove
    BY Restarted, PicksRange DEF CountsMove, Restart, Revived, TypeOK, Mine, InFlight
  <1> QED BY <1>7, <1>8, <1>9, <1>10, <1>11 DEF Moves

\* Every step is one of these moves.
LEMMA Steps ==
  ASSUME TypeOK, ViewsAreOpen, [Next]_vars
  PROVE  Moves
  <1>1. ASSUME NEW v \in Open, NEW p \in Products, AddToCart(v, p) \/ SetQuantity(v, p) \/ RemoveFromCart(v, p)
        PROVE  Moves
    BY <1>1, AddMoves, QuantityMoves, RemoveMoves
  <1>2. ASSUME NEW v \in Open, OnStorage(v) \/ LeavePage(v) \/ Restart(v) PROVE Moves
    BY <1>2, StorageMoves, LeaveMoves, RestartMoves
  <1>3. ASSUME NEW v \in Open, NEW r \in Refreshes, BeginRefresh(r, v) PROVE Moves
    BY <1>3, BeginRefreshMoves
  <1>4. ASSUME NEW v \in Open, NEW a \in Attempts, PlaceOrder(a, v) PROVE Moves
    BY <1>4, PlaceMoves
  <1>5. ASSUME NEW r \in Refreshes, EndRefresh(r) PROVE Moves
    BY <1>5, EndRefreshMoves
  <1>6. ASSUME NEW r \in Refreshes, NEW p \in Products, LoadProduct(r, p) PROVE Moves
    BY <1>6, LoadMoves
  <1>7. ASSUME NEW a \in Attempts, Checkout(a) \/ RefusePrice(a) \/ Refuse(a) \/ Answered(a)
                                     \/ LoseAnswer(a) \/ Forget(a)
        PROVE  Moves
    BY <1>7, CheckoutMoves, RefuseMoves, AnsweredMoves, LoseMoves
  <1>8. CASE UNCHANGED vars
    <2>1. UNCHANGED store /\ UNCHANGED <<client, catalogue, edits, ready, picks, loose>>
          /\ UNCHANGED <<refreshes, attempts, orders>>
      BY <1>8 DEF vars, store
    <2> QED BY <2>1, StoreKept, RefreshesKept, AttemptsKept, CountsKept, PicksRange DEF OrdersMove, Moves
  <1> QED BY <1>1, <1>2, <1>3, <1>4, <1>5, <1>6, <1>7, <1>8, HydrateMoves, EditMoves DEF Next

-----------------------------------------------------------------------------
(***************************************************************************)
(* Types, and the total on screen.                                         *)
(***************************************************************************)
\* A line counted once is counted for good.
PicksAreCounted ==
  /\ Carried \subseteq 1..picks
  /\ \A a \in Attempts : InFlight(a) => PicksOf(attempts[a].items) \subseteq 1..picks
  /\ \A i \in 1..Len(orders) : orders[i].picks \subseteq 1..picks

\* A request in flight says the total of its own lines.
TotalsAreShown ==
  \A a \in Attempts : InFlight(a) => attempts[a].shown = CartTotal(attempts[a].items)

BasketInv == TypeOK /\ ViewsAreOpen /\ PicksAreCounted /\ TotalsAreShown /\ ChargedAsShown

LEMMA BasketInit == Init => BasketInv
  <1> SUFFICES ASSUME Init PROVE BasketInv
    OBVIOUS
  <1>1. client \in {"APP", "BROWSER"} /\ MaxPicks[client] \in Nat /\ MaxOrders[client] \in Nat
    BY ShopConstants DEF Init
  <1>2. orders = <<>> /\ orders \in Seq(Order) /\ Len(orders) = 0
    BY DEF Init
  <1>3. carts \in [Views -> Cart] /\ saved \in Cart /\ saved = Empty /\ \A v \in Views : carts[v] = Empty
    BY EmptyCart DEF Init
  <1>4. TypeOK
    <2>1. refreshes \in [Refreshes -> Refresh \cup {Idle}] /\ attempts \in [Attempts -> Attempt \cup {Idle}]
      BY DEF Init
    <2>2. edits \in 0..MaxEdits /\ picks \in 0..MaxPicks[client] /\ loose \subseteq 1..picks
      BY <1>1, ShopConstants DEF Init
    <2>3. /\ catalogue \in [Products -> Offers] /\ ready \in BOOLEAN
          /\ news \subseteq Tabs /\ due \in BOOLEAN
      BY DEF Init
    <2>4. Len(orders) <= MaxOrders[client]
      BY <1>1, <1>2
    <2> QED BY <1>1, <1>2, <1>3, <2>1, <2>2, <2>3, <2>4 DEF TypeOK
  <1>5. Carried = {}
    BY <1>3, EmptyCart, OpenViews DEF Carried
  <1>6. ViewsAreOpen /\ PicksAreCounted /\ TotalsAreShown /\ ChargedAsShown
    BY <1>2, <1>5 DEF Init, ViewsAreOpen, PicksAreCounted, TotalsAreShown, ChargedAsShown, InFlight, Reading
  <1> QED BY <1>4, <1>6 DEF BasketInv

\* What an order, placed or about to be, looks like.
LEMMA OrderAppended ==
  ASSUME TypeOK, NEW a \in Attempts, Checkout(a), orders' = Append(orders,
            [view |-> attempts[a].view, picks |-> PicksOf(attempts[a].items),
             shown |-> attempts[a].shown, total |-> attempts[a].shown])
  PROVE  /\ InFlight(a) /\ attempts[a].phase = "SENT"
         /\ orders' \in Seq(Order) /\ Len(orders') = Len(orders) + 1
         /\ \A i \in 1..Len(orders) : orders'[i] = orders[i]
         /\ orders'[Len(orders) + 1].picks = PicksOf(attempts[a].items)
         /\ orders'[Len(orders) + 1].total = orders'[Len(orders) + 1].shown
  <1>1. InFlight(a) /\ attempts[a].phase = "SENT"
    BY DEF Checkout, Sent, InFlight
  <1>2. attempts[a].view \in Views /\ attempts[a].items \in Cart /\ attempts[a].shown \in Nat
    BY <1>1, AttemptShape
  <1>3. PicksOf(attempts[a].items) \in SUBSET Picks
    BY <1>2, CartShape DEF PicksOf, Line
  <1> DEFINE e == [view |-> attempts[a].view, picks |-> PicksOf(attempts[a].items),
                   shown |-> attempts[a].shown, total |-> attempts[a].shown]
  <1>4. e \in Order /\ e.picks = PicksOf(attempts[a].items) /\ e.total = e.shown
    BY <1>2, <1>3 DEF Order
  <1> HIDE DEF e
  <1>5. orders \in Seq(Order) /\ orders' = Append(orders, e)
    BY DEF TypeOK, e
  <1>6. /\ orders' \in Seq(Order) /\ Len(orders') = Len(orders) + 1
        /\ \A i \in 1..Len(orders) : orders'[i] = orders[i]
        /\ orders'[Len(orders) + 1] = e
    BY <1>4, <1>5
  <1> QED BY <1>1, <1>4, <1>6

LEMMA BasketStep == BasketInv /\ [Next]_vars => BasketInv'
  <1> SUFFICES ASSUME BasketInv, [Next]_vars PROVE BasketInv'
    OBVIOUS
  <1>1. Moves /\ TypeOK /\ ViewsAreOpen /\ PicksAreCounted /\ TotalsAreShown /\ ChargedAsShown
    BY Steps DEF BasketInv
  <1>2. StoreMoves /\ RefreshesMove /\ AttemptsMove /\ OrdersMove /\ CountsMove
    BY <1>1 DEF Moves
  <1>3. client' = client /\ Open' = Open /\ picks \in Nat /\ picks' \in Nat /\ picks <= picks'
    BY <1>1, <1>2, PicksRange DEF CountsMove, Open
  <1>4. \/ orders' = orders
        \/ \E a \in Attempts :
             /\ InFlight(a) /\ attempts[a].phase = "SENT" /\ Len(orders) < MaxOrders[client]
             /\ orders' \in Seq(Order) /\ Len(orders') = Len(orders) + 1
             /\ \A i \in 1..Len(orders) : orders'[i] = orders[i]
             /\ orders'[Len(orders) + 1].picks = PicksOf(attempts[a].items)
             /\ orders'[Len(orders) + 1].total = orders'[Len(orders) + 1].shown
    BY <1>1, <1>2, OrderAppended DEF OrdersMove
  <1>5. orders \in Seq(Order) /\ Len(orders) \in Nat /\ Len(orders) <= MaxOrders[client]
        /\ MaxOrders[client] \in Nat
    BY <1>1, PicksRange, ShopConstants DEF TypeOK
  <1>6. orders' \in Seq(Order) /\ Len(orders') <= MaxOrders[client]
    BY <1>4, <1>5
  <1>7. ChargedAsShown'
    BY <1>1, <1>4, <1>5 DEF ChargedAsShown
  <1>8. ViewsAreOpen'
    BY <1>1, <1>2, <1>3 DEF ViewsAreOpen, AttemptsMove, RefreshesMove, SameRequest, Requested, InFlight, Reading
  <1>9. TotalsAreShown'
    BY <1>1, <1>2 DEF TotalsAreShown, AttemptsMove, SameRequest, Requested
  <1>10. PicksAreCounted'
    <2>1. Carried' \subseteq 1..picks'
      BY <1>1, <1>2, <1>3 DEF PicksAreCounted, StoreMoves
    <2>2. ASSUME NEW a \in Attempts, InFlight(a)' PROVE PicksOf(attempts'[a].items) \subseteq 1..picks'
      <3>1. CASE SameRequest(a)
        BY <1>1, <1>3, <3>1 DEF SameRequest, PicksAreCounted
      <3>2. CASE Requested(a)
        BY <1>1, <1>3, <3>2 DEF Requested, PicksAreCounted, Carried
      <3> QED BY <1>2, <2>2, <3>1, <3>2 DEF AttemptsMove
    <2>3. \A i \in 1..Len(orders') : orders'[i].picks \subseteq 1..picks'
      BY <1>1, <1>3, <1>4, <1>5 DEF PicksAreCounted
    <2> QED BY <2>1, <2>2, <2>3 DEF PicksAreCounted
  <1>11. loose' \subseteq 1..picks'
    <2>1. loose \subseteq 1..picks /\ 1..picks \subseteq 1..picks'
      BY <1>1, <1>3 DEF TypeOK
    <2>2. \A a \in {b \in Attempts : InFlight(b)} : PicksOf(attempts[a].items) \subseteq 1..picks
      BY <1>1 DEF PicksAreCounted
    <2>3. loose' \subseteq loose \cup PicksOf(saved)
                   \cup UNION {PicksOf(attempts[a].items) : a \in {b \in Attempts : InFlight(b)}}
      BY <1>2 DEF CountsMove
    <2>4. PicksOf(saved) \subseteq 1..picks
      BY <1>1 DEF PicksAreCounted, Carried
    <2> QED BY <2>1, <2>2, <2>3, <2>4
  <1>12. TypeOK'
    <2>1. /\ carts' \in [Views' -> Cart'] /\ saved' \in Cart'
          /\ news' \subseteq Tabs /\ due' \in BOOLEAN
      BY <1>2 DEF StoreMoves, StoreTyped
    <2>2. /\ refreshes' \in [Refreshes -> Refresh \cup {Idle}]
          /\ attempts' \in [Attempts -> Attempt \cup {Idle}]
      BY <1>2 DEF RefreshesMove, AttemptsMove
    <2>3. /\ ready' \in BOOLEAN /\ edits' \in 0..MaxEdits
          /\ catalogue' \in [Products -> Offers]
      BY <1>2 DEF CountsMove
    <2>4. client' \in {"APP", "BROWSER"} /\ picks' \in 0..MaxPicks[client']
      BY <1>1, <1>2, <1>3, PicksRange DEF CountsMove
    <2>5. orders' \in Seq(Order) /\ Len(orders') <= MaxOrders[client']
      BY <1>3, <1>6
    <2> QED BY <1>11, <2>1, <2>2, <2>3, <2>4, <2>5 DEF TypeOK
  <1> QED BY <1>7, <1>8, <1>9, <1>10, <1>12 DEF BasketInv

LEMMA BasketInvAlways == Spec => []BasketInv
  BY BasketInit, BasketStep, PTL DEF Spec

\* Type correctness of the shop, its amounts and picks included.
THEOREM ShopTypes == Spec => []TypeOK
  <1>1. BasketInv => TypeOK
    BY DEF BasketInv
  <1> QED BY <1>1, BasketInvAlways, PTL

\* Nobody is charged a total other than the one on screen: the API compares the
\* two (orders.service.ts, expectedTotal) and stores what it compared.
THEOREM ChargesAreShown == Spec => []ChargedAsShown
  <1>1. BasketInv => ChargedAsShown
    BY DEF BasketInv
  <1> QED BY <1>1, BasketInvAlways, PTL

\* Prices that arrive late change prices only: no line comes back or is lost, and
\* no quantity shrinks, whatever the basket has become while they loaded.
THEOREM RefreshesKeepChoice == Spec => RefreshKeepsChoice
  <1>1. ASSUME BasketInv, NEW r \in Refreshes, EndRefresh(r)
        PROVE  LET old == carts[refreshes[r].view]
                   new == carts'[refreshes[r].view]
               IN /\ DOMAIN new = DOMAIN old
                  /\ \A p \in DOMAIN new : new[p].pick = old[p].pick /\ new[p].qty >= old[p].qty
    <2>1. TypeOK /\ ViewsAreOpen /\ client' = client
      BY <1>1 DEF BasketInv, EndRefresh
    <2> PICK v : v = refreshes[r].view
      OBVIOUS
    <2>2. v \in Open /\ carts[v] \in Cart
      BY <1>1, <2>1, RefreshEnded
    <2> PICK next \in Cart :
          /\ DOMAIN next = DOMAIN carts[v]
          /\ \A p \in DOMAIN next : next[p].pick = carts[v][p].pick /\ next[p].qty >= carts[v][p].qty
          /\ (next = carts[v] /\ UNCHANGED store) \/ Commit(v, next)
      BY <1>1, <2>1, RefreshEnded
    <2>3. carts'[v] = next
      BY <2>1, <2>2, Committed DEF store
    <2> QED BY <2>3
  <1>2. BasketInv /\ [Next]_vars =>
          (\A r \in Refreshes :
             EndRefresh(r)
             => LET old == carts[refreshes[r].view]
                    new == carts'[refreshes[r].view]
                IN /\ DOMAIN new = DOMAIN old
                   /\ \A p \in DOMAIN new : new[p].pick = old[p].pick /\ new[p].qty >= old[p].qty)
    BY <1>1
  <1> QED BY <1>2, BasketInvAlways, PTL DEF Spec, RefreshKeepsChoice

\* A request that was waiting is refused for its price by the API alone.
LEMMA RefusalsAre ==
  ASSUME BasketInv, [Next]_vars, NEW a \in Attempts, InFlight(a), attempts[a].phase = "SENT",
         InFlight(a)', attempts'[a].phase = "REFUSED"
  PROVE  RefusePrice(a)
  <1>1. TypeOK /\ ViewsAreOpen
    BY DEF BasketInv
  <1>2. attempts' # attempts
    OBVIOUS
  <1>3. ASSUME NEW v \in Open, NEW b \in Attempts, PlaceOrder(b, v) PROVE FALSE
    BY <1>1, <1>3, Placed
  <1>4. ASSUME NEW r \in Refreshes, EndRefresh(r) PROVE FALSE
    <2>1. attempts'[a] \in {attempts[a], Idle}
      BY <1>1, <1>4, RefreshEnded DEF TypeOK
    <2> QED BY <2>1 DEF InFlight
  <1>5. ASSUME NEW v \in Open, LeavePage(v) PROVE FALSE
    <2>1. Loosen(OnPage(v), "GONE")
      BY <1>5 DEF LeavePage, OnPage
    <2> QED BY <1>1, <2>1, AttemptsLoosened DEF OnPage, InFlight
  <1>6. ASSUME NEW v \in Open, Restart(v) PROVE FALSE
    BY <1>1, <1>6, Restarted DEF InFlight
  <1>7. ASSUME NEW b \in Attempts, LoseAnswer(b) PROVE FALSE
    BY <1>1, <1>7, AttemptsLoosened DEF LoseAnswer, InFlight
  <1>8. ASSUME NEW b \in Attempts, Checkout(b) PROVE FALSE
    <2>1. InFlight(b) /\ attempts' = [attempts EXCEPT ![b].phase = "PLACED"]
      BY <1>8 DEF Checkout, Sent, InFlight
    <2>2. attempts'[b] = [attempts[b] EXCEPT !.phase = "PLACED"] /\ attempts[b] \in Attempt
      BY <1>1, <2>1, AttemptShape DEF TypeOK
    <2>3. attempts'[b].phase = "PLACED"
      BY <2>2 DEF Attempt
    <2> QED BY <1>1, <2>1, <2>3, AttemptMarked
  <1>9. ASSUME NEW b \in Attempts, Refuse(b) \/ Answered(b) \/ Forget(b) PROVE FALSE
    <2>1. attempts' = [attempts EXCEPT ![b] = Idle]
      BY <1>9 DEF Refuse, Answered, Forget
    <2> QED BY <1>1, <2>1 DEF TypeOK, InFlight
  <1>10. ASSUME NEW b \in Attempts, RefusePrice(b) PROVE b = a
    <2>1. InFlight(b)
      BY <1>10 DEF RefusePrice, Sent, InFlight
    <2> QED BY <1>1, <1>10, <2>1, AttemptMarked DEF RefusePrice
  <1> QED BY <1>2, <1>3, <1>4, <1>5, <1>6, <1>7, <1>8, <1>9, <1>10
          DEF Next, vars, Hydrate, EditProduct, AddToCart, SetQuantity, RemoveFromCart, OnStorage,
              BeginRefresh, LoadProduct

\* An order is refused for its price only if the catalogue has changed under the
\* basket: on equal prices the client and the API compute one total.
THEOREM RefusalsAreStale == Spec => RefusedOnlyIfStale
  <1>1. ASSUME BasketInv, [Next]_vars, NEW a \in Attempts, InFlight(a), attempts[a].phase = "SENT",
               InFlight(a)', attempts'[a].phase = "REFUSED"
        PROVE  \E p \in DOMAIN attempts[a].items : attempts[a].items[p].price # catalogue[p].price
    <2>1. RefusePrice(a)
      BY <1>1, RefusalsAre
    <2>2. InvoiceTotal(attempts[a].items) # attempts[a].shown
      BY <2>1 DEF RefusePrice, TotalAgreed
    <2>3. attempts[a].shown = CartTotal(attempts[a].items) /\ attempts[a].items \in Cart
      BY <1>1, AttemptShape DEF BasketInv, TotalsAreShown
    <2> QED BY <2>2, <2>3, SameTotal
  <1>2. BasketInv /\ [Next]_vars =>
          (\A a \in Attempts :
             /\ attempts[a] # Idle /\ attempts[a].phase = "SENT"
             /\ attempts'[a] # Idle /\ attempts'[a].phase = "REFUSED"
             => \E p \in DOMAIN attempts[a].items :
                  attempts[a].items[p].price # catalogue[p].price)
    BY <1>1 DEF InFlight
  <1> QED BY <1>2, BasketInvAlways, PTL DEF Spec, RefusedOnlyIfStale

-----------------------------------------------------------------------------
(***************************************************************************)
(* One line, one order.                                                    *)
(***************************************************************************)
\* Of the requests of one page, its button waits for one.
OnePlacing ==
  \A a, b \in Attempts :
    /\ InFlight(a) /\ InFlight(b) /\ attempts[a].view = attempts[b].view
    /\ attempts[a].heard = "PAGE" /\ attempts[b].heard = "PAGE"
    => a = b

\* The lines of a request that no page waits for are loose.
UnheardIsLoose ==
  \A a \in Attempts :
    InFlight(a) /\ attempts[a].heard # "PAGE" => PicksOf(attempts[a].items) \subseteq loose

\* The app has read its basket before it sends an order that it still hears of.
HasRead ==
  client = "APP" =>
    \A a \in Attempts : InFlight(a) /\ attempts[a].heard # "NEVER" => ready

\* A refresh after a refusal is the only one for its request, which stands refused.
Recovering ==
  \A r \in Refreshes : Reading(r) /\ refreshes[r].of # Idle =>
    /\ InFlight(refreshes[r].of) /\ attempts[refreshes[r].of].phase = "REFUSED"
    /\ attempts[refreshes[r].of].view = refreshes[r].view
    /\ \A q \in Refreshes : Reading(q) /\ refreshes[q].of = refreshes[r].of => q = r

\* A line that was ordered is either with the request whose answer will empty the
\* basket, or not in the basket and with no request that could still order it.
Settled ==
  client = "APP" =>
    \A i \in 1..Len(orders) : \A x \in orders[i].picks \ loose :
      \/ \E a \in Attempts : /\ InFlight(a) /\ attempts[a].phase = "PLACED"
                             /\ attempts[a].heard = "PAGE" /\ x \in PicksOf(attempts[a].items)
      \/ /\ x \notin Basket
         /\ \A a \in Attempts : InFlight(a) /\ x \in PicksOf(attempts[a].items)
                                  => attempts[a].phase = "PLACED"

RequestsInv == OnePlacing /\ UnheardIsLoose /\ HasRead /\ Recovering
ShopInv     == BasketInv /\ RequestsInv /\ Settled /\ OrderedOnce

\* How a request may come, go on and go.
Asked(a) ==
  /\ ~InFlight(a) /\ attempts'[a].phase = "SENT" /\ attempts'[a].heard = "PAGE" /\ ready
  /\ ready' = ready
  /\ \E v \in Open : /\ attempts'[a].view = v /\ attempts'[a].items = carts[v] /\ ~Placing(v)
                     /\ \A b \in Attempts \ {a} : attempts'[b] = attempts[b]

Followed(a) ==
  /\ SameRequest(a)
  /\ attempts'[a].phase = attempts[a].phase \/ attempts[a].phase = "SENT"
  /\ \/ attempts'[a].heard = attempts[a].heard
     \/ /\ attempts[a].heard # "NEVER" /\ attempts'[a].heard # "PAGE"
        /\ PicksOf(attempts[a].items) \subseteq loose'

Closed(a) ==
  \/ Answered(a)
  \/ attempts[a].phase = "SENT"
  \/ attempts[a].phase = "PLACED" /\ attempts[a].heard = "NEVER"
  \/ /\ attempts[a].phase = "REFUSED"
     /\ \A r \in Refreshes : Reading(r) /\ refreshes[r].of = a => ~Reading(r)'

RequestsFollow ==
  \A a \in Attempts : /\ InFlight(a)' => Asked(a) \/ Followed(a)
                      /\ InFlight(a) /\ ~InFlight(a)' => Closed(a)

LEMMA RequestsKept ==
  ASSUME UNCHANGED attempts
  PROVE  RequestsFollow
  BY DEF RequestsFollow, Followed, SameRequest, InFlight

LEMMA PlaceFollows ==
  ASSUME TypeOK, NEW a \in Attempts, NEW v \in Open, PlaceOrder(a, v)
  PROVE  RequestsFollow
  <1>1. Asked(a)
    BY Placed DEF Asked, PlaceOrder
  <1>2. ASSUME NEW b \in Attempts \ {a} PROVE attempts'[b] = attempts[b]
    BY Placed
  <1> QED BY <1>1, <1>2, Placed DEF RequestsFollow, Followed, SameRequest, InFlight

\* The API or the page marks a request that was waiting.
LEMMA MarkFollows ==
  ASSUME TypeOK, NEW a \in Attempts, InFlight(a), attempts[a].phase = "SENT",
         NEW s \in {"PLACED", "REFUSED"}, attempts' = [attempts EXCEPT ![a].phase = s]
  PROVE  /\ RequestsFollow
         /\ InFlight(a)' /\ SameRequest(a)
         /\ attempts'[a].phase = s /\ attempts'[a].heard = attempts[a].heard
  <1>1. attempts[a] \in Attempt /\ attempts'[a] = [attempts[a] EXCEPT !.phase = s]
    BY AttemptShape DEF TypeOK
  <1>2. /\ attempts'[a] \in Attempt /\ SameRequest(a)
        /\ attempts'[a].phase = s /\ attempts'[a].heard = attempts[a].heard
    BY <1>1 DEF Attempt, SameRequest
  <1>3. InFlight(a)'
    BY <1>2, ShopNothing DEF InFlight
  <1>4. \A b \in Attempts \ {a} : attempts'[b] = attempts[b]
    BY AttemptMarked
  <1> QED BY <1>2, <1>3, <1>4 DEF RequestsFollow, Followed, SameRequest, InFlight

LEMMA CloseFollows ==
  ASSUME TypeOK, NEW a \in Attempts, attempts' = [attempts EXCEPT ![a] = Idle], Closed(a)
  PROVE  RequestsFollow
  BY DEF TypeOK, RequestsFollow, Followed, SameRequest, InFlight

LEMMA LoosenFollows ==
  ASSUME TypeOK, NEW hit \in SUBSET Attempts,
         \A a \in hit : InFlight(a) /\ attempts[a].heard # "NEVER",
         NEW heard \in {"GONE", "NEVER"}, Loosen(hit, heard)
  PROVE  RequestsFollow
  <1>1. ASSUME NEW a \in hit PROVE InFlight(a)' /\ Followed(a)
    <2>1. attempts[a] \in Attempt /\ attempts'[a] = [attempts[a] EXCEPT !.heard = heard]
      BY AttemptShape DEF Loosen
    <2>2. SameRequest(a) /\ attempts'[a].phase = attempts[a].phase
      BY <2>1 DEF Attempt, SameRequest
    <2>3. PicksOf(attempts[a].items) \subseteq loose'
      BY AttemptsLoosened
    <2> QED BY <2>2, <2>3, AttemptsLoosened DEF Followed
  <1>2. \A a \in Attempts \ hit : attempts'[a] = attempts[a]
    BY AttemptsLoosened
  <1> QED BY <1>1, <1>2 DEF RequestsFollow, Followed, SameRequest, InFlight

LEMMA RestartFollows ==
  ASSUME TypeOK, Recovering, NEW v \in Open, Restart(v)
  PROVE  RequestsFollow
  <1>1. ASSUME NEW a \in Mine(v), attempts[a].phase = "REFUSED"
        PROVE  ~InFlight(a)' /\ Closed(a)
    <2>1. attempts'[a] = Idle /\ a \in Attempts /\ attempts[a].view = v /\ a # Idle
      BY <1>1, Restarted, ShopConstants DEF Mine
    <2>2. ASSUME NEW r \in Refreshes, Reading(r), refreshes[r].of = a PROVE ~Reading(r)'
      <3>1. refreshes[r].view = v
        BY <2>1, <2>2 DEF Recovering
      <3> QED BY <2>2, <3>1 DEF Restart, Reading
    <2> QED BY <1>1, <2>1, <2>2 DEF Closed, InFlight
  <1>2. ASSUME NEW a \in Mine(v), attempts[a].phase # "REFUSED"
        PROVE  InFlight(a)' /\ Followed(a)
    <2>1. /\ a \in Attempts /\ SameRequest(a) /\ attempts'[a].phase = attempts[a].phase
          /\ attempts'[a].heard = "NEVER" /\ PicksOf(attempts[a].items) \subseteq loose'
      BY <1>2, Restarted DEF Mine
    <2>2. attempts[a] \in Attempt /\ attempts'[a] = [attempts[a] EXCEPT !.heard = "NEVER"]
      BY <1>2, <2>1, AttemptShape DEF Restart, SameRequest, Mine, InFlight
    <2>3. InFlight(a)'
      BY <2>2, ShopNothing DEF InFlight, Attempt
    <2> QED BY <2>1, <2>3 DEF Followed
  <1>3. \A a \in Attempts \ Mine(v) : attempts'[a] = attempts[a]
    BY Restarted
  <1> QED BY <1>1, <1>2, <1>3 DEF RequestsFollow, Followed, SameRequest, InFlight

LEMMA EndRefreshFollows ==
  ASSUME TypeOK, ViewsAreOpen, Recovering, NEW r \in Refreshes, EndRefresh(r)
  PROVE  RequestsFollow
  <1> PICK a \in Attempts \cup {Idle} : a = refreshes[r].of
    BY RefreshShape DEF EndRefresh, Reading
  <1>1. CASE a = Idle
    <2>1. attempts' = attempts
      BY <1>1, RefreshEnded
    <2> QED BY <2>1, RequestsKept
  <1>2. CASE a # Idle
    <2>1. attempts' = [attempts EXCEPT ![a] = Idle]
      BY <1>2, RefreshEnded
    <2>2. /\ InFlight(a) /\ attempts[a].phase = "REFUSED"
          /\ \A q \in Refreshes : Reading(q) /\ refreshes[q].of = a => q = r
      BY <1>2 DEF Recovering, EndRefresh, Reading
    <2>3. ~Reading(r)'
      BY DEF EndRefresh, TypeOK, Reading
    <2>4. Closed(a)
      BY <2>2, <2>3 DEF Closed
    <2> QED BY <1>2, <2>1, <2>4, CloseFollows
  <1> QED BY <1>1, <1>2

LEMMA CheckoutFollows ==
  ASSUME TypeOK, NEW a \in Attempts, Checkout(a)
  PROVE  /\ RequestsFollow /\ InFlight(a) /\ attempts[a].phase = "SENT"
         /\ InFlight(a)' /\ SameRequest(a)
         /\ attempts'[a].phase = "PLACED" /\ attempts'[a].heard = attempts[a].heard
  <1>1. InFlight(a) /\ attempts[a].phase = "SENT" /\ attempts' = [attempts EXCEPT ![a].phase = "PLACED"]
    BY DEF Checkout, Sent, InFlight
  <1> QED BY <1>1, MarkFollows

LEMMA RefusalFollows ==
  ASSUME TypeOK, NEW a \in Attempts, RefusePrice(a)
  PROVE  RequestsFollow
  <1>1. InFlight(a) /\ attempts[a].phase = "SENT"
    BY DEF RefusePrice, Sent, InFlight
  <1>2. CASE attempts' = [attempts EXCEPT ![a] = Idle]
    BY <1>1, <1>2, CloseFollows DEF Closed
  <1>3. CASE attempts' = [attempts EXCEPT ![a].phase = "REFUSED"]
    BY <1>1, <1>3, MarkFollows
  <1> QED BY <1>2, <1>3 DEF RefusePrice

LEMMA RequestSteps ==
  ASSUME TypeOK, ViewsAreOpen, Recovering, [Next]_vars
  PROVE  RequestsFollow
  <1>1. CASE UNCHANGED attempts
    BY <1>1, RequestsKept
  <1>2. ASSUME NEW v \in Open, NEW a \in Attempts, PlaceOrder(a, v) PROVE RequestsFollow
    BY <1>2, PlaceFollows
  <1>3. ASSUME NEW r \in Refreshes, EndRefresh(r) PROVE RequestsFollow
    BY <1>3, EndRefreshFollows
  <1>4. ASSUME NEW v \in Open, LeavePage(v) PROVE RequestsFollow
    <2>1. Loosen(OnPage(v), "GONE") /\ OnPage(v) \in SUBSET Attempts
      BY <1>4 DEF LeavePage, OnPage
    <2>2. \A a \in OnPage(v) : InFlight(a) /\ attempts[a].heard # "NEVER"
      BY DEF OnPage, InFlight
    <2> QED BY <2>1, <2>2, LoosenFollows
  <1>5. ASSUME NEW v \in Open, Restart(v) PROVE RequestsFollow
    BY <1>5, RestartFollows
  <1>6. ASSUME NEW a \in Attempts, LoseAnswer(a) PROVE RequestsFollow
    <2>1. Loosen({a}, "NEVER") /\ InFlight(a) /\ attempts[a].heard # "NEVER"
      BY <1>6 DEF LoseAnswer, InFlight
    <2> QED BY <2>1, LoosenFollows
  <1>7. ASSUME NEW a \in Attempts, Checkout(a) \/ RefusePrice(a) PROVE RequestsFollow
    BY <1>7, CheckoutFollows, RefusalFollows
  <1>8. ASSUME NEW a \in Attempts, Refuse(a) \/ Answered(a) \/ Forget(a) PROVE RequestsFollow
    <2>1. attempts' = [attempts EXCEPT ![a] = Idle]
      BY <1>8 DEF Refuse, Answered, Forget
    <2>2. Closed(a)
      BY <1>8 DEF Refuse, Forget, Sent, Closed
    <2> QED BY <2>1, <2>2, CloseFollows
  <1> QED BY <1>1, <1>2, <1>3, <1>4, <1>5, <1>6, <1>7, <1>8
          DEF Next, vars, Hydrate, EditProduct, AddToCart, SetQuantity, RemoveFromCart, OnStorage,
              BeginRefresh, LoadProduct

\* How a refresh may come and go on.
Recovers(r, a) ==
  /\ InFlight(a) /\ attempts[a].phase = "SENT"
  /\ InFlight(a)' /\ attempts'[a].phase = "REFUSED"
  /\ refreshes'[r].of = a /\ refreshes'[r].view = attempts'[a].view
  /\ \A q \in Refreshes \ {r} : refreshes'[q] = refreshes[q]

RefreshesFollow ==
  \A r \in Refreshes : Reading(r)' =>
    \/ /\ Reading(r) /\ refreshes'[r].of = refreshes[r].of
       /\ refreshes'[r].view = refreshes[r].view
    \/ refreshes'[r].of = Idle
    \/ \E a \in Attempts : Recovers(r, a)

LEMMA BeginFollows ==
  ASSUME TypeOK, NEW v \in Open, NEW r \in Refreshes, BeginRefresh(r, v)
  PROVE  RefreshesFollow
  <1>1. NewRefresh(v, Idle).of = Idle
    BY DEF NewRefresh
  <1>2. \/ refreshes' = refreshes
        \/ refreshes' = [refreshes EXCEPT ![r] = NewRefresh(v, Idle)]
    BY DEF BeginRefresh
  <1> QED BY <1>1, <1>2 DEF TypeOK, RefreshesFollow, Reading

LEMMA LoadFollows ==
  ASSUME TypeOK, NEW r \in Refreshes, NEW p \in Products, LoadProduct(r, p)
  PROVE  RefreshesFollow
  <1> PICK x : x = refreshes[r]
    OBVIOUS
  <1>1. x \in Refresh /\ Reading(r)
    BY RefreshShape DEF LoadProduct, Reading
  <1> PICK answer : refreshes' = [refreshes EXCEPT ![r].found[p] = answer]
    BY DEF LoadProduct
  <1> PICK found : found = [x.found EXCEPT ![p] = answer]
    OBVIOUS
  <1>2. refreshes' = [refreshes EXCEPT ![r] = [x EXCEPT !.found = found]]
    BY DEF TypeOK
  <1>3. [x EXCEPT !.found = found].of = x.of /\ [x EXCEPT !.found = found].view = x.view
    BY <1>1 DEF Refresh
  <1> QED BY <1>1, <1>2, <1>3 DEF TypeOK, RefreshesFollow, Reading

LEMMA RecoveryFollows ==
  ASSUME TypeOK, ViewsAreOpen, NEW a \in Attempts, RefusePrice(a)
  PROVE  RefreshesFollow
  <1>1. InFlight(a) /\ attempts[a].phase = "SENT"
    BY DEF RefusePrice, Sent, InFlight
  <1>2. CASE UNCHANGED refreshes
    BY <1>2 DEF RefreshesFollow, Reading
  <1>3. ASSUME attempts' = [attempts EXCEPT ![a].phase = "REFUSED"], NEW r \in Refreshes,
               refreshes' = [refreshes EXCEPT ![r] = NewRefresh(attempts[a].view, a)]
        PROVE  RefreshesFollow
    <2>1. InFlight(a)' /\ SameRequest(a) /\ attempts'[a].phase = "REFUSED"
      BY <1>1, <1>3, MarkFollows
    <2>2. /\ NewRefresh(attempts[a].view, a).of = a
          /\ NewRefresh(attempts[a].view, a).view = attempts[a].view
      BY DEF NewRefresh
    <2>3. Recovers(r, a) /\ \A q \in Refreshes \ {r} : refreshes'[q] = refreshes[q]
      BY <1>1, <1>3, <2>1, <2>2 DEF Recovers, TypeOK, SameRequest
    <2> QED BY <2>3 DEF RefreshesFollow, Reading
  <1> QED BY <1>2, <1>3 DEF RefusePrice

LEMMA RefreshSteps ==
  ASSUME TypeOK, ViewsAreOpen, [Next]_vars
  PROVE  RefreshesFollow
  <1>1. CASE UNCHANGED refreshes
    BY <1>1 DEF RefreshesFollow, Reading
  <1>2. ASSUME NEW v \in Open, NEW r \in Refreshes, BeginRefresh(r, v) PROVE RefreshesFollow
    BY <1>2, BeginFollows
  <1>3. ASSUME NEW r \in Refreshes, NEW p \in Products, LoadProduct(r, p) PROVE RefreshesFollow
    BY <1>3, LoadFollows
  <1>4. ASSUME NEW r \in Refreshes, EndRefresh(r) PROVE RefreshesFollow
    BY <1>4 DEF EndRefresh, TypeOK, RefreshesFollow, Reading
  <1>5. ASSUME NEW v \in Open, Restart(v) PROVE RefreshesFollow
    BY <1>5 DEF Restart, RefreshesFollow, Reading
  <1>6. ASSUME NEW a \in Attempts, RefusePrice(a) PROVE RefreshesFollow
    BY <1>6, RecoveryFollows
  <1> QED BY <1>1, <1>2, <1>3, <1>4, <1>5, <1>6
          DEF Next, vars, Hydrate, EditProduct, AddToCart, SetQuantity, RemoveFromCart, OnStorage,
              LeavePage, PlaceOrder, Checkout, Refuse, Answered, LoseAnswer, Forget

\* The app, once it has read its basket, has it until it is killed.
StaysReady == ready => ready' \/ \E v \in Open : Restart(v)

LEMMA ReadySteps == [Next]_vars => StaysReady
  BY DEF Next, vars, StaysReady, Hydrate, EditProduct, AddToCart, SetQuantity, RemoveFromCart,
         OnStorage, LeavePage, BeginRefresh, LoadProduct, EndRefresh, PlaceOrder, Checkout,
         RefusePrice, Refuse, Answered, LoseAnswer, Forget

-----------------------------------------------------------------------------
LEMMA OnePlacingKept ==
  ASSUME ViewsAreOpen, OnePlacing, RequestsFollow
  PROVE  OnePlacing'
  <1> SUFFICES ASSUME NEW a \in Attempts, NEW b \in Attempts, InFlight(a)', InFlight(b)',
                      attempts'[a].view = attempts'[b].view,
                      attempts'[a].heard = "PAGE", attempts'[b].heard = "PAGE"
               PROVE  a = b
    BY DEF OnePlacing
  <1>1. ASSUME NEW c \in Attempts, Followed(c), attempts'[c].heard = "PAGE"
        PROVE  InFlight(c) /\ attempts[c].heard = "PAGE" /\ attempts'[c].view = attempts[c].view
    BY <1>1 DEF Followed, SameRequest
  <1>2. ASSUME NEW c \in Attempts, NEW d \in Attempts \ {c}, Asked(c), InFlight(d)',
               attempts'[d].heard = "PAGE", attempts'[c].view = attempts'[d].view
        PROVE  FALSE
    BY <1>2 DEF Asked, Placing, InFlight
  <1>3. CASE Followed(a) /\ Followed(b)
    BY <1>1, <1>3 DEF OnePlacing
  <1> QED BY <1>2, <1>3 DEF RequestsFollow

LEMMA UnheardKept ==
  ASSUME UnheardIsLoose, RequestsFollow, loose \subseteq loose'
  PROVE  UnheardIsLoose'
  <1> SUFFICES ASSUME NEW a \in Attempts, InFlight(a)', attempts'[a].heard # "PAGE"
               PROVE  PicksOf(attempts'[a].items) \subseteq loose'
    BY DEF UnheardIsLoose
  <1>1. Followed(a)
    BY DEF RequestsFollow, Asked
  <1> QED BY <1>1 DEF Followed, SameRequest, UnheardIsLoose

LEMMA HasReadKept ==
  ASSUME TypeOK, ViewsAreOpen, HasRead, RequestsFollow, StaysReady, client' = client
  PROVE  HasRead'
  <1> SUFFICES ASSUME client = "APP", NEW a \in Attempts, InFlight(a)', attempts'[a].heard # "NEVER"
               PROVE  ready'
    BY DEF HasRead
  <1>1. CASE Asked(a)
    BY <1>1 DEF Asked
  <1>2. CASE Followed(a)
    <2>1. InFlight(a) /\ attempts[a].heard # "NEVER" /\ ready
      BY <1>2 DEF Followed, SameRequest, HasRead
    <2>2. ASSUME NEW v \in Open, Restart(v) PROVE FALSE
      <3>1. a \in Mine(v)
        BY <2>1, OpenViews DEF Mine, InFlight, ViewsAreOpen
      <3> QED BY <2>2, <3>1, Restarted DEF InFlight
    <2> QED BY <2>1, <2>2 DEF StaysReady
  <1> QED BY <1>1, <1>2 DEF RequestsFollow

LEMMA RecoveringKept ==
  ASSUME TypeOK, Recovering, RequestsFollow, RefreshesFollow
  PROVE  Recovering'
  <1>1. ASSUME NEW r \in Refreshes, Reading(r)', refreshes'[r].of # Idle
        PROVE  \/ /\ Reading(r) /\ refreshes'[r].of = refreshes[r].of
                  /\ refreshes'[r].view = refreshes[r].view
               \/ \E a \in Attempts : Recovers(r, a)
    BY <1>1 DEF RefreshesFollow
  <1>2. ASSUME NEW r \in Refreshes, Reading(r)', Reading(r), NEW a \in Attempts, refreshes[r].of = a
        PROVE  InFlight(a)' /\ attempts'[a].phase = "REFUSED" /\ attempts'[a].view = refreshes[r].view
    <2>0. a # Idle
      BY ShopConstants
    <2>1. InFlight(a) /\ attempts[a].phase = "REFUSED" /\ attempts[a].view = refreshes[r].view
      BY <1>2, <2>0 DEF Recovering
    <2>2. ~Closed(a)
      BY <1>2, <2>1 DEF Closed, Answered
    <2>3. InFlight(a)' /\ Followed(a)
      BY <2>1, <2>2 DEF RequestsFollow, Asked
    <2> QED BY <2>1, <2>3 DEF Followed, SameRequest
  <1>3. ASSUME NEW r \in Refreshes, NEW q \in Refreshes, NEW a \in Attempts, Recovers(r, a),
               Reading(q)', refreshes'[q].of = a
        PROVE  q = r
    <2>1. SUFFICES ASSUME q # r PROVE FALSE
      OBVIOUS
    <2>2. Reading(q) /\ refreshes[q].of = a
      BY <1>3, <2>1 DEF Recovers, Reading
    <2>3. attempts[a].phase = "REFUSED"
      BY <2>2, ShopConstants DEF Recovering
    <2> QED BY <1>3, <2>3 DEF Recovers
  <1> SUFFICES ASSUME NEW r \in Refreshes, Reading(r)', refreshes'[r].of # Idle
               PROVE  /\ attempts'[refreshes'[r].of] # Idle /\ attempts'[refreshes'[r].of].phase = "REFUSED"
                      /\ attempts'[refreshes'[r].of].view = refreshes'[r].view
                      /\ \A q \in Refreshes : Reading(q)' /\ refreshes'[q].of = refreshes'[r].of => q = r
    BY DEF Recovering, InFlight, Reading
  <1>4. CASE \E a \in Attempts : Recovers(r, a)
    BY <1>3, <1>4 DEF Recovers, InFlight
  <1>5. CASE Reading(r) /\ refreshes'[r].of = refreshes[r].of /\ refreshes'[r].view = refreshes[r].view
    <2> PICK a \in Attempts : a = refreshes[r].of
      BY <1>5, RefreshShape
    <2>1. InFlight(a)' /\ attempts'[a].phase = "REFUSED" /\ attempts'[a].view = refreshes'[r].view
      BY <1>2, <1>5
    <2>2. ASSUME NEW q \in Refreshes, Reading(q)', refreshes'[q].of = a PROVE q = r
      <3>1. CASE \E b \in Attempts : Recovers(q, b)
        BY <1>3, <1>5, <2>2, <3>1 DEF Recovers
      <3>2. CASE Reading(q) /\ refreshes'[q].of = refreshes[q].of
        BY <1>5, <2>2, <3>2 DEF Recovering
      <3> QED BY <1>1, <1>5, <2>2, <3>1, <3>2
    <2> QED BY <1>5, <2>1, <2>2 DEF InFlight
  <1> QED BY <1>1, <1>4, <1>5

LEMMA RequestsInit == Init => RequestsInv /\ Settled /\ OrderedOnce
  <1> SUFFICES ASSUME Init PROVE RequestsInv /\ Settled /\ OrderedOnce
    OBVIOUS
  <1>1. /\ \A a \in Attempts : ~InFlight(a)
        /\ \A r \in Refreshes : ~Reading(r)
        /\ Len(orders) = 0
    BY DEF Init, InFlight, Reading
  <1>2. client = "APP" => ~ready
    BY DEF Init
  <1> QED BY <1>1, <1>2
          DEF RequestsInv, OnePlacing, UnheardIsLoose, HasRead, Recovering, Settled, OrderedOnce

LEMMA RequestsKeep ==
  ASSUME BasketInv, RequestsInv, [Next]_vars
  PROVE  RequestsInv' /\ RequestsFollow
  <1>1. /\ TypeOK /\ ViewsAreOpen
        /\ OnePlacing /\ UnheardIsLoose /\ HasRead /\ Recovering
    BY DEF BasketInv, RequestsInv
  <1>2. RequestsFollow /\ RefreshesFollow /\ StaysReady
    BY <1>1, RequestSteps, RefreshSteps, ReadySteps
  <1>3. client' = client /\ loose \subseteq loose'
    BY <1>1, Steps DEF Moves, CountsMove
  <1>4. OnePlacing'
    BY <1>1, <1>2, OnePlacingKept
  <1>5. UnheardIsLoose'
    BY <1>1, <1>2, <1>3, UnheardKept
  <1>6. HasRead'
    BY <1>1, <1>2, <1>3, HasReadKept
  <1>7. Recovering'
    BY <1>1, <1>2, RecoveringKept
  <1> QED BY <1>2, <1>4, <1>5, <1>6, <1>7 DEF RequestsInv

\* An answer the app still hears empties the basket.
LEMMA AnswerEmpties ==
  ASSUME TypeOK, ViewsAreOpen, HasRead, client = "APP", NEW a \in Attempts, Answered(a)
  PROVE  Basket' = {}
  <1>1. InFlight(a) /\ attempts[a].heard # "NEVER" /\ client' = client /\ ready' = ready
    BY DEF Answered, InFlight
  <1>2. ready /\ attempts[a].view = App /\ App \in Views /\ App \in Open
    BY <1>1, OpenViews DEF HasRead, ViewsAreOpen
  <1>3. \/ carts[App] = Empty /\ UNCHANGED store
        \/ Commit(App, Empty)
    BY <1>2 DEF Answered
  <1>4. carts'[App] = Empty
    BY <1>1, <1>2, <1>3, Committed, EmptyCart DEF store
  <1> QED BY <1>1, <1>2, <1>4, EmptyCart DEF Basket

\* A line that was ordered before is in no later order, unless it is loose.
LEMMA OrderIsNew ==
  ASSUME BasketInv, RequestsInv, Settled, client = "APP", NEW c \in Attempts, InFlight(c),
         attempts[c].phase = "SENT", NEW i \in 1..Len(orders)
  PROVE  orders[i].picks \cap PicksOf(attempts[c].items) \subseteq loose
  <1> SUFFICES ASSUME NEW x \in orders[i].picks \ loose, x \in PicksOf(attempts[c].items) PROVE FALSE
    OBVIOUS
  <1>1. attempts[c].heard = "PAGE"
    BY DEF RequestsInv, UnheardIsLoose
  <1>2. PICK a \in Attempts : /\ InFlight(a) /\ attempts[a].phase = "PLACED"
                              /\ attempts[a].heard = "PAGE"
    BY DEF Settled
  <1>3. attempts[a].view = attempts[c].view
    BY <1>2, OpenViews DEF BasketInv, ViewsAreOpen
  <1>4. a = c
    BY <1>1, <1>2, <1>3 DEF RequestsInv, OnePlacing
  <1> QED BY <1>2, <1>4

LEMMA OrdersGrow ==
  ASSUME BasketInv, [Next]_vars
  PROVE  /\ client' = client /\ loose \subseteq loose'
         /\ Len(orders) \in Nat
         /\ \/ orders' = orders
            \/ \E c \in Attempts :
                 /\ Checkout(c) /\ loose' = loose /\ Len(orders') = Len(orders) + 1
                 /\ \A i \in 1..Len(orders) : orders'[i] = orders[i]
                 /\ orders'[Len(orders) + 1].picks = PicksOf(attempts[c].items)
  <1>1. TypeOK /\ Moves
    BY Steps DEF BasketInv
  <1>2. client' = client /\ loose \subseteq loose' /\ Len(orders) \in Nat
    BY <1>1 DEF Moves, CountsMove, TypeOK
  <1>3. OrdersMove
    BY <1>1 DEF Moves
  <1>4. ASSUME NEW c \in Attempts, Checkout(c),
               orders' = Append(orders,
                 [view |-> attempts[c].view, picks |-> PicksOf(attempts[c].items),
                  shown |-> attempts[c].shown, total |-> attempts[c].shown])
        PROVE  /\ loose' = loose /\ Len(orders') = Len(orders) + 1
               /\ \A i \in 1..Len(orders) : orders'[i] = orders[i]
               /\ orders'[Len(orders) + 1].picks = PicksOf(attempts[c].items)
    <2>1. loose' = loose
      BY <1>4 DEF Checkout
    <2> QED BY <1>1, <1>4, <2>1, OrderAppended
  <1> QED BY <1>2, <1>3, <1>4 DEF OrdersMove

LEMMA OrderedOnceKept ==
  ASSUME BasketInv, RequestsInv, Settled, OrderedOnce, [Next]_vars
  PROVE  OrderedOnce'
  <1>1. client' = client /\ loose \subseteq loose' /\ Len(orders) \in Nat
    BY OrdersGrow
  <1>2. CASE orders' = orders
    BY <1>1, <1>2 DEF OrderedOnce
  <1>3. ASSUME NEW c \in Attempts, Checkout(c), loose' = loose, Len(orders') = Len(orders) + 1,
               \A i \in 1..Len(orders) : orders'[i] = orders[i],
               orders'[Len(orders) + 1].picks = PicksOf(attempts[c].items)
        PROVE  OrderedOnce'
    <2> SUFFICES ASSUME client = "APP", NEW i \in 1..Len(orders'), NEW j \in 1..Len(orders'), i # j
                 PROVE  orders'[i].picks \cap orders'[j].picks \subseteq loose
      BY <1>1, <1>3 DEF OrderedOnce
    <2>1. InFlight(c) /\ attempts[c].phase = "SENT"
      BY <1>3 DEF Checkout, Sent, InFlight
    <2>2. \A k \in 1..Len(orders) : orders[k].picks \cap PicksOf(attempts[c].items) \subseteq loose
      BY <2>1, OrderIsNew
    <2>3. i \in 1..Len(orders) \/ i = Len(orders) + 1
      BY <1>1, <1>3
    <2>4. j \in 1..Len(orders) \/ j = Len(orders) + 1
      BY <1>1, <1>3
    <2>5. CASE i \in 1..Len(orders) /\ j \in 1..Len(orders)
      BY <1>3, <2>5 DEF OrderedOnce
    <2>6. CASE i \in 1..Len(orders) /\ j = Len(orders) + 1
      BY <1>3, <2>2, <2>6
    <2>7. CASE i = Len(orders) + 1 /\ j \in 1..Len(orders)
      BY <1>3, <2>2, <2>7
    <2> QED BY <2>3, <2>4, <2>5, <2>6, <2>7
  <1> QED BY <1>2, <1>3, OrdersGrow

\* A line that is settled stays so: its request is answered and empties the
\* basket, or its answer is lost and the line is loose.
LEMMA StaysSettled ==
  ASSUME BasketInv, RequestsInv, Settled, RequestsFollow, [Next]_vars, client = "APP",
         NEW i \in 1..Len(orders), NEW x \in orders[i].picks, x \notin loose'
  PROVE  \/ \E a \in Attempts : /\ InFlight(a)' /\ attempts'[a].phase = "PLACED"
                                /\ attempts'[a].heard = "PAGE" /\ x \in PicksOf(attempts'[a].items)
         \/ /\ x \notin Basket'
            /\ \A a \in Attempts : InFlight(a)' /\ x \in PicksOf(attempts'[a].items)
                                     => attempts'[a].phase = "PLACED"
  <1>1. /\ TypeOK /\ ViewsAreOpen /\ PicksAreCounted
        /\ OnePlacing /\ UnheardIsLoose /\ HasRead
    BY DEF BasketInv, RequestsInv
  <1>2. client' = client /\ x \notin loose
    BY OrdersGrow
  <1>3. StoreMoves /\ picks \in Nat
    BY <1>1, Steps, PicksRange DEF Moves
  <1>4. x \in 1..picks
    BY <1>1 DEF PicksAreCounted
  <1>5. CASE \E a \in Attempts : /\ InFlight(a) /\ attempts[a].phase = "PLACED"
                                 /\ attempts[a].heard = "PAGE" /\ x \in PicksOf(attempts[a].items)
    <2> PICK a \in Attempts : /\ InFlight(a) /\ attempts[a].phase = "PLACED"
                              /\ attempts[a].heard = "PAGE" /\ x \in PicksOf(attempts[a].items)
      BY <1>5
    <2>1. CASE InFlight(a)'
      BY <2>1 DEF RequestsFollow, Asked, Followed, SameRequest
    <2>2. CASE ~InFlight(a)'
      <3>1. Answered(a)
        BY <2>2 DEF RequestsFollow, Closed
      <3>2. x \notin Basket'
        BY <1>1, <3>1, AnswerEmpties
      <3>3. ASSUME NEW b \in Attempts, InFlight(b)', x \in PicksOf(attempts'[b].items) PROVE FALSE
        <4>1. attempts' = [attempts EXCEPT ![a] = Idle] /\ b # a
          BY <2>2, <3>1, <3>3 DEF Answered
        <4>2. InFlight(b) /\ attempts'[b] = attempts[b]
          BY <1>1, <3>3, <4>1 DEF TypeOK, InFlight
        <4>3. attempts[b].heard = "PAGE"
          BY <1>1, <1>2, <3>3, <4>2 DEF UnheardIsLoose
        <4>4. attempts[a].view = attempts[b].view
          BY <1>1, <4>2, OpenViews DEF ViewsAreOpen
        <4> QED BY <1>1, <4>1, <4>2, <4>3, <4>4 DEF OnePlacing
      <3> QED BY <3>2, <3>3
    <2> QED BY <2>1, <2>2
  <1>6. CASE /\ x \notin Basket
             /\ \A a \in Attempts : InFlight(a) /\ x \in PicksOf(attempts[a].items)
                                      => attempts[a].phase = "PLACED"
    <2>1. x \notin Basket'
      BY <1>3, <1>4, <1>6 DEF StoreMoves
    <2>2. ASSUME NEW a \in Attempts, InFlight(a)', x \in PicksOf(attempts'[a].items)
          PROVE  attempts'[a].phase = "PLACED"
      <3>1. ~Asked(a)
        BY <1>6, <2>2, OpenViews DEF Asked, Basket
      <3>2. Followed(a)
        BY <2>2, <3>1 DEF RequestsFollow
      <3> QED BY <1>6, <2>2, <3>2 DEF Followed, SameRequest
    <2> QED BY <2>1, <2>2
  <1> QED BY <1>2, <1>5, <1>6 DEF Settled

LEMMA SettledKept ==
  ASSUME BasketInv, RequestsInv, Settled, RequestsFollow, [Next]_vars
  PROVE  Settled'
  <1>1. client' = client /\ loose \subseteq loose' /\ Len(orders) \in Nat
    BY OrdersGrow
  <1> DEFINE SettledLine(x) ==
        \/ \E a \in Attempts : /\ InFlight(a)' /\ attempts'[a].phase = "PLACED"
                               /\ attempts'[a].heard = "PAGE" /\ x \in PicksOf(attempts'[a].items)
        \/ /\ x \notin Basket'
           /\ \A a \in Attempts : InFlight(a)' /\ x \in PicksOf(attempts'[a].items)
                                    => attempts'[a].phase = "PLACED"
  <1>2. SUFFICES ASSUME client = "APP", NEW i \in 1..Len(orders'), NEW x \in orders'[i].picks, x \notin loose'
                 PROVE  SettledLine(x)
    BY <1>1 DEF Settled, InFlight
  <1>3. CASE i \in 1..Len(orders) /\ orders'[i] = orders[i]
    BY <1>2, <1>3, StaysSettled
  <1>4. CASE ~(i \in 1..Len(orders) /\ orders'[i] = orders[i])
    <2>1. PICK c \in Attempts :
            /\ Checkout(c) /\ loose' = loose /\ Len(orders') = Len(orders) + 1
            /\ \A k \in 1..Len(orders) : orders'[k] = orders[k]
            /\ orders'[Len(orders) + 1].picks = PicksOf(attempts[c].items)
      BY <1>2, <1>4, OrdersGrow
    <2>2. i = Len(orders) + 1
      BY <1>1, <1>2, <1>4, <2>1
    <2>3. x \in PicksOf(attempts[c].items) /\ x \notin loose
      BY <1>2, <2>1, <2>2
    <2>4. /\ InFlight(c) /\ InFlight(c)' /\ SameRequest(c)
          /\ attempts'[c].phase = "PLACED" /\ attempts'[c].heard = attempts[c].heard
      BY <2>1, CheckoutFollows DEF BasketInv
    <2>5. attempts[c].heard = "PAGE"
      BY <2>3, <2>4 DEF RequestsInv, UnheardIsLoose
    <2> QED BY <2>3, <2>4, <2>5 DEF SameRequest
  <1> QED BY <1>3, <1>4

LEMMA ShopStep == ShopInv /\ [Next]_vars => ShopInv'
  <1> SUFFICES ASSUME ShopInv, [Next]_vars PROVE ShopInv'
    OBVIOUS
  <1>1. BasketInv /\ RequestsInv /\ Settled /\ OrderedOnce
    BY DEF ShopInv
  <1>2. BasketInv'
    BY <1>1, BasketStep
  <1>3. RequestsInv' /\ RequestsFollow
    BY <1>1, RequestsKeep
  <1>4. Settled' /\ OrderedOnce'
    BY <1>1, <1>3, SettledKept, OrderedOnceKept
  <1> QED BY <1>2, <1>3, <1>4 DEF ShopInv

\* One line of the app's basket is ordered once, whatever the customer, the network,
\* the device and the API do, unless the answer was lost, the page was left, or a killed
\* app found the line on its device after it was gone from memory: the button waits
\* (checkout-section.tsx, placing) and the answer empties the basket.
THEOREM LinesAreOrderedOnce == Spec => []OrderedOnce
  <1>1. Init => ShopInv
    BY BasketInit, RequestsInit DEF ShopInv
  <1>2. ShopInv => OrderedOnce
    BY DEF ShopInv
  <1> QED BY <1>1, <1>2, ShopStep, PTL DEF Spec

-----------------------------------------------------------------------------
(***************************************************************************)
(* The app's session: what a step does to the store and to the calls.      *)
(***************************************************************************)
Store == [status : Status, user : Users \cup {NoUser}, error : Why,
          accountUserId : Users \cup {NoUser}, accountLoad : Calls \cup {NoCall},
          signingOut : BOOLEAN]

Sending == [op : {"TOKEN", "SENT", "REJECTED", "RESENT", "LEAVING", "END_SESSION"},
            kind : {"ACCOUNT", "LIST"}, token : Token \cup {NoToken}, current : BOOLEAN]

Flying == [op : {"SIGN_IN", "WAIT", "WAKE", "END_SESSION", "RETRY"},
           user : Users \cup {NoUser}, call : Calls \cup {NoCall}]

\* The token of a call that was read from the session and whose answer counts.
Live(cs, c) == cs[c] # Spare /\ cs[c].current /\ cs[c].op # "TOKEN"

Listing(cs, c) == cs[c] # Spare /\ cs[c].current /\ cs[c].kind = "LIST"

\* Tokens are read from a session, so a call that was sent has one.
HasToken(x) == x # Spare => x \in Sending /\ (x.op # "TOKEN" => x.token \in Token)

CallsTyped(cs) == cs \in [Calls -> {Spare} \cup Sending] /\ \A c \in Calls : HasToken(cs[c])

AppTyped(s) == s \in Store /\ (s.status = "authenticated" => s.user \in Users)

ListTyped == list \in [key : Users \cup {NoUser}, owner : Users \cup {NoUser}]

FlowsTyped == flows \in [Flows -> {Spare} \cup Flying]

EventsTyped == events \in Seq([user : Users \cup {NoUser}, during : BOOLEAN])

HeldTyped == held \in Token \cup {NoToken} /\ issued \in 0..MaxTokens

Known == \A f \in Flows : flows[f].op = "SIGN_IN" => flows[f].user \in Users

\* MobileTypeOK, and that whoever is signed in or is signing in is somebody.
MobileTyped ==
  /\ AppTyped(app) /\ CallsTyped(calls) /\ ListTyped
  /\ HeldTyped /\ EventsTyped /\ FlowsTyped /\ Known

\* The list on screen is the list of the account on screen.
Keyed == IF app.status = "authenticated" THEN list.key = app.user ELSE list = NoList

HeldBy(u) == held = NoToken \/ held.user = u

Follows(s) == s.status = "authenticated" /\ s.user = s.accountUserId

\* While the account on screen is the one that is followed, it is the session's too;
\* so are the tokens that will bring the followed account, and the orders.
AccountFollowed ==
  /\ Follows(app) => HeldBy(app.user)
  /\ \A c \in Calls : Live(calls, c) =>
       /\ calls[c].kind = "ACCOUNT" /\ calls[c].token.user = app.accountUserId => HeldBy(app.accountUserId)
       /\ calls[c].kind = "LIST" /\ Follows(app) => calls[c].token.user = app.user
  /\ \A c \in Calls : Listing(calls, c) => app.status = "authenticated"
  /\ list.owner # NoUser /\ Follows(app) => list.owner = app.user

MobileInv == MobileTyped /\ Keyed /\ AccountFollowed

-----------------------------------------------------------------------------
LEMMA TokensAre ==
  /\ NoToken \notin Token /\ NoToken.user = NoUser
  /\ \A t \in Token : t.user \in Users /\ t.user # NoUser
  BY MobileConstants DEF Token, NoToken

LEMMA SpareIs ==
  /\ Spare \notin Sending /\ Spare \notin Flying /\ Spare.op = "IDLE"
  <1>1. \A x \in Sending : x.op # "IDLE"
    BY DEF Sending
  <1>2. \A x \in Flying : x.op # "IDLE"
    BY DEF Flying
  <1> QED BY <1>1, <1>2 DEF Spare

\* Calls that are over, that are not sent yet, that are dropped or as they were.
LEMMA SupersededTyped ==
  ASSUME NEW cs, CallsTyped(cs), NEW kind
  PROVE  /\ CallsTyped(Superseded(cs, kind))
         /\ \A c \in Calls : Live(Superseded(cs, kind), c) =>
              cs[c].kind # kind /\ Superseded(cs, kind)[c] = cs[c] /\ Live(cs, c)
         /\ \A c \in Calls : Listing(Superseded(cs, kind), c) => kind # "LIST" /\ Listing(cs, c)
         /\ \A c \in Calls : Superseded(cs, kind)[c] = Spare <=> cs[c] = Spare
  <1> PICK ds : ds = Superseded(cs, kind)
    OBVIOUS
  <1>1. ASSUME NEW c \in Calls
        PROVE  /\ ds[c] \in {Spare} \cup Sending /\ HasToken(ds[c])
               /\ Live(ds, c) => cs[c].kind # kind /\ ds[c] = cs[c] /\ Live(cs, c)
               /\ Listing(ds, c) => kind # "LIST" /\ Listing(cs, c)
               /\ ds[c] = Spare <=> cs[c] = Spare
    <2> PICK x : x = cs[c]
      OBVIOUS
    <2>1. x \in {Spare} \cup Sending /\ HasToken(x)
      BY DEF CallsTyped
    <2>2. CASE x # Spare /\ x.kind = kind
      <3>1. x \in Sending /\ (x.op # "TOKEN" => x.token \in Token)
        BY <2>1, <2>2 DEF HasToken
      <3> PICK y : y = [x EXCEPT !.current = FALSE]
        OBVIOUS
      <3>2. y \in Sending /\ y.current = FALSE /\ y.op = x.op /\ y.token = x.token
        BY <3>1 DEF Sending
      <3>3. ds[c] = y
        BY <2>2 DEF Superseded
      <3> QED BY <2>2, <3>1, <3>2, <3>3, SpareIs DEF HasToken, Live, Listing
    <2>3. CASE ~(x # Spare /\ x.kind = kind)
      <3>1. ds[c] = x
        BY <2>3 DEF Superseded
      <3> QED BY <2>1, <2>3, <3>1 DEF Live, Listing
    <2> QED BY <2>2, <2>3
  <1>2. ds = [c \in Calls |-> ds[c]]
    BY DEF Superseded
  <1>3. ds \in [Calls -> {Spare} \cup Sending]
    BY <1>1, <1>2
  <1> QED BY <1>1, <1>3 DEF CallsTyped

\* The calls a step may leave: each over, dropped, not sent, or as it was.
Fewer(cs) ==
  /\ CallsTyped(cs)
  /\ \A c \in Calls : Live(cs, c) => cs[c] = calls[c]
  /\ \A c \in Calls : Listing(cs, c) => Listing(calls, c)

\* setState, wherever it is called: the calls are no more, the account followed is
\* the same or the answers of the old one are dropped, and whose session it is
\* changes only together with the account followed.
LEMMA Became ==
  ASSUME MobileInv, NEW s, NEW cs, Become(s, cs), AppTyped(s), Fewer(cs),
         \/ s.accountUserId = app.accountUserId
         \/ s.status # "authenticated" /\ \A c \in Calls : Live(cs, c) => cs[c].kind # "ACCOUNT",
         s.status = "authenticated" =>
           (app.status = "authenticated" /\ s.user = app.user) \/ (Follows(s) => HeldBy(s.user)),
         held' = held \/ held' = NoToken \/ held'.user = s.accountUserId
  PROVE  AppTyped(app)' /\ CallsTyped(calls)' /\ ListTyped' /\ Keyed' /\ AccountFollowed'
  <1>1. app' = s /\ list' = Rendered(s)
    BY DEF Become
  <1>2. CallsTyped(calls')
    BY SupersededTyped DEF Become, Fewer
  <1>3. ASSUME NEW c \in Calls, Live(calls', c)
        PROVE  /\ calls'[c] = calls[c] /\ Live(calls, c)
               /\ calls[c].kind = "LIST" => Rendered(s).key = list.key
               /\ s.accountUserId # app.accountUserId => calls[c].kind # "ACCOUNT"
    <2>1. CASE calls' = cs /\ Rendered(s).key = list.key
      BY <1>3, <2>1 DEF Fewer, Live
    <2>2. CASE calls' = Superseded(cs, "LIST")
      <3>1. cs[c].kind # "LIST" /\ calls'[c] = cs[c] /\ Live(cs, c)
        BY <1>3, <2>2, SupersededTyped DEF Fewer
      <3> QED BY <3>1 DEF Fewer, Live
    <2> QED BY <2>1, <2>2 DEF Become
  <1>4. ListTyped' /\ Keyed'
    <2>1. CASE s.status # "authenticated"
      BY <1>1, <2>1 DEF Rendered, NoList, ListTyped, Keyed
    <2>2. CASE s.status = "authenticated" /\ list.key = s.user
      BY <1>1, <2>2 DEF Rendered, ListTyped, Keyed, MobileInv, MobileTyped
    <2>3. CASE s.status = "authenticated" /\ list.key # s.user
      BY <1>1, <2>3 DEF Rendered, ListTyped, Keyed, AppTyped
    <2> QED BY <2>1, <2>2, <2>3
  <1>5. ASSUME Follows(s)
        PROVE  /\ s.accountUserId = app.accountUserId
               /\ HeldBy(s.user)'
               /\ Rendered(s).key = list.key => Follows(app) /\ s.user = app.user /\ list' = list
               /\ Rendered(s).key # list.key => list'.owner = NoUser
    <2>1. s.status = "authenticated" /\ s.user \in Users /\ s.accountUserId = s.user
      BY <1>5 DEF Follows, AppTyped
    <2>2. s.accountUserId = app.accountUserId
      BY <2>1
    <2>3. ASSUME app.status = "authenticated", s.user = app.user
          PROVE  Follows(app) /\ HeldBy(s.user)
      BY <2>1, <2>2, <2>3 DEF Follows, MobileInv, AccountFollowed
    <2>4. HeldBy(s.user)
      BY <1>5, <2>1, <2>3
    <2>5. HeldBy(s.user)'
      BY <2>1, <2>4 DEF HeldBy
    <2>6. ASSUME Rendered(s).key = list.key
          PROVE  list.key = s.user /\ list' = list
      BY <1>1, <2>1, <2>6 DEF Rendered
    <2>7. ASSUME list.key = s.user
          PROVE  app.status = "authenticated" /\ app.user = s.user
      BY <2>1, <2>7, MobileConstants DEF MobileInv, Keyed, NoList
    <2>8. ASSUME Rendered(s).key # list.key
          PROVE  list'.owner = NoUser
      BY <1>1, <2>1, <2>8 DEF Rendered
    <2> QED BY <2>2, <2>3, <2>5, <2>6, <2>7, <2>8
  <1>6. AccountFollowed'
    <2>1. Follows(s) => HeldBy(s.user)'
      BY <1>5
    <2>2. ASSUME NEW c \in Calls, Live(calls', c)
          PROVE  /\ calls'[c].kind = "ACCOUNT" /\ calls'[c].token.user = s.accountUserId => HeldBy(s.accountUserId)'
                 /\ calls'[c].kind = "LIST" /\ Follows(s) => calls'[c].token.user = s.user
      <3>1. /\ calls'[c] = calls[c] /\ Live(calls, c)
            /\ calls[c].kind = "LIST" => Rendered(s).key = list.key
            /\ s.accountUserId # app.accountUserId => calls[c].kind # "ACCOUNT"
        BY <1>3, <2>2
      <3>2. /\ calls[c].kind = "ACCOUNT" /\ calls[c].token.user = app.accountUserId => HeldBy(app.accountUserId)
            /\ calls[c].kind = "LIST" /\ Follows(app) => calls[c].token.user = app.user
        BY <3>1 DEF MobileInv, AccountFollowed
      <3>3. HeldBy(s.accountUserId) => HeldBy(s.accountUserId)'
        BY DEF HeldBy
      <3> QED BY <1>5, <3>1, <3>2, <3>3
    <2>3. list'.owner # NoUser /\ Follows(s) => list'.owner = s.user
      BY <1>5 DEF MobileInv, AccountFollowed
    <2>4. ASSUME NEW c \in Calls, Listing(calls', c) PROVE s.status = "authenticated"
      <3>1. calls' = cs /\ Rendered(s).key = list.key /\ Listing(calls, c)
        <4>1. CASE calls' = cs /\ Rendered(s).key = list.key
          BY <2>4, <4>1 DEF Fewer, Listing
        <4>2. CASE calls' = Superseded(cs, "LIST")
          BY <2>4, <4>2, SupersededTyped DEF Fewer, Listing
        <4> QED BY <4>1, <4>2 DEF Become
      <3>2. list.key \in Users
        BY <3>1 DEF MobileInv, MobileTyped, AppTyped, Keyed, AccountFollowed
      <3> QED BY <3>1, <3>2, MobileConstants DEF Rendered, NoList
    <2> QED BY <1>1, <2>1, <2>2, <2>3, <2>4 DEF AccountFollowed
  <1>7. AppTyped(app)' /\ CallsTyped(calls)'
    BY <1>1, <1>2 DEF AppTyped, CallsTyped
  <1> QED BY <1>4, <1>6, <1>7

-----------------------------------------------------------------------------
(***************************************************************************)
(* The operations of the store.                                            *)
(***************************************************************************)
LEMMA StoreSet ==
  ASSUME NEW s \in Store
  PROVE  /\ Forgotten(s) \in Store /\ Forgotten(s).status = s.status /\ Forgotten(s).user = s.user
         /\ Forgotten(s).accountUserId = NoUser
         /\ \A status \in Status, user \in Users \cup {NoUser}, error \in Why :
              /\ State(s, status, user, error) \in Store
              /\ State(s, status, user, error).status = status
              /\ State(s, status, user, error).user = user
              /\ State(s, status, user, error).accountUserId = s.accountUserId
         /\ \A b \in BOOLEAN :
              /\ [s EXCEPT !.signingOut = b] \in Store
              /\ [s EXCEPT !.signingOut = b].status = s.status
              /\ [s EXCEPT !.signingOut = b].user = s.user
              /\ [s EXCEPT !.signingOut = b].accountUserId = s.accountUserId
         /\ \A c \in Calls \cup {NoCall} :
              /\ [s EXCEPT !.accountLoad = c] \in Store
              /\ [s EXCEPT !.accountLoad = c].status = s.status
              /\ [s EXCEPT !.accountLoad = c].user = s.user
              /\ [s EXCEPT !.accountLoad = c].accountUserId = s.accountUserId
              /\ [s EXCEPT !.accountLoad = c].accountLoad = c
         /\ \A u \in Users :
              /\ [s EXCEPT !.accountUserId = u] \in Store
              /\ [s EXCEPT !.accountUserId = u].accountUserId = u
  BY DEF Store, Forgotten, State

LEMMA NewCallIs ==
  ASSUME NEW kind \in {"ACCOUNT", "LIST"}, NEW x, x = NewCall(kind)
  PROVE  x \in Sending /\ HasToken(x) /\ x.op = "TOKEN" /\ x.kind = kind
  BY DEF NewCall, Sending, HasToken

LEMMA SameCalls ==
  ASSUME MobileInv
  PROVE  /\ Fewer(calls) /\ Fewer(ForgottenCalls(calls))
         /\ \A c \in Calls : Live(ForgottenCalls(calls), c) => ForgottenCalls(calls)[c].kind # "ACCOUNT"
  <1>1. CallsTyped(calls)
    BY DEF MobileInv, MobileTyped
  <1> QED BY <1>1, SupersededTyped DEF Fewer, ForgottenCalls

\* Of any calls, one that is over or not sent.
Harmless(x) ==
  /\ x \in {Spare} \cup Sending /\ HasToken(x)
  /\ x # Spare => x.kind = "ACCOUNT" /\ (x.current => x.op = "TOKEN")

LEMMA FewerYet ==
  ASSUME NEW cs, Fewer(cs), NEW c \in Calls, NEW x, Harmless(x), NEW ds, ds = [cs EXCEPT ![c] = x]
  PROVE  Fewer(ds) /\ \A d \in Calls : Live(ds, d) => ds[d] = cs[d] /\ Live(cs, d)
  <1>1. CallsTyped(cs)
    BY DEF Fewer
  <1>2. CallsTyped(ds) /\ ds[c] = x /\ \A d \in Calls : d # c => ds[d] = cs[d]
    BY <1>1 DEF CallsTyped, Harmless
  <1>3. ~Live(ds, c) /\ ~Listing(ds, c)
    BY <1>2 DEF Live, Listing, Harmless
  <1>4. \A d \in Calls : Live(ds, d) => ds[d] = cs[d] /\ Live(cs, d)
    BY <1>2, <1>3 DEF Live
  <1>5. \A d \in Calls : Listing(ds, d) => Listing(cs, d)
    BY <1>2, <1>3 DEF Listing
  <1> QED BY <1>2, <1>4, <1>5 DEF Fewer

\* What a step leaves of the session besides its account: all but the flows.
Moved == AppTyped(app)' /\ CallsTyped(calls)' /\ ListTyped' /\ Keyed' /\ AccountFollowed'

\* loadAccount, of the account that is followed already or of another.
LEMMA AccountLoaded ==
  ASSUME MobileInv, NEW u \in Users, LoadAccount(u, app, calls),
         held' = held \/ held' = NoToken \/ held'.user = u
  PROVE  Moved /\ app'.accountLoad \in Calls
  <1>0. AppTyped(app) /\ app \in Store /\ CallsTyped(calls)
    BY DEF MobileInv, MobileTyped, AppTyped
  <1>1. CASE app.accountLoad # NoCall /\ app.accountUserId = u
    <2>1. Become(app, calls)
      BY <1>1 DEF LoadAccount
    <2>2. Moved
      BY <1>0, <1>1, <2>1, SameCalls, Became DEF Moved
    <2>3. app' = app
      BY <2>1 DEF Become
    <2> QED BY <1>0, <1>1, <2>2, <2>3 DEF Store
  <1>2. CASE ~(app.accountLoad # NoCall /\ app.accountUserId = u)
    <2>1. PICK c \in Free(calls) :
            LET fresh == app.accountUserId # u
                t  == IF fresh THEN State([Forgotten(app) EXCEPT !.accountUserId = u],
                                          "loading", NoUser, "NONE") ELSE app
                ds == IF fresh THEN ForgottenCalls(calls) ELSE calls
            IN Become([t EXCEPT !.accountLoad = c], [ds EXCEPT ![c] = NewCall("ACCOUNT")])
      BY <1>2 DEF LoadAccount
    <2>a. PICK ds : ds = IF app.accountUserId # u THEN ForgottenCalls(calls) ELSE calls
      OBVIOUS
    <2>b. PICK r : r = [Forgotten(app) EXCEPT !.accountUserId = u]
      OBVIOUS
    <2>c. PICK t : t = IF app.accountUserId # u THEN State(r, "loading", NoUser, "NONE") ELSE app
      OBVIOUS
    <2>d. PICK s : s = [t EXCEPT !.accountLoad = c]
      OBVIOUS
    <2>e. PICK cs : cs = [ds EXCEPT ![c] = NewCall("ACCOUNT")]
      OBVIOUS
    <2>2. Become(s, cs) /\ c \in Calls
      BY <2>1, <2>a, <2>b, <2>c, <2>d, <2>e DEF Free
    <2>3. /\ t \in Store /\ t.accountUserId = u
          /\ app.accountUserId # u => t.status = "loading"
          /\ app.accountUserId = u => t = app
      <3>1. CASE app.accountUserId = u
        BY <1>0, <2>c, <3>1
      <3>2. CASE app.accountUserId # u
        <4>1. r \in Store /\ r.accountUserId = u
          <5> PICK q : q = Forgotten(app)
            OBVIOUS
          <5>1. q \in Store
            BY <1>0, StoreSet
          <5>2. r = [q EXCEPT !.accountUserId = u]
            BY <2>b
          <5> QED BY <5>1, <5>2 DEF Store
        <4>2. t = State(r, "loading", NoUser, "NONE")
          BY <2>c, <3>2
        <4>3. "loading" \in Status /\ NoUser \in Users \cup {NoUser} /\ "NONE" \in Why
          BY DEF Status, Why
        <4>4. t \in Store /\ t.status = "loading" /\ t.accountUserId = r.accountUserId
          BY <4>1, <4>2, <4>3 DEF State, Store
        <4> QED BY <3>2, <4>1, <4>4
      <3> QED BY <3>1, <3>2
    <2>4. /\ s \in Store /\ s.accountUserId = u /\ s.status = t.status /\ s.user = t.user /\ s.accountLoad = c
      BY <2>2, <2>3, <2>d DEF Store
    <2>5. /\ Fewer(ds)
          /\ app.accountUserId # u => \A d \in Calls : Live(ds, d) => ds[d].kind # "ACCOUNT"
      BY SameCalls, <2>a
    <2>6. Fewer(cs) /\ \A d \in Calls : Live(cs, d) => cs[d] = ds[d] /\ Live(ds, d)
      <3>1. PICK x : x = NewCall("ACCOUNT")
        OBVIOUS
      <3>2. x \in Sending /\ HasToken(x) /\ x.op = "TOKEN" /\ x.kind = "ACCOUNT"
        BY <3>1, NewCallIs
      <3>3. cs = [ds EXCEPT ![c] = x]
        BY <2>e, <3>1
      <3>4. Harmless(x)
        BY <3>2 DEF Harmless
      <3> QED BY <2>2, <2>5, <3>3, <3>4, FewerYet
    <2>7. AppTyped(s)
      BY <1>0, <2>3, <2>4 DEF AppTyped
    <2>8. Moved
      <3>1. CASE app.accountUserId = u
        BY <2>2, <2>3, <2>4, <2>6, <2>7, <3>1, Became DEF Moved
      <3>2. CASE app.accountUserId # u
        BY <2>2, <2>3, <2>4, <2>5, <2>6, <2>7, <3>2, Became DEF Moved
      <3> QED BY <3>1, <3>2
    <2>9. app' = s
      BY <2>2 DEF Become
    <2> QED BY <2>2, <2>4, <2>8, <2>9
  <1> QED BY <1>1, <1>2

\* The store says who is signed in, or nobody, and the account is not followed on.
LEMMA SignedOff ==
  ASSUME MobileInv, NEW s, s \in Store, s.status # "authenticated", Become(s, ForgottenCalls(calls)),
         held' = held \/ held' = NoToken
  PROVE  Moved
  BY SameCalls, Became DEF Moved, AppTyped

-----------------------------------------------------------------------------
(***************************************************************************)
(* The actions.                                                            *)
(***************************************************************************)
\* What is left alone when the store and the calls are.
LEMMA AppKept ==
  ASSUME MobileInv, UNCHANGED <<app, calls, list>>,
         held' = held \/ held' = NoToken \/ (held # NoToken /\ held'.user = held.user)
  PROVE  Moved
  <1>1. \A u : HeldBy(u) => HeldBy(u)'
    BY DEF HeldBy
  <1>2. AccountFollowed'
    BY <1>1 DEF MobileInv, AccountFollowed, Follows, Live, Listing
  <1>3. Keyed'
    BY DEF MobileInv, Keyed
  <1>4. AppTyped(app)' /\ CallsTyped(calls)' /\ ListTyped'
    BY DEF MobileInv, MobileTyped, AppTyped, CallsTyped, ListTyped
  <1> QED BY <1>2, <1>3, <1>4 DEF Moved

\* The call is over, and the store is what the outcome makes of it.
LEMMA Ended ==
  ASSUME MobileInv, NEW c \in Calls, NEW s, AppTyped(s), NEW cs, Fewer(cs), EndCall(c, s, cs),
         \/ s.accountUserId = app.accountUserId
         \/ s.status # "authenticated" /\ \A d \in Calls : Live(cs, d) => cs[d].kind # "ACCOUNT",
         s.status = "authenticated" =>
           (app.status = "authenticated" /\ s.user = app.user) \/ (Follows(s) => HeldBy(s.user)),
         held' = held \/ held' = NoToken
  PROVE  Moved
  <1>1. PICK d : d = IF s.accountLoad = c THEN NoCall ELSE s.accountLoad
    OBVIOUS
  <1>2. PICK t : t = [s EXCEPT !.accountLoad = d]
    OBVIOUS
  <1>3. PICK ds : ds = [cs EXCEPT ![c] = Spare]
    OBVIOUS
  <1>4. Become(t, ds)
    BY <1>1, <1>2, <1>3 DEF EndCall
  <1>5. d \in Calls \cup {NoCall}
    BY <1>1 DEF AppTyped, Store
  <1>6. AppTyped(t) /\ t.accountUserId = s.accountUserId /\ t.status = s.status /\ t.user = s.user
    BY <1>2, <1>5 DEF AppTyped, Store
  <1>7. Fewer(ds) /\ \A e \in Calls : Live(ds, e) => ds[e] = cs[e] /\ Live(cs, e)
    BY <1>3, FewerYet DEF Harmless, HasToken
  <1> QED BY <1>4, <1>6, <1>7, Became DEF Moved, Follows

\* The answers that change nothing in the store, and those that say nobody is there.
LEMMA EndedQuietly ==
  ASSUME MobileInv, NEW c \in Calls, EndCall(c, app, calls), held' = held \/ held' = NoToken
  PROVE  Moved
  BY SameCalls, Ended DEF MobileInv, MobileTyped

LEMMA EndedRefused ==
  ASSUME MobileInv, NEW c \in Calls, NEW why \in Why, Unauthorized(c, why), held' = held \/ held' = NoToken
  PROVE  Moved
  <1>1. CASE ~Applies(c)
    BY <1>1, EndedQuietly DEF Unauthorized
  <1>2. CASE Applies(c)
    <2>1. PICK s : s = State(Forgotten(app), "anonymous", NoUser, why)
      OBVIOUS
    <2>2. PICK r : r = Forgotten(app)
      OBVIOUS
    <2>3. r \in Store
      BY <2>2, StoreSet DEF MobileInv, MobileTyped, AppTyped
    <2>4. s \in Store /\ s.status = "anonymous"
      BY <2>1, <2>2, <2>3 DEF State, Store, Status
    <2>5. EndCall(c, s, ForgottenCalls(calls))
      BY <1>2, <2>1 DEF Unauthorized
    <2> QED BY <2>4, <2>5, SameCalls, Ended DEF AppTyped
  <1> QED BY <1>1, <1>2

LEMMA EndedUnusable ==
  ASSUME MobileInv, NEW c \in Calls, calls[c] \in Sending, calls[c].op # "TOKEN",
         NEW why \in Why, Unusable(c, why), UNCHANGED held
  PROVE  Moved
  <1>1. CASE ~Applies(c)
    BY <1>1, EndedQuietly DEF Unusable
  <1>2. CASE Applies(c)
    <2>1. PICK r : r = Forgotten(app)
      OBVIOUS
    <2>2. PICK t : t = State(r, "anonymous", NoUser, why)
      OBVIOUS
    <2>3. PICK s : s = [t EXCEPT !.signingOut = TRUE]
      OBVIOUS
    <2>4. PICK ds : ds = ForgottenCalls(calls)
      OBVIOUS
    <2>5. PICK x : x = [ds[c] EXCEPT !.op = "END_SESSION"]
      OBVIOUS
    <2>6. PICK cs : cs = [ds EXCEPT ![c] = x]
      OBVIOUS
    <2>7. Become(s, cs)
      BY <1>2, <2>1, <2>2, <2>3, <2>4, <2>5, <2>6 DEF Unusable
    <2>8. s \in Store /\ s.status = "anonymous"
      <3>1. r \in Store
        BY <2>1, StoreSet DEF MobileInv, MobileTyped, AppTyped
      <3>2. t \in Store /\ t.status = "anonymous"
        BY <2>2, <3>1 DEF State, Store, Status
      <3> QED BY <2>3, <3>2 DEF Store
    <2>9. /\ Fewer(ds) /\ \A d \in Calls : Live(ds, d) => ds[d].kind # "ACCOUNT"
      BY <2>4, SameCalls
    <2>10. ds[c] = [calls[c] EXCEPT !.current = FALSE]
      BY <1>2, <2>4, SpareIs DEF ForgottenCalls, Superseded, Applies
    <2>11. /\ x \in Sending /\ x.op = "END_SESSION" /\ x.current = FALSE
           /\ x.token = calls[c].token /\ x.kind = "ACCOUNT"
      <3>1. /\ ds[c] \in Sending /\ ds[c].current = FALSE
            /\ ds[c].token = calls[c].token /\ ds[c].kind = "ACCOUNT"
        BY <1>2, <2>10 DEF Sending, Applies
      <3> QED BY <2>5, <3>1 DEF Sending
    <2>12. HasToken(x)
      BY <2>11, SpareIs DEF HasToken, MobileInv, MobileTyped, CallsTyped
    <2>13. Fewer(cs) /\ \A d \in Calls : Live(cs, d) => cs[d] = ds[d] /\ Live(ds, d)
      <3>1. Harmless(x)
        BY <2>11, <2>12 DEF Harmless
      <3> QED BY <2>6, <2>9, <3>1, FewerYet
    <2> QED BY <2>7, <2>8, <2>9, <2>13, Became DEF Moved, AppTyped
  <1> QED BY <1>1, <1>2

LEMMA EndedUnreached ==
  ASSUME MobileInv, NEW c \in Calls, Unreached(c), UNCHANGED held
  PROVE  Moved
  <1>1. PICK t : t = State(app, "unavailable", NoUser, "OFFLINE")
    OBVIOUS
  <1>2. t \in Store /\ t.status = "unavailable" /\ t.accountUserId = app.accountUserId
    BY <1>1 DEF State, Store, Status, Why, MobileInv, MobileTyped, AppTyped
  <1>3. EndCall(c, t, calls) \/ EndCall(c, app, calls)
    BY <1>1 DEF Unreached
  <1> QED BY <1>2, <1>3, SameCalls, Ended, EndedQuietly DEF AppTyped

\* Only the calls change, and every one whose answer counts stands.
LEMMA CallsFewer ==
  ASSUME MobileInv, UNCHANGED <<held, app, list>>, Fewer(calls')
  PROVE  Moved
  <1>1. AccountFollowed'
    <2>1. Follows(app) => HeldBy(app.user)
      BY DEF MobileInv, AccountFollowed
    <2>2. ASSUME NEW c \in Calls, Live(calls', c)
          PROVE  calls'[c] = calls[c] /\ Live(calls, c)
      BY <2>2 DEF Fewer, Live
    <2>3. \A c \in Calls : Listing(calls', c) => app.status = "authenticated"
      BY DEF Fewer, MobileInv, AccountFollowed
    <2> QED BY <2>1, <2>2, <2>3 DEF MobileInv, AccountFollowed, Follows, HeldBy
  <1>2. Keyed'
    BY DEF MobileInv, Keyed
  <1>3. AppTyped(app)' /\ CallsTyped(calls)' /\ ListTyped'
    BY DEF MobileInv, MobileTyped, AppTyped, CallsTyped, ListTyped, Fewer
  <1> QED BY <1>1, <1>2, <1>3 DEF Moved

\* 200: the account is that of the token that was sent; so is the list.
LEMMA EndedAnswered ==
  ASSUME MobileInv, NEW c \in Calls, calls[c].op \in {"SENT", "RESENT"}, CallAnswered(c), UNCHANGED held
  PROVE  Moved
  <1>1. calls[c] \in Sending /\ calls[c].token \in Token /\ calls[c].token.user \in Users
    BY SpareIs, TokensAre DEF MobileInv, MobileTyped, CallsTyped, HasToken
  <1>2. CASE Applies(c) /\ EndCall(c, State(app, "authenticated", calls[c].token.user, "NONE"), calls)
    <2>1. PICK u : u = calls[c].token.user
      OBVIOUS
    <2>2. PICK s : s = State(app, "authenticated", u, "NONE")
      OBVIOUS
    <2>3. s \in Store /\ s.status = "authenticated" /\ s.user = u /\ s.accountUserId = app.accountUserId
      BY <1>1, <2>1, <2>2 DEF State, Store, Status, Why, MobileInv, MobileTyped, AppTyped
    <2>4. AppTyped(s) /\ EndCall(c, s, calls)
      BY <1>1, <1>2, <2>1, <2>2, <2>3 DEF AppTyped
    <2>5. Live(calls, c) /\ calls[c].kind = "ACCOUNT"
      BY <1>1, <1>2, SpareIs DEF Live, Applies
    <2>6. Follows(s) => HeldBy(s.user)
      BY <2>1, <2>3, <2>5 DEF MobileInv, AccountFollowed, Follows
    <2> QED BY <2>3, <2>4, <2>6, SameCalls, Ended
  <1>3. CASE /\ calls[c].kind = "LIST" /\ app' = app
             /\ calls' = [calls EXCEPT ![c] = Spare]
             /\ list' = IF calls[c].current THEN [list EXCEPT !.owner = calls[c].token.user] ELSE list
    <2>1. Fewer(calls')
      BY <1>3, SameCalls, FewerYet DEF Harmless, HasToken
    <2>2. \A d \in Calls : Live(calls', d) => calls'[d] = calls[d] /\ Live(calls, d)
      BY <2>1 DEF Fewer, Live
    <2>3. PICK o : list' = [key |-> list.key, owner |-> o] /\ o \in Users \cup {NoUser}
                   /\ (o = list.owner \/ (calls[c].current /\ o = calls[c].token.user))
      BY <1>1, <1>3 DEF MobileInv, MobileTyped, ListTyped
    <2>4. Keyed'
      <3>1. CASE app.status = "authenticated"
        BY <1>3, <2>3, <3>1 DEF MobileInv, Keyed
      <3>2. CASE app.status # "authenticated"
        <4>1. ~calls[c].current
          BY <1>1, <1>3, <3>2, SpareIs DEF Listing, MobileInv, AccountFollowed
        <4> QED BY <1>3, <3>2, <4>1 DEF MobileInv, Keyed
      <3> QED BY <3>1, <3>2
    <2>5. list'.owner # NoUser /\ Follows(app) => list'.owner = app.user
      <3>1. calls[c].current => Live(calls, c)
        BY <1>1, SpareIs DEF Live
      <3> QED BY <1>3, <2>3, <3>1 DEF MobileInv, AccountFollowed
    <2>6. AccountFollowed'
      <3>1. \A d \in Calls : Listing(calls', d) => app.status = "authenticated"
        BY <2>1 DEF Fewer, MobileInv, AccountFollowed
      <3> QED BY <1>3, <2>2, <2>5, <3>1 DEF MobileInv, AccountFollowed, Follows, HeldBy
    <2>7. AppTyped(app)' /\ CallsTyped(calls)' /\ ListTyped'
      BY <1>3, <2>1, <2>3 DEF MobileInv, MobileTyped, AppTyped, CallsTyped, ListTyped, Fewer
    <2> QED BY <2>4, <2>6, <2>7 DEF Moved
  <1>4. CASE EndCall(c, app, calls)
    BY <1>4, EndedQuietly
  <1> QED BY <1>2, <1>3, <1>4 DEF CallAnswered

\* A call goes on with its token, or takes the session's.
LEMMA Advanced ==
  ASSUME MobileInv, NEW c \in Calls, calls[c] \in Sending, UNCHANGED held,
         NEW op \in {"SENT", "REJECTED", "RESENT", "LEAVING"}, NEW t \in Token, Advance(c, op, t),
         t = held \/ (calls[c].op # "TOKEN" /\ t = calls[c].token)
  PROVE  Moved
  <1>1. PICK x : x = calls[c]
    OBVIOUS
  <1>2. PICK y : y = [x EXCEPT !.op = op, !.token = t]
    OBVIOUS
  <1>3. y \in Sending /\ y.op = op /\ y.token = t /\ y.kind = x.kind /\ y.current = x.current
    BY <1>1, <1>2 DEF Sending
  <1>4. calls' = [calls EXCEPT ![c] = y] /\ UNCHANGED <<app, flows, list>>
    BY <1>1, <1>2 DEF Advance
  <1>5. CallsTyped(calls)
    BY DEF MobileInv, MobileTyped
  <1>6. calls'[c] = y /\ \A d \in Calls : d # c => calls'[d] = calls[d]
    BY <1>4, <1>5 DEF CallsTyped
  <1>7. CallsTyped(calls')
    <2>1. HasToken(y)
      BY <1>3 DEF HasToken
    <2> QED BY <1>3, <1>4, <1>5, <1>6, <2>1 DEF CallsTyped
  <1>8. \A d \in Calls : Listing(calls', d) => Listing(calls, d)
    BY <1>1, <1>3, <1>6, SpareIs DEF Listing
  <1>9. ASSUME NEW d \in Calls, Live(calls', d)
        PROVE  /\ calls'[d].kind = "ACCOUNT" /\ calls'[d].token.user = app.accountUserId => HeldBy(app.accountUserId)
               /\ calls'[d].kind = "LIST" /\ Follows(app) => calls'[d].token.user = app.user
    <2>1. CASE Live(calls, d) /\ calls'[d].kind = calls[d].kind /\ calls'[d].token = calls[d].token
      BY <2>1 DEF MobileInv, AccountFollowed
    <2>2. CASE d = c /\ t = held
      <3>1. calls'[d].token = held /\ held # NoToken
        BY <1>3, <1>6, <2>2, TokensAre
      <3>2. Follows(app) => HeldBy(app.user)
        BY DEF MobileInv, AccountFollowed
      <3> QED BY <3>1, <3>2 DEF HeldBy
    <2>3. CASE d = c /\ calls[c].op # "TOKEN" /\ t = calls[c].token
      <3>1. Live(calls, d)
        BY <1>1, <1>3, <1>6, <1>9, <2>3, SpareIs DEF Live
      <3> QED BY <1>1, <1>3, <1>6, <2>1, <2>3, <3>1
    <2>4. CASE d # c
      BY <1>6, <1>9, <2>1, <2>4 DEF Live
    <2> QED BY <2>2, <2>3, <2>4
  <1>10. AccountFollowed'
    BY <1>4, <1>8, <1>9 DEF MobileInv, AccountFollowed, Follows, HeldBy
  <1>11. Keyed' /\ AppTyped(app)' /\ ListTyped' /\ CallsTyped(calls)'
    BY <1>4, <1>7 DEF MobileInv, MobileTyped, Keyed, AppTyped, ListTyped, CallsTyped
  <1> QED BY <1>10, <1>11 DEF Moved

LEMMA ListFetched ==
  ASSUME MobileInv, NEW c \in Calls, FetchList(c)
  PROVE  Moved
  <1>1. PICK ds : ds = Superseded(calls, "LIST")
    OBVIOUS
  <1>2. PICK x : x = NewCall("LIST")
    OBVIOUS
  <1>3. x \in Sending /\ HasToken(x) /\ x.op = "TOKEN"
    BY <1>2, NewCallIs
  <1>4. calls' = [ds EXCEPT ![c] = x] /\ UNCHANGED <<held, app, list>>
    BY <1>1, <1>2 DEF FetchList
  <1>5. /\ CallsTyped(ds) /\ \A d \in Calls : ~Listing(ds, d)
        /\ \A d \in Calls : Live(ds, d) => ds[d] = calls[d] /\ Live(calls, d)
    BY <1>1, SupersededTyped DEF MobileInv, MobileTyped
  <1>6. calls'[c] = x /\ \A d \in Calls : d # c => calls'[d] = ds[d]
    BY <1>4, <1>5 DEF CallsTyped
  <1>7. CallsTyped(calls')
    BY <1>3, <1>4, <1>5, <1>6 DEF CallsTyped
  <1>8. app.status = "authenticated"
    BY DEF FetchList, MobileInv, Keyed, NoList
  <1>9. \A d \in Calls : Live(calls', d) => calls'[d] = calls[d] /\ Live(calls, d)
    BY <1>3, <1>5, <1>6 DEF Live
  <1>10. AccountFollowed'
    BY <1>4, <1>8, <1>9 DEF MobileInv, AccountFollowed, Follows, HeldBy
  <1>11. Keyed' /\ AppTyped(app)' /\ ListTyped' /\ CallsTyped(calls)'
    BY <1>4, <1>7 DEF MobileInv, MobileTyped, Keyed, AppTyped, ListTyped, CallsTyped
  <1> QED BY <1>10, <1>11 DEF Moved

LEMMA EventHandled ==
  ASSUME MobileInv, HandleAuthEvent
  PROVE  Moved
  <1>1. PICK e : e = Head(events)
    OBVIOUS
  <1>2. UNCHANGED held /\ e.user \in Users \cup {NoUser}
    <2>1. UNCHANGED held /\ events # <<>>
      BY DEF HandleAuthEvent
    <2>2. events \in Seq([user : Users \cup {NoUser}, during : BOOLEAN])
      BY DEF MobileInv, MobileTyped, EventsTyped
    <2>3. e \in [user : Users \cup {NoUser}, during : BOOLEAN]
      BY <1>1, <2>1, <2>2, HeadTailProperties
    <2> QED BY <2>1, <2>3
  <1>3. CASE /\ e.user = NoUser
             /\ LET s == Forgotten(app) IN
                Become(IF s.status = "anonymous" THEN s ELSE State(s, "anonymous", NoUser, "NONE"),
                       ForgottenCalls(calls))
    <2>1. PICK r : r = Forgotten(app)
      OBVIOUS
    <2>2. PICK s : s = IF r.status = "anonymous" THEN r ELSE State(r, "anonymous", NoUser, "NONE")
      OBVIOUS
    <2>3. r \in Store
      BY <2>1, StoreSet DEF MobileInv, MobileTyped, AppTyped
    <2>4. s \in Store /\ s.status = "anonymous"
      BY <2>2, <2>3 DEF State, Store, Status, Why
    <2>5. Become(s, ForgottenCalls(calls))
      BY <1>3, <2>1, <2>2
    <2> QED BY <1>2, <2>4, <2>5, SignedOff
  <1>4. CASE UNCHANGED <<app, calls, list>>
    BY <1>2, <1>4, AppKept
  <1>5. CASE e.user # NoUser /\ LoadAccount(e.user, app, calls)
    BY <1>2, <1>5, AccountLoaded
  <1> QED BY <1>1, <1>3, <1>4, <1>5 DEF HandleAuthEvent

\* What the customer does to the store: sign out, here or when an account did not load.
LEMMA SignedOutMoves ==
  ASSUME MobileInv, UNCHANGED held, Become(SignedOut(app), ForgottenCalls(calls))
  PROVE  Moved
  <1>1. PICK r : r = Forgotten(app)
    OBVIOUS
  <1>2. PICK t : t = State(r, "anonymous", NoUser, "NONE")
    OBVIOUS
  <1>3. PICK s : s = [t EXCEPT !.signingOut = TRUE]
    OBVIOUS
  <1>4. r \in Store
    BY <1>1, StoreSet DEF MobileInv, MobileTyped, AppTyped
  <1>5. t \in Store /\ t.status = "anonymous"
    BY <1>2, <1>4 DEF State, Store, Status, Why
  <1>6. s \in Store /\ s.status = "anonymous"
    BY <1>3, <1>5 DEF Store
  <1>7. Become(s, ForgottenCalls(calls))
    BY <1>1, <1>2, <1>3 DEF SignedOut
  <1> QED BY <1>6, <1>7, SignedOff

\* The end of a sign-out: the store as it was, no longer signing out.
LEMMA NoLongerLeaving ==
  ASSUME NEW s, AppTyped(s), NEW t, t = [s EXCEPT !.signingOut = FALSE]
  PROVE  AppTyped(t) /\ t.accountUserId = s.accountUserId /\ t.status = s.status /\ t.user = s.user
  BY DEF AppTyped, Store

LEMMA RetryMoves ==
  ASSUME MobileInv, UNCHANGED held, NEW f \in Flows, RetryRead(f)
  PROVE  Moved
  <1>1. CASE held # NoToken /\ LoadAccount(held.user, app, calls)
    <2>1. held.user \in Users
      BY <1>1, TokensAre DEF MobileInv, MobileTyped, HeldTyped
    <2> QED BY <1>1, <2>1, AccountLoaded
  <1>2. CASE Become(State(app, "unavailable", NoUser, "OFFLINE"), calls)
    <2>1. PICK t : t = State(app, "unavailable", NoUser, "OFFLINE")
      OBVIOUS
    <2>2. t \in Store /\ t.status = "unavailable" /\ t.accountUserId = app.accountUserId
      BY <2>1 DEF State, Store, Status, Why, MobileInv, MobileTyped, AppTyped
    <2> QED BY <1>2, <2>1, <2>2, SameCalls, Became DEF Moved, AppTyped
  <1>3. CASE Become(State(Forgotten(app), "anonymous", NoUser, "NONE"), ForgottenCalls(calls))
    <2>1. PICK r : r = Forgotten(app)
      OBVIOUS
    <2>2. PICK s : s = State(r, "anonymous", NoUser, "NONE")
      OBVIOUS
    <2>3. r \in Store
      BY <2>1, StoreSet DEF MobileInv, MobileTyped, AppTyped
    <2>4. s \in Store /\ s.status = "anonymous"
      BY <2>2, <2>3 DEF State, Store, Status, Why
    <2> QED BY <1>3, <2>1, <2>2, <2>4, SignedOff
  <1> QED BY <1>1, <1>2, <1>3 DEF RetryRead

\* Every step keeps the list in order.
LEMMA MobileMoves ==
  ASSUME MobileInv, MobileNext
  PROVE  Moved
  <1>1. CASE TokenRefreshed
    BY <1>1, AppKept DEF TokenRefreshed, NewToken
  <1>2. CASE SessionRevoked
    BY <1>2, AppKept DEF SessionRevoked
  <1>3. CASE HandleAuthEvent
    BY <1>3, EventHandled
  <1>4. ASSUME NEW c \in Calls, calls[c].op # "IDLE" PROVE calls[c] \in Sending
    BY <1>4, SpareIs DEF MobileInv, MobileTyped, CallsTyped
  <1>5. "SIGN_IN" \in Why /\ "EXPIRED" \in Why /\ "CONFLICT" \in Why
    BY DEF Why
  <1>6. held = NoToken \/ held \in Token
    BY DEF MobileInv, MobileTyped, HeldTyped
  <1>7. ASSUME NEW c \in Calls, FetchList(c) PROVE Moved
    BY <1>7, ListFetched
  <1>8. ASSUME NEW c \in Calls, ReadToken(c) PROVE Moved
    <2>1. calls[c] \in Sending /\ UNCHANGED held
      BY <1>4, <1>8 DEF ReadToken
    <2> QED BY <1>5, <1>6, <1>8, <2>1, Advanced, EndedUnreached, EndedRefused DEF ReadToken
  <1>9. ASSUME NEW c \in Calls, Answer(c) PROVE Moved
    <2>1. /\ calls[c] \in Sending /\ UNCHANGED held /\ calls[c].op # "TOKEN"
          /\ calls[c].op \in {"SENT", "RESENT"}
      BY <1>4, <1>9 DEF Answer
    <2>2. calls[c].token \in Token
      BY <2>1, SpareIs DEF MobileInv, MobileTyped, CallsTyped, HasToken
    <2>3. CASE Advance(c, IF calls[c].op = "SENT" THEN "REJECTED" ELSE "LEAVING", calls[c].token)
      <3>1. PICK op \in {"REJECTED", "LEAVING"} : Advance(c, op, calls[c].token)
        BY <2>3
      <3> QED BY <2>1, <2>2, <3>1, Advanced
    <2> QED BY <1>5, <1>9, <2>1, <2>3, EndedAnswered, EndedUnusable, EndedUnreached DEF Answer
  <1>10. ASSUME NEW c \in Calls, Replay(c) PROVE Moved
    <2>1. calls[c] \in Sending /\ UNCHANGED held /\ calls[c].op = "REJECTED"
      BY <1>4, <1>10 DEF Replay
    <2>2. calls[c].token \in Token
      BY <2>1, SpareIs DEF MobileInv, MobileTyped, CallsTyped, HasToken
    <2>3. CASE ReplayToken(calls[c].token) # NoToken /\ Advance(c, "RESENT", ReplayToken(calls[c].token))
      <3>1. held \in Token /\ Advance(c, "RESENT", held)
        BY <1>6, <2>3 DEF ReplayToken
      <3> QED BY <2>1, <3>1, Advanced
    <2>4. CASE Advance(c, "LEAVING", calls[c].token)
      BY <2>1, <2>2, <2>4, Advanced
    <2>5. CASE Unauthorized(c, "EXPIRED")
      BY <1>5, <2>1, <2>5, EndedRefused
    <2> QED BY <1>10, <2>3, <2>4, <2>5 DEF Replay
  <1>11. ASSUME NEW c \in Calls, Leave(c) PROVE Moved
    BY <1>5, <1>11, EndedRefused DEF Leave
  <1>12. ASSUME NEW c \in Calls, EndCallSession(c) PROVE Moved
    <2>1. PICK t : t = [app EXCEPT !.signingOut = FALSE]
      OBVIOUS
    <2>2. AppTyped(t) /\ t.accountUserId = app.accountUserId /\ t.status = app.status /\ t.user = app.user
      BY <2>1, NoLongerLeaving DEF MobileInv, MobileTyped
    <2>3. EndCall(c, t, calls) /\ held' = NoToken
      BY <1>12, <2>1 DEF EndCallSession
    <2> QED BY <2>2, <2>3, SameCalls, Ended
  <1>13. ASSUME NEW f \in Flows, SignedIn(f) PROVE Moved
    <2>1. flows[f].user \in Users
      BY <1>13 DEF SignedIn, MobileInv, MobileTyped, Known
    <2>2. held'.user = flows[f].user
      BY <1>13 DEF SignedIn, NewToken
    <2> QED BY <1>13, <2>1, <2>2, AccountLoaded DEF SignedIn
  <1>14. ASSUME NEW f \in Flows, CompleteSignIn(f) PROVE Moved
    BY <1>14, SignedOutMoves, AppKept DEF CompleteSignIn
  <1>15. ASSUME NEW f \in Flows, SignOut(f) PROVE Moved
    BY <1>15, SignedOutMoves DEF SignOut
  <1>16. ASSUME NEW f \in Flows, EndSession(f) PROVE Moved
    <2>1. PICK t : t = [app EXCEPT !.signingOut = FALSE]
      OBVIOUS
    <2>2. AppTyped(t) /\ t.accountUserId = app.accountUserId /\ t.status = app.status /\ t.user = app.user
      BY <2>1, NoLongerLeaving DEF MobileInv, MobileTyped
    <2>3. Become(t, calls) /\ held' = NoToken
      BY <1>16, <2>1 DEF EndSession
    <2> QED BY <2>2, <2>3, SameCalls, Became DEF Moved
  <1>17. ASSUME NEW f \in Flows, RetryRead(f) PROVE Moved
    BY <1>17, RetryMoves DEF RetryRead
  <1>18. ASSUME UNCHANGED <<held, app, calls, list>> PROVE Moved
    BY <1>18, AppKept
  <1> QED BY <1>1, <1>2, <1>3, <1>7, <1>8, <1>9, <1>10, <1>11, <1>12, <1>13, <1>14, <1>15, <1>16, <1>17, <1>18
          DEF MobileNext, CallStep, FlowStep, SignIn, SignInRefused, RetryLoadUser

-----------------------------------------------------------------------------
(***************************************************************************)
(* The rest of the state: the session, its events and what the user does.  *)
(***************************************************************************)
LEMMA FlowGoes ==
  ASSUME MobileTyped, NEW f \in Flows, NEW next, next \in {Spare} \cup Flying, Goes(f, next),
         next.op = "SIGN_IN" => next.user \in Users
  PROVE  FlowsTyped' /\ Known'
  <1>1. flows' = [flows EXCEPT ![f] = next] /\ flows \in [Flows -> {Spare} \cup Flying]
    BY DEF Goes, MobileTyped, FlowsTyped
  <1>2. flows'[f] = next /\ \A g \in Flows : g # f => flows'[g] = flows[g]
    BY <1>1
  <1>3. FlowsTyped'
    BY <1>1 DEF FlowsTyped
  <1>4. Known'
    BY <1>2 DEF MobileTyped, Known
  <1> QED BY <1>3, <1>4

LEMMA FlowRecord ==
  ASSUME NEW op \in {"SIGN_IN", "WAIT", "WAKE", "END_SESSION", "RETRY"}, NEW u \in Users \cup {NoUser},
         NEW c \in Calls \cup {NoCall}, NEW x, x = Flow(op, u, c)
  PROVE  x \in Flying /\ x.op = op /\ x.user = u
  BY DEF Flow, Flying

LEMMA FlowEnds ==
  ASSUME MobileTyped, NEW f \in Flows, Goes(f, Spare)
  PROVE  FlowsTyped' /\ Known'
  BY FlowGoes, SpareIs

LEMMA FlowBegins ==
  ASSUME MobileTyped, NEW f \in Flows, NEW op \in {"SIGN_IN", "WAIT", "WAKE", "END_SESSION", "RETRY"},
         NEW u \in Users \cup {NoUser}, NEW c \in Calls \cup {NoCall}, Goes(f, Flow(op, u, c)),
         op = "SIGN_IN" => u \in Users
  PROVE  FlowsTyped' /\ Known'
  <1>1. PICK x : x = Flow(op, u, c)
    OBVIOUS
  <1>2. x \in Flying /\ x.op = op /\ x.user = u
    BY <1>1, FlowRecord
  <1>3. Goes(f, x)
    BY <1>1
  <1> QED BY <1>2, <1>3, FlowGoes

LEMMA FlowsWoken ==
  ASSUME MobileTyped, NEW c, flows' = Woken(c)
  PROVE  FlowsTyped' /\ Known'
  <1>1. ASSUME NEW f \in Flows
        PROVE  /\ flows'[f] \in {Spare} \cup Flying
               /\ flows'[f].op = "SIGN_IN" => flows'[f] = flows[f]
    <2>1. PICK x : x = flows[f]
      OBVIOUS
    <2>2. x \in {Spare} \cup Flying
      BY <2>1 DEF MobileTyped, FlowsTyped
    <2>3. CASE x.op = "WAIT" /\ x.call = c
      <3>1. x \in Flying
        BY <2>2, <2>3, SpareIs
      <3>2. PICK y : y = [x EXCEPT !.op = "WAKE"]
        OBVIOUS
      <3>3. y \in Flying /\ y.op = "WAKE"
        BY <3>1, <3>2 DEF Flying
      <3>4. flows'[f] = y
        BY <2>1, <2>3, <3>2 DEF Woken
      <3> QED BY <3>3, <3>4
    <2>4. CASE ~(x.op = "WAIT" /\ x.call = c)
      <3>1. flows'[f] = x
        BY <2>1, <2>4 DEF Woken
      <3> QED BY <2>1, <2>2, <3>1
    <2> QED BY <2>3, <2>4
  <1>2. flows' = [f \in Flows |-> flows'[f]]
    BY DEF Woken
  <1>3. FlowsTyped'
    BY <1>1, <1>2 DEF FlowsTyped
  <1>4. Known'
    BY <1>1 DEF MobileTyped, Known
  <1> QED BY <1>3, <1>4

LEMMA Reported ==
  ASSUME MobileTyped, NEW u \in Users \cup {NoUser}, Report(u)
  PROVE  EventsTyped'
  <1>1. app.signingOut \in BOOLEAN
    BY DEF MobileTyped, AppTyped, Store
  <1>2. [user |-> u, during |-> app.signingOut] \in [user : Users \cup {NoUser}, during : BOOLEAN]
    BY <1>1
  <1> QED BY <1>2, AppendProperties DEF Report, MobileTyped, EventsTyped

LEMMA TokenIssued ==
  ASSUME MobileTyped, NEW u \in Users, NewToken(u)
  PROVE  HeldTyped'
  <1>1. issued + 1 \in 1..MaxTokens /\ issued' = issued + 1
    BY MobileConstants DEF NewToken, MobileTyped, HeldTyped
  <1>2. [user |-> u, n |-> issued + 1] \in Token
    BY <1>1 DEF Token
  <1> QED BY <1>1, <1>2 DEF NewToken, HeldTyped

RestTyped == HeldTyped /\ EventsTyped /\ FlowsTyped /\ Known

LEMMA SessionRestKept ==
  ASSUME MobileTyped
  PROVE  /\ UNCHANGED <<held, issued>> => HeldTyped'
         /\ UNCHANGED issued /\ held' = NoToken => HeldTyped'
         /\ UNCHANGED events => EventsTyped'
         /\ UNCHANGED flows => FlowsTyped' /\ Known'
  BY DEF MobileTyped, HeldTyped, EventsTyped, FlowsTyped, Known

LEMMA CallsKeepRest ==
  ASSUME MobileTyped, NEW c \in Calls, FetchList(c) \/ CallStep(c)
  PROVE  RestTyped'
  <1>1. HeldTyped' /\ EventsTyped'
    <2>1. CASE UNCHANGED <<held, issued, events>>
      BY <2>1, SessionRestKept
    <2>2. CASE held' = NoToken /\ Report(NoUser) /\ UNCHANGED issued
      BY <2>2, SessionRestKept, Reported
    <2> QED BY <2>1, <2>2 DEF FetchList, CallStep, ReadToken, Answer, Replay, Leave, EndCallSession
  <1>2. FlowsTyped' /\ Known'
    <2>1. UNCHANGED flows \/ flows' = Woken(c)
      <3>1. ASSUME NEW s, NEW cs, EndCall(c, s, cs) PROVE flows' = Woken(c)
        BY <3>1 DEF EndCall
      <3>2. ASSUME NEW op, NEW t, Advance(c, op, t) PROVE UNCHANGED flows
        BY <3>2 DEF Advance
      <3>3. ASSUME NEW why, Unauthorized(c, why) PROVE flows' = Woken(c)
        BY <3>1, <3>3 DEF Unauthorized
      <3>4. ASSUME NEW why, Unusable(c, why) PROVE UNCHANGED flows \/ flows' = Woken(c)
        BY <3>1, <3>4 DEF Unusable
      <3>5. ASSUME Unreached(c) PROVE flows' = Woken(c)
        BY <3>1, <3>5 DEF Unreached
      <3>6. ASSUME CallAnswered(c) PROVE UNCHANGED flows \/ flows' = Woken(c)
        BY <3>1, <3>6 DEF CallAnswered
      <3> QED BY <3>1, <3>2, <3>3, <3>4, <3>5, <3>6
              DEF FetchList, CallStep, ReadToken, Answer, Replay, Leave, EndCallSession
    <2> QED BY <2>1, SessionRestKept, FlowsWoken
  <1> QED BY <1>1, <1>2 DEF RestTyped

LEMMA FlowsKeepRest ==
  ASSUME MobileTyped, NEW f \in Flows, AppTyped(app)',
         \/ RetryLoadUser(f) \/ SignOut(f) \/ FlowStep(f)
         \/ \E u \in Users : SignIn(f, u)
  PROVE  RestTyped'
  <1>1. CASE RetryLoadUser(f)
    BY <1>1, SessionRestKept, FlowBegins DEF RetryLoadUser, RestTyped
  <1>2. CASE SignOut(f)
    BY <1>2, SessionRestKept, FlowBegins DEF SignOut, RestTyped
  <1>3. CASE \E u \in Users : SignIn(f, u)
    BY <1>3, SessionRestKept, FlowBegins DEF SignIn, RestTyped
  <1>4. CASE SignInRefused(f)
    BY <1>4, SessionRestKept, FlowEnds DEF SignInRefused, RestTyped
  <1>5. CASE SignedIn(f)
    <2>1. flows[f].user \in Users
      BY <1>5 DEF SignedIn, MobileTyped, Known
    <2>2. HeldTyped' /\ EventsTyped'
      BY <1>5, <2>1, TokenIssued, Reported DEF SignedIn
    <2>3. app'.accountLoad \in Calls \cup {NoCall}
      BY DEF AppTyped, Store
    <2>4. FlowsTyped' /\ Known'
      BY <1>5, <2>1, <2>3, FlowBegins DEF SignedIn
    <2> QED BY <2>2, <2>4 DEF RestTyped
  <1>6. CASE CompleteSignIn(f)
    BY <1>6, SessionRestKept, FlowBegins, FlowEnds DEF CompleteSignIn, RestTyped
  <1>7. CASE EndSession(f)
    BY <1>7, SessionRestKept, FlowEnds, Reported DEF EndSession, RestTyped
  <1>8. CASE RetryRead(f)
    BY <1>8, SessionRestKept, FlowEnds DEF RetryRead, RestTyped
  <1> QED BY <1>1, <1>2, <1>3, <1>4, <1>5, <1>6, <1>7, <1>8 DEF FlowStep

LEMMA MobileStep ==
  ASSUME MobileInv, [MobileNext]_mobileVars
  PROVE  MobileInv'
  <1>1. CASE MobileNext
    <2>1. Moved
      BY <1>1, MobileMoves
    <2>2. RestTyped'
      <3> USE DEF MobileInv
      <3>1. CASE TokenRefreshed
        <4>1. held.user \in Users
          BY <3>1, TokensAre DEF TokenRefreshed, MobileTyped, HeldTyped
        <4> QED BY <3>1, <4>1, TokenIssued, Reported, SessionRestKept DEF TokenRefreshed, RestTyped
      <3>2. CASE SessionRevoked
        BY <3>2, Reported, SessionRestKept DEF SessionRevoked, RestTyped
      <3>3. CASE HandleAuthEvent
        <4>1. EventsTyped'
          BY <3>3, HeadTailProperties DEF HandleAuthEvent, MobileTyped, EventsTyped
        <4> QED BY <3>3, <4>1, SessionRestKept DEF HandleAuthEvent, RestTyped
      <3>4. CASE \E c \in Calls : FetchList(c) \/ CallStep(c)
        BY <3>4, CallsKeepRest
      <3>5. CASE \E f \in Flows : \/ RetryLoadUser(f) \/ SignOut(f) \/ FlowStep(f)
                                   \/ \E u \in Users : SignIn(f, u)
        BY <2>1, <3>5, FlowsKeepRest DEF Moved
      <3> QED BY <1>1, <3>1, <3>2, <3>3, <3>4, <3>5 DEF MobileNext
    <2> QED BY <2>1, <2>2 DEF MobileInv, MobileTyped, Moved, RestTyped
  <1>2. CASE UNCHANGED mobileVars
    <2>1. Moved /\ RestTyped'
      BY <1>2, AppKept, SessionRestKept DEF mobileVars, MobileInv, RestTyped
    <2> QED BY <2>1 DEF MobileInv, MobileTyped, Moved, RestTyped
  <1> QED BY <1>1, <1>2

LEMMA MobileStart ==
  ASSUME MobileInit
  PROVE  MobileInv
  <1>1. HeldTyped
    <2>1. CASE held = NoToken /\ issued = 0
      BY <2>1, MobileConstants DEF HeldTyped
    <2>2. CASE \E u \in Users : held = [user |-> u, n |-> 1] /\ issued = 1
      BY <2>2, MobileConstants DEF HeldTyped, Token
    <2> QED BY <2>1, <2>2 DEF MobileInit
  <1>2. held.user \in Users \cup {NoUser}
    BY <1>1, TokensAre DEF HeldTyped
  <1>3. EventsTyped
    BY <1>2 DEF MobileInit, EventsTyped
  <1>4. AppTyped(app) /\ app.status = "loading"
    BY DEF MobileInit, AppTyped, Store, Status, Why
  <1>5. CallsTyped(calls) /\ FlowsTyped /\ Known /\ \A c \in Calls : calls[c] = Spare
    BY SpareIs DEF MobileInit, CallsTyped, HasToken, FlowsTyped, Known
  <1>6. ListTyped /\ list = NoList /\ list.owner = NoUser
    BY DEF MobileInit, ListTyped, NoList
  <1> QED BY <1>1, <1>3, <1>4, <1>5, <1>6
          DEF MobileInv, MobileTyped, Keyed, AccountFollowed, Follows, Live, Listing

LEMMA MobileInvariant == MobileSpec => []MobileInv
  BY MobileStart, MobileStep, PTL DEF MobileSpec

\* Types of the app's session: every reachable state of the store, the session, the
\* calls and what the user does.
THEOREM MobileTypes == MobileSpec => []MobileTypeOK
  <1>1. MobileInv => MobileTypeOK
    BY DEF MobileInv, MobileTyped, MobileTypeOK, HeldTyped, EventsTyped, ListTyped, FlowsTyped,
           AppTyped, Store, CallsTyped, Sending, Flying
  <1> QED BY <1>1, MobileInvariant, PTL

\* Whatever overlaps, the orders on screen were fetched for the account on screen,
\* while that is the one the store follows; and nobody's are there without one.
THEOREM OrdersShownAreOwn == MobileSpec => []ListIsOwn
  <1>1. MobileInv => ListIsOwn
    BY DEF MobileInv, Keyed, NoList, AccountFollowed, Follows, ListIsOwn
  <1> QED BY <1>1, MobileInvariant, PTL

-----------------------------------------------------------------------------
(***************************************************************************)
(* Who is signed in: what the app and Supabase still owe each other.       *)
(***************************************************************************)
\* A call that will say whose the account is, if it is answered.
AccountCall(cs, c) == cs[c] # Spare /\ cs[c].current /\ cs[c].kind = "ACCOUNT"

\* A sign-out that has still to end the session.
Leaving == \/ \E c \in Calls : calls[c].op = "END_SESSION"
           \/ \E f \in Flows : flows[f].op = "END_SESSION"

\* The account that is followed has one call at most, which counts.
Loads ==
  /\ app.accountLoad # NoCall => AccountCall(calls, app.accountLoad)
  /\ \A c \in Calls : AccountCall(calls, c) => app.accountLoad = c /\ calls[c].op # "END_SESSION"
  /\ app.accountUserId = NoUser => app.accountLoad = NoCall /\ app.status # "authenticated"
  /\ app.status = "anonymous" => app.accountUserId = NoUser

\* An event that was reported during a sign-out is followed by the end of the session.
Ends ==
  /\ app.signingOut => Leaving
  /\ \A i \in 1..Len(events) : events[i].during /\ events[i].user # NoUser =>
       Leaving \/ \E j \in i + 1..Len(events) : events[j].user = NoUser

\* The last event tells whose the session is, and then the store follows that account.
Told ==
  /\ events # <<>> => events[Len(events)].user = held.user
  /\ app.accountUserId \notin {NoUser, held.user} => Leaving \/ events # <<>>

\* An event that will be acted on, and ends what the store follows.
Corrects(e) == (e.user = NoUser \/ ~e.during) /\ e.user # app.accountUserId

\* The account on screen, or the one a call will bring, is not the one that is followed.
Mixed ==
  \/ app.status = "authenticated" /\ app.user # app.accountUserId
  \/ \E c \in Calls : /\ AccountCall(calls, c) /\ calls[c].op # "TOKEN"
                      /\ calls[c].token.user # app.accountUserId

Corrected == Mixed => Leaving \/ \E i \in 1..Len(events) : Corrects(events[i])

\* What is shown while nothing is owed.
Shown ==
  /\ app.status = "loading" =>
       \/ app.accountLoad # NoCall
       \/ app.accountUserId = NoUser /\ events # <<>> /\ ~Head(events).during
  /\ held = NoToken /\ events = <<>> => app.status = "anonymous"
  /\ held # NoToken /\ events = <<>> /\ ~Leaving /\ app.status = "anonymous" =>
       app.error \in {"EXPIRED", "SIGN_IN"}

AgreeInv == Loads /\ Ends /\ Told /\ Corrected /\ Shown

LEMMA Agreed ==
  ASSUME MobileInv, AgreeInv
  PROVE  AgreesWithSupabase
  <1> SUFFICES ASSUME Quiet
               PROVE  /\ app.status # "loading"
                      /\ app.status = "authenticated" => held.user = app.user
                      /\ held = NoToken => app.status = "anonymous"
                      /\ held # NoToken /\ app.status = "anonymous" => app.error \in {"EXPIRED", "SIGN_IN"}
    BY DEF AgreesWithSupabase
  <1>1. events = <<>> /\ ~Leaving /\ \A c \in Calls : ~AccountCall(calls, c)
    BY SpareIs DEF Quiet, Leaving, AccountCall
  <1>2. app.accountLoad = NoCall
    <2>1. app.accountLoad \in Calls \cup {NoCall}
      BY DEF MobileInv, MobileTyped, AppTyped, Store
    <2> QED BY <1>1, <2>1 DEF AgreeInv, Loads
  <1>3. ~Mixed
    <2>1. Len(events) = 0
      BY <1>1
    <2> QED BY <1>1, <2>1 DEF AgreeInv, Corrected
  <1>4. app.status = "authenticated" => held.user = app.user
    BY <1>1, <1>3 DEF AgreeInv, Mixed, Told, Loads
  <1> QED BY <1>1, <1>2, <1>4 DEF AgreeInv, Shown

-----------------------------------------------------------------------------
(* What a step may do to the account, and to the session.                  *)
NoLoads == \A c \in Calls : ~AccountCall(calls', c)

\* The calls for the account are those there were; one may have read its token.
SameLoads ==
  \A c \in Calls :
    /\ AccountCall(calls', c) <=> AccountCall(calls, c)
    /\ AccountCall(calls', c) =>
         /\ calls'[c].op # "END_SESSION"
         /\ \/ calls'[c].op = "TOKEN"
            \/ calls'[c].token = held
            \/ calls[c].op # "TOKEN" /\ calls'[c].token = calls[c].token

SameView == app'.status = app.status /\ app'.user = app.user /\ app'.error = app.error

Follow == app'.accountUserId = app.accountUserId /\ app'.accountLoad = app.accountLoad /\ SameLoads

Left == /\ app'.accountUserId = NoUser /\ app'.accountLoad = NoCall
        /\ app'.status = "anonymous" /\ NoLoads

Begins(u) ==
  /\ app'.accountUserId = u /\ app'.accountLoad \in Calls
  /\ \A c \in Calls : AccountCall(calls', c) <=> c = app'.accountLoad
  /\ calls'[app'.accountLoad].op = "TOKEN"
  /\ app'.status = "loading" \/ (app.accountUserId = u /\ app.accountLoad = NoCall /\ SameView)

Said ==
  /\ app'.accountUserId = app.accountUserId /\ app'.accountLoad = NoCall /\ NoLoads
  /\ \E c \in Calls :
       /\ AccountCall(calls, c)
       /\ \/ app'.status = "unavailable"
          \/ /\ app'.status = "authenticated" /\ calls[c].op # "TOKEN"
             /\ app'.user = calls[c].token.user

StillLeaving == Leaving => Leaving'

Still == /\ UNCHANGED <<held, events>> /\ StillLeaving
         /\ app'.signingOut => app.signingOut \/ Leaving'

Reports(u) ==
  /\ Report(u) /\ held'.user = u
  /\ \/ StillLeaving /\ app'.signingOut = app.signingOut
     \/ u = NoUser /\ ~app'.signingOut

Takes == /\ events # <<>> /\ events' = Tail(events) /\ held' = held
         /\ StillLeaving /\ app'.signingOut = app.signingOut

\* HandleAuthEvent, by what the event says.
TakesEvent ==
  /\ Takes
  /\ LET e == Head(events) IN
     \/ e.user = NoUser /\ Left
     \/ /\ e.user # NoUser
        /\ e.during \/ (e.user = app.accountUserId /\ (app.status = "authenticated" \/ app.accountLoad # NoCall))
        /\ Follow /\ SameView
     \/ e.user # NoUser /\ ~e.during /\ Begins(e.user)

GoesOn ==
  /\ Still
  /\ \/ Follow /\ (SameView \/ (app'.status = "unavailable" /\ held # NoToken))
     \/ Said
     \/ held # NoToken /\ Begins(held.user)
     \/ Left /\ (held = NoToken \/ Leaving' \/ app'.error \in {"EXPIRED", "SIGN_IN"})

Changes ==
  \E u \in Users \cup {NoUser} :
    /\ Reports(u)
    /\ \/ Follow /\ SameView
       \/ Left
       \/ u # NoUser /\ Begins(u)

Agreeing == TakesEvent \/ GoesOn \/ Changes

\* The queue of events, when one is reported and when one is taken.
LEMMA Queue ==
  ASSUME MobileTyped
  PROVE  /\ Len(events) \in Nat
         /\ events # <<>> <=> Len(events) # 0
         /\ \A u : Report(u) =>
              /\ Len(events') = Len(events) + 1
              /\ \A i \in 1..Len(events) : events'[i] = events[i]
              /\ events'[Len(events) + 1] = [user |-> u, during |-> app.signingOut]
         /\ events # <<>> /\ events' = Tail(events) =>
              /\ Len(events') = Len(events) - 1
              /\ \A i \in 1..Len(events) - 1 : events'[i] = events[i + 1]
              /\ Head(events) = events[1]
         /\ \A i \in 1..Len(events) : events[i].user \in Users \cup {NoUser}
  <1>1. events \in Seq([user : Users \cup {NoUser}, during : BOOLEAN])
    BY DEF MobileTyped, EventsTyped
  <1>2. ASSUME NEW i \in 1..Len(events) PROVE events[i] \in [user : Users \cup {NoUser}, during : BOOLEAN]
    BY <1>1, ElementOfSeq
  <1>3. Len(events) \in Nat /\ (events # <<>> <=> Len(events) # 0)
    BY <1>1, EmptySeq
  <1>4. ASSUME NEW u, Report(u)
        PROVE  /\ Len(events') = Len(events) + 1
               /\ \A i \in 1..Len(events) : events'[i] = events[i]
               /\ events'[Len(events) + 1] = [user |-> u, during |-> app.signingOut]
    <2>1. PICK e : e = [user |-> u, during |-> app.signingOut]
      OBVIOUS
    <2>2. events' = Append(events, e)
      BY <1>4, <2>1 DEF Report
    <2> QED BY <1>1, <2>1, <2>2
  <1>5. ASSUME events # <<>>, events' = Tail(events)
        PROVE  /\ Len(events') = Len(events) - 1
               /\ \A i \in 1..Len(events) - 1 : events'[i] = events[i + 1]
               /\ Head(events) = events[1]
    BY <1>1, <1>5, HeadTailProperties
  <1> QED BY <1>2, <1>3, <1>4, <1>5

LEMMA LoadsStay ==
  ASSUME MobileTyped, AgreeInv, Agreeing
  PROVE  Loads'
  <1>1. ASSUME Follow, SameView \/ app'.status = "unavailable" PROVE Loads'
    <2>1. app.accountLoad \in Calls \cup {NoCall}
      BY DEF MobileTyped, AppTyped, Store
    <2>2. app'.accountUserId = app.accountUserId /\ app'.accountLoad = app.accountLoad
      BY <1>1 DEF Follow
    <2>3. \A c \in Calls : /\ AccountCall(calls', c) <=> AccountCall(calls, c)
                           /\ AccountCall(calls', c) => calls'[c].op # "END_SESSION"
      BY <1>1 DEF Follow, SameLoads
    <2>4. /\ app'.status = "anonymous" => app.status = "anonymous"
          /\ app'.status = "authenticated" => app.status = "authenticated"
      BY <1>1 DEF SameView
    <2>5. app'.accountLoad # NoCall => AccountCall(calls', app'.accountLoad)
      BY <2>1, <2>2, <2>3 DEF AgreeInv, Loads
    <2>6. \A c \in Calls : AccountCall(calls', c) => app'.accountLoad = c /\ calls'[c].op # "END_SESSION"
      BY <2>2, <2>3 DEF AgreeInv, Loads
    <2>7. /\ app'.accountUserId = NoUser => app'.accountLoad = NoCall /\ app'.status # "authenticated"
          /\ app'.status = "anonymous" => app'.accountUserId = NoUser
      BY <2>2, <2>4 DEF AgreeInv, Loads
    <2> QED BY <2>5, <2>6, <2>7 DEF Loads
  <1>2. ASSUME Left PROVE Loads'
    BY <1>2 DEF Loads, Left, NoLoads
  <1>3. ASSUME NEW u, u # NoUser, Begins(u) PROVE Loads'
    <2>1. app'.accountLoad # NoCall
      BY <1>3, MobileConstants DEF Begins
    <2>2. AccountCall(calls', app'.accountLoad)
      BY <1>3 DEF Begins
    <2>3. \A c \in Calls : AccountCall(calls', c) => app'.accountLoad = c /\ calls'[c].op # "END_SESSION"
      BY <1>3 DEF Begins
    <2>4. app'.status # "anonymous"
      BY <1>3 DEF AgreeInv, Loads, Begins, SameView
    <2> QED BY <1>3, <2>1, <2>2, <2>3, <2>4 DEF Loads, Begins
  <1>4. ASSUME Said PROVE Loads'
    <2>1. app.accountUserId # NoUser
      BY <1>4, MobileConstants DEF AgreeInv, Loads, Said
    <2>2. app'.status # "anonymous"
      BY <1>4 DEF Said
    <2> QED BY <1>4, <2>1, <2>2 DEF Loads, Said, NoLoads
  <1>5. held # NoToken => held.user # NoUser
    BY TokensAre DEF MobileTyped, HeldTyped
  <1> QED BY <1>1, <1>2, <1>3, <1>4, <1>5 DEF Agreeing, TakesEvent, GoesOn, Changes

LEMMA EndsStay ==
  ASSUME MobileTyped, AgreeInv, Agreeing
  PROVE  Ends'
  <1>1. app'.signingOut => Leaving'
    BY DEF AgreeInv, Ends, Agreeing, TakesEvent, Takes, GoesOn, Still, Changes, Reports, StillLeaving
  <1> SUFFICES ASSUME NEW i \in 1..Len(events'), events'[i].during, events'[i].user # NoUser
               PROVE  Leaving' \/ \E j \in i + 1..Len(events') : events'[j].user = NoUser
    BY <1>1 DEF Ends
  <1> DEFINE Later(k) == Leaving \/ \E j \in k + 1..Len(events) : events[j].user = NoUser
  <1>2. \A k \in 1..Len(events) : events[k].during /\ events[k].user # NoUser => Later(k)
    BY DEF AgreeInv, Ends
  <1>3. app.signingOut => Leaving
    BY DEF AgreeInv, Ends
  <1> HIDE DEF Later
  <1>4. CASE TakesEvent
    <2>1. /\ Len(events') = Len(events) - 1 /\ Len(events) \in Nat
          /\ \A k \in 1..Len(events) - 1 : events'[k] = events[k + 1]
      BY <1>4, Queue DEF TakesEvent, Takes
    <2>2. i + 1 \in 1..Len(events) /\ events'[i] = events[i + 1]
      BY <2>1
    <2>3. Later(i + 1)
      BY <1>2, <2>2
    <2>4. CASE Leaving
      BY <1>4, <2>4 DEF TakesEvent, Takes, StillLeaving
    <2>5. CASE \E j \in i + 2..Len(events) : events[j].user = NoUser
      <3>1. PICK j \in i + 2..Len(events) : events[j].user = NoUser
        BY <2>5
      <3>2. j - 1 \in i + 1..Len(events') /\ events'[j - 1] = events[j]
        BY <2>1, <3>1
      <3> QED BY <3>1, <3>2
    <2>6. i + 1 + 1 = i + 2
      OBVIOUS
    <2> QED BY <2>3, <2>4, <2>5, <2>6 DEF Later
  <1>5. CASE GoesOn
    <2>1. events' = events /\ StillLeaving
      BY <1>5 DEF GoesOn, Still
    <2> QED BY <1>2, <2>1 DEF Later, StillLeaving
  <1>6. CASE Changes
    <2>1. PICK u \in Users \cup {NoUser} : Reports(u)
      BY <1>6 DEF Changes
    <2>2. /\ Len(events') = Len(events) + 1 /\ Len(events) \in Nat
          /\ \A k \in 1..Len(events) : events'[k] = events[k]
          /\ events'[Len(events) + 1] = [user |-> u, during |-> app.signingOut]
      BY <2>1, Queue DEF Reports
    <2>3. CASE i = Len(events) + 1
      BY <1>3, <2>1, <2>2, <2>3 DEF Reports, StillLeaving
    <2>4. CASE i # Len(events) + 1
      <3>1. i \in 1..Len(events) /\ events'[i] = events[i]
        BY <2>2, <2>4
      <3>2. Later(i)
        BY <1>2, <3>1
      <3>3. CASE Leaving
        <4>1. CASE u = NoUser
          <5>1. Len(events') \in i + 1..Len(events') /\ events'[Len(events')].user = NoUser
            BY <2>2, <3>1, <4>1
          <5> QED BY <5>1
        <4>2. CASE u # NoUser
          BY <2>1, <3>3, <4>2 DEF Reports, StillLeaving
        <4> QED BY <4>1, <4>2
      <3>4. ASSUME NEW j \in i + 1..Len(events), events[j].user = NoUser
            PROVE  Leaving' \/ \E k \in i + 1..Len(events') : events'[k].user = NoUser
        <4>1. j \in i + 1..Len(events') /\ events'[j] = events[j]
          BY <2>2, <3>1
        <4> QED BY <3>4, <4>1
      <3> QED BY <3>2, <3>3, <3>4 DEF Later
    <2> QED BY <2>3, <2>4
  <1> QED BY <1>4, <1>5, <1>6 DEF Agreeing

LEMMA ToldStay ==
  ASSUME MobileTyped, AgreeInv, Agreeing
  PROVE  Told'
  <1> USE Queue
  <1>1. /\ events # <<>> => events[Len(events)].user = held.user
        /\ app.accountUserId \notin {NoUser, held.user} => Leaving \/ events # <<>>
    BY DEF AgreeInv, Told
  <1>2. CASE TakesEvent
    <2>1. /\ Len(events') = Len(events) - 1 /\ Len(events) \in Nat \ {0} /\ held' = held
          /\ \A k \in 1..Len(events) - 1 : events'[k] = events[k + 1]
          /\ Head(events) = events[1] /\ (Leaving => Leaving')
          /\ events' # <<>> => Len(events') # 0
      BY <1>2 DEF TakesEvent, Takes, StillLeaving
    <2>2. events' # <<>> => events'[Len(events')].user = held'.user
      <3> SUFFICES ASSUME events' # <<>> PROVE events'[Len(events')].user = held.user
        BY <2>1
      <3>1. Len(events) - 1 \in 1..Len(events) - 1
        BY <2>1
      <3>2. events'[Len(events')] = events[Len(events)]
        BY <2>1, <3>1
      <3> QED BY <1>1, <2>1, <3>2
    <2>3. ASSUME app'.accountUserId \notin {NoUser, held'.user}, events' = <<>>
          PROVE  Leaving'
      <3>1. Len(events) = 1 /\ Head(events).user = held.user
        <4>1. Len(events') = 0
          BY <2>3
        <4>2. Len(events) = 1
          BY <2>1, <4>1
        <4>3. events # <<>>
          BY <1>2 DEF TakesEvent, Takes
        <4>4. events[Len(events)].user = held.user
          BY <1>1, <4>3
        <4>5. Head(events) = events[Len(events)]
          BY <2>1, <4>2
        <4> QED BY <4>2, <4>4, <4>5
      <3>2. Head(events).user # NoUser /\ app'.accountUserId = app.accountUserId /\ Head(events).during
        BY <1>2, <2>1, <2>3, <3>1 DEF TakesEvent, Left, Begins, Follow
      <3>3. Leaving \/ \E j \in 1 + 1..Len(events) : events[j].user = NoUser
        <4>1. 1 \in 1..Len(events)
          BY <3>1
        <4> QED BY <2>1, <3>2, <4>1 DEF AgreeInv, Ends
      <3>4. ~\E j \in 1 + 1..Len(events) : events[j].user = NoUser
        BY <3>1
      <3> QED BY <2>1, <3>3, <3>4
    <2> QED BY <2>2, <2>3 DEF Told
  <1>3. CASE GoesOn
    <2>1. events' = events /\ held' = held /\ (Leaving => Leaving')
      BY <1>3 DEF GoesOn, Still, StillLeaving
    <2>2. app'.accountUserId \in {app.accountUserId, NoUser, held.user}
      BY <1>3 DEF GoesOn, Follow, Said, Begins, Left
    <2> QED BY <1>1, <2>1, <2>2 DEF Told
  <1>4. CASE Changes
    <2>1. PICK u \in Users \cup {NoUser} : Reports(u)
      BY <1>4 DEF Changes
    <2>2. /\ Len(events') = Len(events) + 1 /\ Len(events) \in Nat
          /\ events'[Len(events) + 1] = [user |-> u, during |-> app.signingOut]
          /\ held'.user = u
      BY <2>1 DEF Reports
    <2>3. events' # <<>>
      <3>1. Len(events') # 0 /\ Len(<<>>) = 0
        BY <2>2
      <3> QED BY <3>1
    <2> QED BY <2>2, <2>3 DEF Told
  <1> QED BY <1>2, <1>3, <1>4 DEF Agreeing

\* Whenever the account the store follows is not the session's, that is known.
LEMMA WrongIsCorrected ==
  ASSUME MobileTyped, AgreeInv, Mixed \/ app.accountUserId \notin {NoUser, held.user}
  PROVE  Leaving \/ \E i \in 1..Len(events) : Corrects(events[i])
  <1>1. CASE Mixed
    BY <1>1 DEF AgreeInv, Corrected
  <1>2. ASSUME app.accountUserId \notin {NoUser, held.user}, ~Leaving
        PROVE  \E i \in 1..Len(events) : Corrects(events[i])
    <2>1. events # <<>> /\ events[Len(events)].user = held.user
      BY <1>2 DEF AgreeInv, Told
    <2>2. Len(events) \in 1..Len(events)
      BY <2>1, Queue
    <2>3. ~\E j \in Len(events) + 1..Len(events) : events[j].user = NoUser
      BY <2>2
    <2>4. events[Len(events)].during => events[Len(events)].user = NoUser
      BY <1>2, <2>2, <2>3 DEF AgreeInv, Ends
    <2> QED BY <1>2, <2>1, <2>2, <2>4 DEF Corrects
  <1> QED BY <1>1, <1>2

\* An account that is not the one followed was so before, or its token was read.
LEMMA MixedBefore ==
  ASSUME MobileTyped, AgreeInv, Agreeing, Mixed'
  PROVE  /\ Mixed \/ app.accountUserId \notin {NoUser, held.user}
         /\ app'.accountUserId = app.accountUserId /\ ~Left /\ app'.accountUserId # NoUser
  <1>1. Loads'
    BY LoadsStay
  <1>2. app'.accountUserId # NoUser
    <2>1. CASE app'.status = "authenticated"
      BY <1>1, <2>1 DEF Loads
    <2>2. ASSUME NEW c \in Calls, AccountCall(calls', c) PROVE app'.accountUserId # NoUser
      BY <1>1, <2>2, MobileConstants DEF Loads
    <2> QED BY <2>1, <2>2 DEF Mixed
  <1>3. ASSUME Follow, SameView \/ app'.status = "unavailable"
        PROVE  Mixed \/ app.accountUserId \notin {NoUser, held.user}
    <2>1. app'.accountUserId = app.accountUserId
      BY <1>3 DEF Follow
    <2>2. CASE app'.status = "authenticated" /\ app'.user # app'.accountUserId
      BY <1>3, <2>1, <2>2 DEF SameView, Mixed
    <2>3. ASSUME NEW c \in Calls, AccountCall(calls', c), calls'[c].op # "TOKEN",
                 calls'[c].token.user # app'.accountUserId
          PROVE  Mixed \/ app.accountUserId \notin {NoUser, held.user}
      <3>1. AccountCall(calls, c)
        BY <1>3, <2>3 DEF Follow, SameLoads
      <3>2. CASE calls'[c].token = held
        BY <1>2, <2>1, <2>3, <3>2
      <3>3. CASE calls[c].op # "TOKEN" /\ calls'[c].token = calls[c].token
        BY <2>1, <2>3, <3>1, <3>3 DEF Mixed
      <3> QED BY <1>3, <2>3, <3>2, <3>3 DEF Follow, SameLoads
    <2> QED BY <2>2, <2>3 DEF Mixed
  <1>4. ASSUME NEW u, u # NoUser, Begins(u) PROVE Mixed /\ app'.accountUserId = app.accountUserId
    <2>1. ASSUME NEW c \in Calls, AccountCall(calls', c) PROVE calls'[c].op = "TOKEN"
      BY <1>4, <2>1 DEF Begins
    <2>2. app'.status = "authenticated" /\ app'.user # app'.accountUserId
      BY <2>1 DEF Mixed
    <2> QED BY <1>4, <2>2 DEF Begins, SameView, Mixed
  <1>5. ASSUME Said PROVE Mixed
    <2>1. app'.status = "authenticated" /\ app'.user # app'.accountUserId
      BY <1>5 DEF Said, NoLoads, Mixed
    <2> QED BY <1>5, <2>1 DEF Said, Mixed
  <1>6. ~Left
    BY <1>2 DEF Left
  <1>7. held # NoToken => held.user # NoUser
    BY TokensAre DEF MobileTyped, HeldTyped
  <1>8. Said \/ Follow => app'.accountUserId = app.accountUserId
    BY DEF Said, Follow
  <1> QED BY <1>2, <1>3, <1>4, <1>5, <1>6, <1>7, <1>8 DEF Agreeing, TakesEvent, GoesOn, Changes

LEMMA CorrectedStays ==
  ASSUME MobileTyped, AgreeInv, Agreeing
  PROVE  Corrected'
  <1> SUFFICES ASSUME Mixed', ~Leaving'
               PROVE  \E i \in 1..Len(events') : Corrects(events[i])'
    BY DEF Corrected
  <1>1. /\ app'.accountUserId = app.accountUserId /\ ~Left /\ app'.accountUserId # NoUser
        /\ Leaving \/ \E i \in 1..Len(events) : Corrects(events[i])
    BY MixedBefore, WrongIsCorrected
  <1> DEFINE Ahead(e) == (e.user = NoUser \/ ~e.during) /\ e.user # app'.accountUserId
  <1>2. SUFFICES \E i \in 1..Len(events') : Ahead(events'[i])
    BY DEF Corrects
  <1>3. Leaving \/ \E i \in 1..Len(events) : Ahead(events[i])
    BY <1>1 DEF Corrects
  <1> HIDE DEF Ahead
  <1>4. CASE TakesEvent
    <2>1. /\ Len(events') = Len(events) - 1 /\ Len(events) \in Nat
          /\ \A k \in 1..Len(events) - 1 : events'[k] = events[k + 1]
          /\ Head(events) = events[1] /\ ~Leaving
      BY <1>4, Queue DEF TakesEvent, Takes, StillLeaving
    <2>2. ~Ahead(events[1])
      <3>1. CASE Head(events).user # NoUser /\ Begins(Head(events).user)
        BY <2>1, <3>1 DEF Begins, Ahead
      <3> QED BY <1>1, <1>4, <2>1, <3>1 DEF TakesEvent, Ahead
    <2>3. PICK i \in 1..Len(events) : Ahead(events[i])
      BY <1>3, <2>1
    <2>4. i - 1 \in 1..Len(events') /\ events'[i - 1] = events[i]
      BY <2>1, <2>2, <2>3
    <2> QED BY <2>3, <2>4
  <1>5. CASE GoesOn
    BY <1>3, <1>5 DEF GoesOn, Still, StillLeaving
  <1>6. CASE Changes
    <2>1. PICK u \in Users \cup {NoUser} : Reports(u)
      BY <1>6 DEF Changes
    <2>2. /\ Len(events') = Len(events) + 1 /\ Len(events) \in Nat
          /\ \A k \in 1..Len(events) : events'[k] = events[k]
          /\ events'[Len(events) + 1] = [user |-> u, during |-> app.signingOut]
      BY <2>1, Queue DEF Reports
    <2>3. CASE Leaving
      <3>1. u = NoUser
        BY <2>1, <2>3 DEF Reports, StillLeaving
      <3>2. Ahead(events'[Len(events) + 1])
        BY <1>1, <2>2, <3>1 DEF Ahead
      <3>3. Len(events) + 1 \in 1..Len(events')
        BY <2>2
      <3> QED BY <3>2, <3>3
    <2>4. ASSUME NEW i \in 1..Len(events), Ahead(events[i])
          PROVE  \E k \in 1..Len(events') : Ahead(events'[k])
      <3>1. i \in 1..Len(events') /\ Ahead(events'[i])
        BY <2>2, <2>4
      <3> QED BY <3>1
    <2> QED BY <1>3, <2>3, <2>4
  <1> QED BY <1>4, <1>5, <1>6 DEF Agreeing

LEMMA ShownStays ==
  ASSUME MobileTyped, AgreeInv, Agreeing
  PROVE  Shown'
  <1>1. /\ app.status = "anonymous" => app.accountUserId = NoUser
        /\ app.accountUserId = NoUser => app.accountLoad = NoCall /\ app.status # "authenticated"
        /\ \A c \in Calls : AccountCall(calls, c) => app.accountLoad = c
    BY DEF AgreeInv, Loads
  <1>2. held # NoToken <=> held.user # NoUser
    BY TokensAre DEF MobileTyped, HeldTyped
  <1>3. CASE TakesEvent
    <2>1. /\ Len(events') = Len(events) - 1 /\ Len(events) \in Nat /\ events # <<>>
          /\ Head(events) = events[1] /\ held' = held /\ StillLeaving
      BY <1>3, Queue DEF TakesEvent, Takes
    <2>2. app'.status = "loading" => app'.accountLoad # NoCall
      <3>1. CASE Left
        BY <3>1 DEF Left
      <3>2. ASSUME NEW u, Begins(u) PROVE app'.accountLoad # NoCall
        BY <3>2, MobileConstants DEF Begins
      <3>3. ASSUME Follow, SameView, Head(events).user # NoUser, app'.status = "loading",
                   Head(events).during \/ Head(events).user = app.accountUserId
            PROVE  app'.accountLoad # NoCall
        BY <3>3 DEF Follow, SameView, AgreeInv, Shown
      <3> QED BY <1>3, <3>1, <3>2, <3>3 DEF TakesEvent
    <2>3. ASSUME events' = <<>> PROVE Len(events) = 1 /\ Head(events).user = held.user
      <3>1. Len(events') = 0
        BY <2>3
      <3>2. events[Len(events)].user = held.user
        BY <2>1 DEF AgreeInv, Told
      <3>3. Len(events) = 1
        BY <2>1, <3>1
      <3> QED BY <2>1, <3>2, <3>3
    <2>4. ASSUME held' = NoToken, events' = <<>> PROVE app'.status = "anonymous"
      BY <1>2, <1>3, <2>1, <2>3, <2>4 DEF TakesEvent, Left
    <2>5. ASSUME held' # NoToken, events' = <<>>, ~Leaving' PROVE app'.status # "anonymous"
      <3>1. Head(events).user # NoUser
        BY <1>2, <2>1, <2>3, <2>5
      <3>2. CASE Begins(Head(events).user)
        BY <1>1, <3>1, <3>2 DEF Begins, SameView
      <3>3. ASSUME Follow, SameView, app.status = "anonymous",
                   Head(events).during \/ Head(events).user = app.accountUserId
            PROVE  FALSE
        <4>1. events[1].during /\ events[1].user # NoUser
          BY <1>1, <2>1, <3>1, <3>3
        <4>2. 1 \in 1..Len(events) /\ ~\E j \in 1 + 1..Len(events) : events[j].user = NoUser
          <5>1. Len(events) = 1
            BY <2>3, <2>5
          <5> QED BY <5>1
        <4>3. ~Leaving
          BY <2>1, <2>5 DEF StillLeaving
        <4> QED BY <4>1, <4>2, <4>3 DEF AgreeInv, Ends
      <3> QED BY <1>3, <3>1, <3>2, <3>3 DEF TakesEvent, SameView
    <2> QED BY <2>2, <2>4, <2>5 DEF Shown
  <1>4. CASE GoesOn
    <2>1. events' = events /\ held' = held /\ StillLeaving
      BY <1>4 DEF GoesOn, Still
    <2>2. CASE Follow /\ (SameView \/ (app'.status = "unavailable" /\ held # NoToken))
      <3>1. CASE SameView
        BY <2>1, <2>2, <3>1 DEF Follow, SameView, AgreeInv, Shown, StillLeaving
      <3>2. CASE app'.status = "unavailable" /\ held # NoToken
        BY <2>1, <3>2 DEF Shown
      <3> QED BY <2>2, <3>1, <3>2
    <2>3. CASE Said
      <3>1. app.accountLoad # NoCall
        BY <1>1, <2>3, MobileConstants DEF Said
      <3>2. app.status # "anonymous" /\ app'.status \in {"unavailable", "authenticated"}
        BY <1>1, <2>3, <3>1 DEF Said
      <3> QED BY <2>1, <3>2 DEF AgreeInv, Shown
    <2>4. CASE held # NoToken /\ Begins(held.user)
      <3>1. app'.accountLoad # NoCall
        BY <2>4, MobileConstants DEF Begins
      <3>2. app'.status # "anonymous"
        BY <1>1, <1>2, <2>4 DEF Begins, SameView
      <3> QED BY <2>1, <2>4, <3>1, <3>2 DEF Shown
    <2>5. CASE Left /\ (held = NoToken \/ Leaving' \/ app'.error \in {"EXPIRED", "SIGN_IN"})
      BY <2>1, <2>5 DEF Left, Shown
    <2> QED BY <1>4, <2>2, <2>3, <2>4, <2>5 DEF GoesOn
  <1>5. CASE Changes
    <2>1. PICK u \in Users \cup {NoUser} : /\ Reports(u)
                                           /\ (Follow /\ SameView) \/ Left \/ (u # NoUser /\ Begins(u))
      BY <1>5 DEF Changes
    <2>2. /\ Len(events') = Len(events) + 1 /\ Len(events) \in Nat
          /\ \A k \in 1..Len(events) : events'[k] = events[k]
      BY <2>1, Queue DEF Reports
    <2>3. events' # <<>>
      <3>1. Len(events') # 0 /\ Len(<<>>) = 0
        BY <2>2
      <3> QED BY <3>1
    <2>4. ASSUME events # <<>> PROVE Head(events') = Head(events)
      <3>1. events \in Seq([user : Users \cup {NoUser}, during : BOOLEAN])
        BY DEF MobileTyped, EventsTyped
      <3>2. PICK e : events' = Append(events, e)
        BY <2>1 DEF Reports, Report
      <3> QED BY <2>4, <3>1, <3>2
    <2>5. CASE Follow /\ SameView
      BY <2>3, <2>4, <2>5 DEF Follow, SameView, AgreeInv, Shown
    <2>6. CASE Left
      BY <2>3, <2>6 DEF Left, Shown
    <2>7. CASE Begins(u)
      <3>1. app'.accountLoad # NoCall
        BY <2>7, MobileConstants DEF Begins
      <3> QED BY <2>3, <3>1 DEF Shown
    <2> QED BY <2>1, <2>5, <2>6, <2>7
  <1> QED BY <1>3, <1>4, <1>5 DEF Agreeing

LEMMA AgreeStays ==
  ASSUME MobileTyped, AgreeInv, Agreeing
  PROVE  AgreeInv'
  BY LoadsStay, EndsStay, ToldStay, CorrectedStays, ShownStays DEF AgreeInv

-----------------------------------------------------------------------------
(* How the operations of the store leave the account and its calls.        *)
Ending(cs, c) == cs[c].op = "END_SESSION"

\* The calls for the account are the same, and so are the sign-outs.
Kept(cs, ds) ==
  \A c \in Calls : /\ AccountCall(ds, c) <=> AccountCall(cs, c)
                   /\ AccountCall(ds, c) => ds[c] = cs[c]
                   /\ Ending(ds, c) <=> Ending(cs, c)

LEMMA Dropped ==
  ASSUME NEW cs, CallsTyped(cs)
  PROVE  /\ Kept(cs, Superseded(cs, "LIST"))
         /\ \A c \in Calls : /\ ~AccountCall(ForgottenCalls(cs), c)
                             /\ Ending(ForgottenCalls(cs), c) <=> Ending(cs, c)
  <1>1. ASSUME NEW kind, NEW ds, ds = Superseded(cs, kind), NEW c \in Calls
        PROVE  /\ cs[c] # Spare /\ cs[c].kind = kind => ~AccountCall(ds, c) /\ ds[c].kind = kind
               /\ ~(cs[c] # Spare /\ cs[c].kind = kind) => ds[c] = cs[c]
               /\ Ending(ds, c) <=> Ending(cs, c)
    <2>1. CASE cs[c] # Spare /\ cs[c].kind = kind
      <3>1. PICK x : x = cs[c]
        OBVIOUS
      <3>2. x \in Sending
        BY <2>1, <3>1 DEF CallsTyped
      <3>3. PICK y : y = [x EXCEPT !.current = FALSE]
        OBVIOUS
      <3>4. y.op = x.op /\ y.current = FALSE /\ y.kind = x.kind
        BY <3>2, <3>3 DEF Sending
      <3>5. ds[c] = y
        BY <1>1, <2>1, <3>1, <3>3 DEF Superseded
      <3> QED BY <2>1, <3>1, <3>4, <3>5 DEF AccountCall, Ending
    <2>2. CASE ~(cs[c] # Spare /\ cs[c].kind = kind)
      <3>1. ds[c] = cs[c]
        BY <1>1, <2>2 DEF Superseded
      <3> QED BY <2>2, <3>1 DEF Ending
    <2> QED BY <2>1, <2>2
  <1>2. Kept(cs, Superseded(cs, "LIST"))
    <2>1. PICK ds : ds = Superseded(cs, "LIST")
      OBVIOUS
    <2>2. ASSUME NEW c \in Calls
          PROVE  /\ AccountCall(ds, c) <=> AccountCall(cs, c)
                 /\ AccountCall(ds, c) => ds[c] = cs[c]
                 /\ Ending(ds, c) <=> Ending(cs, c)
      BY <1>1, <2>1 DEF AccountCall
    <2> QED BY <2>1, <2>2 DEF Kept
  <1>3. ASSUME NEW c \in Calls
        PROVE  /\ ~AccountCall(ForgottenCalls(cs), c)
               /\ Ending(ForgottenCalls(cs), c) <=> Ending(cs, c)
    <2>1. PICK ds : ds = ForgottenCalls(cs)
      OBVIOUS
    <2>2. ds = Superseded(cs, "ACCOUNT")
      BY <2>1 DEF ForgottenCalls
    <2> QED BY <1>1, <2>1, <2>2 DEF AccountCall
  <1> QED BY <1>2, <1>3

LEMMA BecomeKeeps ==
  ASSUME NEW s, NEW cs, CallsTyped(cs), Become(s, cs)
  PROVE  app' = s /\ Kept(cs, calls')
  <1>1. Kept(cs, cs)
    BY DEF Kept
  <1>2. calls' = cs \/ calls' = Superseded(cs, "LIST")
    BY DEF Become
  <1> QED BY <1>1, <1>2, Dropped DEF Become

\* Each operation of the store, field by field.
LEMMA Fields ==
  ASSUME NEW s \in Store
  PROVE  /\ \A t : t = Forgotten(s) =>
              /\ t \in Store /\ t.status = s.status /\ t.user = s.user /\ t.error = s.error
              /\ t.accountUserId = NoUser /\ t.accountLoad = NoCall /\ t.signingOut = s.signingOut
         /\ \A status \in Status, user \in Users \cup {NoUser}, error \in Why : \A t :
              t = State(s, status, user, error) =>
                /\ t \in Store /\ t.status = status /\ t.user = user /\ t.error = error
                /\ t.accountUserId = s.accountUserId /\ t.accountLoad = s.accountLoad
                /\ t.signingOut = s.signingOut
         /\ \A b \in BOOLEAN : \A t : t = [s EXCEPT !.signingOut = b] =>
              /\ t \in Store /\ t.status = s.status /\ t.user = s.user /\ t.error = s.error
              /\ t.accountUserId = s.accountUserId /\ t.accountLoad = s.accountLoad
              /\ t.signingOut = b
         /\ \A c \in Calls \cup {NoCall} : \A t : t = [s EXCEPT !.accountLoad = c] =>
              /\ t \in Store /\ t.status = s.status /\ t.user = s.user /\ t.error = s.error
              /\ t.accountUserId = s.accountUserId /\ t.accountLoad = c
              /\ t.signingOut = s.signingOut
         /\ \A u \in Users : \A t : t = [s EXCEPT !.accountUserId = u] =>
              /\ t \in Store /\ t.status = s.status /\ t.user = s.user /\ t.error = s.error
              /\ t.accountUserId = u /\ t.accountLoad = s.accountLoad
              /\ t.signingOut = s.signingOut
  BY DEF Store, Forgotten, State

\* No sign-out is lost while its call or its flow goes on.
LEMMA LeavingKept ==
  ASSUME \A c \in Calls : Ending(calls, c) => Ending(calls', c),
         \A f \in Flows : flows[f].op = "END_SESSION" => flows'[f].op = "END_SESSION"
  PROVE  StillLeaving
  BY DEF StillLeaving, Leaving, Ending

LEMMA FlowsLeave ==
  ASSUME MobileTyped
  PROVE  /\ \A c : flows' = Woken(c) =>
              \A f \in Flows : flows[f].op = "END_SESSION" => flows'[f].op = "END_SESSION"
         /\ \A f \in Flows : \A next : Goes(f, next) /\ flows[f].op # "END_SESSION" =>
              /\ \A g \in Flows : flows[g].op = "END_SESSION" => flows'[g].op = "END_SESSION"
              /\ flows'[f] = next
  <1>1. ASSUME NEW c, flows' = Woken(c), NEW f \in Flows, flows[f].op = "END_SESSION"
        PROVE  flows'[f].op = "END_SESSION"
    BY <1>1 DEF Woken
  <1>2. ASSUME NEW f \in Flows, NEW next, Goes(f, next)
        PROVE  flows'[f] = next /\ \A g \in Flows : g # f => flows'[g] = flows[g]
    BY <1>2 DEF Goes, MobileTyped, FlowsTyped
  <1> QED BY <1>1, <1>2

LEMMA FollowKept ==
  ASSUME AgreeInv, Kept(calls, calls'),
         app'.accountUserId = app.accountUserId, app'.accountLoad = app.accountLoad
  PROVE  Follow
  BY DEF Follow, SameLoads, Kept, AgreeInv, Loads

\* A call is over: its answer is no longer waited for.
LEMMA CallEnds ==
  ASSUME MobileTyped, NEW c \in Calls, NEW s \in Store, NEW cs, CallsTyped(cs), EndCall(c, s, cs)
  PROVE  /\ app'.status = s.status /\ app'.user = s.user /\ app'.error = s.error
         /\ app'.accountUserId = s.accountUserId /\ app'.signingOut = s.signingOut
         /\ app'.accountLoad = (IF s.accountLoad = c THEN NoCall ELSE s.accountLoad)
         /\ ~AccountCall(calls', c)
         /\ \A d \in Calls : d # c => /\ AccountCall(calls', d) <=> AccountCall(cs, d)
                                      /\ AccountCall(calls', d) => calls'[d] = cs[d]
                                      /\ Ending(calls', d) <=> Ending(cs, d)
         /\ \A f \in Flows : flows[f].op = "END_SESSION" => flows'[f].op = "END_SESSION"
  <1>1. PICK d : d = IF s.accountLoad = c THEN NoCall ELSE s.accountLoad
    OBVIOUS
  <1>2. PICK t : t = [s EXCEPT !.accountLoad = d]
    OBVIOUS
  <1>3. PICK ds : ds = [cs EXCEPT ![c] = Spare]
    OBVIOUS
  <1>4. Become(t, ds) /\ flows' = Woken(c)
    BY <1>1, <1>2, <1>3 DEF EndCall
  <1>5. d \in Calls \cup {NoCall}
    BY <1>1 DEF Store
  <1>6. /\ t.status = s.status /\ t.user = s.user /\ t.error = s.error
        /\ t.accountUserId = s.accountUserId /\ t.accountLoad = d /\ t.signingOut = s.signingOut
    BY <1>2, <1>5, Fields
  <1>7. ds[c] = Spare /\ \A e \in Calls : e # c => ds[e] = cs[e]
    BY <1>3 DEF CallsTyped
  <1>8. CallsTyped(ds)
    BY <1>3, <1>7 DEF CallsTyped, HasToken
  <1>9. app' = t /\ Kept(ds, calls')
    BY <1>4, <1>8, BecomeKeeps
  <1>10. ~AccountCall(calls', c)
    BY <1>7, <1>9 DEF Kept, AccountCall
  <1>11. ASSUME NEW e \in Calls, e # c
         PROVE  /\ AccountCall(calls', e) <=> AccountCall(cs, e)
                /\ AccountCall(calls', e) => calls'[e] = cs[e]
                /\ Ending(calls', e) <=> Ending(cs, e)
    BY <1>7, <1>9, <1>11 DEF Kept, AccountCall, Ending
  <1> QED BY <1>1, <1>4, <1>6, <1>9, <1>10, <1>11, FlowsLeave

\* What every step but the start and the end of a sign-out leaves.
Quietly == StillLeaving /\ app'.signingOut = app.signingOut

LEMMA LoadOf ==
  ASSUME AgreeInv, MobileTyped, NEW c \in Calls
  PROVE  /\ AccountCall(calls, c) => app.accountLoad = c /\ Applies(c) /\ ~Ending(calls, c)
         /\ Applies(c) /\ calls[c] # Spare => AccountCall(calls, c)
         /\ app.accountLoad = c => AccountCall(calls, c)
  BY MobileConstants DEF AgreeInv, Loads, AccountCall, Applies, Ending

\* An answer that does not count changes nothing but the calls.
LEMMA EndsQuietly ==
  ASSUME MobileTyped, AgreeInv, NEW c \in Calls, ~AccountCall(calls, c), NEW s \in Store,
         s.status = app.status, s.user = app.user, s.error = app.error,
         s.accountUserId = app.accountUserId, s.accountLoad = app.accountLoad,
         EndCall(c, s, calls)
  PROVE  /\ Follow /\ SameView /\ app'.signingOut = s.signingOut
         /\ ~Ending(calls, c) => StillLeaving
  <1>1. CallsTyped(calls)
    BY DEF MobileTyped
  <1>2. /\ app'.status = s.status /\ app'.user = s.user /\ app'.error = s.error
        /\ app'.accountUserId = s.accountUserId /\ app'.signingOut = s.signingOut
        /\ app'.accountLoad = (IF s.accountLoad = c THEN NoCall ELSE s.accountLoad)
        /\ ~AccountCall(calls', c)
        /\ \A d \in Calls : d # c => /\ AccountCall(calls', d) <=> AccountCall(calls, d)
                                     /\ AccountCall(calls', d) => calls'[d] = calls[d]
                                     /\ Ending(calls', d) <=> Ending(calls, d)
        /\ \A f \in Flows : flows[f].op = "END_SESSION" => flows'[f].op = "END_SESSION"
    BY <1>1, CallEnds
  <1>3. app'.accountLoad = app.accountLoad
    BY <1>2, LoadOf
  <1>4. Follow
    BY <1>2, <1>3 DEF Follow, SameLoads, AgreeInv, Loads
  <1>5. ~Ending(calls, c) => StillLeaving
    BY <1>2, LeavingKept
  <1> QED BY <1>2, <1>4, <1>5 DEF SameView

\* An answer of the account that counts: what the store makes of it, and no more calls.
LEMMA EndsAccount ==
  ASSUME MobileTyped, AgreeInv, NEW c \in Calls, AccountCall(calls, c), NEW s \in Store,
         s.accountLoad \in {app.accountLoad, NoCall}, s.signingOut = app.signingOut,
         NEW cs \in {calls, ForgottenCalls(calls)}, EndCall(c, s, cs)
  PROVE  /\ app'.status = s.status /\ app'.user = s.user /\ app'.error = s.error
         /\ app'.accountUserId = s.accountUserId /\ app'.accountLoad = NoCall
         /\ NoLoads /\ Quietly
  <1>1. CallsTyped(calls)
    BY DEF MobileTyped
  <1>2. CallsTyped(cs)
    BY <1>1, SupersededTyped DEF ForgottenCalls
  <1>3. \A d \in Calls : (d # c => ~AccountCall(cs, d)) /\ (Ending(cs, d) <=> Ending(calls, d))
    <2>1. CASE cs = calls
      BY <2>1, LoadOf
    <2>2. CASE cs = ForgottenCalls(calls)
      BY <1>1, <2>2, Dropped
    <2> QED BY <2>1, <2>2
  <1>4. /\ app'.status = s.status /\ app'.user = s.user /\ app'.error = s.error
        /\ app'.accountUserId = s.accountUserId /\ app'.signingOut = s.signingOut
        /\ app'.accountLoad = (IF s.accountLoad = c THEN NoCall ELSE s.accountLoad)
        /\ ~AccountCall(calls', c)
        /\ \A d \in Calls : d # c => /\ AccountCall(calls', d) <=> AccountCall(cs, d)
                                     /\ AccountCall(calls', d) => calls'[d] = cs[d]
                                     /\ Ending(calls', d) <=> Ending(cs, d)
        /\ \A f \in Flows : flows[f].op = "END_SESSION" => flows'[f].op = "END_SESSION"
    BY <1>2, CallEnds
  <1>5. app'.accountLoad = NoCall
    BY <1>4, LoadOf
  <1>6. NoLoads
    BY <1>3, <1>4 DEF NoLoads
  <1>7. StillLeaving
    BY <1>3, <1>4, LeavingKept, LoadOf
  <1> QED BY <1>4, <1>5, <1>6, <1>7 DEF Quietly

\* What is known of a call that is stepped.
Stepped(c) == calls[c] # Spare /\ ~Ending(calls, c)

LEMMA RefusedAgrees ==
  ASSUME MobileInv, AgreeInv, NEW c \in Calls, Stepped(c), NEW why \in Why, Unauthorized(c, why)
  PROVE  Quietly /\ ((Follow /\ SameView) \/ (Left /\ app'.error = why))
  <1>0. MobileTyped /\ app \in Store
    BY DEF MobileInv, MobileTyped, AppTyped
  <1>1. CASE ~Applies(c)
    BY <1>0, <1>1, LoadOf, EndsQuietly DEF Unauthorized, Quietly, Stepped
  <1>2. CASE Applies(c)
    <2>1. PICK r : r = Forgotten(app)
      OBVIOUS
    <2>2. PICK s : s = State(r, "anonymous", NoUser, why)
      OBVIOUS
    <2>3. PICK cs : cs = ForgottenCalls(calls)
      OBVIOUS
    <2>4. r \in Store /\ r.accountUserId = NoUser /\ r.accountLoad = NoCall /\ r.signingOut = app.signingOut
      BY <1>0, <2>1, Fields
    <2>5. "anonymous" \in Status
      BY DEF Status
    <2>6. /\ s \in Store /\ s.status = "anonymous" /\ s.error = why /\ s.accountUserId = NoUser
          /\ s.accountLoad = NoCall /\ s.signingOut = app.signingOut
      BY <2>2, <2>4, <2>5, Fields
    <2>7. EndCall(c, s, cs)
      BY <1>2, <2>1, <2>2, <2>3 DEF Unauthorized
    <2>8. AccountCall(calls, c)
      BY <1>0, <1>2, LoadOf DEF Stepped
    <2> QED BY <1>0, <2>3, <2>6, <2>7, <2>8, EndsAccount DEF Left
  <1> QED BY <1>1, <1>2

LEMMA UnreachedAgrees ==
  ASSUME MobileInv, AgreeInv, NEW c \in Calls, Stepped(c), Unreached(c)
  PROVE  Quietly /\ ((Follow /\ SameView) \/ Said)
  <1>0. MobileTyped /\ app \in Store
    BY DEF MobileInv, MobileTyped, AppTyped
  <1>1. CASE ~Applies(c)
    <2>1. EndCall(c, app, calls)
      BY <1>1 DEF Unreached
    <2> QED BY <1>0, <1>1, <2>1, LoadOf, EndsQuietly DEF Quietly, Stepped
  <1>2. CASE Applies(c)
    <2>1. PICK s : s = State(app, "unavailable", NoUser, "OFFLINE")
      OBVIOUS
    <2>2. "unavailable" \in Status /\ "OFFLINE" \in Why
      BY DEF Status, Why
    <2>3. /\ s \in Store /\ s.status = "unavailable" /\ s.accountUserId = app.accountUserId
          /\ s.accountLoad = app.accountLoad /\ s.signingOut = app.signingOut
      BY <1>0, <2>1, <2>2, Fields
    <2>4. EndCall(c, s, calls)
      BY <1>2, <2>1 DEF Unreached
    <2>5. AccountCall(calls, c)
      BY <1>0, <1>2, LoadOf DEF Stepped
    <2> QED BY <1>0, <2>3, <2>4, <2>5, EndsAccount DEF Said
  <1> QED BY <1>1, <1>2

LEMMA UnusableAgrees ==
  ASSUME MobileInv, AgreeInv, NEW c \in Calls, Stepped(c), calls[c].op # "TOKEN",
         NEW why \in Why, Unusable(c, why)
  PROVE  /\ StillLeaving
         /\ app'.signingOut => app.signingOut \/ Leaving'
         /\ (Follow /\ SameView) \/ (Left /\ Leaving')
  <1>0. MobileTyped /\ app \in Store /\ CallsTyped(calls)
    BY DEF MobileInv, MobileTyped, AppTyped
  <1>1. CASE ~Applies(c)
    BY <1>0, <1>1, LoadOf, EndsQuietly DEF Unusable, Stepped
  <1>2. CASE Applies(c)
    <2>1. PICK r : r = Forgotten(app)
      OBVIOUS
    <2>2. PICK t : t = State(r, "anonymous", NoUser, why)
      OBVIOUS
    <2>3. PICK s : s = [t EXCEPT !.signingOut = TRUE]
      OBVIOUS
    <2>4. PICK ds : ds = ForgottenCalls(calls)
      OBVIOUS
    <2>5. PICK x : x = [ds[c] EXCEPT !.op = "END_SESSION"]
      OBVIOUS
    <2>6. PICK cs : cs = [ds EXCEPT ![c] = x]
      OBVIOUS
    <2>7. Become(s, cs) /\ UNCHANGED flows
      BY <1>2, <2>1, <2>2, <2>3, <2>4, <2>5, <2>6 DEF Unusable
    <2>8. r \in Store /\ r.accountUserId = NoUser /\ r.accountLoad = NoCall
      BY <1>0, <2>1, Fields
    <2>9. "anonymous" \in Status
      BY DEF Status
    <2>10. /\ t \in Store /\ t.status = "anonymous" /\ t.accountUserId = NoUser
           /\ t.accountLoad = NoCall
      BY <2>2, <2>8, <2>9, Fields
    <2>11. s.status = "anonymous" /\ s.accountUserId = NoUser /\ s.accountLoad = NoCall
      BY <2>3, <2>10, Fields
    <2>12. CallsTyped(ds)
      BY <1>0, <2>4, SupersededTyped DEF ForgottenCalls
    <2>13. ds[c] = [calls[c] EXCEPT !.current = FALSE] /\ calls[c] \in Sending
      BY <1>0, <1>2, <2>4 DEF ForgottenCalls, Superseded, Applies, Stepped, CallsTyped
    <2>14. ds[c] \in Sending /\ ds[c].current = FALSE /\ ds[c].token = calls[c].token
      BY <2>13 DEF Sending
    <2>15. x \in Sending /\ x.op = "END_SESSION" /\ x.current = FALSE /\ x.token = ds[c].token
      BY <2>5, <2>14 DEF Sending
    <2>16. cs[c] = x /\ \A d \in Calls : d # c => cs[d] = ds[d]
      BY <2>6, <2>12 DEF CallsTyped
    <2>17. CallsTyped(cs)
      <3>1. HasToken(x)
        BY <1>0, <2>13, <2>14, <2>15, SpareIs DEF CallsTyped, HasToken
      <3> QED BY <2>6, <2>12, <2>15, <2>16, <3>1 DEF CallsTyped
    <2>18. app' = s /\ Kept(cs, calls')
      BY <2>7, <2>17, BecomeKeeps
    <2>19. \A d \in Calls : ~AccountCall(ds, d) /\ (Ending(ds, d) <=> Ending(calls, d))
      BY <1>0, <2>4, Dropped
    <2>20. \A d \in Calls : ~AccountCall(cs, d)
      BY <2>15, <2>16, <2>19 DEF AccountCall
    <2>21. NoLoads
      BY <2>18, <2>20 DEF Kept, NoLoads
    <2>22. \A d \in Calls : Ending(calls, d) => Ending(cs, d)
      BY <2>15, <2>16, <2>19 DEF Ending
    <2>23. Ending(calls', c) /\ \A d \in Calls : Ending(calls, d) => Ending(calls', d)
      BY <2>15, <2>16, <2>18, <2>22 DEF Kept, Ending
    <2>24. StillLeaving /\ Leaving'
      <3>1. StillLeaving
        BY <2>7, <2>23, LeavingKept
      <3>2. Leaving'
        BY <2>23 DEF Leaving, Ending
      <3> QED BY <3>1, <3>2
    <2> QED BY <2>11, <2>18, <2>21, <2>24 DEF Left
  <1> QED BY <1>1, <1>2

\* 200: whose account it is, or the list.
LEMMA AnsweredAgrees ==
  ASSUME MobileInv, AgreeInv, NEW c \in Calls, Stepped(c), calls[c].op # "TOKEN", CallAnswered(c)
  PROVE  Quietly /\ ((Follow /\ SameView) \/ Said)
  <1>0. MobileTyped /\ app \in Store /\ CallsTyped(calls)
    BY DEF MobileInv, MobileTyped, AppTyped
  <1>1. CASE Applies(c) /\ EndCall(c, State(app, "authenticated", calls[c].token.user, "NONE"), calls)
    <2>1. PICK u : u = calls[c].token.user
      OBVIOUS
    <2>2. PICK s : s = State(app, "authenticated", u, "NONE")
      OBVIOUS
    <2>3. "authenticated" \in Status /\ "NONE" \in Why
      BY DEF Status, Why
    <2>4. u \in Users \cup {NoUser}
      BY <1>0, <2>1, TokensAre DEF Stepped, CallsTyped, HasToken
    <2>5. /\ s \in Store /\ s.status = "authenticated" /\ s.user = u /\ s.accountUserId = app.accountUserId
          /\ s.accountLoad = app.accountLoad /\ s.signingOut = app.signingOut
      BY <1>0, <2>2, <2>3, <2>4, Fields
    <2>6. EndCall(c, s, calls)
      BY <1>1, <2>1, <2>2
    <2>7. AccountCall(calls, c)
      BY <1>0, <1>1, LoadOf DEF Stepped
    <2> QED BY <1>0, <2>1, <2>5, <2>6, <2>7, EndsAccount DEF Said
  <1>2. CASE calls[c].kind = "LIST" /\ app' = app /\ flows' = flows /\ calls' = [calls EXCEPT ![c] = Spare]
    <2>1. calls'[c] = Spare /\ \A d \in Calls : d # c => calls'[d] = calls[d]
      BY <1>0, <1>2 DEF CallsTyped
    <2>2. Kept(calls, calls')
      BY <1>2, <2>1, SpareIs DEF Kept, AccountCall, Ending, Stepped
    <2>3. StillLeaving
      BY <1>2, <2>2, LeavingKept DEF Kept
    <2> QED BY <1>2, <2>2, <2>3, FollowKept DEF Quietly, SameView
  <1>3. CASE ~Applies(c) /\ EndCall(c, app, calls)
    BY <1>0, <1>3, LoadOf, EndsQuietly DEF Stepped, Quietly
  <1> QED BY <1>1, <1>2, <1>3 DEF CallAnswered, Applies

\* A call goes on, with its token or the session's.
LEMMA AdvancedAgrees ==
  ASSUME MobileInv, AgreeInv, NEW c \in Calls, Stepped(c),
         NEW op \in {"SENT", "REJECTED", "RESENT", "LEAVING"}, NEW t, Advance(c, op, t),
         t = held \/ (calls[c].op # "TOKEN" /\ t = calls[c].token)
  PROVE  Quietly /\ Follow /\ SameView
  <1>1. CallsTyped(calls)
    BY DEF MobileInv, MobileTyped
  <1>2. PICK x : x = calls[c]
    OBVIOUS
  <1>3. PICK y : y = [x EXCEPT !.op = op, !.token = t]
    OBVIOUS
  <1>4. x \in Sending
    BY <1>1, <1>2 DEF CallsTyped, Stepped
  <1>5. y.op = op /\ y.token = t /\ y.kind = x.kind /\ y.current = x.current /\ y # Spare
    BY <1>3, <1>4, SpareIs DEF Sending
  <1>6. calls' = [calls EXCEPT ![c] = y] /\ UNCHANGED <<app, flows>>
    BY <1>2, <1>3 DEF Advance
  <1>7. calls'[c] = y /\ \A d \in Calls : d # c => calls'[d] = calls[d]
    BY <1>1, <1>6 DEF CallsTyped
  <1>8. \A d \in Calls : AccountCall(calls', d) <=> AccountCall(calls, d)
    BY <1>2, <1>5, <1>7 DEF AccountCall, Stepped
  <1>9. \A d \in Calls : Ending(calls, d) => Ending(calls', d)
    BY <1>7 DEF Ending, Stepped
  <1>10. ASSUME NEW d \in Calls, AccountCall(calls', d)
         PROVE  /\ calls'[d].op # "END_SESSION"
                /\ \/ calls'[d].op = "TOKEN"
                   \/ calls'[d].token = held
                   \/ calls[d].op # "TOKEN" /\ calls'[d].token = calls[d].token
    <2>1. CASE d = c
      BY <1>5, <1>7, <2>1
    <2>2. CASE d # c
      BY <1>7, <1>8, <1>10, <2>2 DEF AgreeInv, Loads
    <2> QED BY <2>1, <2>2
  <1>11. StillLeaving
    BY <1>6, <1>9, LeavingKept
  <1> QED BY <1>6, <1>8, <1>10, <1>11 DEF Quietly, Follow, SameLoads, SameView

\* loadAccount, of the account whose call is under way or with a call of its own.
LEMMA LoadAgrees ==
  ASSUME MobileInv, AgreeInv, NEW u \in Users, LoadAccount(u, app, calls)
  PROVE  /\ \A c \in Calls : Ending(calls, c) => Ending(calls', c)
         /\ app'.signingOut = app.signingOut
         /\ \/ Follow /\ SameView /\ app.accountLoad # NoCall /\ app.accountUserId = u
            \/ Begins(u)
  <1>0. MobileTyped /\ app \in Store /\ CallsTyped(calls)
    BY DEF MobileInv, MobileTyped, AppTyped
  <1>1. CASE app.accountLoad # NoCall /\ app.accountUserId = u
    <2>1. Become(app, calls)
      BY <1>1 DEF LoadAccount
    <2>2. app' = app /\ Kept(calls, calls')
      BY <1>0, <2>1, BecomeKeeps
    <2> QED BY <1>1, <2>2, FollowKept DEF Kept, SameView
  <1>2. CASE ~(app.accountLoad # NoCall /\ app.accountUserId = u)
    <2>1. PICK c \in Free(calls) :
            LET fresh == app.accountUserId # u
                t  == IF fresh THEN State([Forgotten(app) EXCEPT !.accountUserId = u],
                                          "loading", NoUser, "NONE") ELSE app
                ds == IF fresh THEN ForgottenCalls(calls) ELSE calls
            IN Become([t EXCEPT !.accountLoad = c], [ds EXCEPT ![c] = NewCall("ACCOUNT")])
      BY <1>2 DEF LoadAccount
    <2>a. PICK ds : ds = IF app.accountUserId # u THEN ForgottenCalls(calls) ELSE calls
      OBVIOUS
    <2>b. PICK r : r = [Forgotten(app) EXCEPT !.accountUserId = u]
      OBVIOUS
    <2>c. PICK t : t = IF app.accountUserId # u THEN State(r, "loading", NoUser, "NONE") ELSE app
      OBVIOUS
    <2>d. PICK s : s = [t EXCEPT !.accountLoad = c]
      OBVIOUS
    <2>e. PICK x : x = NewCall("ACCOUNT")
      OBVIOUS
    <2>f. PICK cs : cs = [ds EXCEPT ![c] = x]
      OBVIOUS
    <2>2. Become(s, cs) /\ c \in Calls /\ calls[c] = Spare
      BY <2>1, <2>a, <2>b, <2>c, <2>d, <2>e, <2>f DEF Free
    <2>3. /\ t \in Store /\ t.accountUserId = u /\ t.signingOut = app.signingOut
          /\ app.accountUserId # u => t.status = "loading"
          /\ app.accountUserId = u => t = app
      <3>1. CASE app.accountUserId = u
        BY <1>0, <2>c, <3>1
      <3>2. CASE app.accountUserId # u
        <4> PICK q : q = Forgotten(app)
          OBVIOUS
        <4>1. q \in Store /\ q.signingOut = app.signingOut
          BY <1>0, Fields
        <4>2. r = [q EXCEPT !.accountUserId = u]
          BY <2>b
        <4>3. r \in Store /\ r.signingOut = app.signingOut /\ r.accountUserId = u
          BY <4>1, <4>2, Fields
        <4>4. t = State(r, "loading", NoUser, "NONE")
          BY <2>c, <3>2
        <4>5. "loading" \in Status /\ NoUser \in Users \cup {NoUser} /\ "NONE" \in Why
          BY DEF Status, Why
        <4>6. t \in Store /\ t.signingOut = app.signingOut /\ t.accountUserId = u /\ t.status = "loading"
          BY <4>3, <4>4, <4>5 DEF State, Store
        <4> QED BY <3>2, <4>6
      <3> QED BY <3>1, <3>2
    <2>4. /\ s.accountUserId = u /\ s.status = t.status /\ s.user = t.user /\ s.error = t.error
          /\ s.accountLoad = c /\ s.signingOut = t.signingOut
      BY <2>2, <2>3, <2>d, Fields
    <2>5. /\ CallsTyped(ds)
          /\ \A d \in Calls : ~AccountCall(ds, d) /\ (Ending(ds, d) <=> Ending(calls, d))
      <3>1. CASE app.accountUserId # u
        BY <1>0, <2>a, <3>1, Dropped, SupersededTyped DEF ForgottenCalls
      <3>2. CASE app.accountUserId = u
        <4>1. app.accountLoad = NoCall
          BY <1>2, <3>2
        <4>2. \A d \in Calls : ~AccountCall(calls, d)
          BY <4>1, MobileConstants DEF AgreeInv, Loads
        <4> QED BY <1>0, <2>a, <3>2, <4>2
      <3> QED BY <3>1, <3>2
    <2>6. x \in Sending /\ HasToken(x) /\ x.op = "TOKEN" /\ x.kind = "ACCOUNT" /\ x.current /\ x # Spare
      BY <2>e, NewCallIs, SpareIs DEF NewCall
    <2>7. cs[c] = x /\ \A d \in Calls : d # c => cs[d] = ds[d]
      BY <2>2, <2>5, <2>f DEF CallsTyped
    <2>8. CallsTyped(cs)
      BY <2>2, <2>5, <2>6, <2>7, <2>f DEF CallsTyped
    <2>9. app' = s /\ Kept(cs, calls')
      BY <2>2, <2>8, BecomeKeeps
    <2>10. \A d \in Calls : AccountCall(cs, d) <=> d = c
      BY <2>5, <2>6, <2>7 DEF AccountCall
    <2>11. /\ \A d \in Calls : AccountCall(calls', d) <=> d = c
           /\ calls'[c].op = "TOKEN"
      BY <2>2, <2>6, <2>7, <2>9, <2>10 DEF Kept
    <2>12. \A d \in Calls : Ending(calls, d) => Ending(calls', d)
      BY <2>2, <2>5, <2>7, <2>9, SpareIs DEF Kept, Ending
    <2>13. app'.status = "loading" \/ (app.accountUserId = u /\ app.accountLoad = NoCall /\ SameView)
      BY <1>2, <2>3, <2>4, <2>9 DEF SameView
    <2>14. Begins(u)
      BY <2>2, <2>4, <2>9, <2>11, <2>13 DEF Begins
    <2> QED BY <2>3, <2>4, <2>9, <2>12, <2>14
  <1> QED BY <1>1, <1>2

-----------------------------------------------------------------------------
(* The actions.                                                            *)
\* A customer signs out, or is signed out by the app.
LEMMA SignedOutAgrees ==
  ASSUME MobileInv, AgreeInv, NEW f \in Flows, flows[f].op # "END_SESSION", UNCHANGED <<held, events>>,
         Become(SignedOut(app), ForgottenCalls(calls)), Goes(f, Flow("END_SESSION", NoUser, NoCall))
  PROVE  GoesOn
  <1>0. MobileTyped /\ app \in Store /\ CallsTyped(calls)
    BY DEF MobileInv, MobileTyped, AppTyped
  <1>1. PICK r : r = Forgotten(app)
    OBVIOUS
  <1>2. PICK t : t = State(r, "anonymous", NoUser, "NONE")
    OBVIOUS
  <1>3. PICK s : s = [t EXCEPT !.signingOut = TRUE]
    OBVIOUS
  <1>4. r \in Store /\ r.accountUserId = NoUser /\ r.accountLoad = NoCall
    BY <1>0, <1>1, Fields
  <1>5. t \in Store /\ t.status = "anonymous" /\ t.accountUserId = NoUser /\ t.accountLoad = NoCall
    BY <1>2, <1>4 DEF State, Store, Status, Why
  <1>6. s.status = "anonymous" /\ s.accountUserId = NoUser /\ s.accountLoad = NoCall
    BY <1>3, <1>5, Fields
  <1>7. PICK cs : cs = ForgottenCalls(calls)
    OBVIOUS
  <1>8. CallsTyped(cs) /\ Become(s, cs)
    BY <1>0, <1>1, <1>2, <1>3, <1>7, SupersededTyped DEF SignedOut, ForgottenCalls
  <1>9. app' = s /\ Kept(cs, calls')
    BY <1>8, BecomeKeeps
  <1>10. \A c \in Calls : ~AccountCall(calls', c) /\ (Ending(calls, c) => Ending(calls', c))
    BY <1>0, <1>7, <1>9, Dropped DEF Kept
  <1>11. Left
    BY <1>6, <1>9, <1>10 DEF Left, NoLoads
  <1>12. Leaving'
    <2>1. flows'[f] = Flow("END_SESSION", NoUser, NoCall)
      BY <1>0, FlowsLeave
    <2> QED BY <2>1 DEF Leaving, Flow
  <1> QED BY <1>11, <1>12 DEF GoesOn, Still, StillLeaving

\* A step of a flow that leaves the store alone.
LEMMA FlowAgrees ==
  ASSUME MobileInv, AgreeInv, NEW f \in Flows, flows[f].op # "END_SESSION", NEW next, Goes(f, next),
         UNCHANGED <<held, events, app, calls>>
  PROVE  GoesOn
  <1>1. Kept(calls, calls')
    BY DEF Kept
  <1>2. StillLeaving
    BY LeavingKept, FlowsLeave DEF MobileInv
  <1> QED BY <1>1, <1>2, FollowKept DEF GoesOn, Still, SameView

LEMMA EventAgrees ==
  ASSUME MobileInv, AgreeInv, HandleAuthEvent
  PROVE  TakesEvent
  <1>0. MobileTyped /\ app \in Store /\ CallsTyped(calls)
    BY DEF MobileInv, MobileTyped, AppTyped
  <1>1. PICK e : e = Head(events)
    OBVIOUS
  <1>2. events # <<>> /\ events' = Tail(events) /\ UNCHANGED <<held, flows>>
    BY DEF HandleAuthEvent
  <1>3. e.user \in Users \cup {NoUser}
    <2>1. Len(events) \in Nat /\ Len(events) # 0 /\ Head(events) = events[1]
      BY <1>0, <1>2, Queue
    <2>2. 1 \in 1..Len(events)
      BY <2>1
    <2> QED BY <1>0, <1>1, <2>1, <2>2, Queue
  <1>4. ASSUME \A c \in Calls : Ending(calls, c) => Ending(calls', c), app'.signingOut = app.signingOut
        PROVE  Takes
    BY <1>2, <1>4, LeavingKept DEF Takes
  <1>5. CASE /\ e.user = NoUser
             /\ LET s == Forgotten(app) IN
                Become(IF s.status = "anonymous" THEN s ELSE State(s, "anonymous", NoUser, "NONE"),
                       ForgottenCalls(calls))
    <2>1. PICK r : r = Forgotten(app)
      OBVIOUS
    <2>2. PICK s : s = IF r.status = "anonymous" THEN r ELSE State(r, "anonymous", NoUser, "NONE")
      OBVIOUS
    <2>3. r \in Store /\ r.accountUserId = NoUser /\ r.accountLoad = NoCall /\ r.signingOut = app.signingOut
      BY <1>0, <2>1, Fields
    <2>4. /\ s.status = "anonymous" /\ s.accountUserId = NoUser /\ s.accountLoad = NoCall
          /\ s.signingOut = app.signingOut
      BY <2>2, <2>3 DEF State, Store, Status, Why
    <2>5. PICK cs : cs = ForgottenCalls(calls)
      OBVIOUS
    <2>6. Become(s, cs) /\ CallsTyped(cs)
      BY <1>0, <1>5, <2>1, <2>2, <2>5, SupersededTyped DEF ForgottenCalls
    <2>7. app' = s /\ Kept(cs, calls')
      BY <2>6, BecomeKeeps
    <2>8. \A c \in Calls : ~AccountCall(calls', c) /\ (Ending(calls, c) => Ending(calls', c))
      BY <1>0, <2>5, <2>7, Dropped DEF Kept
    <2>9. Left
      BY <2>4, <2>7, <2>8 DEF Left, NoLoads
    <2> QED BY <1>1, <1>4, <1>5, <2>4, <2>7, <2>8, <2>9 DEF TakesEvent
  <1>6. CASE /\ e.user # NoUser
             /\ \/ e.during
                \/ /\ e.user = app.accountUserId
                   /\ app.status = "authenticated" \/ app.accountLoad # NoCall
             /\ UNCHANGED <<app, calls, list>>
    <2>1. Kept(calls, calls')
      BY <1>6 DEF Kept
    <2>2. Follow /\ SameView
      BY <1>6, <2>1, FollowKept DEF SameView
    <2> QED BY <1>1, <1>4, <1>6, <2>2 DEF TakesEvent
  <1>7. CASE /\ e.user # NoUser /\ ~e.during
             /\ \/ e.user # app.accountUserId
                \/ app.status # "authenticated" /\ app.accountLoad = NoCall
             /\ LoadAccount(e.user, app, calls)
    <2>1. /\ \A c \in Calls : Ending(calls, c) => Ending(calls', c)
          /\ app'.signingOut = app.signingOut
          /\ Begins(e.user)
      BY <1>3, <1>7, LoadAgrees
    <2> QED BY <1>1, <1>4, <1>7, <2>1 DEF TakesEvent
  <1> QED BY <1>1, <1>5, <1>6, <1>7 DEF HandleAuthEvent

LEMMA CallAgrees ==
  ASSUME MobileInv, AgreeInv, NEW c \in Calls, FetchList(c) \/ CallStep(c)
  PROVE  GoesOn \/ Changes
  <1>0. MobileTyped /\ app \in Store /\ CallsTyped(calls)
    BY DEF MobileInv, MobileTyped, AppTyped
  <1>1. \A d \in Calls : calls[d].op \notin {"IDLE", "END_SESSION"} => Stepped(d)
    BY SpareIs DEF Stepped, Ending
  <1>2. "SIGN_IN" \in Why /\ "EXPIRED" \in Why /\ "CONFLICT" \in Why
    BY DEF Why
  <1>3. held # NoToken => held.user # NoUser
    BY <1>0, TokensAre DEF MobileTyped, HeldTyped
  <1>4. ASSUME UNCHANGED <<held, events>>, Quietly,
               \/ Follow /\ SameView
               \/ Said
               \/ Left /\ (held = NoToken \/ app'.error \in {"EXPIRED", "SIGN_IN"})
        PROVE  GoesOn
    BY <1>0, <1>4 DEF GoesOn, Still, Quietly, AgreeInv, Ends, StillLeaving
  <1>5. CASE FetchList(c)
    <2>1. PICK ds : ds = Superseded(calls, "LIST")
      OBVIOUS
    <2>2. PICK x : x = NewCall("LIST")
      OBVIOUS
    <2>3. x.op = "TOKEN" /\ x.kind = "LIST"
      BY <2>2, NewCallIs
    <2>4. calls' = [ds EXCEPT ![c] = x] /\ calls[c] = Spare /\ UNCHANGED <<held, events, app, flows>>
      BY <1>5, <2>1, <2>2 DEF FetchList, Free
    <2>5. CallsTyped(ds) /\ Kept(calls, ds)
      BY <1>0, <2>1, SupersededTyped, Dropped
    <2>6. calls'[c] = x /\ \A d \in Calls : d # c => calls'[d] = ds[d]
      BY <2>4, <2>5 DEF CallsTyped
    <2>7. Kept(calls, calls')
      BY <2>3, <2>4, <2>5, <2>6, SpareIs DEF Kept, AccountCall, Ending
    <2>8. StillLeaving
      BY <2>4, <2>7, LeavingKept DEF Kept
    <2> QED BY <1>4, <2>4, <2>7, <2>8, FollowKept DEF Quietly, SameView
  <1>6. CASE ReadToken(c)
    <2>1. Stepped(c) /\ calls[c].op = "TOKEN" /\ UNCHANGED <<held, events>>
      BY <1>1, <1>6 DEF ReadToken
    <2>2. CASE Advance(c, "SENT", held)
      BY <1>4, <2>1, <2>2, AdvancedAgrees
    <2>3. CASE Unreached(c)
      BY <1>4, <2>1, <2>3, UnreachedAgrees
    <2>4. CASE held = NoToken /\ Unauthorized(c, "SIGN_IN")
      BY <1>2, <1>4, <2>1, <2>4, RefusedAgrees
    <2> QED BY <1>6, <2>2, <2>3, <2>4 DEF ReadToken
  <1>7. CASE Answer(c)
    <2>1. /\ Stepped(c) /\ calls[c].op \in {"SENT", "RESENT"} /\ UNCHANGED <<held, events>>
      BY <1>1, <1>7 DEF Answer
    <2>2. CASE CallAnswered(c)
      BY <1>4, <2>1, <2>2, AnsweredAgrees
    <2>3. CASE Unusable(c, "CONFLICT")
      <3>1. /\ StillLeaving /\ (app'.signingOut => app.signingOut \/ Leaving')
            /\ (Follow /\ SameView) \/ (Left /\ Leaving')
        BY <1>2, <2>1, <2>3, UnusableAgrees
      <3> QED BY <2>1, <3>1 DEF GoesOn, Still
    <2>4. CASE Advance(c, IF calls[c].op = "SENT" THEN "REJECTED" ELSE "LEAVING", calls[c].token)
      <3>1. PICK op \in {"REJECTED", "LEAVING"} : Advance(c, op, calls[c].token)
        BY <2>4
      <3> QED BY <1>4, <2>1, <3>1, AdvancedAgrees
    <2>5. CASE Unreached(c)
      BY <1>4, <2>1, <2>5, UnreachedAgrees
    <2> QED BY <1>7, <2>2, <2>3, <2>4, <2>5 DEF Answer
  <1>8. CASE Replay(c)
    <2>1. Stepped(c) /\ calls[c].op = "REJECTED" /\ UNCHANGED <<held, events>>
      BY <1>1, <1>8 DEF Replay
    <2>2. CASE ReplayToken(calls[c].token) # NoToken /\ Advance(c, "RESENT", ReplayToken(calls[c].token))
      <3>1. Advance(c, "RESENT", held)
        BY <2>2 DEF ReplayToken
      <3> QED BY <1>4, <2>1, <3>1, AdvancedAgrees
    <2>3. CASE Advance(c, "LEAVING", calls[c].token)
      BY <1>4, <2>1, <2>3, AdvancedAgrees
    <2>4. CASE Unauthorized(c, "EXPIRED")
      BY <1>2, <1>4, <2>1, <2>4, RefusedAgrees
    <2> QED BY <1>8, <2>2, <2>3, <2>4 DEF Replay
  <1>9. ASSUME held' = NoToken, Report(NoUser), Quietly \/ ~app'.signingOut,
               (Follow /\ SameView) \/ Left
        PROVE  Changes
    BY <1>9, TokensAre DEF Changes, Reports, Quietly
  <1>10. CASE Leave(c)
    <2>1. Stepped(c)
      BY <1>1, <1>10 DEF Leave
    <2>2. Quietly /\ ((Follow /\ SameView) \/ Left)
      BY <1>2, <1>10, <2>1, RefusedAgrees DEF Leave
    <2> QED BY <1>9, <1>10, <2>2 DEF Leave
  <1>11. CASE EndCallSession(c)
    <2>1. PICK s : s = [app EXCEPT !.signingOut = FALSE]
      OBVIOUS
    <2>2. /\ s \in Store /\ s.status = app.status /\ s.user = app.user /\ s.error = app.error
          /\ s.accountUserId = app.accountUserId /\ s.accountLoad = app.accountLoad
          /\ s.signingOut = FALSE
      BY <1>0, <2>1 DEF Store
    <2>3. EndCall(c, s, calls) /\ Ending(calls, c)
      BY <1>11, <2>1 DEF EndCallSession, Ending
    <2>4. ~AccountCall(calls, c)
      BY <1>0, <2>3, LoadOf
    <2>5. Follow /\ SameView /\ app'.signingOut = s.signingOut
      BY <1>0, <2>2, <2>3, <2>4, EndsQuietly
    <2> QED BY <1>9, <1>11, <2>2, <2>5 DEF EndCallSession
  <1> QED BY <1>5, <1>6, <1>7, <1>8, <1>10, <1>11 DEF CallStep

LEMMA FlowStepAgrees ==
  ASSUME MobileInv, AgreeInv, NEW f \in Flows,
         \/ RetryLoadUser(f) \/ SignOut(f) \/ FlowStep(f)
         \/ \E u \in Users : SignIn(f, u)
  PROVE  GoesOn \/ Changes
  <1>0. MobileTyped /\ app \in Store /\ CallsTyped(calls)
    BY DEF MobileInv, MobileTyped, AppTyped
  <1>1. CASE RetryLoadUser(f)
    BY <1>1, SpareIs, FlowAgrees DEF RetryLoadUser
  <1>2. CASE SignOut(f)
    BY <1>2, SpareIs, SignedOutAgrees DEF SignOut
  <1>3. CASE \E u \in Users : SignIn(f, u)
    BY <1>3, SpareIs, FlowAgrees DEF SignIn
  <1>4. CASE SignInRefused(f)
    BY <1>4, FlowAgrees DEF SignInRefused
  <1>5. CASE SignedIn(f)
    <2>1. PICK u : u = flows[f].user
      OBVIOUS
    <2>2. u \in Users /\ u # NoUser
      BY <1>0, <1>5, <2>1, MobileConstants DEF SignedIn, MobileTyped, Known
    <2>3. /\ held'.user = u /\ Report(u) /\ LoadAccount(u, app, calls)
      BY <1>5, <2>1 DEF SignedIn, NewToken
    <2>4. /\ \A c \in Calls : Ending(calls, c) => Ending(calls', c)
          /\ app'.signingOut = app.signingOut
          /\ (Follow /\ SameView) \/ Begins(u)
      BY <2>2, <2>3, LoadAgrees
    <2>5. \A g \in Flows : flows[g].op = "END_SESSION" => flows'[g].op = "END_SESSION"
      BY <1>0, <1>5, FlowsLeave DEF SignedIn
    <2>6. StillLeaving
      BY <2>4, <2>5, LeavingKept
    <2> QED BY <2>2, <2>3, <2>4, <2>6 DEF Changes, Reports
  <1>6. CASE CompleteSignIn(f)
    BY <1>6, SignedOutAgrees, FlowAgrees DEF CompleteSignIn
  <1>7. CASE EndSession(f)
    <2>1. PICK s : s = [app EXCEPT !.signingOut = FALSE]
      OBVIOUS
    <2>2. /\ s.status = app.status /\ s.user = app.user /\ s.error = app.error
          /\ s.accountUserId = app.accountUserId /\ s.accountLoad = app.accountLoad
          /\ s.signingOut = FALSE
      BY <1>0, <2>1, Fields
    <2>3. app' = s /\ Kept(calls, calls')
      BY <1>0, <1>7, <2>1, BecomeKeeps DEF EndSession
    <2>4. Follow /\ SameView /\ ~app'.signingOut
      BY <2>2, <2>3, FollowKept DEF SameView
    <2> QED BY <1>7, <2>4, TokensAre DEF EndSession, Changes, Reports
  <1>8. CASE RetryRead(f)
    <2>1. \A g \in Flows : flows[g].op = "END_SESSION" => flows'[g].op = "END_SESSION"
      BY <1>0, <1>8, FlowsLeave DEF RetryRead
    <2>2. ASSUME \A c \in Calls : Ending(calls, c) => Ending(calls', c), app'.signingOut = app.signingOut
          PROVE  Still
      <3>1. StillLeaving
        BY <2>1, <2>2, LeavingKept
      <3> QED BY <1>8, <2>2, <3>1 DEF RetryRead, Still
    <2>3. CASE held # NoToken /\ LoadAccount(held.user, app, calls)
      <3>1. held.user \in Users
        BY <1>0, <2>3, TokensAre DEF MobileTyped, HeldTyped
      <3>2. /\ \A c \in Calls : Ending(calls, c) => Ending(calls', c)
            /\ app'.signingOut = app.signingOut
            /\ (Follow /\ SameView) \/ Begins(held.user)
        BY <2>3, <3>1, LoadAgrees
      <3> QED BY <2>2, <2>3, <3>2 DEF GoesOn
    <2>4. CASE held # NoToken /\ Become(State(app, "unavailable", NoUser, "OFFLINE"), calls)
      <3>1. PICK s : s = State(app, "unavailable", NoUser, "OFFLINE")
        OBVIOUS
      <3>2. /\ s.status = "unavailable" /\ s.accountUserId = app.accountUserId
            /\ s.accountLoad = app.accountLoad /\ s.signingOut = app.signingOut
        BY <1>0, <3>1 DEF State, Store, Status, Why
      <3>3. app' = s /\ Kept(calls, calls')
        BY <1>0, <2>4, <3>1, BecomeKeeps
      <3>4. Follow
        BY <3>2, <3>3, FollowKept
      <3> QED BY <2>2, <2>4, <3>2, <3>3, <3>4 DEF Kept, GoesOn
    <2>5. CASE held = NoToken /\ Become(State(Forgotten(app), "anonymous", NoUser, "NONE"), ForgottenCalls(calls))
      <3>1. PICK r : r = Forgotten(app)
        OBVIOUS
      <3>2. PICK s : s = State(r, "anonymous", NoUser, "NONE")
        OBVIOUS
      <3>3. r \in Store /\ r.accountUserId = NoUser /\ r.accountLoad = NoCall /\ r.signingOut = app.signingOut
        BY <1>0, <3>1, Fields
      <3>4. /\ s.status = "anonymous" /\ s.accountUserId = NoUser /\ s.accountLoad = NoCall
            /\ s.signingOut = app.signingOut
        BY <3>2, <3>3 DEF State, Store, Status, Why
      <3>5. PICK cs : cs = ForgottenCalls(calls)
        OBVIOUS
      <3>6. Become(s, cs) /\ CallsTyped(cs)
        BY <1>0, <2>5, <3>1, <3>2, <3>5, SupersededTyped DEF ForgottenCalls
      <3>7. app' = s /\ Kept(cs, calls')
        BY <3>6, BecomeKeeps
      <3>8. \A c \in Calls : ~AccountCall(calls', c) /\ (Ending(calls, c) => Ending(calls', c))
        BY <1>0, <3>5, <3>7, Dropped DEF Kept
      <3>9. Left
        BY <3>4, <3>7, <3>8 DEF Left, NoLoads
      <3> QED BY <2>2, <2>5, <3>4, <3>7, <3>8, <3>9 DEF GoesOn
    <2> QED BY <1>8, <2>3, <2>4, <2>5 DEF RetryRead
  <1> QED BY <1>1, <1>2, <1>3, <1>4, <1>5, <1>6, <1>7, <1>8 DEF FlowStep

LEMMA MobileAgrees ==
  ASSUME MobileInv, AgreeInv, MobileNext
  PROVE  Agreeing
  <1>0. MobileTyped
    BY DEF MobileInv
  <1>1. ASSUME UNCHANGED <<app, calls, flows>>
        PROVE  Quietly /\ Follow /\ SameView
    <2>1. Kept(calls, calls')
      BY <1>1 DEF Kept
    <2>2. StillLeaving
      BY <1>1, LeavingKept
    <2> QED BY <1>1, <2>1, <2>2, FollowKept DEF Quietly, SameView
  <1>2. CASE TokenRefreshed
    <2>1. held.user \in Users
      BY <1>0, <1>2, TokensAre DEF TokenRefreshed, MobileTyped, HeldTyped
    <2>2. held'.user = held.user /\ Report(held.user)
      BY <1>2 DEF TokenRefreshed, NewToken
    <2>3. Quietly /\ Follow /\ SameView
      BY <1>1, <1>2 DEF TokenRefreshed
    <2> QED BY <2>1, <2>2, <2>3 DEF Agreeing, Changes, Reports, Quietly
  <1>3. CASE SessionRevoked
    <2>1. held' = NoToken /\ Report(NoUser)
      BY <1>3 DEF SessionRevoked
    <2>2. Quietly /\ Follow /\ SameView
      BY <1>1, <1>3 DEF SessionRevoked
    <2> QED BY <2>1, <2>2, TokensAre DEF Agreeing, Changes, Reports, Quietly
  <1>4. CASE HandleAuthEvent
    BY <1>4, EventAgrees DEF Agreeing
  <1>5. CASE \E c \in Calls : FetchList(c) \/ CallStep(c)
    BY <1>5, CallAgrees DEF Agreeing
  <1>6. CASE \E f \in Flows : \/ RetryLoadUser(f) \/ SignOut(f) \/ FlowStep(f)
                               \/ \E u \in Users : SignIn(f, u)
    BY <1>6, FlowStepAgrees DEF Agreeing
  <1> QED BY <1>2, <1>3, <1>4, <1>5, <1>6 DEF MobileNext

LEMMA AgreeStart ==
  ASSUME MobileInit
  PROVE  AgreeInv
  <1>1. MobileInv
    BY MobileStart
  <1>2. events = <<[user |-> held.user, during |-> FALSE]>> /\ events[1].user = held.user /\ ~events[1].during
    BY DEF MobileInit
  <1>3. Len(events) = 1 /\ events # <<>> /\ Head(events) = events[1]
    BY <1>2
  <1>4. \A c \in Calls : ~AccountCall(calls, c)
    BY DEF MobileInit, AccountCall
  <1>5. /\ app.accountLoad = NoCall /\ app.accountUserId = NoUser /\ app.status = "loading"
        /\ ~app.signingOut
    BY DEF MobileInit
  <1>6. Loads
    BY <1>4, <1>5 DEF Loads
  <1>7. Ends
    BY <1>2, <1>3, <1>5 DEF Ends
  <1>8. Told
    BY <1>2, <1>3, <1>5 DEF Told
  <1>9. Corrected
    BY <1>4, <1>5 DEF Corrected, Mixed
  <1>10. Shown
    BY <1>2, <1>3, <1>5 DEF Shown
  <1> QED BY <1>6, <1>7, <1>8, <1>9, <1>10 DEF AgreeInv

LEMMA AgreeUnmoved ==
  ASSUME AgreeInv, UNCHANGED mobileVars
  PROVE  AgreeInv'
  BY DEF mobileVars, AgreeInv, Loads, Ends, Told, Corrected, Shown, Mixed, Corrects, Leaving, AccountCall

\* Whatever overlapped, once nothing is in flight the app shows the account of
\* Supabase's session, and nobody when there is none; a session that is kept while
\* the app shows nobody was rejected when it could not be read.
THEOREM QuietAgrees == MobileSpec => []AgreesWithSupabase
  <1>1. MobileInit => MobileInv /\ AgreeInv
    BY MobileStart, AgreeStart
  <1>2. ASSUME MobileInv, AgreeInv, [MobileNext]_mobileVars PROVE AgreeInv'
    <2>1. CASE MobileNext
      BY <1>2, <2>1, MobileAgrees, AgreeStays DEF MobileInv
    <2>2. CASE UNCHANGED mobileVars
      BY <1>2, <2>2, AgreeUnmoved
    <2> QED BY <1>2, <2>1, <2>2
  <1>3. MobileInv /\ AgreeInv => AgreesWithSupabase
    BY Agreed
  <1> QED BY <1>1, <1>2, <1>3, MobileInvariant, PTL DEF MobileSpec
=============================================================================
