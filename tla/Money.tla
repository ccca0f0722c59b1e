-------------------------------- MODULE Money --------------------------------
(***************************************************************************)
(* The money rules every party shares: amounts are integer fils, rates are *)
(* basis points, VAT is rounded line by line.  Lines are a function from   *)
(* what is bought to [price, qty, discount].                               *)
(***************************************************************************)
EXTENDS Integers, FiniteSetsExt

VatRate         == 500
DeliveryFee     == 2500
FreeDeliveryAt  == 50000

\* Half-up, away from zero.
ApplyRate(fils, rate) ==
  IF fils >= 0 THEN (fils * rate + 5000) \div 10000
               ELSE -((-fils * rate + 5000) \div 10000)

\* retailDeliveryFeeFils
RetailDelivery(subtotal) == IF subtotal >= FreeDeliveryAt THEN 0 ELSE DeliveryFee

\* calculateLine
UnitPrice(line)    == line.price - ApplyRate(line.price, line.discount)
LineSubtotal(line) == UnitPrice(line) * line.qty
LineDiscount(line) == line.price * line.qty - LineSubtotal(line)
LineVat(line)      == ApplyRate(LineSubtotal(line), VatRate)

SumOver(Amount(_), lines) == MapThenSumSet(LAMBDA k : Amount(lines[k]), DOMAIN lines)

\* calculateTotals
Subtotal(lines) == SumOver(LineSubtotal, lines)
Discount(lines) == SumOver(LineDiscount, lines)
LinesVat(lines) == SumOver(LineVat, lines)

Totals(lines, delivery) ==
  LET vat == LinesVat(lines) + ApplyRate(delivery, VatRate)
  IN [ subtotal |-> Subtotal(lines), discount |-> Discount(lines),
       delivery |-> delivery, vat |-> vat, total |-> Subtotal(lines) + delivery + vat ]

\* The totals of a retail basket, where nothing is discounted.
RetailNet(lines)   == SumOver(LAMBDA l : l.price * l.qty, lines)
Undiscounted(line) == [price |-> line.price, qty |-> line.qty, discount |-> 0]
RetailTotals(lines) ==
  Totals([k \in DOMAIN lines |-> Undiscounted(lines[k])], RetailDelivery(RetailNet(lines)))
=============================================================================
