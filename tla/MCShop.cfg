SPECIFICATION Spec
CONSTANTS
  Idle = Idle
  Waiting = Waiting
  Failed = Failed
  App = App
  Products = {p1}
  Offers <- TwoOffers
  Tabs = {t1, t2}
  Refreshes = {r1}
  Attempts = {a1, a2}
  MaxQuantity = 2
  MaxPicks <- PicksByClient
  MaxEdits = 1
  MaxOrders <- OrdersByClient
  MaxTogether = 3
SYMMETRY Symmetry
INVARIANTS
  ChargedAsShown
  OrderedOnce
PROPERTIES
  RefusedOnlyIfStale
  RefreshKeepsChoice
CHECK_DEADLOCK FALSE
