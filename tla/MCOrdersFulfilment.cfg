SPECIFICATION Spec
CONSTANTS
  NoLimit = NoLimit
  p1 = p1
  p2 = p2
  Orders = {o1, o2}
  Products = {p1, p2}
  Requests = {r1, r2}
  Baskets <- OneEach
  Counts = {1}
  Staff = {"SALES", "WAREHOUSE"}
SYMMETRY Symmetry
INVARIANTS
  StockConserved
  MoneyTrailIsExact
  TrackersAgree
  OrderOffersAreTaken
PROPERTIES
  ImplementsOrderBook
