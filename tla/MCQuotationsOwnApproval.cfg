SPECIFICATION Spec
CONSTANTS
  NoLimit = NoLimit
  NoRfq = NoRfq
  NoUser = NoUser
  Customer = carl
  Quotes = {q1}
  Rfqs = {}
  Members = {ana, bob}
  Requests = {r1, r2}
  Personal = {}
  Amounts = {2}
  Validities = {1}
  Memberships <- OwnerLimited
  OrgStates = {}
  RfqMoves = {}
  MaxNumber = 1
  MaxRevision = 1
  MaxNow = 0
  MaxPeriod = 1
SYMMETRY Symmetry
PROPERTIES
  NobodyApprovesOwnPurchase
\* Bounded tables and clock: when they are used up the instance stops.
CHECK_DEADLOCK FALSE
