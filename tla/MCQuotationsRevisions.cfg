SPECIFICATION Spec
CONSTANTS
  NoLimit = NoLimit
  NoRfq = NoRfq
  NoUser = NoUser
  Customer = carl
  Quotes = {q1, q2, q3}
  Rfqs = {f1}
  Members = {ana}
  Requests = {r1, r2}
  Personal = {NoRfq}
  Amounts = {1}
  Validities = {1}
  Memberships <- OwnerOnly
  OrgStates = {"ACTIVE", "SUSPENDED"}
  RfqMoves <- AnyMove
  MaxNumber = 2
  MaxRevision = 3
  MaxNow = 0
  MaxPeriod = 1
SYMMETRY Symmetry
INVARIANTS
  TypeOK
  RevisionsInOrder
  RfqFollowsQuotations
  StaffOffersAreTaken
PROPERTIES
  LifecycleRespected
\* Bounded tables and clock: when they are used up the instance stops.
CHECK_DEADLOCK FALSE
