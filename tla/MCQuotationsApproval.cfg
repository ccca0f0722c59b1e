SPECIFICATION FairSpec
CONSTANTS
  NoLimit = NoLimit
  NoRfq = NoRfq
  NoUser = NoUser
  Customer = carl
  Quotes = {q1}
  Rfqs = {f1}
  Members = {ana, bob}
  Requests = {r1, r2}
  Personal = {NoRfq}
  Amounts = {2, 3}
  Validities = {1}
  Memberships <- Team
  OrgStates = {"ACTIVE", "PENDING_VERIFICATION"}
  RfqMoves = {}
  MaxNumber = 1
  MaxRevision = 1
  MaxNow = 2
  MaxPeriod = 1
INVARIANTS
  AcceptedHasItsOrder
  AuthorityCoversAmount
  CustomerOffersAreTaken
  SurfacesAgree
PROPERTIES
  AcceptedInTime
  AnswerTakesEffect
  IssuedTermsStand
\* Bounded tables and clock: when they are used up the instance stops.
CHECK_DEADLOCK FALSE
