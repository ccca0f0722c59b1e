SPECIFICATION Spec
CONSTANTS
  NoAccount = NoAccount
  NoToken = NoToken
  NoSession = NoSession
  NoEmail = NoEmail
  Ids = {ida, idb}
  Emails = {e1, e2}
  Sessions = {s1, s2}
  Requests = {r1, r2}
  MaxLogins = 2
  Managed = {ida}
INVARIANTS
  TradeAccountOpenedOnce
  LoggedOncePerSwitch
  StoresAgree
SYMMETRY Symmetry
CHECK_DEADLOCK FALSE
