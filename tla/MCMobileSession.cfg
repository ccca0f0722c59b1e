SPECIFICATION MobileSpec
CONSTANTS
  NoUser = NoUser
  NoCall = NoCall
  Users = {ana, bob}
  Calls = {c1, c2}
  Flows = {f1, f2}
  MaxTokens = 2
  MaxEvents = 1
SYMMETRY Symmetry
INVARIANTS
  AgreesWithSupabase
  ListIsOwn
CHECK_DEADLOCK FALSE
