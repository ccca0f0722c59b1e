SPECIFICATION RowsSpec
CONSTANTS
  NoLimit = NoLimit
  o1 = o1
  o2 = o2
  o3 = o3
  r1 = r1
  r2 = r2
  r3 = r3
  r4 = r4
  Orders = {o1, o2, o3}
  ProductCount = 2
  Lines <- SharedLines
  Requests = {r1, r2, r3, r4}
  OrderOf <- Dispatching
  Counts = {1, 2}
  a1 = a1
  a2 = a2
  a3 = a3
  Nobody = Nobody
  Prepaid = Prepaid
  Acceptances = {a1, a2, a3}
  Checkouts = {c1}
  Total <- Totals
  Limits = {2, 3}
  Staff = {s1, s2}
  Category = {1, 2, 3}
  Amounts = {0, 1, 2}
  MaxSaves = 2
INVARIANTS
  NoCircularWait
  OrderNumbersGapFree
  CountsMatchTheFilter
PROPERTIES
  DispatchIsOneStep
  ReleasedWithinLimit
  SavesKeepOthers
