SPECIFICATION Spec
CONSTANTS
  NoLimit = NoLimit
  NoRfq = NoRfq
  NoOne = NoOne
  NoOrg = NoOrg
  NoQuote = NoQuote
  Rfqs = {f1, f2}
  People = {ann}
  Orgs = {acme}
  Forms = {web}
  Requests = {r1, r2}
  MaxLost = 1
SYMMETRY Symmetry
PROPERTIES
  CustomerFixedOnceQuoted
