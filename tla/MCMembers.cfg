SPECIFICATION Spec
CONSTANTS
  NoLimit = NoLimit
  founder = founder
  ann = ann
  bob = bob
  Founder = founder
  People = {founder, ann, bob}
  Invitations = {i1, i2}
  Requests = {r1, r2}
SYMMETRY Symmetry
INVARIANTS
  AlwaysAnOwner
  JoinedOncePerInvitation
  RevokedIsNotAccepted
