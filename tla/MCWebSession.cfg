SPECIFICATION WebSpec
CONSTANTS
  StaffMfaRequired = TRUE
  NoLimit = NoLimit
  u1 = u1
  u2 = u2
  o1 = o1
  o2 = o2
  User = {u1, u2}
  Org = {o1, o2}
  NoUser = NoUser
  NoOrg = NoOrg
  NoSession = NoSession
  Visited <- VisitedMC
  Founded <- FoundedMC
  Staffing <- StaffingMC
  Invited <- InvitedMC
  OrgStates <- OrgStatesMC
  MaxChanges = 3
INVARIANTS
  PagesAreAdmitted
  TenantDataIsOwn
CHECK_DEADLOCK FALSE
