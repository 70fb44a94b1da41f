SPECIFICATION Spec
CONSTANTS
  None = None
  Users = {alice, bob}
  Authors = {alice, bob}
  Variants = {go, rust}
  ProposalIds = {p1, p2}
  InitialAdmins = {bob}
  RoleChanges = {}
  Threshold = 1
  Failures = TRUE
  MaxRevision = 1
  MaxSeeds = 0
INVARIANTS OneOpenPerUserVariant PublishedOnItsBase
SYMMETRY RowSymmetry
CHECK_DEADLOCK FALSE
