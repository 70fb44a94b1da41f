SPECIFICATION Spec
CONSTANTS
  None = None
  Users = {alice, bob}
  Authors = {alice}
  Variants = {go}
  ProposalIds = {p1}
  InitialAdmins = {bob}
  RoleChanges = {}
  Threshold = 1
  Failures = FALSE
  MaxRevision = 1
  MaxSeeds = 1
INVARIANTS NeverOverwritesUnseen
CHECK_DEADLOCK FALSE
