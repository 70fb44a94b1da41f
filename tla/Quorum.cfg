SPECIFICATION FairSpec
CONSTANTS
  None = None
  Users = {alice, bob, carol}
  Authors = {alice}
  Variants = {go}
  ProposalIds = {p1}
  InitialAdmins = {}
  RoleChanges = {carol}
  Threshold = 2
  Failures = FALSE
  MaxRevision = 2
  MaxSeeds = 1
INVARIANTS TypeOK LiveTextWasEndorsed QuorumIsScheduled PublishedOnItsBase PublishedOnce
PROPERTIES QuorumPublishes ClosedIsFinal ImplementsReviewedDocuments
CHECK_DEADLOCK FALSE
