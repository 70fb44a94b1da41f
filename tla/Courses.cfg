SPECIFICATION FairSpec
CONSTANTS
  None = None
  Variants = {"go"}
  Challenges = {"merge"}
  MaxPlace = 1
  Pullers = {"extension", "terminal"}
  DeletionsReported = TRUE
  Ours = "extension"
  OneAtATime = FALSE
  MaxPublications = 0
  MaxPulls = 2
INVARIANTS TypeOK NeverBlank NoGhostCourses OwnPullsShow
PROPERTY LoadsEnd
CHECK_DEADLOCK FALSE
