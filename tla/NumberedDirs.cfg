SPECIFICATION Spec
CONSTANTS
  None = None
  Variants = {"go"}
  Challenges = {"merge"}
  MaxPlace = 1
  Pullers = {"extension"}
  DeletionsReported = TRUE
  Ours = "extension"
  OneAtATime = TRUE
  MaxPublications = 0
  MaxPulls = 1
PROPERTY PulledChallengesOpen
CHECK_DEADLOCK FALSE
