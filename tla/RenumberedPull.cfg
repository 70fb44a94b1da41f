SPECIFICATION PulledSpec
CONSTANTS
  merge = merge
  sort = sort
  Variants = {"go"}
  Challenges = {merge, sort}
  MaxPlace = 3
  Pullers = {"extension"}
  OneAtATime = TRUE
  MaxPublications = 2
  MaxPulls = 3

PROPERTY ExistingAreSkipped
CHECK_DEADLOCK FALSE
