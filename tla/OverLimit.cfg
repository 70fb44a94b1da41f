SPECIFICATION Spec
CONSTANTS
  None = None
  Instances = {s1}
  Workers = {w1}
  Handlers = {h1, h2}
  Users = {alice}
  Challenges = {c1}
  QueueCapacity = 1
  MaxInFlight = 1
  MaxDaily = 2
  StoreFailures = FALSE
  MaxSubmissions = 4
  MaxCrashes = 0
INVARIANTS LimitsCap
SYMMETRY GoroutineSymmetry
CHECK_DEADLOCK FALSE
