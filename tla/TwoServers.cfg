SPECIFICATION Spec
CONSTANTS
  None = None
  Instances = {s1, s2}
  Workers = {w1}
  Handlers = {h1}
  Users = {alice}
  Challenges = {c1}
  QueueCapacity = 1
  MaxInFlight = 2
  MaxDaily = 2
  StoreFailures = FALSE
  MaxSubmissions = 1
  MaxCrashes = 0
PROPERTIES VerdictIsFinal
CHECK_DEADLOCK FALSE
