SPECIFICATION FairSpec
CONSTANTS
  None = None
  Instances = {s1}
  Workers = {w1, w2}
  Handlers = {h1, h2}
  Users = {alice}
  Challenges = {c1}
  QueueCapacity = 1
  MaxInFlight = 1
  MaxDaily = 1
  StoreFailures = TRUE
  MaxSubmissions = 3
  MaxCrashes = 2
INVARIANTS TypeOK HeldOnce FinishedIsReleased NothingForgotten LimitsBound
PROPERTIES EveryVerdictArrives VerdictIsFinal ImplementsSubmissionLifecycle
CHECK_DEADLOCK FALSE
