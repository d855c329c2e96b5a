CONSTANTS
  Steps <- JoinSteps
  Edges <- JoinEdges
  CondEdges <- JoinEdges
  Outcomes = {"true", "false"}
  Retries <- RetryA
  Cost <- CostOne
  TokenCap = 2
  DryRun = FALSE
  Drives = {d1}
  Clients = {c1}
  Faults = {"timeout"}
  MaxResumes = 1
  MaxRequests = 1
  MaxStops = 0
  MaxCrashes = 1
SPECIFICATION Spec
INVARIANTS DependenciesSettled SkipsAreSound FirstDriveFollowsConditions CompletedMeansSettled 
PROPERTIES ImplementsAttemptLog
CHECK_DEADLOCK FALSE
