CONSTANTS
  Steps <- TriangleSteps
  Edges <- TriangleEdges
  CondEdges <- TriangleConds
  Outcomes = {"true", "false", "error"}
  Retries <- NoRetry
  Cost <- CostOne
  TokenCap = 2
  DryRun = FALSE
  Drives = {d1}
  Clients = {c1}
  Faults = {"store", "rehydrate", "cut"}
  MaxResumes = 1
  MaxRequests = 1
  MaxStops = 1
  MaxCrashes = 0
SPECIFICATION FairSpec
PROPERTIES DrivesEnd 
CHECK_DEADLOCK FALSE
