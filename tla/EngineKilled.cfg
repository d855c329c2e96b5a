CONSTANTS
  Steps <- ChainSteps
  Edges <- ChainEdges
  CondEdges <- ChainEdges
  Outcomes = {"true", "false"}
  Retries <- NoRetry
  Cost <- CostOne
  TokenCap = 9
  DryRun = FALSE
  Drives = {d1}
  Clients = {c1}
  Faults = {}
  MaxResumes = 0
  MaxRequests = 1
  MaxStops = 0
  MaxCrashes = 0
SPECIFICATION Spec
PROPERTIES KilledIsTerminal
CHECK_DEADLOCK FALSE
