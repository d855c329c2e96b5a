CONSTANTS
  Entries = {"e1", "e2"}
  Orgs = {"org"}
  NoOrg = "none"
  All = "all"
  Writers = {"w1", "w2"}
  Sockets = {"s1"}
  QueueSize = 1
  MaxFaults = 2
SPECIFICATION FairSpec
INVARIANTS NothingLostAtRest RawLeavesOnRecord RevocationStopsRaw RecordsAreTrue
PROPERTIES FeedMoves
CHECK_DEADLOCK FALSE
