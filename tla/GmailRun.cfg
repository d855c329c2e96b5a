CONSTANTS
  Messages = {m1, m2}
  Pages = {1, 2}
  Ring = 1
  Lookback = 1
  Delays = {0, 1}
  Faults = {"poll", "config", "persist", "load", "label", "dispatch"}
  MaxNow = 3
  MaxFaults = 1
  MaxRestarts = 1
SPECIFICATION FairSpec
INVARIANTS  RefiresOnlyPastTheRing ReadMeansCompleted
 
CHECK_DEADLOCK FALSE
