CONSTANTS
  Runs = {"w1", "w2"}
  Keys = {"k1", "k2", "k3"}
  Recipients = {"r1", "r2"}
  Asks <- FourAsks
SPECIFICATION LiveSpec
INVARIANTS CountIsTrue AskedIsOnRecord
PROPERTIES ImplementsStore SchedulingEnds
