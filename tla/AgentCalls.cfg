CONSTANTS
  MaxBatch = 1
  MaxTries = 2
  MaxWait = 2
  AnswerCost = 1
SPECIFICATION Spec
CHECK_DEADLOCK FALSE
INVARIANT ActsAreAudited
