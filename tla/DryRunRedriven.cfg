CONSTANTS
  MaxCalls = 3
  MaxCrashes = 1
SPECIFICATION Spec
CHECK_DEADLOCK FALSE
INVARIANT DryRunsStaySandboxed
