SPECIFICATION Spec
CONSTANTS
  MaxRuns = 1
  MaxSignals = 1
INVARIANTS
  HostUntouched
CHECK_DEADLOCK FALSE
