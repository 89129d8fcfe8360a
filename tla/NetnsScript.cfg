SPECIFICATION FairSpec
CONSTANTS
  MaxRuns = 2
  MaxSignals = 2
INVARIANTS
  TypeOK
  LeftoversResisted
  ProxyFullyIsolated
PROPERTIES
  InterruptEndsScript
CHECK_DEADLOCK FALSE
