SPECIFICATION FairSpec
CONSTANTS
  Fds = {f1, f2, f3}
  NoFd = NoFd
  Handlers = {h1, h2}
  MaxPending = 1
  MaxStarts = 2
INVARIANTS
  TypeOK
  DescriptorsAccounted
  AcceptorHasListener
PROPERTIES
  StopReturns
  PendingServed
CHECK_DEADLOCK FALSE
