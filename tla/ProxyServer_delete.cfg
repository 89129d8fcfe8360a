SPECIFICATION Spec
CONSTANTS
  Fds = {f1, f2, f3}
  NoFd = NoFd
  Handlers = {h1, h2}
  MaxPending = 2
  MaxStarts = 2
INVARIANTS
  HandlersUseLiveServer
CHECK_DEADLOCK FALSE
