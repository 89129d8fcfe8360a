SPECIFICATION TunnelSpec
CONSTANTS
  Pids = {p1, p2, p3}
  NoPid = NoPid
  MaxPolls = 2
  ForeignTun = FALSE
PROPERTIES
  ExitNoticed
