SPECIFICATION Spec
CONSTANTS
  Pids = {p1, p2}
  NoPid = NoPid
  MaxPolls = 1
  ForeignTun = FALSE
  Ea = Ea
  Eb = Eb
  Ec = Ec
  Endpoint <- MCEndpoint
  Fetchable <- MCFetchable
  Configured <- MCConfigured
INVARIANTS
  TrafficOnlyThroughTunnel
