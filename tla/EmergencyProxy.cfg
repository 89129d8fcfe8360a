SPECIFICATION FairSpec
CONSTANTS
  Pids = {p1, p2}
  NoPid = NoPid
  MaxPolls = 2
  ForeignTun = TRUE
  Ea = Ea
  Eb = Eb
  Ec = Ec
  Endpoint <- MCEndpoint
  Fetchable <- MCFetchable
  Configured <- MCConfigured
INVARIANTS
  TypeOK
  ServesOnlyConnected
  AllOrNothing
  AttemptNotRefused
  NoUnsignalledStray
  TracksOwnChild
  MergeMeaning
PROPERTIES
  CleanupRemovesCredentials
  OnlyKillOrphans
  ImplementsLifecycle
  CallsAdvance
  CallsReturn
  StrayEventuallyGone
