SPECIFICATION FairSpec
CONSTANTS
  Targets = {t1, t2}
  Maps <- AllMaps
  LabelFilter = TRUE
  CtxIds = {c1, c2, c3}
  NoState = NoState
  MaxUpdates = 2
INVARIANTS
  TypeOK
  ReadyHasState
  PollersStopped
  StateCtxLive
PROPERTIES
  WholeMapPublished
  FollowsDiscovery
