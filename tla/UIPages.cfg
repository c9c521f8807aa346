SPECIFICATION FairSpec
\* A tab nobody touches comes to rest.
CHECK_DEADLOCK FALSE
CONSTANTS
  Prefix <- MCPrefix
  HeaderTabs <- MCTabs
  MenuTop <- MCTop
  MenuLow <- MCLow
  CardBackends <- MCBackends
  Submissions <- MCSubmissions
  MaxLoads = 2
  Panels = {p, q}
  Calls <- MCCalls
  Snapshot <- MCSnapshot
  MaxRequests = 2
  MaxActs = 2
INVARIANTS
  InjectedOnce
  RoutesServed
  CardinalityHonest
  BlocksCurrent
  BlocksAddUp
PROPERTIES
  ClickAgrees
  PageRenders
  PageQuiesces
