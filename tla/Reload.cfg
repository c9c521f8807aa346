SPECIFICATION FairSpec
CONSTANTS
  Groups = {a, b}
  Configs <- MCConfigs
  NoConfig = NoConfig
  MaxRequests = 3
INVARIANTS
  ServedGroupsLoaded
  NoOrphanGroups
  SuccessMeansUniform
PROPERTIES
  RequestsServed
