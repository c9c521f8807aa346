SPECIFICATION FairSpec
CONSTANTS
  Groups = {a, b}
  Configs <- TwoConfigs
  NoConfig = NoConfig
  MaxRequests = 1
PROPERTIES
  QuitExits
