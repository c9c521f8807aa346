SPECIFICATION FairSpec
CONSTANTS
  Generations <- MCGenerations
  InitialHealth <- MCHealth
  MaxPolls = 2
  MaxProbes = 1
  MaxFlips = 1
  MaxFailures = 1
INVARIANTS
  NoForeignTargets
  IdlePageTruthful
PROPERTIES
  PageConverges
