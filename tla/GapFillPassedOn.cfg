SPECIFICATION Spec
CONSTANTS
  Streams <- MCStreams
  Bases <- MCBases
  Fillers <- MCFillers
  Overrides = {3}
  MaxTime = 3
  MaxBase = 3
  MaxFiller = 1
INVARIANTS
  GapPassedOn
