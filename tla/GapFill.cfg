SPECIFICATION Spec
CONSTANTS
  Streams <- MCStreams
  Bases <- MCBases
  Fillers <- MCFillers
  Overrides = {0, 4}
  MaxTime = 5
  MaxBase = 4
  MaxFiller = 2
INVARIANTS
  MatchesReference
  OnlyGapsFilled
  SingleHoleFilled
