SPECIFICATION Spec
CONSTANTS
  Inputs <- MCInputs
  ShortClock = 4
  LongClock = 7
  MaxBuffer = 2
INVARIANTS
  TypeOK
  EmittedInOrder
  ExactMerge
  ValuesFaithful
  DynamicFitsInterval
