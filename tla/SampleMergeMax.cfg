SPECIFICATION Spec
CONSTANTS
  Inputs <- PreferMaxInputs
  ShortClock = 4
  LongClock = 7
  MaxBuffer = 2
INVARIANTS
  MaxPreferred
