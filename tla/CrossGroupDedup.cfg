SPECIFICATION Spec
CONSTANTS
  Ordinals = {0, 1, 2}
  Keys = {k1, k2}
  Exts = {x1, x2, x3}
  Inputs <- MCInputs
  NoEntry = NoEntry
INVARIANTS
  LowestOrdinalWins
  AttributionExact
  FilledByPriority
