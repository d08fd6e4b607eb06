SPECIFICATION Spec
CONSTANTS
  Value = {1, 3, 4, 6, 7, 9, 10, 12}
  MaxRanges = 4
  None = None
  UIntMod = 16
  NrServers = 4
  Falsetickers = {3, 4}
  LowEnds = {1, 4, 7, 10}
  HighEnds = {3, 6, 9, 12}
  Truth = 5
  WantedOverlaps = 2
  WantedUncertainty = 5
INVARIANTS
  EveryServerListed
