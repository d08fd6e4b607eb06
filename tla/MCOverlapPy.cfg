SPECIFICATION FairSpec
CONSTANTS
  Value = {1, 2, 3}
  MaxRanges = 4
  None = None
INVARIANTS
  TypeOK
  WantedIsUpperBound
  ScanCounts
PROPERTIES
  Refines
  FindReturns
