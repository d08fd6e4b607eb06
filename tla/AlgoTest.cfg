SPECIFICATION MainSpec
CONSTANTS
  Value = {1, 2, 3}
  MaxRanges = 4
  None = None
  Good = 3
  Bad = 2
  Truth = 2
  Wanted = 2
INVARIANTS
  Agree
  SameResult
  SameAsPython
  ClockSetRight
  AgreementNotMissed
