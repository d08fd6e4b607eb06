SPECIFICATION FairSpec
CONSTANTS
  Timeout = 2
  Radii = {0, 1}
  Offset = 1
  UInt64Mod = 1000
  MaxStep = 2
  MaxReplies = 1
  MaxGarbage = 1
INVARIANTS
  TypeOK
  NoSocketLeak
  TruthInRange
  NoEarlyTimeout
  MissedBehindSelect
PROPERTIES
  QueryReturns
