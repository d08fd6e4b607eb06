SPECIFICATION Spec
CONSTANTS
  Servers = {honest, falseticker}
  Falsetickers = {falseticker}
  Lie = 9
  Radi = 0
  Day = 2
  DayWord = 4
  Validity = 3
  Timeout = 2
  MaxAddresses = 2
  BatchSizes = {3}
  MaxPath = 32
  MaxHistoryLen = 2
  MaxQueries = 2
  MaxNow = 3
  MaxReplies = 2
  MaxKeys = 2
INVARIANTS
  AcceptedIsFresh
  GenuineIsAccepted
  TruthfulNotAccused
