SPECIFICATION SketchSpec
CONSTANTS
  NServers = 3
  Needed = 2
  Boot = 10
  MaxUptime = 2
  Second = 4
  Usec = 1
  Errors <- MCErrors
  Uncertainties = {1, 2}
  FalseBy = {5, 8}
  MaxFalse = 1
  MaxFailures = 1
  MaxSyncs = 2
INVARIANTS
  MatchesPython
  AdjustmentRight
PROPERTIES
  SyncEnds
