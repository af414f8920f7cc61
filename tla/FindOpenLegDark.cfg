SPECIFICATION Spec
CONSTANTS
  Strikes = {1, 2, 3, 4, 5, 6, 7, 8, 9, 10, 11, 12}
  Atms = {5, 8}
  Depth = 4
  Threshold = 3
  Engines = {}
  TrapLegs = {}
  FaultSets = {{"straddle"}}
  MaxDay = 1
INVARIANT OpenStreams
CHECK_DEADLOCK FALSE
