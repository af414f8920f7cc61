SPECIFICATION FairSpec
CONSTANTS
  Strikes = {1, 2, 3, 4, 5, 6, 7, 8, 9, 10, 11, 12}
  Atms = {5, 8}
  Depth = 4
  Threshold = 3
  Engines = {e1}
  TrapLegs = {{2, 11}}
  FaultSets = {{}, {"switch"}, {"drop"}, {"gap", "switch"}, {"pin"}, {"silent"},
    {"straddle"}, {"overnight"}, {"overnight", "rollover"}}
  MaxDay = 2
INVARIANTS
  TypeOK
  PinnedStreams
  WindowCached
PROPERTY
  DriftLeavesNothing
  WindowFollows
  SilenceHeals
