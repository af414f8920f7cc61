SPECIFICATION FairSpec
CONSTANTS
  Sources = {"option", "futures"}
  PerSide = 1
  Faults = {"two_signals", "slow_fill", "exit_refused", "overlap", "stop_in_entry", "stop_in_exit"}
  MaxFaults = 1
  MaxHeld = 2
  MaxStray = 1
  MaxDay = 2
INVARIANTS
  TypeOK
  NothingForgotten
  NothingOversold
  FileMatches
PROPERTY
  FlatAfterClose
CHECK_DEADLOCK FALSE
