SPECIFICATION Spec
CONSTANTS
  Flat = Flat
  Books = {b1}
  Live = {b1}
  Strikes = {k1, k2}
  Qty = 1
  MaxTrades = 1
  Cooldown = FALSE
  EntryFills = {0, 1}
  ExitFills = {1}
  Faults = {"late_fill", "status_lost", "flatten_fails", "crash", "terminal_off"}
  MaxDay = 1
  MaxQueue = 2
  MaxFills = 1
  MaxDrift = 1
  MaxOff = 0
SYMMETRY StrikeSymmetry
INVARIANTS AbortLeavesFlat StoreMatches
