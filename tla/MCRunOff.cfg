SPECIFICATION Spec
CONSTANTS
  Flat = Flat
  Books = {b1}
  Live = {b1}
  Strikes = {k1, k2}
  Qty = 1
  MaxTrades = 1
  Cooldown = FALSE
  EntryFills = {1}
  ExitFills = {1}
  Faults = {"run_off", "manager_read_error"}
  MaxDay = 1
  MaxQueue = 3
  MaxFills = 3
  MaxDrift = 1
  MaxOff = 0
SYMMETRY StrikeSymmetry
INVARIANTS NoStrandedShort StoreMatches
