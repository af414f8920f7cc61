SPECIFICATION Spec
CONSTANTS
  Flat = Flat
  Books = {b1}
  Live = {b1}
  Strikes = {k1, k2}
  Qty = 1
  MaxTrades = 2
  Cooldown = FALSE
  EntryFills = {0, 1}
  ExitFills = {1}
  Faults = {"new_day", "reconcile_fails"}
  MaxDay = 2
  MaxQueue = 3
  MaxFills = 1
  MaxDrift = 1
  MaxOff = 0
SYMMETRY StrikeSymmetry
INVARIANT PricedOwn
