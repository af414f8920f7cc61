SPECIFICATION Spec
CONSTANTS
  Flat = Flat
  Books = {b1, b2}
  Live = {b1, b2}
  Strikes = {k1, k2}
  Qty = 1
  MaxTrades = 1
  Cooldown = FALSE
  EntryFills = {1}
  ExitFills = {1}
  Faults = {}
  MaxDay = 1
  MaxQueue = 3
  MaxFills = 1
  MaxDrift = 1
  MaxOff = 0
SYMMETRY DeskSymmetry
INVARIANTS TypeOK Settled OneShortPerSide SettlementInv
