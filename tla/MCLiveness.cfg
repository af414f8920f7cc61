SPECIFICATION FairSpec
CONSTANTS
  Flat = Flat
  Books = {b1}
  Live = {b1}
  Strikes = {k1, k2}
  Qty = 1
  MaxTrades = 2
  Cooldown = TRUE
  EntryFills = {1}
  ExitFills = {1}
  Faults = {}
  MaxDay = 1
  MaxQueue = 3
  MaxFills = 3
  MaxDrift = 1
  MaxOff = 0
PROPERTIES FlatAfterSquareOff EntryAnswered ImplementsLaggedAccount
