SPECIFICATION FairSpec
CONSTANTS
  Instruments = {"N"}
  Tokens = {"NC", "NP"}
  Buffer = 1
  Rounds = 2
  FaultSets = {{"crash", "cut", "vanish"}, {"crash", "stall", "night"}}
  MaxFaults = 3
  MaxChanges = 2
INVARIANTS TypeOK InSync
PROPERTY TicksResume
