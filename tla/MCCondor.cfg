SPECIFICATION FairSpec
CONSTANTS
  Bindings = {b1, b2}
  Atms = {k1, k2}
  Products = {"MIS", "NRML"}
  FaultSets = {{"breach"}, {"lost"}, {"breach", "overnight"}, {"switch", "shift"},
    {"switch", "overnight"}, {"shift", "overnight", "expiry"}}
  MaxEntries = 2
INVARIANTS
  TypeOK
  Settled
  Hedged
  StoreMatches
PROPERTY
  ClosedEndsFlat
