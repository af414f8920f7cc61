SPECIFICATION FairSpec
CONSTANTS
  Qty = 4
  ChaseCounts = {1, 2}
  FaultSets = {{}, {"refused"}, {"killed"}, {"refused", "killed"}, {"reply_lost"},
    {"lag"}, {"lost"}, {"lag", "lost", "killed"},
    {"refused", "reply_lost", "killed", "lag", "lost"}}
INVARIANTS TypeOK BooksTraded
PROPERTIES Completes KeepsPromise
CHECK_DEADLOCK FALSE
