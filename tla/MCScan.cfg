SPECIFICATION Spec
CONSTANTS
  Histories <- Sessions
  Prices = {92, 98, 100, 107}
  DayMinutes = 20
  Hour = 10
  LtfMin = 2
  MtfMin = 2
  HtfMin = 6
  Window = 10
  Kept = 20
  Guard = 7
  Unstick = 2
  MaxTicks = 4
INVARIANTS TypeOK ScanMeans SignalEarned
PROPERTY NoRepaint
CHECK_DEADLOCK FALSE
