\* Two concurrent appenders: an acknowledged row does not survive a restart.
SPECIFICATION OSpec
CONSTANTS
  e1 = e1
  e2 = e2
  End = End
  Writers = {w1, w2}
  Entry <- MCEntry
  InitialLogs <- MCLogs
  MaxRows = 3
  Faults = {"crash"}
INVARIANTS StableWatermark
CHECK_DEADLOCK FALSE
