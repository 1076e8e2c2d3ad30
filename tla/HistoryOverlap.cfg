\* Two appenders, every fault: crashes at any step, failing opens and writes.
SPECIFICATION OSpec
CONSTANTS
  e1 = e1
  e2 = e2
  End = End
  Writers = {w1, w2}
  Entry <- MCEntry
  InitialLogs <- MCLogs
  MaxRows = 4
  Faults = {"crash", "disk"}
INVARIANTS TypeOK PromisesKept SavedWhenSettled
PROPERTIES ImplementsLog
CHECK_DEADLOCK FALSE
