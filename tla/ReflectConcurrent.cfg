\* Episodes posted beside the scheduler, a failing disk under the log, a cap of one.
SPECIFICATION RFairSpec
CONSTANTS
  e1 = e1
  e2 = e2
  Note = Note
  End = End
  Sched = sched
  Writers = {sched, p1}
  Entry <- MCEntry2
  InitialLogs <- MCEmpty
  MaxRows = 4
  MaxEpisodes = 1
  MaxLessons = 1
  Faults = {"disk"}
  Answers = {"lessons", "unusable", "down"}
  CursorFaults = FALSE
  Base = 2
INVARIANTS FileAgrees
PROPERTIES CatchesUp
CHECK_DEADLOCK FALSE
