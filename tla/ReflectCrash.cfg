\* The scheduler and a poster over an existing log, crashing and failing anywhere.
SPECIFICATION RSpec
CONSTANTS
  e1 = e1
  e2 = e2
  Note = Note
  End = End
  Sched = sched
  Writers = {sched, p1}
  Entry <- MCEntry2
  InitialLogs <- MCSeeded
  MaxRows = 4
  MaxEpisodes = 0
  MaxLessons = 1
  Faults = {"crash", "disk"}
  Answers = {"lessons", "unusable"}
  CursorFaults = TRUE
  Base = 2
INVARIANTS NoEpisodeSkipped
PROPERTIES FinishedNotRepeated
CHECK_DEADLOCK FALSE
