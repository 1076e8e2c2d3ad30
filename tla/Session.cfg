\* Two concurrent dispatches in one session, crashes and failing saves at every step.
SPECIFICATION SSpec
CONSTANTS
  s1 = s1
  Fresh = Fresh
  NoOne = NoOne
  Torn = Torn
  End = End
  Writers = {h1, h2}
  Entry <- MCEntry
  InitialLogs <- MCLogs
  MaxRows = 3
  Named = {s1}
  Asked = {s1}
  MaxClock = 1
  MaxRuns = 3
  Texts <- MCTexts
  Budget = 2
  SummaryCap = 1
  Faults = {"crash", "disk"}
INVARIANTS NoOtherRunLost HandedOffOnce LatestRunKeptUnlessClash WorkingSetBounded SessionsSaved
SYMMETRY MCHandlers
CHECK_DEADLOCK FALSE
