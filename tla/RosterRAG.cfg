\* Agents opt in and out while requests to the registry are slow, fail or time out.
SPECIFICATION RFairSpec
CONSTANTS
  Callers = {c1, c2}
  Handler = c1
  Nobody = Nobody
  None = None
  TTL <- MCTTL
  Timeout <- MCTimeout
  MaxClock = 4
  Failing = TRUE
  a1 = a1
  a2 = a2
  Agents = {a1, a2}
  Histories <- MCHistories
  Bodies <- MCBodies
  Chunks <- MCChunks
  BaseTopK = 2
  MaxTopK = 2
  MemoryTopK = 1
INVARIANTS OptInReaches OnlyTargetsSee
PROPERTIES CachedIsFresh NeverBackwards PreparationEnds
CHECK_DEADLOCK FALSE
