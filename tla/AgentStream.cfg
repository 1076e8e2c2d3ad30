\* Every way of cutting the bodies into chunks, an engine that refuses, finishes, breaks off or hangs.
SPECIFICATION FairSpec
CONSTANTS
  t1 = t1
  t2 = t2
  Other = Other
  Token <- MCToken
  Bodies <- MCBodies
  Faults = {"refused", "cut"}
INVARIANTS ChunkingIsInvisible DeliveredAtOnce
PROPERTIES LeavingEndsStream DoneEndsStream WatcherIsGone
CHECK_DEADLOCK FALSE
