\* A stream and a request of /api/architect, and a turn that follows up on both; everything
\* goes wrong.
SPECIFICATION FairSpec
CONSTANTS
  r1 = r1
  r2 = r2
  r3 = r3
  Json = {r2, r3}
  Streams = {r1}
  Before <- MCFollowup
  MaxTokens = 2
  Trouble = {"denied", "refuses", "breaks", "empty", "null", "leaves"}
INVARIANTS FollowupSeesRun  
PROPERTIES KeepsContract RequestsEnd
CHECK_DEADLOCK FALSE
