\* Three turns over lengths on both sides of every budget, with restarts.
SPECIFICATION MCSpec
CONSTANTS
  Prompts = {50, 1000, 9000}
  Replies <- MCReplies
  Breaks = {100, 5000}
  Digests = {200, 700}
  Policies <- MCPolicies
  Summaries = {0, 5900}
  MaxTurns = 3
  Overrides = {0, 256}
  Windows = {0, 512, 1800, 8192}
  Users = {0, 600, 640, 650, 660, 670, 5000, 40000}
  Bodies = {10, 129, 30000}
  Labels = {4, 60}
  Many = {1, 2, 3}
INVARIANTS ContinuationBounded InstructionsSurvive AnswerSurvives UnusedMeansWhole SummaryBounded MergeShowsBoth ReductionComplete
CHECK_DEADLOCK FALSE
