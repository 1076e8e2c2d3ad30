\* After the panic no request completes any more.
SPECIFICATION FairSpec
CONSTANTS
  Nil = Nil
  Dispatchers = {d1}
  Resolvers = {}
  Callers = {c1}
  Agents <- MCOneAgent
  Contexts <- MCContexts
  DispatchContexts <- MCContexts
  Enabled = TRUE
  Metal = TRUE
  HighPriority = FALSE
  NullAnswers = FALSE
  LogCap = 1
  Latencies = {1}
PROPERTIES RequestsComplete
CHECK_DEADLOCK FALSE
