\* Services and engines that may never answer, agents that leave the choice to the router.
SPECIFICATION LiveSpec
CONSTANTS
  Nil = Nil
  Dispatchers = {d1}
  Resolvers = {}
  Callers = {c1}
  Agents <- MCAgents
  Contexts <- MCContexts
  DispatchContexts <- MCContexts
  Enabled = TRUE
  Metal = TRUE
  HighPriority = FALSE
  NullAnswers = TRUE
  LogCap = 1
  Latencies = {1}
PROPERTIES EndsOrWaits
CHECK_DEADLOCK FALSE
