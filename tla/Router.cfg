\* A dispatch that may panic, a resolve and an agent call share the router; one agent cannot
\* run on its own engine.
SPECIFICATION CSpec
CONSTANTS
  Nil = Nil
  Dispatchers = {d1}
  Resolvers = {r1}
  Callers = {c1}
  Agents <- MCMixed
  Contexts <- MCFlats
  DispatchContexts <- MCSequentials
  Enabled = TRUE
  Metal = TRUE
  HighPriority = FALSE
  NullAnswers = TRUE
  LogCap = 1
  Latencies = {1}
INVARIANTS ContextNeverLeaks DecisionsMatchLog StuckOnlyByRace ResolvedUnderOwnContext
CHECK_DEADLOCK FALSE
