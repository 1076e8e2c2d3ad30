---------------------------- MODULE BackendRouter ---------------------------
(***************************************************************************)
(* The backend router and the requests that share it: internal/backend,    *)
(* withRoutingContext and handleBackendResolve of internal/httpapi, and    *)
(* the agent call of internal/agent/client.go.                             *)
(*                                                                         *)
(* There is one Router, hence one routing context, for all requests.       *)
(* Every method is one critical section of its mutex, so one step here,    *)
(* and Resolve is several: ShouldRoute, then pickAuto, then fasterProbe.   *)
(* pickAuto dereferences the context between Lock and Unlock without a     *)
(* deferred Unlock: when the context has been cleared in between, the      *)
(* panic leaves the mutex locked for good (mu = "stuck").                  *)
(***************************************************************************)
EXTENDS Naturals, Sequences, FiniteSets

CONSTANTS
  Dispatchers,  \* requests of /api/architect
  Resolvers,    \* requests of /api/backend/resolve
  Callers,      \* requests of /api/agent/call
  Agents,       \* the agents requests name
  Contexts,     \* the contexts /api/backend/resolve supplies
  DispatchContexts, \* those of the modes: sequential or not, under pressure or not
  Nil,          \* no context is set
  Enabled,      \* COFISWARM_BACKEND_ROUTING
  Metal,        \* whether the host is Apple silicon
  HighPriority, \* llamaPriority = "high"
  NullAnswers,  \* whether a mode service may answer the JSON value null
  LogCap,       \* length of the audit log, 256 in the code
  Latencies     \* latency samples

Backend == {"llama", "mlx"}
Proc    == Dispatchers \union Resolvers \union Callers

\* flat: ModeName = "flat"; kv: KVPressure > 0.7
Context == [flat : BOOLEAN, seq : BOOLEAN, kv : BOOLEAN]

\* def: engineDefault; supports: the backends Supports accepts; tagged: one of the tags
\* coding, planning, review; override: how InferenceBackend reads.
AgentRecord == [name : STRING, def : Backend, supports : SUBSET Backend,
                tagged : BOOLEAN, vision : BOOLEAN,
                override : {"auto", "llama", "mlx", "named", "unknown"}]

ASSUME ProcAssumption    == /\ Dispatchers \intersect Resolvers = {}
                            /\ Dispatchers \intersect Callers = {}
                            /\ Resolvers \intersect Callers = {}
ASSUME AgentAssumption   == /\ Agents \subseteq AgentRecord /\ Agents # {}
                            /\ \A a \in Agents : a.def = "mlx" => "mlx" \in a.supports
ASSUME ContextAssumption == /\ Contexts \subseteq Context
                            /\ DispatchContexts \subseteq Context
                            /\ \A c \in DispatchContexts : c.seq => ~c.flat
                            /\ Nil \notin Context
ASSUME FlagAssumption    == {Enabled, Metal, HighPriority, NullAnswers} \subseteq BOOLEAN
ASSUME LogAssumption     == LogCap \in Nat \ {0} /\ Latencies \subseteq Nat

VARIABLES
  mu,         \* "free", or "stuck" after a panic inside pickAuto
  ctx,        \* Router.ctx
  decisions,  \* Router.lastDecisions: at most one decision per agent name
  log,        \* Router.decisionLog
  probe,      \* Router.probe: samples (2 stands for more) and the EMA
  pc,         \* where each request is
  own,        \* the context a request has set
  agent,      \* the agent a request is about
  dec,        \* the decision a request has got so far
  tries       \* attempts a caller has left

vars    == <<mu, ctx, decisions, log, probe, pc, own, agent, dec, tries>>
router  == <<ctx, decisions, log, probe>>

Reason == {"legacy_engine", "agent_override", "override_unsupported_fallback", "named_override",
           "kv_pressure_llama_prefix_cache", "sequential_apple_silicon", "mlx_unified_memory",
           "default_llama_metal", "default_python_mlx", "auto_unsupported_fallback",
           "load_failure_fallback"}

Decision   == [backend : Backend, reason : Reason, fallback : BOOLEAN]
NoDecision == [backend |-> "none", reason |-> "none", fallback |-> FALSE]
------------------------------------------------------------------------------
Dec(b, reason, fallback) == [backend |-> b, reason |-> reason, fallback |-> fallback]

Legacy(a) == Dec(a.def, "legacy_engine", FALSE)

ShouldRoute == Enabled /\ ctx # Nil /\ ctx.seq /\ ~ctx.flat

\* An explicit override, honoured only when the agent can run there.
Override(a) ==
  IF a.override \in Backend
  THEN IF a.override \in a.supports
       THEN Dec(a.override, "agent_override", FALSE)
       ELSE Dec(a.def, "override_unsupported_fallback", TRUE)
  ELSE IF a.override = "named" /\ "llama" \in a.supports
       THEN Dec("llama", "named_override", FALSE)
       ELSE Legacy(a)

\* The heuristic ladder of pickAuto under the context c.
PickAuto(a, c) ==
  CASE c.kv /\ "llama" \in a.supports -> Dec("llama", "kv_pressure_llama_prefix_cache", FALSE)
    [] ~(c.kv /\ "llama" \in a.supports)
       /\ Metal /\ c.seq /\ "llama" \in a.supports /\ (HighPriority \/ a.tagged)
         -> Dec("llama", "sequential_apple_silicon", FALSE)
    [] OTHER ->
         IF "mlx" \in a.supports /\ (a.def = "mlx" \/ a.vision)
         THEN Dec("mlx", "mlx_unified_memory", FALSE)
         ELSE IF "llama" \in a.supports
              THEN Dec("llama", "default_llama_metal", FALSE)
              ELSE Dec("mlx", "default_python_mlx", FALSE)

\* fasterProbe: the supported backend with the lowest EMA over two or more samples, llama
\* on a tie, the engine default when there is none.
Probed(a) == {b \in a.supports : probe[b].samples >= 2}

FasterProbe(a) ==
  IF Probed(a) = {} THEN a.def
  ELSE IF "llama" \in Probed(a)
          /\ \A b \in Probed(a) : probe["llama"].ema <= probe[b].ema
       THEN "llama" ELSE "mlx"

\* Resolve, after the ladder: probe bias, then the unsupported fallback.  The "+probe"
\* suffix of the reason is left out.
Biased(a, d) ==
  LET p == FasterProbe(a)
      e == IF p # d.backend /\ p \in a.supports THEN Dec(p, d.reason, FALSE) ELSE d
  IN  IF e.backend \in a.supports THEN e
      ELSE Dec(a.def, "auto_unsupported_fallback", TRUE)

\* RecordDecision: the map, and the capped log.
LastN(s, n) == IF Len(s) <= n THEN s ELSE SubSeq(s, Len(s) - n + 1, Len(s))

\* Mutant: an agent keeps the first decision of the dispatch.
RecordFirst(a, d) ==
  /\ decisions' = IF \E e \in decisions : e.agent = a.name THEN decisions
                  ELSE decisions \union {[agent |-> a.name, d |-> d]}
  /\ log' = LastN(Append(log, [agent |-> a.name, d |-> d]), LogCap)

Record(a, d) ==
  /\ decisions' = {e \in decisions : e.agent # a.name} \union {[agent |-> a.name, d |-> d]}
  /\ log' = LastN(Append(log, [agent |-> a.name, d |-> d]), LogCap)

\* RecordProbeSample: the first sample is the EMA, later ones pull it towards themselves.
Sample(b) ==
  \E l \in Latencies :
    \E ema \in IF probe[b].samples = 0 THEN {l}
               ELSE {x \in Latencies : \/ probe[b].ema <= x /\ x <= l
                                       \/ l <= x /\ x <= probe[b].ema} :
      probe' = [probe EXCEPT ![b] =
                  [samples |-> IF @.samples < 2 THEN @.samples + 1 ELSE 2, ema |-> ema]]
------------------------------------------------------------------------------
\* What the agent of a request is while it has none.
AnyAgent == CHOOSE a \in Agents : TRUE

Init == /\ mu = "free"
        /\ ctx = Nil
        /\ decisions = {}
        /\ log = <<>>
        /\ probe = [b \in Backend |-> [samples |-> 0, ema |-> 0]]
        /\ pc = [p \in Proc |-> "idle"]
        /\ own = [p \in Proc |-> Nil]
        /\ agent = [p \in Proc |-> AnyAgent]
        /\ dec = [p \in Proc |-> NoDecision]
        /\ tries = [p \in Proc |-> 0]

Goto(p, l) == pc' = [pc EXCEPT ![p] = l]

\* Mutant: a context that is set stays.
SetContextOnce(p) ==
  /\ mu = "free"
  /\ pc[p] = "idle"
  /\ p \in Dispatchers \union Resolvers
  /\ \E c \in IF p \in Dispatchers THEN DispatchContexts ELSE Contexts :
       ctx' = (IF ctx = Nil THEN c ELSE ctx) /\ own' = [own EXCEPT ![p] = c]
  /\ agent' \in {[agent EXCEPT ![p] = a] : a \in IF p \in Dispatchers THEN {AnyAgent} ELSE Agents}
  /\ Goto(p, IF p \in Dispatchers THEN "execute" ELSE "resolve")
  /\ UNCHANGED <<mu, decisions, log, probe, dec, tries>>

\* withRoutingContext and handleBackendResolve: SetContext ...
SetContext(p) ==
  /\ mu = "free"
  /\ pc[p] = "idle"
  /\ p \in Dispatchers \union Resolvers
  /\ \E c \in IF p \in Dispatchers THEN DispatchContexts ELSE Contexts :
       ctx' = c /\ own' = [own EXCEPT ![p] = c]
  /\ agent' \in {[agent EXCEPT ![p] = a] : a \in IF p \in Dispatchers THEN {AnyAgent} ELSE Agents}
  /\ Goto(p, IF p \in Dispatchers THEN "execute" ELSE "resolve")
  /\ UNCHANGED <<mu, decisions, log, probe, dec, tries>>

\* Mutant: a failed execution returns without clearing the context.
ExecuteReturns(d) ==
  /\ d \in Dispatchers
  /\ pc[d] = "execute"
  /\ \/ Goto(d, "clear")
     \/ Goto(d, "idle")
  /\ UNCHANGED <<mu, router, own, agent, dec, tries>>

\* ... the mode service answers, or fails; SnapshotDecisions only reads ...
Execute(d) ==
  /\ d \in Dispatchers
  /\ pc[d] = "execute"
  /\ Goto(d, "clear")
  /\ UNCHANGED <<mu, router, own, agent, dec, tries>>

\* ... or answers null: handleArchitect then stores into a nil map, and the panic skips
\* ClearContext, which is not deferred ...
ExecutePanics(d) ==
  /\ NullAnswers
  /\ d \in Dispatchers
  /\ pc[d] = "execute"
  /\ Goto(d, "idle")
  /\ own' = [own EXCEPT ![d] = Nil]
  /\ UNCHANGED <<mu, router, agent, dec, tries>>

\* ... and ClearContext, which forgets the decisions too.
ClearContext(p) ==
  /\ mu = "free"
  /\ pc[p] = "clear"
  /\ ctx' = Nil
  /\ decisions' = {}
  /\ own' = [own EXCEPT ![p] = Nil]
  /\ dec' = [dec EXCEPT ![p] = NoDecision]
  /\ agent' = [agent EXCEPT ![p] = AnyAgent]
  /\ Goto(p, "idle")
  /\ UNCHANGED <<mu, log, probe, tries>>

\* An agent call starts.
StartCall(c) ==
  /\ c \in Callers
  /\ pc[c] = "idle"
  /\ agent' \in {[agent EXCEPT ![c] = a] : a \in Agents}
  /\ tries' = [tries EXCEPT ![c] = 2]
  /\ Goto(c, "resolve")
  /\ UNCHANGED <<mu, router, own, dec>>

\* Mutant: the override is looked at before ShouldRoute.
ResolveUngated(p) ==
  /\ mu = "free"
  /\ pc[p] = "resolve"
  /\ LET a == agent[p] IN
       IF a.override = "auto"
       THEN Goto(p, "pick") /\ UNCHANGED dec
       ELSE /\ Goto(p, "gate")
            /\ dec' = [dec EXCEPT ![p] = IF ShouldRoute THEN Override(a) ELSE Legacy(a)]
  /\ UNCHANGED <<mu, router, own, agent, tries>>

\* Resolve: ShouldRoute decides between the engine default, the override and the ladder.
Resolve(p) ==
  /\ mu = "free"
  /\ pc[p] = "resolve"
  /\ LET a == agent[p] IN
       IF ShouldRoute /\ a.override = "auto"
       THEN Goto(p, "pick") /\ UNCHANGED dec
       ELSE /\ Goto(p, "gate")
            /\ dec' = [dec EXCEPT ![p] = IF ShouldRoute THEN Override(a) ELSE Legacy(a)]
  /\ UNCHANGED <<mu, router, own, agent, tries>>

\* pickAuto reads whatever context there is by now.
Pick(p) ==
  /\ mu = "free"
  /\ pc[p] = "pick"
  /\ ctx # Nil
  /\ dec' = [dec EXCEPT ![p] = PickAuto(agent[p], ctx)]
  /\ Goto(p, "probe")
  /\ UNCHANGED <<mu, router, own, agent, tries>>

\* With no context it panics holding the mutex.  net/http recovers the handler's
\* goroutine; the deferred ClearContext of handleBackendResolve waits for ever.
PickPanics(p) ==
  /\ mu = "free"
  /\ pc[p] = "pick"
  /\ ctx = Nil
  /\ mu' = "stuck"
  /\ Goto(p, IF p \in Resolvers THEN "clear" ELSE "idle")
  /\ UNCHANGED <<router, own, agent, dec, tries>>

Bias(p) ==
  /\ mu = "free"
  /\ pc[p] = "probe"
  /\ dec' = [dec EXCEPT ![p] = Biased(agent[p], @)]
  /\ Goto(p, "gate")
  /\ UNCHANGED <<mu, router, own, agent, tries>>

AfterResolve(p) == IF p \in Resolvers THEN "clear" ELSE "attempt"

\* ShouldRoute again: only a routed decision is recorded.
Gate(p) ==
  /\ mu = "free"
  /\ pc[p] = "gate"
  /\ Goto(p, IF ShouldRoute THEN "record" ELSE AfterResolve(p))
  /\ UNCHANGED <<mu, router, own, agent, dec, tries>>

RecordDecision(p) ==
  /\ mu = "free"
  /\ pc[p] = "record"
  /\ Record(agent[p], dec[p])
  /\ Goto(p, AfterResolve(p))
  /\ UNCHANGED <<mu, ctx, probe, own, agent, dec, tries>>

\* completeOnce on the decided backend: an answer is a latency sample, a 4xx ends the
\* call, a transient failure leads to the fallback question.
AttemptOK(c) ==
  /\ mu = "free"
  /\ pc[c] = "attempt"
  /\ Sample(dec[c].backend)
  /\ Goto(c, "done")
  /\ UNCHANGED <<mu, ctx, decisions, log, own, agent, dec, tries>>

AttemptRejected(c) ==
  /\ pc[c] = "attempt"
  /\ Goto(c, "done")
  /\ UNCHANGED <<mu, router, own, agent, dec, tries>>

AttemptFails(c) ==
  /\ pc[c] = "attempt"
  /\ Goto(c, "failed")
  /\ UNCHANGED <<mu, router, own, agent, dec, tries>>

Other(b) == IF b = "llama" THEN "mlx" ELSE "llama"

\* tryFallback, when the router may still route: the other backend, if supported.
FallbackGate(c) ==
  /\ mu = "free"
  /\ pc[c] = "failed"
  /\ Goto(c, IF ShouldRoute /\ Other(dec[c].backend) \in agent[c].supports
             THEN "fallback" ELSE "retry")
  /\ UNCHANGED <<mu, router, own, agent, dec, tries>>

FallbackOK(c) ==
  /\ mu = "free"
  /\ pc[c] = "fallback"
  /\ Sample(Other(dec[c].backend))
  /\ Goto(c, "recordfb")
  /\ UNCHANGED <<mu, ctx, decisions, log, own, agent, dec, tries>>

FallbackRejected(c) ==
  /\ pc[c] = "fallback"
  /\ Goto(c, "recordfb")
  /\ UNCHANGED <<mu, router, own, agent, dec, tries>>

FallbackFails(c) ==
  /\ pc[c] = "fallback"
  /\ Goto(c, "retry")
  /\ UNCHANGED <<mu, router, own, agent, dec, tries>>

RecordFallback(c) ==
  /\ mu = "free"
  /\ pc[c] = "recordfb"
  /\ LET d == Dec(Other(dec[c].backend), "load_failure_fallback", TRUE)
     IN  dec' = [dec EXCEPT ![c] = d] /\ Record(agent[c], d)
  /\ Goto(c, "done")
  /\ UNCHANGED <<mu, ctx, probe, own, agent, tries>>

\* Mutant: the attempts are not counted.
RetryAlways(c) ==
  /\ pc[c] = "retry"
  /\ Goto(c, IF tries[c] > 1 THEN "attempt" ELSE "done")
  /\ UNCHANGED <<mu, router, own, agent, dec, tries>>

\* The primary backend is tried at most twice.
Retry(c) ==
  /\ pc[c] = "retry"
  /\ tries' = [tries EXCEPT ![c] = @ - 1]
  /\ Goto(c, IF tries[c] > 1 THEN "attempt" ELSE "done")
  /\ UNCHANGED <<mu, router, own, agent, dec>>

\* The reply is written.
Reply(c) ==
  /\ pc[c] = "done"
  /\ Goto(c, "idle")
  /\ dec' = [dec EXCEPT ![c] = NoDecision]
  /\ agent' = [agent EXCEPT ![c] = AnyAgent]
  /\ tries' = [tries EXCEPT ![c] = 0]
  /\ UNCHANGED <<mu, router, own>>

\* A request that is under way takes its next step.
Proceed(p) == \/ Execute(p)
              \/ ExecutePanics(p)
              \/ ClearContext(p)
              \/ Resolve(p)
              \/ Pick(p)
              \/ PickPanics(p)
              \/ Bias(p)
              \/ Gate(p)
              \/ RecordDecision(p)
              \/ AttemptOK(p)
              \/ AttemptRejected(p)
              \/ AttemptFails(p)
              \/ FallbackGate(p)
              \/ FallbackOK(p)
              \/ FallbackRejected(p)
              \/ FallbackFails(p)
              \/ RecordFallback(p)
              \/ Retry(p)
              \/ Reply(p)

Next == \E p \in Proc : SetContext(p) \/ StartCall(p) \/ Proceed(p)

Spec == Init /\ [][Next]_vars
------------------------------------------------------------------------------
PC == {"idle", "execute", "clear", "resolve", "pick", "probe", "gate", "record",
       "attempt", "failed", "fallback", "recordfb", "retry", "done"}

TypeOK == /\ mu \in {"free", "stuck"}
          /\ ctx \in Context \union {Nil}
          /\ decisions \subseteq [agent : STRING, d : Decision]
          /\ log \in Seq([agent : STRING, d : Decision]) /\ Len(log) <= LogCap
          /\ probe \in [Backend -> [samples : 0..2, ema : Nat]]
          /\ pc \in [Proc -> PC]
          /\ own \in [Proc -> Context \union {Nil}]
          /\ agent \in [Proc -> Agents]
          /\ dec \in [Proc -> Decision \union {NoDecision}]
          /\ tries \in [Proc -> 0..2]

(* The snapshot and the audit log agree: the last decision of an agent, as    *)
(* long as it has one, is the last entry the log has for it.                  *)
DecisionsMatchLog ==
  \A e \in decisions :
    \A i \in 1..Len(log) :
      log[i].agent = e.agent /\ (\A j \in (i + 1)..Len(log) : log[j].agent # e.agent)
        => log[i].d = e.d

(* A recorded decision is one the agent can run, whichever contexts other     *)
(* requests set while it was being made and whatever the probes say; or it is *)
(* the engine's own backend, of an agent that cannot run there, and the       *)
(* reason tells so.  A fallback is only recorded to a backend it can run on.  *)
RecordedRunnable ==
  \A p \in Proc :
    /\ pc[p] = "record" =>
         \/ dec[p].backend \in agent[p].supports
         \/ /\ dec[p].backend = agent[p].def
            /\ dec[p].reason \in {"legacy_engine", "override_unsupported_fallback",
                                  "auto_unsupported_fallback"}
    /\ pc[p] = "recordfb" => Other(dec[p].backend) \in agent[p].supports

(* "caller is ShouldRoute-gated, so ctx is non-nil" (pickAuto).               *)
CtxNonNilInPickAuto == \A p \in Proc : mu = "free" /\ pc[p] = "pick" => ctx # Nil

(* "always falling back to a supported backend" (Resolve).                    *)
FallbackSupported ==
  \A p \in Proc : dec[p].reason \in {"override_unsupported_fallback",
                                     "auto_unsupported_fallback"}
                    => dec[p].backend \in agent[p].supports
=============================================================================
