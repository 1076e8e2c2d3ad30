---------------------------- MODULE SharedContext ----------------------------
(***************************************************************************)
(* What requests may rely on although one routing context serves them all. *)
(* A SetContext replaces the context of a request under way, a             *)
(* ClearContext takes it away, and the panic of a dispatch leaves its      *)
(* context behind.  History variables over the steps of BackendRouter say  *)
(* which requests that has happened to; everything else is as if each had  *)
(* a router of its own.                                                    *)
(***************************************************************************)
EXTENDS BackendRouter

VARIABLES
  orphans,    \* contexts of dispatches that panicked since the last ClearContext
  overtaken,  \* requests that met a ClearContext between ShouldRoute and pickAuto
  disturbed   \* resolves during which another request has set or cleared the context

shared == <<vars, orphans, overtaken, disturbed>>

InBracket(p) == \/ p \in Dispatchers /\ pc[p] \in {"execute", "clear"}
                \/ p \in Resolvers   /\ pc[p] # "idle"

CInit == Init /\ orphans = {} /\ overtaken = {} /\ disturbed = {}

CSetContext(p) ==
  /\ SetContext(p)
  /\ disturbed' = {q \in Resolvers : InBracket(q)}
  /\ UNCHANGED <<orphans, overtaken>>

CClearContext(p) ==
  /\ ClearContext(p)
  /\ disturbed' = {q \in Resolvers : InBracket(q)} \ {p}
  /\ orphans'   = {}
  /\ overtaken' = overtaken \union {q \in Proc : pc[q] = "pick"}

CExecutePanics(p) ==
  /\ ExecutePanics(p)
  /\ orphans' = orphans \union {own[p]}
  /\ UNCHANGED <<overtaken, disturbed>>

\* Another SetContext came in time.
CPick(p) ==
  /\ Pick(p)
  /\ overtaken' = overtaken \ {p}
  /\ UNCHANGED <<orphans, disturbed>>

\* A request goes on that waits neither for the mutex nor for a service.
Continue(p) == \/ CClearContext(p)
               \/ CPick(p)
               \/ /\ \/ Resolve(p)
                     \/ PickPanics(p)
                     \/ Bias(p)
                     \/ Gate(p)
                     \/ RecordDecision(p)
                     \/ FallbackGate(p)
                     \/ RecordFallback(p)
                     \/ Retry(p)
                     \/ Reply(p)
                  /\ UNCHANGED <<orphans, overtaken, disturbed>>

\* A mode service or an engine answers.
Answered(p) == \/ Execute(p)
               \/ AttemptOK(p)
               \/ AttemptRejected(p)
               \/ AttemptFails(p)
               \/ FallbackOK(p)
               \/ FallbackRejected(p)
               \/ FallbackFails(p)

CNext == \E p \in Proc : \/ CSetContext(p)
                         \/ CExecutePanics(p)
                         \/ Continue(p)
                         \/ /\ StartCall(p) \/ Answered(p)
                            /\ UNCHANGED <<orphans, overtaken, disturbed>>

CSpec == CInit /\ [][CNext]_shared

\* The scheduler runs every goroutine that can go on, and an uncontended or contended
\* sync.Mutex is had in the end.  No service or engine is assumed to answer.
LiveSpec == CSpec /\ \A p \in Proc : WF_shared(Continue(p))

\* And with services and engines that always answer or drop the connection.
FairSpec == LiveSpec /\ \A p \in Proc :
              WF_shared(Answered(p) /\ UNCHANGED <<orphans, overtaken, disturbed>>)
------------------------------------------------------------------------------
(* A routing context outlives its request only when the handler of a dispatch *)
(* panicked, and then until the next ClearContext: any other context that is  *)
(* set is that of a request between its SetContext and its ClearContext.      *)
ContextNeverLeaks ==
  ctx # Nil => ctx \in {own[p] : p \in {q \in Proc : InBracket(q)}} \union orphans

(* "caller is ShouldRoute-gated, so ctx is non-nil" (pickAuto), unless the    *)
(* ClearContext of another request came in between; nothing else leaves the   *)
(* router locked.                                                             *)
StuckOnlyByRace ==
  /\ \A p \in Proc : pc[p] = "pick" /\ p \notin overtaken => ctx # Nil
  /\ mu = "stuck" => overtaken # {}

\* What Resolve decides for an agent when the context stays what it is.
UnderOwn(a, c) == IF ~(Enabled /\ c.seq /\ ~c.flat) THEN Legacy(a)
                  ELSE IF a.override = "auto" THEN Biased(a, PickAuto(a, c)) ELSE Override(a)

NoSamples == \A b \in Backend : probe[b].samples = 0

(* "resolves the backend for one agent under the supplied dispatch context"   *)
(* (handleBackendResolve): a resolve during which no other request has set or *)
(* cleared the context replies what its own context makes of the agent.  Said *)
(* of a router that has no latency samples yet, which bias the choice.        *)
ResolvedUnderOwnContext ==
  \A p \in Resolvers \ disturbed :
    pc[p] = "clear" /\ NoSamples => dec[p] = UnderOwn(agent[p], own[p])

(* The same of every resolve: refuted, the context is that of whichever       *)
(* request came last.                                                         *)
AlwaysUnderOwnContext ==
  \A p \in Resolvers :
    pc[p] = "clear" /\ mu = "free" /\ NoSamples => dec[p] = UnderOwn(agent[p], own[p])

(* "Safe for concurrent use" (Router): every request ends.                    *)
RequestsComplete == \A p \in Proc : pc[p] # "idle" ~> pc[p] = "idle"

Waiting == {"execute", "attempt", "fallback"}

(* "Safe for concurrent use" (Router), as far as it goes: whatever the agents *)
(* and the contexts, a request ends, or waits for ever for a service that     *)
(* does not answer (agent/client.go sets no timeout), or the router has been  *)
(* left locked.                                                               *)
EndsOrWaits ==
  \A p \in Proc :
    pc[p] # "idle" ~> (pc[p] = "idle" \/ mu = "stuck" \/ [](pc[p] \in Waiting))
=============================================================================
