------------------------------ MODULE Dispatch -------------------------------
(***************************************************************************)
(* The two dispatch routes, POST /api/architect and /api/architect/stream: *)
(* handleArchitect and handleArchitectStreamBody of internal/httpapi, with *)
(* the calls they make to internal/prepare, internal/kvpool,               *)
(* internal/modes and internal/stream.                                     *)
(*                                                                         *)
(* All requests belong to one session.  The mode service, the kvpool       *)
(* sidecar and the clients are the environment: a service may refuse, fail *)
(* in the middle of a stream, or answer without a final text; a client may *)
(* go away, and may send a request after it has seen the answers of        *)
(* others.  An event of a stream is one step, so clients see what was      *)
(* written so far while the handler is still writing.  Emit flushes after  *)
(* each event; the relay copies without flushing, so what it has written   *)
(* may be held back by the response buffers until later.                   *)
(***************************************************************************)
EXTENDS Naturals, Sequences, FiniteSets

CONSTANTS
  Json,       \* requests of /api/architect
  Streams,    \* requests of /api/architect/stream
  Before,     \* the requests whose answers the client has seen when it sends this one
  MaxTokens,  \* bound on the tokens of an answer
  Trouble     \* what the environment may do

Requests == Json \union Streams

ASSUME KindAssumption    == Json \intersect Streams = {}
ASSUME BeforeAssumption  == Before \in [Requests -> SUBSET Requests]
ASSUME TokensAssumption  == MaxTokens \in Nat \ {0}
ASSUME TroubleAssumption ==
  Trouble \subseteq {"denied", "refuses", "breaks", "empty", "null", "leaves"}

VARIABLES
  pc,     \* where each handler is
  base,   \* the run its continuation was built on, by its place in the session; 0 is none
  todo,   \* events it, or the service it relays, has still to send
  held,   \* events written but not yet sent by the server
  wire,   \* the events the client of a stream has received
  reply,  \* the response of a request that is not a stream (yet)
  gone,   \* clients that have disconnected
  broken, \* streams whose relay failed after it had begun
  early,  \* turns sent before the responses they follow had ended
  runs,   \* the runs of the session: the request and what is stored as its final text
  alerts  \* requests for which an alert has been published

dvars == <<pc, base, todo, held, wire, reply, gone, broken, early, runs, alerts>>
------------------------------------------------------------------------------
\* Mutant: the metrics come before the agents are done.
FlatSwapped(n) == <<"session">> \o [i \in 1..n |-> "token"] \o <<"metrics", "agent_done", "done">>

\* EmitFlatReplay, and what a flat mode service streams; EmitError.
Flat(n) == <<"session">> \o [i \in 1..n |-> "token"] \o <<"agent_done", "metrics", "done">>
Failure == <<"session", "error", "done">>

\* A response that is not the answer: 429, 503, or a dropped connection.
Refused == {"budget_exceeded", "unavailable", "dropped"}

\* The client has the answer of r.
Answered(r) ==
  IF r \in Json THEN reply[r] = "ok"
  ELSE wire[r] # <<>> /\ wire[r][Len(wire[r])] = "done"
       /\ ~\E i \in 1..Len(wire[r]) : wire[r][i] = "error"

Init == /\ pc     = [r \in Requests |-> "unsent"]
        /\ base   = [r \in Requests |-> 0]
        /\ todo   = [r \in Requests |-> <<>>]
        /\ held   = [r \in Streams |-> <<>>]
        /\ wire   = [r \in Streams |-> <<>>]
        /\ reply  = [r \in Requests |-> "none"]
        /\ gone   = {}
        /\ broken = {}
        /\ early  = {}
        /\ runs   = <<>>
        /\ alerts = {}

Goto(r, l)  == pc' = [pc EXCEPT ![r] = l]
Answer(r, x) == reply' = [reply EXCEPT ![r] = IF r \in gone THEN @ ELSE x]

\* A client sends its next turn once it has the answers it builds on.  A stream has its answer
\* with the event done, before its response ends; the client may wait for that or not, and may
\* then as well have closed the connection.
Send(r) == /\ pc[r] = "unsent"
           /\ \A p \in Before[r] : Answered(p)
           /\ early' = IF \A p \in Before[r] \ Json : pc[p] = "ended" /\ p \notin gone
                       THEN early ELSE early \union {r}
           /\ Goto(r, "prompt")
           /\ UNCHANGED <<base, todo, held, wire, reply, gone, broken, runs, alerts>>

Leave(r) == /\ "leaves" \in Trouble
            /\ pc[r] \notin {"unsent", "ended"}
            /\ gone' = gone \union {r}
            /\ UNCHANGED <<pc, base, todo, held, wire, reply, broken, early, runs, alerts>>

\* effectivePrompt: BuildContinuation on the latest run of the session.
BuildPrompt(r) == /\ pc[r] = "prompt"
                  /\ base' = [base EXCEPT ![r] = Len(runs)]
                  /\ Goto(r, "gate")
                  /\ UNCHANGED <<todo, held, wire, reply, gone, broken, early, runs, alerts>>

\* gateKV: allowed, or not configured, or the sidecar does not answer ...
Admit(r) == /\ pc[r] = "gate"
            /\ Goto(r, IF r \in Json THEN "execute" ELSE "relay")
            /\ UNCHANGED <<base, todo, held, wire, reply, gone, broken, early, runs, alerts>>

\* ... or denied.
Deny(r) == /\ "denied" \in Trouble
           /\ pc[r] = "gate"
           /\ Answer(r, "budget_exceeded")
           /\ alerts' = alerts \union {r}
           /\ Goto(r, "ended")
           /\ UNCHANGED <<base, todo, held, wire, gone, broken, early, runs>>

\* StreamRelay: the service answers with a stream ...
RelayBegins(r) == /\ pc[r] = "relay"
                  /\ \E n \in 0..MaxTokens : todo' = [todo EXCEPT ![r] = Flat(n)]
                  /\ Goto(r, "copy")
                  /\ UNCHANGED <<base, held, wire, reply, gone, broken, early, runs, alerts>>

\* Mutant: no alert for a relay that is refused.
RelayRefusedQuietly(r) == /\ "refuses" \in Trouble
                          /\ pc[r] = "relay"
                          /\ Goto(r, "execute")
                          /\ UNCHANGED <<base, todo, held, wire, reply, gone, broken, early, runs, alerts>>

\* ... or there is none: unknown mode, connection refused, 501, an error status.
RelayRefused(r) == /\ "refuses" \in Trouble
                   /\ pc[r] = "relay"
                   /\ alerts' = alerts \union {r}
                   /\ Goto(r, "execute")
                   /\ UNCHANGED <<base, todo, held, wire, reply, gone, broken, early, runs>>

\* The first k of the events written so far reach the client, if it is still there.
Deliver(r, written, k) ==
  /\ held' = [held EXCEPT ![r] = SubSeq(written, k + 1, Len(written))]
  /\ wire' = IF r \in gone THEN wire ELSE [wire EXCEPT ![r] = @ \o SubSeq(written, 1, k)]

\* io.Copy: buffers spill when they are full.
CopyEvent(r) == /\ pc[r] = "copy"
                /\ todo[r] # <<>>
                /\ \E k \in 0..(Len(held[r]) + 1) :
                     Deliver(r, Append(held[r], Head(todo[r])), k)
                /\ todo' = [todo EXCEPT ![r] = Tail(@)]
                /\ UNCHANGED <<pc, base, reply, gone, broken, early, runs, alerts>>

\* Mutant: what was relayed is not stored.
CopyEndsUnstored(r) == /\ pc[r] = "copy"
                       /\ todo[r] = <<>>
                       /\ Goto(r, "reply")
                       /\ UNCHANGED <<base, todo, held, wire, reply, gone, broken, early, runs, alerts>>

CopyEnds(r) == /\ pc[r] = "copy"
               /\ todo[r] = <<>>
               /\ Goto(r, "append_stream")
               /\ UNCHANGED <<base, todo, held, wire, reply, gone, broken, early, runs, alerts>>

\* io.Copy returns an error: the service broke off or took longer than the timeout, or the
\* write to the client failed.  Either leads to the fallback.
CopyFails(r) == /\ "breaks" \in Trouble \/ r \in gone
                /\ pc[r] = "copy"
                /\ todo' = [todo EXCEPT ![r] = <<>>]
                /\ broken' = broken \union {r}
                /\ alerts' = alerts \union {r}
                /\ Goto(r, "execute")
                /\ UNCHANGED <<base, held, wire, reply, gone, early, runs>>

\* modes.Execute: the service answers ...
Executed(r) == /\ pc[r] = "execute"
               /\ IF r \in Json
                  THEN Goto(r, "append") /\ UNCHANGED todo
                  ELSE /\ \E n \in 1..MaxTokens : todo' = [todo EXCEPT ![r] = Flat(n)]
                       /\ Goto(r, "replay")
               /\ UNCHANGED <<base, held, wire, reply, gone, broken, early, runs, alerts>>

\* ... without a final text, or with an empty one ...
ExecutedEmpty(r) == /\ "empty" \in Trouble
                    /\ pc[r] = "execute"
                    /\ IF r \in Json
                       THEN /\ \E l \in {"append_prompt", "append_empty"} : Goto(r, l)
                            /\ UNCHANGED todo
                       ELSE /\ todo' = [todo EXCEPT ![r] = Failure]
                            /\ Goto(r, "replay_error")
                    /\ UNCHANGED <<base, held, wire, reply, gone, broken, early, runs, alerts>>

\* ... or fails.
ExecuteFails(r) == /\ "refuses" \in Trouble
                   /\ pc[r] = "execute"
                   /\ alerts' = alerts \union {r}
                   /\ IF r \in Json
                      THEN Answer(r, "unavailable") /\ Goto(r, "ended") /\ UNCHANGED todo
                      ELSE /\ todo' = [todo EXCEPT ![r] = Failure]
                           /\ Goto(r, "replay_error")
                           /\ UNCHANGED reply
                   /\ UNCHANGED <<base, held, wire, gone, broken, early, runs>>

\* The JSON value null is no error to Execute; handleArchitect then stores into a nil map.
ExecutedNull(r) == /\ "null" \in Trouble
                   /\ pc[r] = "execute"
                   /\ IF r \in Json
                      THEN Answer(r, "dropped") /\ Goto(r, "ended") /\ UNCHANGED todo
                      ELSE /\ todo' = [todo EXCEPT ![r] = Failure]
                           /\ Goto(r, "replay_error")
                           /\ UNCHANGED reply
                   /\ UNCHANGED <<base, held, wire, gone, broken, early, runs, alerts>>

EmitEvent(r) == /\ pc[r] \in {"replay", "replay_error"}
                /\ todo[r] # <<>>
                /\ Deliver(r, Append(held[r], Head(todo[r])), Len(held[r]) + 1)
                /\ todo' = [todo EXCEPT ![r] = Tail(@)]
                /\ UNCHANGED <<pc, base, reply, gone, broken, early, runs, alerts>>

\* Mutant: a request that failed is stored as well.
EmitEndsStores(r) == /\ pc[r] \in {"replay", "replay_error"}
                     /\ todo[r] = <<>>
                     /\ Goto(r, "append")
                     /\ UNCHANGED <<base, todo, held, wire, reply, gone, broken, early, runs, alerts>>

EmitEnds(r) == /\ pc[r] \in {"replay", "replay_error"}
               /\ todo[r] = <<>>
               /\ Goto(r, IF pc[r] = "replay" THEN "append" ELSE "ended")
               /\ UNCHANGED <<base, todo, held, wire, reply, gone, broken, early, runs, alerts>>

EmitFails(r) == /\ pc[r] \in {"replay", "replay_error"}
                /\ r \in gone
                /\ todo' = [todo EXCEPT ![r] = <<>>]
                /\ Goto(r, "ended")
                /\ UNCHANGED <<base, held, wire, reply, gone, broken, early, runs, alerts>>

\* What a run stores as its final text: of a relayed stream, nothing; of an answer without
\* one, the prompt.
Final == [append        |-> "answer", append_stream |-> "none",
          append_prompt |-> "prompt", append_empty  |-> "empty"]

\* AppendRun; its error is dropped, the run is in memory either way.
Persist(r) == /\ pc[r] \in DOMAIN Final
              /\ runs' = Append(runs, [req |-> r, final |-> Final[pc[r]]])
              /\ Goto(r, "reply")
              /\ UNCHANGED <<base, todo, held, wire, reply, gone, broken, early, alerts>>

\* Mutant: the handler waits for a client that has gone.
RespondAttended(r) == /\ pc[r] = "reply"
                      /\ r \notin gone
                      /\ IF r \in Json
                         THEN Answer(r, "ok") /\ UNCHANGED <<held, wire>>
                         ELSE Deliver(r, held[r], Len(held[r])) /\ UNCHANGED reply
                      /\ Goto(r, "ended")
                      /\ UNCHANGED <<base, todo, gone, broken, early, runs, alerts>>

\* The handler returns.  With that of a stream the response ends, and what it still holds is
\* sent.
Respond(r) == /\ pc[r] = "reply"
              /\ IF r \in Json
                 THEN Answer(r, "ok") /\ UNCHANGED <<held, wire>>
                 ELSE Deliver(r, held[r], Len(held[r])) /\ UNCHANGED reply
              /\ Goto(r, "ended")
              /\ UNCHANGED <<base, todo, gone, broken, early, runs, alerts>>

Handle(r) == \/ BuildPrompt(r)
             \/ Admit(r)
             \/ Deny(r)
             \/ RelayBegins(r)
             \/ RelayRefused(r)
             \/ CopyEvent(r)
             \/ CopyEnds(r)
             \/ CopyFails(r)
             \/ Executed(r)
             \/ ExecutedEmpty(r)
             \/ ExecuteFails(r)
             \/ ExecutedNull(r)
             \/ EmitEvent(r)
             \/ EmitEnds(r)
             \/ EmitFails(r)
             \/ Persist(r)
             \/ Respond(r)

Next == \E r \in Requests : Send(r) \/ Leave(r) \/ Handle(r)

Spec == Init /\ [][Next]_dvars

\* Every call a handler makes has a timeout: kvpool and registry 2 s, execution 120 s,
\* relay 600 s.
FairSpec == Spec /\ \A r \in Requests : WF_dvars(Handle(r))
------------------------------------------------------------------------------
Event == {"session", "token", "agent_done", "metrics", "error", "done"}

PC == {"unsent", "prompt", "gate", "relay", "copy", "execute", "replay", "replay_error",
       "append", "append_stream", "append_prompt", "append_empty", "reply", "ended"}

TypeOK == /\ pc \in [Requests -> PC]
          /\ base \in [Requests -> 0..Len(runs)]
          /\ \A r \in Requests : Len(todo[r]) <= MaxTokens + 4
          /\ held \in [Streams -> Seq(Event)]
          /\ wire \in [Streams -> Seq(Event)]
          /\ reply \in [Requests -> {"none", "ok"} \union Refused]
          /\ gone \subseteq Requests
          /\ broken \subseteq Streams
          /\ early \subseteq Requests
          /\ runs \in Seq([req : Requests, final : {"answer", "none", "prompt", "empty"}])
          /\ alerts \subseteq Requests

Contract == INSTANCE SseContract

(* Each stream, as its client sees it, is one the contract allows, whatever   *)
(* the services refuse, break off or leave out and whenever the client goes.  *)
KeepsContract == Contract!Spec

(* Refuted: "session (first)" (sse-events.md): session is the first event of  *)
(* a stream, and comes only once.  When a relay breaks off, the fallback      *)
(* begins a second stream behind what it has sent.                            *)
SessionFirst == \A r \in Streams :
  \A i \in 1..Len(wire[r]) : wire[r][i] = "session" <=> i = 1

(* The answer belongs to the conversation: a turn sent after the response of  *)
(* an earlier one has ended is built on that one's run or on one stored after *)
(* it (BuildContinuation: "from the session's latest run"), whether that turn *)
(* was answered, relayed or replayed.  Of a turn sent at the event done it is *)
(* not said: the run of a stream is stored after done.                        *)
FollowupSeesRun ==
  \A r \in Requests \ early : pc[r] \notin {"unsent", "prompt"} =>
    \A p \in Before[r] : \E i \in 1..base[r] : runs[i].req = p

(* "do not persist a fabricated run" (handleArchitect): what a run stores as  *)
(* its final text is never the prompt.                                        *)
NoFabricatedRun == \A i \in 1..Len(runs) : runs[i].final # "prompt"

(* Runs and answers correspond: a request enters the session at most once,    *)
(* never when its client was told of a failure, and a client that has stayed  *)
(* to the end of the request has its answer exactly when the run is stored.   *)
RunsAreAnswers ==
  /\ \A i, j \in 1..Len(runs) : runs[i].req = runs[j].req => i = j
  /\ \A r \in Requests : pc[r] = "ended" /\ r \notin gone =>
       (Answered(r) <=> \E i \in 1..Len(runs) : runs[i].req = r)

(* "Fail loudly": a client that has stayed and got no answer was told so, and *)
(* an alert was published, whichever of the services failed.                  *)
FailureIsLoud ==
  \A r \in Requests : pc[r] = "ended" /\ r \notin gone /\ ~Answered(r) =>
    /\ \/ reply[r] \in Refused
       \/ \E i \in 1..Len(wire[r]) : wire[r][i] = "error"
    /\ reply[r] = "dropped" \/ r \in alerts

(* Every request that was sent ends.                                          *)
RequestsEnd == \A r \in Requests : pc[r] # "unsent" ~> pc[r] = "ended"
=============================================================================
