------------------------------ MODULE RosterRAG ------------------------------
(***************************************************************************)
(* How a dispatch comes by its retrieved context: Parse, then the memoized *)
(* roster (RosterCache), then mergeRosterRAG, effectivePrompt's BuildRAG   *)
(* and withRAGModeConfig, beside an agent registry in which agents opt in  *)
(* to RAG and out of it again.                                             *)
(*                                                                         *)
(* What the registry says at each moment is fixed by a history.  The rag   *)
(* service is the environment: it answers a request with chunks of the     *)
(* kinds it was asked for, no more than it was asked for, or not at all.   *)
(* Retrieval asks for the prompt as it was sent, never for a continuation, *)
(* so prompts are left out.  Handlers meet only in Roster: one is followed  *)
(* through its dispatches, and of the others only their calls to it.        *)
(***************************************************************************)
EXTENDS RosterCache, Integers, FiniteSets

CONSTANTS
  Handler,    \* the caller that is followed
  Agents,     \* agents of the modes
  Histories,  \* histories of the registry: by moment, the entries that opt in
  Bodies,     \* the bodies of dispatches
  Chunks,     \* what the rag service holds: kind and distance
  BaseTopK,   \* ragCfg.TopK
  MaxTopK,    \* the most a request may ask for, 20
  MemoryTopK  \* defaultMemoryTopK

MemoryKinds == {"fact", "preference"}
AnyKind     == {}
Unset       == -1  \* rag_min_score when it is not given; any negative one is as good
NoFilter    == 1   \* ragCfg.MinScore

ASSUME HandlerAssumption == Handler \in Callers
ASSUME ChunkAssumption == IsFiniteSet(Chunks) /\ \A h \in Chunks : h.distance \in Nat
ASSUME BodyAssumption  ==
  Bodies \subseteq [use_rag : BOOLEAN, agents : SUBSET Agents, topk : Nat, kinds : SUBSET STRING,
                    min_score : Int, use_memory : BOOLEAN]
ASSUME TopKAssumption  == {BaseTopK, MaxTopK, MemoryTopK} \subseteq Nat \ {0}

VARIABLES
  history,  \* of the registry
  enabled,  \* ragCfg.Enabled
  step,     \* where the handler is
  body,     \* its request as it was parsed
  req,      \* its request as merged with the roster
  failed,   \* whether its own request to the registry has failed
  memory,   \* the memory hits
  out       \* the blocks: what they show, and to whom

ragvars == <<history, enabled, step, body, req, failed, memory, out>>
rvars == <<cvars, ragvars>>
------------------------------------------------------------------------------
\* The agents a request targets that the caller did not; and with them, which chunks.
Added(b, roster) == {e.name : e \in roster} \ b.agents

LargestTopK(roster) == CHOOSE k \in {0} \union {e.topk : e \in roster} : \A e \in roster : k >= e.topk

\* mergeRosterRAG.
Merge(b, roster) ==
  IF Added(b, roster) = {} THEN b
  ELSE [b EXCEPT !.use_rag = TRUE,
                 !.agents  = @ \union Added(b, roster),
                 !.topk    = IF @ = 0 THEN LargestTopK(roster) ELSE @,
                 !.kinds   = IF @ = {} THEN UNION {e.kinds : e \in roster} ELSE @]

Nothing == [docs |-> {}, memory |-> {}, everyone |-> FALSE, targets |-> {}]

Smaller(i, j) == IF i < j THEN i ELSE j

\* What Retrieve may return for settings: nothing whenever the service fails.
Retrieve(topk, kinds, minScore) ==
  {{h \in served : h.distance <= minScore} :
     served \in {s \in SUBSET {h \in Chunks : kinds = AnyKind \/ h.kind \in kinds} :
                   Cardinality(s) <= topk}}

\* What Roster has returned.
Roster == IF result[Handler] = None THEN {} ELSE history[result[Handler]]

AnyBody == CHOOSE b \in Bodies : TRUE

RInit == /\ Init
         /\ history \in Histories
         /\ enabled \in BOOLEAN
         /\ step   = "idle"
         /\ body   = AnyBody
         /\ req    = body
         /\ failed = FALSE
         /\ memory = {}
         /\ out    = Nothing

\* The handler parses the body and calls Roster; so do the others.
Dispatch == /\ step = "idle"
            /\ Call(Handler)
            /\ body' \in Bodies
            /\ step' = "roster"
            /\ UNCHANGED <<history, enabled, req, failed, memory, out>>

OtherCalls(c) == c # Handler /\ Call(c) /\ UNCHANGED ragvars

\* The steps of Roster; a failed request is logged.
RTick    == Tick /\ UNCHANGED ragvars
RServe   == Serve /\ UNCHANGED ragvars
RTake(c) == Take(c) /\ UNCHANGED ragvars
REnd(c)  == /\ \/ Fetched(c) /\ UNCHANGED failed
               \/ FetchFails(c) /\ failed' = IF c = Handler THEN TRUE ELSE failed
            /\ UNCHANGED <<history, enabled, step, body, req, memory, out>>

\* mergeRosterRAG, and retrieveMemory.
Remember == /\ step = "roster"
            /\ Handler \notin calling
            /\ req' = Merge(body, Roster)
            /\ memory' \in IF body.use_memory /\ enabled
                           THEN Retrieve(Smaller(MemoryTopK, BaseTopK), MemoryKinds, NoFilter)
                           ELSE {{}}
            /\ step' = "documents"
            /\ UNCHANGED <<cvars, history, enabled, body, failed, out>>

\* Mutant: the block is routed by the request as it was parsed.
RoutedByBody(hits) == IF hits = {} THEN {} ELSE body.agents

\* withRAGModeConfig(req.ModeConfig, ragRes, req.RagAgents): who is given the block.
Routed(hits) == IF hits = {} THEN {} ELSE req.agents

\* The rest of BuildRAG: the documents go into the prompt when no agent is targeted.
Documents ==
  /\ step = "documents"
  /\ LET topk == IF req.topk > 0 THEN Smaller(req.topk, MaxTopK) ELSE BaseTopK
         min  == IF req.min_score \in 0..NoFilter THEN req.min_score ELSE NoFilter
     IN  \E hits \in IF req.use_rag /\ enabled THEN Retrieve(topk, req.kinds, min) ELSE {{}} :
           out' = [docs |-> hits, memory |-> memory, everyone |-> req.agents = {},
                   targets |-> Routed(hits)]
  /\ step' = "prepared"
  /\ UNCHANGED <<cvars, history, enabled, body, req, failed, memory>>

\* What follows is the business of Dispatch; the variables of the handler are gone with it.
Hand == /\ step = "prepared"
        /\ step'   = "idle"
        /\ body'   = AnyBody
        /\ req'    = AnyBody
        /\ failed' = FALSE
        /\ memory' = {}
        /\ out'    = Nothing
        /\ UNCHANGED <<cvars, history, enabled>>

RNext == \/ RTick
         \/ RServe
         \/ Dispatch
         \/ Remember
         \/ Documents
         \/ Hand
         \/ \E c \in Callers : OtherCalls(c) \/ RTake(c) \/ REnd(c)

RSpec == RInit /\ [][RNext]_rvars

\* A Go mutex starves nobody; the calls to the registry and to the rag service have timeouts.
RFairSpec == /\ RSpec
             /\ WF_rvars(RTick)
             /\ WF_rvars(Remember \/ Documents)
             /\ \A c \in Callers : SF_rvars(RTake(c)) /\ WF_rvars(REnd(c))
------------------------------------------------------------------------------
Prepared == step = "prepared"

\* The agents that are shown the documents of the dispatch.
Shown == IF out.docs = {} THEN {} ELSE IF out.everyone THEN Agents ELSE out.targets

\* The moments whose rosters the dispatch may have gone by.
Window == {t \in 0..clock : t + TTL + Timeout >= since[Handler]}

OptsIn(a, t) == \E e \in history[t] : e.name = a

(* "the prepare step retrieves context for those agents even when the caller  *)
(* did not ask" (mergeRosterRAG): an agent that has been opted in for as long *)
(* as a roster may be cached is shown the documents of every dispatch when    *)
(* there are any, unless the registry failed this very dispatch, or the       *)
(* caller targets the agent itself without asking for RAG.  While the rag     *)
(* service answers, such a dispatch does ask for documents.                   *)
OptInReaches == Prepared => \A a \in Agents :
  /\ ~failed
  /\ \A t \in Window : OptsIn(a, t)
  /\ a \in body.agents => body.use_rag
  => req.use_rag /\ (out.docs # {} => a \in Shown)

(* The documents are shown to nobody else: only to agents the caller targets, *)
(* to all of them when the caller asks for RAG and targets none, and to those *)
(* that have opted in within the time a roster may be cached, or, while the   *)
(* registry is failing, at some time.                                         *)
OnlyTargetsSee == Prepared => \A a \in Shown :
  \/ a \in body.agents
  \/ body.use_rag /\ body.agents = {}
  \/ \E t \in IF failed THEN 0..clock ELSE Window : OptsIn(a, t)

(* "an explicit rag_top_k / rag_kinds is never overwritten" (mergeRosterRAG): *)
(* whatever the agents of the roster ask for, the documents of a dispatch are *)
(* no more, of the kinds and as close as its caller has asked for.            *)
RequestWins == Prepared =>
  /\ body.topk > 0 => Cardinality(out.docs) <= Smaller(body.topk, MaxTopK)
  /\ \A h \in out.docs : /\ body.kinds # AnyKind => h.kind \in body.kinds
                         /\ body.min_score >= 0 => h.distance <= body.min_score

(* Every dispatch gets past its preparation, although the registry and the    *)
(* rag service may never answer: "dispatch must stay available".              *)
PreparationEnds == step = "roster" ~> Prepared

(* Refuted: "any agent whose roster entry has use_rag=true is added to the    *)
(* targeted set and RAG is enabled" (mergeRosterRAG).  A roster that opts in  *)
(* only agents the caller has named already leaves RAG off.                   *)
OptInEnables == Prepared /\ Roster # {} => req.use_rag

(* Refuted: "Request-level intent wins" (mergeRosterRAG).  A caller that asks *)
(* for RAG and names no agent asks for it for all of them; an agent of the    *)
(* roster that opts in narrows that to itself.                                *)
AskedForAll ==
  Prepared /\ body.use_rag /\ body.agents = {} /\ out.docs # {} => Shown = Agents
=============================================================================
