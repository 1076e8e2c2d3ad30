----------------------------- MODULE RosterProofs -----------------------------
(* The rosters that dispatches go by, and whom they show documents to, for   *)
(* any number of callers, any TTL and timeout, any history of the registry   *)
(* and any behaviour of the registry and the rag service.                    *)
EXTENDS RosterRAG, FiniteSetTheorems, TLAPS

(* What is cached was served at most one timeout before it was stored ...    *)
CacheAge == cache # None => cache <= fetched /\ fetched <= cache + Timeout

(* ... a request under way is a caller's, was sent after that, and ends by   *)
(* its timeout ...                                                           *)
RequestAge == holder # Nobody => /\ holder \in calling
                                 /\ fetched <= began
                                 /\ began <= clock
                                 /\ clock <= began + Timeout
                                 /\ answer # None => began <= answer /\ answer <= clock

(* ... and nobody has been given anything later than what is cached.         *)
GivenByCache == \A c \in Callers : result[c] # None => cache # None /\ result[c] <= cache

CacheInv == TypeOK /\ fetched <= clock /\ CacheAge /\ RequestAge /\ GivenByCache

LEMMA CacheInit == Init => CacheInv
  BY TimeAssumption
     DEF Init, CacheInv, TypeOK, CacheAge, RequestAge, GivenByCache

LEMMA CacheStep == CacheInv /\ [Next]_cvars => CacheInv'
<1> SUFFICES ASSUME CacheInv, [Next]_cvars PROVE CacheInv'
  OBVIOUS
<1> USE TimeAssumption, CallerAssumption DEF CacheInv, TypeOK, CacheAge, RequestAge, GivenByCache
<1>1. CASE Tick
  BY <1>1 DEF Tick, Expired
<1>2. CASE Serve
  BY <1>2 DEF Serve
<1>3. ASSUME NEW c \in Callers, Call(c) PROVE CacheInv'
  BY <1>3 DEF Call
<1>4. ASSUME NEW c \in Callers, Hit(c) PROVE CacheInv'
  BY <1>4 DEF Hit, Return, Fresh
<1>5. ASSUME NEW c \in Callers, Miss(c) PROVE CacheInv'
  BY <1>5 DEF Miss
<1>6. ASSUME NEW c \in Callers, Fetched(c) PROVE CacheInv'
  BY <1>6 DEF Fetched, Return
<1>7. ASSUME NEW c \in Callers, FetchFails(c) PROVE CacheInv'
  BY <1>7 DEF FetchFails, Return
<1>8. CASE UNCHANGED cvars
  BY <1>8 DEF cvars
<1> QED
  BY <1>1, <1>2, <1>3, <1>4, <1>5, <1>6, <1>7, <1>8 DEF Next, Take, End

LEMMA CacheInvHolds == Spec => []CacheInv
  BY CacheInit, CacheStep, PTL DEF Spec

(* A caller that is served without a request of its own is given a roster    *)
(* that the registry had at most TTL and one timeout ago: Roster.            *)
THEOREM RosterIsFresh == Spec => CachedIsFresh
<1> DEFINE Step == \A c \in Callers \ {holder} :
                      c \in calling /\ c \notin calling' /\ result'[c] # None =>
                        clock - result'[c] <= TTL + Timeout
<1>1. CacheInv /\ [Next]_cvars => [Step]_cvars
  <2> SUFFICES ASSUME CacheInv, Next, NEW c \in Callers \ {holder},
                      c \in calling, c \notin calling', result'[c] # None
               PROVE  clock - result'[c] <= TTL + Timeout
    BY DEF Step
  <2> USE TimeAssumption DEF CacheInv, TypeOK
  <2>1. Hit(c)
    <3>1. ASSUME NEW d \in Callers, Hit(d) \/ Fetched(d) \/ FetchFails(d) PROVE d = c
      BY <3>1 DEF Hit, Fetched, FetchFails, Return
    <3>2. ~(Tick \/ Serve \/ \E d \in Callers : Call(d) \/ Miss(d))
      BY DEF Tick, Serve, Call, Miss
    <3>3. ~Fetched(c) /\ ~FetchFails(c)
      BY DEF Fetched, FetchFails
    <3> QED
      BY <3>1, <3>2, <3>3 DEF Next, Take, End
  <2>2. result'[c] = cache /\ cache # None /\ clock - fetched < TTL
    BY <2>1 DEF Hit, Return, Fresh
  <2> QED
    BY <2>2 DEF CacheAge
<1> QED
  BY <1>1, CacheInvHolds, PTL DEF Spec, CachedIsFresh

(* Rosters never go back, also while requests to the registry fail: Roster.  *)
THEOREM RosterNeverGoesBack == Spec => NeverBackwards
<1> DEFINE Step == \A c \in Callers : \A d \in Callers :
                     c \in calling /\ c \notin calling' /\ result[d] # None =>
                       result'[c] # None /\ result'[c] >= result[d]
<1>1. CacheInv /\ [Next]_cvars => [Step]_cvars
  <2> SUFFICES ASSUME CacheInv, Next, NEW c \in Callers, NEW d \in Callers,
                      c \in calling, c \notin calling', result[d] # None
               PROVE  result'[c] # None /\ result'[c] >= result[d]
    BY DEF Step
  <2> USE TimeAssumption, CallerAssumption DEF CacheInv, TypeOK
  <2>1. cache # None /\ result[d] <= cache
    BY DEF GivenByCache
  <2>2. ~(Tick \/ Serve \/ \E e \in Callers : Call(e) \/ Miss(e))
    BY DEF Tick, Serve, Call, Miss
  <2>3. ASSUME NEW e \in Callers, Hit(e) PROVE result'[c] = cache
    BY <2>3 DEF Hit, Return
  <2>4. ASSUME NEW e \in Callers, FetchFails(e) PROVE result'[c] = cache
    BY <2>4 DEF FetchFails, Return
  <2>5. ASSUME NEW e \in Callers, Fetched(e) PROVE result'[c] \in Nat /\ result'[c] >= cache
    <3>1. result'[c] = answer /\ answer # None /\ holder # Nobody
      BY <2>5 DEF Fetched, Return
    <3> QED
      BY <3>1, <2>1 DEF CacheAge, RequestAge
  <2>6. {cache, result[d]} \subseteq Nat
    BY <2>1
  <2>7. result'[c] \in Nat /\ result'[c] >= cache
    BY <2>2, <2>3, <2>4, <2>5, <2>6 DEF Next, Take, End
  <2> QED
    BY <2>1, <2>6, <2>7
<1> QED
  BY <1>1, CacheInvHolds, PTL DEF Spec, NeverBackwards

(* Dispatches use the roster only through its own operations.                *)
LEMMA StepIsCacheStep == [RNext]_rvars => [Next]_cvars
<1> SUFFICES ASSUME [RNext]_rvars PROVE [Next]_cvars
  OBVIOUS
<1>1. CASE RTick \/ RServe
  BY <1>1 DEF RTick, RServe, Next
<1>2. CASE Dispatch
  BY <1>2, HandlerAssumption DEF Dispatch, Next
<1>3. CASE Remember \/ Documents \/ Hand
  BY <1>3 DEF Remember, Documents, Hand
<1>4. ASSUME NEW c \in Callers, OtherCalls(c) \/ RTake(c) \/ REnd(c) PROVE [Next]_cvars
  BY <1>4 DEF OtherCalls, RTake, REnd, Next, End
<1>5. CASE UNCHANGED rvars
  BY <1>5 DEF rvars
<1> QED
  BY <1>1, <1>2, <1>3, <1>4, <1>5 DEF RNext

THEOREM DispatchesUseRoster == RSpec => Spec
<1>1. RInit => Init
  BY DEF RInit
<1> QED
  BY <1>1, StepIsCacheStep, PTL DEF RSpec, Spec

(* What mergeRosterRAG does: who is targeted, and when RAG is on.            *)
LEMMA MergeTargets ==
  ASSUME NEW b \in Bodies, NEW roster
  PROVE  /\ Merge(b, roster).agents = b.agents \union {e.name : e \in roster}
         /\ Merge(b, roster).use_rag = (b.use_rag \/ Added(b, roster) # {})
<1> b \in [use_rag : BOOLEAN, agents : SUBSET Agents, topk : Nat, kinds : SUBSET STRING,
           min_score : Int, use_memory : BOOLEAN]
  BY BodyAssumption
<1>1. CASE Added(b, roster) = {}
  BY <1>1 DEF Merge, Added
<1>2. CASE Added(b, roster) # {}
  <2>1. /\ Merge(b, roster).agents = b.agents \union Added(b, roster)
        /\ Merge(b, roster).use_rag
    BY <1>2 DEF Merge
  <2> QED
    BY <1>2, <2>1 DEF Added
<1> QED
  BY <1>1, <1>2

(* A handler that has left Roster goes by a roster of its window, unless the *)
(* registry failed it; it merges that one, and routes by the merged request. *)
Steps == {"idle", "roster", "documents", "prepared"}

GoesBy == Handler \notin calling /\ ~failed =>
            /\ result[Handler] # None
            /\ since[Handler] <= result[Handler] + TTL + Timeout

DispatchInv ==
  /\ step \in Steps
  /\ failed \in BOOLEAN
  /\ since[Handler] <= clock
  /\ Handler \in calling => step = "roster" /\ ~failed
  /\ step = "idle" => ~failed
  /\ step # "idle" => body \in Bodies /\ GoesBy
  /\ step \in {"documents", "prepared"} => req = Merge(body, Roster)
  /\ step = "prepared" => /\ out.everyone = (req.agents = {})
                          /\ out.targets = Routed(out.docs)
                          /\ out.docs # {} => req.use_rag

LEMMA DispatchInit == RInit => DispatchInv
<1> SUFFICES ASSUME RInit PROVE DispatchInv
  OBVIOUS
<1>1. since[Handler] = 0 /\ clock = 0 /\ calling = {}
  BY HandlerAssumption DEF RInit, Init
<1>2. step = "idle" /\ failed = FALSE
  BY DEF RInit
<1>3. since[Handler] <= clock
  BY <1>1
<1>4. failed \in BOOLEAN /\ ~failed
  BY <1>2
<1>5. step \in Steps
  BY <1>2 DEF Steps
<1> QED
  BY <1>1, <1>2, <1>3, <1>4, <1>5 DEF DispatchInv

LEMMA ReturnGoesBy ==
  ASSUME CacheInv, DispatchInv, Hit(Handler) \/ Fetched(Handler)
  PROVE  /\ result'[Handler] # None
         /\ since[Handler] <= result'[Handler] + TTL + Timeout
<1> USE HandlerAssumption, TimeAssumption, CallerAssumption DEF CacheInv, TypeOK
<1>1. CASE Hit(Handler)
  BY <1>1 DEF Hit, Fresh, Return, CacheAge, DispatchInv
<1>2. CASE Fetched(Handler)
  <2>1. /\ result'[Handler] = answer
        /\ answer # None
        /\ began <= answer
        /\ clock <= began + Timeout
    BY <1>2 DEF Fetched, Return, RequestAge
  <2> QED
    BY <2>1 DEF DispatchInv
<1> QED
  BY <1>1, <1>2

LEMMA DispatchStep == CacheInv /\ DispatchInv /\ [RNext]_rvars => DispatchInv'
<1> SUFFICES ASSUME CacheInv, DispatchInv, [RNext]_rvars PROVE DispatchInv'
  OBVIOUS
<1> USE HandlerAssumption, TimeAssumption, CallerAssumption
    DEF DispatchInv, Steps, GoesBy, Roster, Routed
<1>0. TypeOK /\ (holder # Nobody => holder \in calling)
  BY DEF CacheInv, RequestAge
<1>1. CASE RTick
  BY <1>1, <1>0 DEF RTick, Tick, ragvars, TypeOK
<1>2. CASE RServe
  BY <1>2 DEF RServe, Serve, ragvars
<1>3. CASE Dispatch
  BY <1>3, <1>0 DEF Dispatch, Call, TypeOK
<1>4. ASSUME NEW c \in Callers, OtherCalls(c) PROVE DispatchInv'
  BY <1>4, <1>0 DEF OtherCalls, Call, ragvars, TypeOK
<1>5. ASSUME NEW c \in Callers, Hit(c), UNCHANGED ragvars PROVE DispatchInv'
  <2>1. CASE c = Handler
    BY <1>5, <2>1, ReturnGoesBy DEF Hit, Return, ragvars
  <2>2. CASE c # Handler
    BY <1>5, <2>2, <1>0 DEF Hit, Return, ragvars, TypeOK
  <2> QED
    BY <2>1, <2>2
<1>6. ASSUME NEW c \in Callers, Miss(c), UNCHANGED ragvars PROVE DispatchInv'
  BY <1>6 DEF Miss, ragvars
<1>7. ASSUME NEW c \in Callers, Fetched(c), UNCHANGED ragvars PROVE DispatchInv'
  <2>1. CASE c = Handler
    BY <1>7, <2>1, <1>0, ReturnGoesBy DEF TypeOK, Fetched, Return, ragvars
  <2>2. CASE c # Handler
    BY <1>7, <2>2, <1>0 DEF Fetched, Return, ragvars, TypeOK
  <2> QED
    BY <2>1, <2>2
<1>8. ASSUME NEW c \in Callers, FetchFails(c), failed' = IF c = Handler THEN TRUE ELSE failed,
             UNCHANGED <<history, enabled, step, body, req, memory, out>>
      PROVE  DispatchInv'
  BY <1>8, <1>0 DEF FetchFails, Return, TypeOK
<1>9. CASE Remember
  BY <1>9 DEF Remember, cvars
<1>10. CASE Documents
  BY <1>10 DEF Documents, cvars
<1>11. CASE Hand
  BY <1>11 DEF Hand, cvars
<1>12. CASE UNCHANGED rvars
  BY <1>12 DEF rvars, cvars, ragvars
<1> QED
  BY <1>1, <1>2, <1>3, <1>4, <1>5, <1>6, <1>7, <1>8, <1>9, <1>10, <1>11, <1>12
     DEF RNext, RTake, Take, REnd, ragvars

LEMMA DispatchInvHolds == RSpec => [](CacheInv /\ DispatchInv)
<1>1. RSpec => []CacheInv
  BY DispatchesUseRoster, CacheInvHolds, PTL
<1>2. RInit => DispatchInv
  BY DispatchInit
<1> QED
  BY <1>1, <1>2, DispatchStep, PTL DEF RSpec

(* The roster of a prepared dispatch is of its window, or of some moment.    *)
LEMMA PreparedGoesBy ==
  ASSUME CacheInv, DispatchInv, Prepared
  PROVE  /\ ~failed => result[Handler] # None
         /\ result[Handler] # None => result[Handler] \in 0..clock
         /\ ~failed => result[Handler] \in Window
<1> USE HandlerAssumption, TimeAssumption DEF CacheInv, TypeOK
<1>1. ~failed => /\ result[Handler] # None
                 /\ since[Handler] <= result[Handler] + TTL + Timeout
  BY DEF DispatchInv, GoesBy, Prepared
<1>2. result[Handler] # None => result[Handler] \in 0..clock
  BY DEF GivenByCache, CacheAge
<1> QED
  BY <1>1, <1>2 DEF Window

(* Agents that opt in are shown the documents: Roster, mergeRosterRAG,       *)
(* BuildRAG and withRAGModeConfig together.                                  *)
THEOREM OptInReachesAgents == RSpec => []OptInReaches
<1>1. CacheInv /\ DispatchInv => OptInReaches
  <2> SUFFICES ASSUME CacheInv, DispatchInv, Prepared, NEW a \in Agents,
                      ~failed, \A t \in Window : OptsIn(a, t),
                      a \in body.agents => body.use_rag
               PROVE  req.use_rag /\ (out.docs # {} => a \in Shown)
    BY DEF OptInReaches
  <2>1. a \in {e.name : e \in Roster}
    BY PreparedGoesBy DEF OptsIn, Roster
  <2>2. /\ body \in Bodies
        /\ req = Merge(body, Roster)
        /\ out.everyone = (req.agents = {})
        /\ out.targets = Routed(out.docs)
    BY DEF DispatchInv, Prepared
  <2>3. req.use_rag /\ a \in req.agents
    <3>1. /\ req.agents = body.agents \union {e.name : e \in Roster}
          /\ req.use_rag = (body.use_rag \/ Added(body, Roster) # {})
      BY <2>2, MergeTargets
    <3> QED
      BY <2>1, <3>1 DEF Added
  <2> QED
    BY <2>2, <2>3 DEF Shown, Routed
<1> QED
  BY <1>1, DispatchInvHolds, PTL

(* Nobody else is.                                                           *)
THEOREM OnlyTargetsAreShown == RSpec => []OnlyTargetsSee
<1>1. CacheInv /\ DispatchInv => OnlyTargetsSee
  <2> SUFFICES ASSUME CacheInv, DispatchInv, Prepared, NEW a \in Shown,
                      a \notin body.agents, ~(body.use_rag /\ body.agents = {})
               PROVE  \E t \in IF failed THEN 0..clock ELSE Window : OptsIn(a, t)
    BY DEF OnlyTargetsSee
  <2>1. /\ body \in Bodies
        /\ req = Merge(body, Roster)
        /\ out.everyone = (req.agents = {})
        /\ out.targets = Routed(out.docs)
        /\ req.use_rag
        /\ out.docs # {}
    BY DEF DispatchInv, Prepared, Shown
  <2>2. /\ req.agents = body.agents \union {e.name : e \in Roster}
        /\ req.use_rag = (body.use_rag \/ Added(body, Roster) # {})
    BY <2>1, MergeTargets
  <2>3. req.agents # {}
    BY <2>1, <2>2 DEF Added
  <2>4. a \in {e.name : e \in Roster}
    BY <2>1, <2>2, <2>3 DEF Shown, Routed
  <2>5. result[Handler] # None /\ OptsIn(a, result[Handler])
    BY <2>4 DEF Roster, OptsIn
  <2> QED
    BY <2>5, PreparedGoesBy
<1> QED
  BY <1>1, DispatchInvHolds, PTL
------------------------------------------------------------------------------
(* What the rag service is asked for, and what may come of it.               *)
AskedTopK == IF req.topk > 0 THEN Smaller(req.topk, MaxTopK) ELSE BaseTopK
AskedMin  == IF req.min_score \in 0..NoFilter THEN req.min_score ELSE NoFilter

AskedInv == step = "prepared" => out.docs = {} \/ out.docs \in Retrieve(AskedTopK, req.kinds, AskedMin)

(* What the caller has asked for stays as it is.                             *)
LEMMA MergeKeeps ==
  ASSUME NEW b \in Bodies, NEW roster
  PROVE  /\ b.topk > 0 => Merge(b, roster).topk = b.topk
         /\ b.kinds # {} => Merge(b, roster).kinds = b.kinds
         /\ Merge(b, roster).min_score = b.min_score
<1>1. b \in [use_rag : BOOLEAN, agents : SUBSET Agents, topk : Nat, kinds : SUBSET STRING,
             min_score : Int, use_memory : BOOLEAN]
  BY BodyAssumption
<1>2. b.topk > 0 => b.topk # 0
  BY <1>1
<1> QED
  BY <1>1, <1>2 DEF Merge

(* There are no more hits than were asked for.                               *)
LEMMA Retrieved ==
  ASSUME NEW topk \in Nat, NEW kinds, NEW min, NEW hits \in Retrieve(topk, kinds, min)
  PROVE  Cardinality(hits) <= topk
<1>1. PICK served \in SUBSET {h \in Chunks : kinds = AnyKind \/ h.kind \in kinds} :
        Cardinality(served) <= topk /\ hits = {h \in served : h.distance <= min}
  BY DEF Retrieve
<1>2. IsFiniteSet(served)
  <2>1. served \subseteq Chunks
    BY <1>1
  <2> QED
    BY <2>1, ChunkAssumption, FS_Subset
<1>3. Cardinality(hits) <= Cardinality(served)
  BY <1>1, <1>2, FS_Subset
<1>4. Cardinality(hits) \in Nat /\ Cardinality(served) \in Nat
  BY <1>1, <1>2, FS_Subset, FS_CardinalityType
<1> QED
  BY <1>1, <1>3, <1>4

(* Every step keeps what was shown in agreement with what was asked for.     *)
LEMMA AskedStep == DispatchInv /\ AskedInv /\ [RNext]_rvars => AskedInv'
<1> SUFFICES ASSUME DispatchInv, AskedInv, [RNext]_rvars PROVE AskedInv'
  OBVIOUS
<1> USE DEF AskedInv, AskedTopK, AskedMin
<1>1. CASE Documents
  BY <1>1 DEF Documents, AnyKind
<1>2. CASE Remember \/ Hand \/ Dispatch
  <2>1. step' # "prepared"
    BY <1>2 DEF Remember, Hand, Dispatch
  <2> QED
    BY <2>1
<1>3. CASE UNCHANGED <<step, req, out>>
  BY <1>3
<1>4. ASSUME NEW c \in Callers, OtherCalls(c) \/ RTake(c) \/ REnd(c)
      PROVE  UNCHANGED <<step, req, out>>
  BY <1>4 DEF OtherCalls, RTake, REnd, ragvars
<1>5. RTick \/ RServe \/ UNCHANGED rvars => UNCHANGED <<step, req, out>>
  BY DEF RTick, RServe, rvars, ragvars
<1> QED
  BY <1>1, <1>2, <1>3, <1>4, <1>5 DEF RNext

(* What the caller has asked for goes before what the roster says, whoever   *)
(* opts in: mergeRosterRAG, BuildRAG and the rag client together.            *)
THEOREM CallersRequestWins == RSpec => []RequestWins
<1>1. RInit => AskedInv
  BY DEF RInit, AskedInv
<1>2. DispatchInv /\ AskedInv => RequestWins
  <2> SUFFICES ASSUME DispatchInv, AskedInv, Prepared
               PROVE  /\ body.topk > 0 => Cardinality(out.docs) <= Smaller(body.topk, MaxTopK)
                      /\ \A h \in out.docs : /\ body.kinds # AnyKind => h.kind \in body.kinds
                                             /\ body.min_score >= 0 => h.distance <= body.min_score
    BY DEF RequestWins
  <2>1. /\ body \in Bodies
        /\ req = Merge(body, Roster)
        /\ out.docs = {} \/ out.docs \in Retrieve(AskedTopK, req.kinds, AskedMin)
    BY DEF DispatchInv, AskedInv, Prepared
  <2>2. /\ body.topk > 0 => req.topk = body.topk
        /\ body.kinds # AnyKind => req.kinds = body.kinds
        /\ req.min_score = body.min_score
    BY <2>1, MergeKeeps DEF AnyKind
  <2>3. body.topk \in Nat /\ body.min_score \in Int
    BY <2>1, BodyAssumption
  <2>4. CASE out.docs = {}
    <3>1. Cardinality(out.docs) = 0
      BY <2>4, FS_EmptySet
    <3> QED
      BY <2>3, <2>4, <3>1, TopKAssumption DEF Smaller
  <2>5. CASE out.docs \in Retrieve(AskedTopK, req.kinds, AskedMin)
    <3>1. body.topk > 0 => AskedTopK = Smaller(body.topk, MaxTopK)
      BY <2>2 DEF AskedTopK
    <3>2. body.topk > 0 => Cardinality(out.docs) <= Smaller(body.topk, MaxTopK)
      <4>1. body.topk > 0 => AskedTopK \in Nat
        BY <2>3, <3>1, TopKAssumption DEF Smaller
      <4> QED
        BY <2>5, <3>1, <4>1, Retrieved
    <3>3. PICK served \in SUBSET {h \in Chunks : req.kinds = AnyKind \/ h.kind \in req.kinds} :
            out.docs = {h \in served : h.distance <= AskedMin}
      BY <2>5 DEF Retrieve
    <3>4. body.min_score >= 0 => AskedMin <= body.min_score /\ AskedMin \in Int
      BY <2>2, <2>3 DEF AskedMin, NoFilter
    <3>5. ASSUME NEW h \in out.docs, body.min_score >= 0 PROVE h.distance <= body.min_score
      <4>1. h.distance \in Nat /\ h.distance <= AskedMin
        BY <3>3, ChunkAssumption
      <4> QED
        BY <2>3, <3>4, <3>5, <4>1
    <3> QED
      BY <2>2, <3>2, <3>3, <3>5
  <2> QED
    BY <2>1, <2>4, <2>5
<1> QED
  BY <1>1, <1>2, AskedStep, DispatchInvHolds, PTL DEF RSpec
===============================================================================
