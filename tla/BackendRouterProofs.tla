------------------------- MODULE BackendRouterProofs -------------------------
(* What requests may rely on although they share one routing context, for    *)
(* any number of requests, any agents and contexts, and any length of the    *)
(* audit log.                                                                *)
EXTENDS SharedContext, SequenceTheorems, TLAPS

Entries == [agent : STRING, d : Decision]

(* The capped log keeps the end of what it is given.                         *)
LEMMA LastNEntries ==
  ASSUME NEW s \in Seq(Entries), NEW n \in Nat
  PROVE  /\ LastN(s, n) \in Seq(Entries)
         /\ Len(LastN(s, n)) = IF Len(s) <= n THEN Len(s) ELSE n
         /\ \A i \in 1..Len(LastN(s, n)) :
              LastN(s, n)[i] = s[i + Len(s) - Len(LastN(s, n))]
<1>1. CASE Len(s) <= n
  BY <1>1 DEF LastN
<1>2. CASE ~(Len(s) <= n)
  <2> DEFINE m == Len(s) - n + 1
  <2>1. m \in 1..(Len(s) + 1) /\ Len(s) \in Nat
    BY <1>2, LenProperties
  <2>2. \A i \in m..Len(s) : s[i] \in Entries
    BY <2>1, ElementOfSeq
  <2>3. LastN(s, n) = SubSeq(s, m, Len(s))
    BY <1>2 DEF LastN
  <2> HIDE DEF m
  <2>4. /\ SubSeq(s, m, Len(s)) \in Seq(Entries)
        /\ Len(SubSeq(s, m, Len(s))) = IF m <= Len(s) THEN Len(s) - m + 1 ELSE 0
        /\ \A i \in 1..(Len(s) - m + 1) : SubSeq(s, m, Len(s))[i] = s[m + i - 1]
    BY <2>1, <2>2, SubSeqProperties
  <2>5. Len(SubSeq(s, m, Len(s))) = n
    BY <1>2, <2>1, <2>4 DEF m
  <2>6. \A i \in 1..n : SubSeq(s, m, Len(s))[i] = s[i + Len(s) - n]
    BY <2>1, <2>4, <1>2 DEF m
  <2> QED
    BY <1>2, <2>3, <2>4, <2>5, <2>6
<1> QED
  BY <1>1, <1>2

(* Recording appends to the audit log, of which the end is kept, and gives   *)
(* the agent the one decision it has.                                        *)
LEMMA RecordAppends ==
  ASSUME LogAssumption, log \in Seq(Entries), Len(log) <= LogCap,
         NEW a \in AgentRecord, NEW d \in Decision, Record(a, d)
  PROVE  /\ log' \in Seq(Entries)
         /\ Len(log') \in 1..LogCap
         /\ log'[Len(log')] = [agent |-> a.name, d |-> d]
         /\ Len(log) + 1 - Len(log') \in {0, 1}
         /\ \A i \in 1..(Len(log') - 1) : log'[i] = log[i + Len(log) + 1 - Len(log')]
<1> DEFINE x == [agent |-> a.name, d |-> d]
           s == Append(log, x)
<1>1. x \in Entries
  BY DEF Entries, AgentRecord
<1>2. log' = LastN(s, LogCap)
  BY DEF Record
<1> HIDE DEF x
<1>3. /\ s \in Seq(Entries) /\ Len(s) = Len(log) + 1
      /\ \A i \in 1..Len(log) : s[i] = log[i]
      /\ s[Len(log) + 1] = x
  BY <1>1, AppendProperties
<1>4. Len(log) \in Nat /\ LogCap \in Nat \ {0}
  BY LenProperties, LogAssumption
<1> HIDE DEF s
<1>5. /\ log' \in Seq(Entries)
      /\ Len(log') = IF Len(s) <= LogCap THEN Len(s) ELSE LogCap
      /\ \A i \in 1..Len(log') : log'[i] = s[i + Len(s) - Len(log')]
  BY <1>2, <1>3, <1>4, LastNEntries
<1>6. Len(log') \in 1..LogCap /\ Len(log) + 1 - Len(log') \in {0, 1}
  BY <1>3, <1>4, <1>5
<1>7. log'[Len(log')] = x
  <2>1. Len(log') \in 1..Len(log') /\ Len(log') + Len(s) - Len(log') = Len(log) + 1
    BY <1>3, <1>4, <1>6
  <2> QED
    BY <1>3, <1>5, <2>1
<1>8. ASSUME NEW i \in 1..(Len(log') - 1)
      PROVE  log'[i] = log[i + Len(log) + 1 - Len(log')]
  <2> DEFINE j == i + Len(log) + 1 - Len(log')
  <2>1. i \in 1..Len(log') /\ i + Len(s) - Len(log') = j /\ j \in 1..Len(log)
    BY <1>3, <1>4, <1>6
  <2>2. log'[i] = s[i + Len(s) - Len(log')]
    BY <1>5, <2>1
  <2> HIDE DEF j
  <2>3. log'[i] = log[j]
    BY <1>3, <2>1, <2>2
  <2> QED
    BY <2>3 DEF j
<1> QED
  BY <1>5, <1>6, <1>7, <1>8 DEF x
------------------------------------------------------------------------------
(* A recorded decision is an entry like the others.                          *)
LEMMA RecordTyped ==
  ASSUME log \in Seq(Entries), Len(log) <= LogCap, decisions \subseteq Entries,
         NEW a \in Agents, NEW d \in Decision, Record(a, d)
  PROVE  /\ log' \in Seq(Entries) /\ Len(log') <= LogCap
         /\ decisions' \subseteq Entries
<1>1. a \in AgentRecord /\ a.name \in STRING
  BY AgentAssumption DEF AgentRecord
<1>2. log' \in Seq(Entries) /\ Len(log') \in 1..LogCap
  BY <1>1, LogAssumption, RecordAppends
<1>3. decisions' \subseteq Entries
  BY <1>1 DEF Record, Entries
<1> QED
  BY <1>2, <1>3, LogAssumption

(* The stations of each kind of request; a request has a decision from the   *)
(* ladder on until its reply, and a caller that has not got there has an     *)
(* attempt left.                                                             *)
Stations ==
  /\ \A p \in Dispatchers : pc[p] \in {"idle", "execute", "clear"}
  /\ \A p \in Resolvers : pc[p] \in {"idle", "resolve", "pick", "probe", "gate", "record", "clear"}
  /\ \A p \in Callers : pc[p] \notin {"execute", "clear"}

Deciding == {"probe", "gate", "record", "attempt", "failed", "fallback", "recordfb", "retry"}

RequestInv ==
  /\ TypeOK
  /\ Stations
  /\ \A p \in Proc : pc[p] \in Deciding => dec[p] \in Decision
  /\ \A p \in Callers : pc[p] \notin {"idle", "done"} => tries[p] # 0

(* Each rung of Resolve comes to a decision.                                 *)
LEMMA Decisions ==
  ASSUME NEW a \in Agents
  PROVE  /\ Legacy(a) \in Decision
         /\ Override(a) \in Decision
         /\ \A c \in Context : PickAuto(a, c) \in Decision
         /\ \A d \in Decision : Biased(a, d) \in Decision
<1>1. /\ a \in AgentRecord
      /\ a.def \in Backend
  BY AgentAssumption DEF AgentRecord
<1>3. Legacy(a) \in Decision
  BY <1>1 DEF Legacy, Dec, Decision, Reason
<1>4. Override(a) \in Decision
  BY <1>1, <1>3 DEF Override, Backend, Dec, Decision, Reason
<1>5. ASSUME NEW c \in Context PROVE PickAuto(a, c) \in Decision
  BY DEF PickAuto, Backend, Dec, Decision, Reason
<1>6. ASSUME NEW d \in Decision PROVE Biased(a, d) \in Decision
  <2>1. FasterProbe(a) \in Backend
    BY <1>1 DEF FasterProbe, Backend
  <2>2. d.reason \in Reason
    BY DEF Decision
  <2> QED
    BY <1>1, <2>1, <2>2 DEF Biased, Dec, Decision, Reason
<1> QED
  BY <1>3, <1>4, <1>5, <1>6

(* A probe keeps the count of samples and their average in their types.      *)
LEMMA SampleTyped ==
  ASSUME NEW b \in Backend, probe \in [Backend -> [samples : 0..2, ema : Nat]], Sample(b)
  PROVE  probe' \in [Backend -> [samples : 0..2, ema : Nat]]
<1>1. PICK l \in Latencies : \E ema \in IF probe[b].samples = 0 THEN {l}
               ELSE {x \in Latencies : \/ probe[b].ema <= x /\ x <= l
                                       \/ l <= x /\ x <= probe[b].ema} :
      probe' = [probe EXCEPT ![b] =
                  [samples |-> IF @.samples < 2 THEN @.samples + 1 ELSE 2, ema |-> ema]]
  BY DEF Sample
<1>2. PICK ema \in Latencies :
      probe' = [probe EXCEPT ![b] =
                  [samples |-> IF @.samples < 2 THEN @.samples + 1 ELSE 2, ema |-> ema]]
  BY <1>1
<1>3. ema \in Nat
  BY LogAssumption
<1>4. probe[b].samples \in 0..2
  OBVIOUS
<1>5. (IF probe[b].samples < 2 THEN probe[b].samples + 1 ELSE 2) \in 0..2
  BY <1>4
<1> QED
  BY <1>2, <1>3, <1>5

(* A server that has just started serves nobody.                             *)
LEMMA RequestInit == Init => RequestInv
<1> SUFFICES ASSUME Init PROVE RequestInv
  OBVIOUS
<1>1. AnyAgent \in Agents
  BY AgentAssumption DEF AnyAgent
<1>2. TypeOK
  BY <1>1, LogAssumption, EmptySeq DEF Init, TypeOK, PC, Entries
<1>3. Stations
  BY DEF Init, Stations, Proc
<1> QED
  BY <1>2, <1>3 DEF RequestInv, Init, Deciding, Proc

(* Every step keeps each request at one of its stations.                     *)
LEMMA RequestStep == RequestInv /\ [Next]_vars => RequestInv'
<1> SUFFICES ASSUME RequestInv, [Next]_vars PROVE RequestInv'
  OBVIOUS
<1> USE DEF Goto, router
<1>0. /\ mu \in {"free", "stuck"}
      /\ ctx \in Context \union {Nil}
      /\ decisions \subseteq Entries
      /\ log \in Seq(Entries) /\ Len(log) <= LogCap
      /\ probe \in [Backend -> [samples : 0..2, ema : Nat]]
      /\ pc \in [Proc -> PC]
      /\ own \in [Proc -> Context \union {Nil}]
      /\ agent \in [Proc -> Agents]
      /\ dec \in [Proc -> Decision \union {NoDecision}]
      /\ tries \in [Proc -> 0..2]
      /\ Stations
      /\ \A p \in Proc : pc[p] \in Deciding => dec[p] \in Decision
      /\ \A p \in Callers : pc[p] \notin {"idle", "done"} => tries[p] # 0
  BY DEF RequestInv, TypeOK, Entries
<1>01. AnyAgent \in Agents
  BY AgentAssumption DEF AnyAgent
<1>02. /\ mu' \in {"free", "stuck"}
       /\ ctx' \in Context \union {Nil}
       /\ decisions' \subseteq Entries
       /\ log' \in Seq(Entries) /\ Len(log') <= LogCap
       /\ probe' \in [Backend -> [samples : 0..2, ema : Nat]]
       /\ pc' \in [Proc -> PC]
       /\ own' \in [Proc -> Context \union {Nil}]
       /\ agent' \in [Proc -> Agents]
       /\ dec' \in [Proc -> Decision \union {NoDecision}]
       /\ tries' \in [Proc -> 0..2]
       /\ Stations'
       /\ \A p \in Proc : pc'[p] \in Deciding => dec'[p] \in Decision
       /\ \A p \in Callers : pc'[p] \notin {"idle", "done"} => tries'[p] # 0
       => RequestInv'
  BY DEF RequestInv, TypeOK, Entries
<1>1. ASSUME NEW p \in Proc, SetContext(p) PROVE RequestInv'
  <2>1. PICK c \in Context : ctx' = c /\ own' = [own EXCEPT ![p] = c]
    BY <1>1, ContextAssumption DEF SetContext
  <2>2. own' \in [Proc -> Context \union {Nil}]
    BY <1>0, <2>1
  <2>3. agent' \in [Proc -> Agents]
    BY <1>0, <1>01, <1>1 DEF SetContext
  <2>4. pc' \in [Proc -> PC] /\ Stations'
    BY <1>0, <1>1, ProcAssumption DEF SetContext, PC, Stations, Proc
  <2>5. \A q \in Proc : pc'[q] \in Deciding => dec'[q] \in Decision
    BY <1>0, <1>1 DEF SetContext, Deciding
  <2>6. \A q \in Callers : pc'[q] \notin {"idle", "done"} => tries'[q] # 0
    BY <1>0, <1>1, ProcAssumption DEF SetContext, Proc
  <2> QED
    BY <1>0, <1>02, <1>1, <2>1, <2>2, <2>3, <2>4, <2>5, <2>6 DEF SetContext
<1>2. ASSUME NEW p \in Proc, StartCall(p) PROVE RequestInv'
  <2>1. agent' \in [Proc -> Agents]
    BY <1>0, <1>2 DEF StartCall
  <2>2. tries' \in [Proc -> 0..2]
    BY <1>0, <1>2 DEF StartCall
  <2>3. pc' \in [Proc -> PC] /\ Stations'
    BY <1>0, <1>2, ProcAssumption DEF StartCall, PC, Stations, Proc
  <2>4. \A q \in Proc : pc'[q] \in Deciding => dec'[q] \in Decision
    BY <1>0, <1>2 DEF StartCall, Deciding
  <2> QED
    BY <1>0, <1>02, <1>2, <2>1, <2>2, <2>3, <2>4 DEF StartCall
<1>3. ASSUME NEW p \in Proc, Execute(p) \/ ExecutePanics(p) PROVE RequestInv'
  BY <1>0, <1>02, <1>3, ProcAssumption DEF Execute, ExecutePanics, PC, Deciding, Stations, Proc
<1>4. ASSUME NEW p \in Proc, ClearContext(p) PROVE RequestInv'
  BY <1>0, <1>01, <1>02, <1>4 DEF ClearContext, PC, Deciding, Stations, Proc
<1>5. ASSUME NEW p \in Proc, Resolve(p) PROVE RequestInv'
  <2>1. Legacy(agent[p]) \in Decision /\ Override(agent[p]) \in Decision
    BY <1>0, Decisions
  <2> QED
    <3>1. CASE ShouldRoute /\ agent[p].override = "auto"
      <4>1. pc[p] = "resolve" /\ pc' = [pc EXCEPT ![p] = "pick"]
            /\ UNCHANGED <<mu, router, own, agent, dec, tries>>
        BY <1>5, <3>1 DEF Resolve
      <4> QED
        BY <1>0, <1>02, <4>1, ProcAssumption DEF PC, Deciding, Stations, Proc
    <3>2. CASE ~(ShouldRoute /\ agent[p].override = "auto")
      <4>1. PICK d \in Decision : dec' = [dec EXCEPT ![p] = d]
        BY <1>5, <2>1, <3>2 DEF Resolve
      <4>2. pc[p] = "resolve" /\ pc' = [pc EXCEPT ![p] = "gate"]
            /\ UNCHANGED <<mu, router, own, agent, tries>>
        BY <1>5, <3>2 DEF Resolve
      <4> QED
        BY <1>0, <1>02, <4>1, <4>2, ProcAssumption DEF PC, Deciding, Stations, Proc
    <3> QED
      BY <3>1, <3>2
<1>6. ASSUME NEW p \in Proc, Pick(p) PROVE RequestInv'
  <2>1. PickAuto(agent[p], ctx) \in Decision
    BY <1>0, <1>6, Decisions DEF Pick
  <2> QED
    BY <1>0, <1>02, <1>6, <2>1, ProcAssumption DEF Pick, PC, Deciding, Stations, Proc
<1>7. ASSUME NEW p \in Proc, PickPanics(p) PROVE RequestInv'
  BY <1>0, <1>02, <1>7, ProcAssumption DEF PickPanics, PC, Deciding, Stations, Proc
<1>8. ASSUME NEW p \in Proc, Bias(p) PROVE RequestInv'
  <2>1. Biased(agent[p], dec[p]) \in Decision
    BY <1>0, <1>8, Decisions DEF Bias, Deciding
  <2> QED
    BY <1>0, <1>02, <1>8, <2>1, ProcAssumption DEF Bias, PC, Deciding, Stations, Proc
<1>9. ASSUME NEW p \in Proc, Gate(p) PROVE RequestInv'
  BY <1>0, <1>02, <1>9, ProcAssumption DEF Gate, AfterResolve, PC, Deciding, Stations, Proc
<1>10. ASSUME NEW p \in Proc, RecordDecision(p) PROVE RequestInv'
  <2>1. /\ log' \in Seq(Entries) /\ Len(log') <= LogCap
        /\ decisions' \subseteq Entries
    BY <1>0, <1>10, RecordTyped DEF RecordDecision, Deciding
  <2> QED
    BY <1>0, <1>02, <1>10, <2>1, ProcAssumption
       DEF RecordDecision, AfterResolve, PC, Deciding, Stations, Proc
<1>11. ASSUME NEW p \in Proc, AttemptOK(p) PROVE RequestInv'
  <2>1. probe' \in [Backend -> [samples : 0..2, ema : Nat]]
    BY <1>0, <1>11, SampleTyped DEF AttemptOK, Deciding, Decision
  <2> QED
    BY <1>0, <1>02, <1>11, <2>1, ProcAssumption DEF AttemptOK, PC, Deciding, Stations, Proc
<1>12. ASSUME NEW p \in Proc, AttemptRejected(p) \/ AttemptFails(p) PROVE RequestInv'
  BY <1>0, <1>02, <1>12, ProcAssumption
     DEF AttemptRejected, AttemptFails, PC, Deciding, Stations, Proc
<1>13. ASSUME NEW p \in Proc, FallbackGate(p) PROVE RequestInv'
  BY <1>0, <1>02, <1>13, ProcAssumption DEF FallbackGate, PC, Deciding, Stations, Proc
<1>14. ASSUME NEW p \in Proc, FallbackOK(p) PROVE RequestInv'
  <2>1. probe' \in [Backend -> [samples : 0..2, ema : Nat]]
    BY <1>0, <1>14, SampleTyped DEF FallbackOK, Deciding, Decision, Other, Backend
  <2> QED
    BY <1>0, <1>02, <1>14, <2>1, ProcAssumption DEF FallbackOK, PC, Deciding, Stations, Proc
<1>15. ASSUME NEW p \in Proc, FallbackRejected(p) \/ FallbackFails(p) PROVE RequestInv'
  BY <1>0, <1>02, <1>15, ProcAssumption
     DEF FallbackRejected, FallbackFails, PC, Deciding, Stations, Proc
<1>16. ASSUME NEW p \in Proc, RecordFallback(p) PROVE RequestInv'
  <2> DEFINE d == Dec(Other(dec[p].backend), "load_failure_fallback", TRUE)
  <2>0. Other(dec[p].backend) \in Backend
    BY DEF Other, Backend
  <2>1. d \in Decision
    BY <2>0 DEF Dec, Decision, Reason
  <2>2. Record(agent[p], d)
    BY <1>16 DEF RecordFallback
  <2>3. dec' = [dec EXCEPT ![p] = d]
    BY <1>16 DEF RecordFallback
  <2> HIDE DEF d
  <2>4. /\ log' \in Seq(Entries) /\ Len(log') <= LogCap
        /\ decisions' \subseteq Entries
    BY <1>0, <2>1, <2>2, RecordTyped
  <2> QED
    <3>1. pc' \in [Proc -> PC] /\ Stations'
      BY <1>0, <1>16, ProcAssumption DEF RecordFallback, PC, Stations, Proc
    <3>2. dec' \in [Proc -> Decision \union {NoDecision}]
      BY <1>0, <2>1, <2>3
    <3>3. \A q \in Proc : pc'[q] \in Deciding => dec'[q] \in Decision
      BY <1>0, <1>16, <2>1, <2>3 DEF RecordFallback, Deciding
    <3>4. \A q \in Callers : pc'[q] \notin {"idle", "done"} => tries'[q] # 0
      BY <1>0, <1>16 DEF RecordFallback, Proc
    <3> QED
      BY <1>0, <1>02, <1>16, <2>4, <3>1, <3>2, <3>3, <3>4 DEF RecordFallback
<1>17. ASSUME NEW p \in Proc, Retry(p) PROVE RequestInv'
  <2>1. tries[p] \in 0..2
    BY <1>0
  <2> QED
    <3>0. p \in Callers
      BY <1>0, <1>17 DEF Retry, Stations, Proc
    <3>1. tries[p] \in 1..2
      <4>1. tries[p] # 0
        BY <1>0, <1>17, <3>0 DEF Retry
      <4> QED
        BY <2>1, <4>1
    <3>4. tries' \in [Proc -> 0..2]
      BY <1>0, <1>17, <3>1 DEF Retry
    <3>5. \A q \in Callers : pc'[q] \notin {"idle", "done"} => tries'[q] # 0
      BY <1>0, <1>17, <3>0, <3>1, ProcAssumption DEF Retry, Proc
    <3>2. pc' \in [Proc -> PC] /\ Stations'
      BY <1>0, <1>17, ProcAssumption DEF Retry, PC, Stations, Proc
    <3>3. \A q \in Proc : pc'[q] \in Deciding => dec'[q] \in Decision
      BY <1>0, <1>17 DEF Retry, Deciding
    <3> QED
      BY <1>0, <1>02, <1>17, <3>2, <3>3, <3>4, <3>5 DEF Retry
<1>18. ASSUME NEW p \in Proc, Reply(p) PROVE RequestInv'
  BY <1>0, <1>01, <1>02, <1>18, ProcAssumption DEF Reply, PC, Deciding, Stations, Proc
<1>19. CASE UNCHANGED vars
  BY <1>0, <1>02, <1>19 DEF vars, Stations
<1> QED
  BY <1>1, <1>2, <1>3, <1>4, <1>5, <1>6, <1>7, <1>8, <1>9, <1>10, <1>11, <1>12, <1>13, <1>14,
     <1>15, <1>16, <1>17, <1>18, <1>19 DEF Next, Proceed

(* Every request is at one of its stations, and everything has its type.     *)
THEOREM RequestsTyped == Spec => []RequestInv
<1> QED
  BY RequestInit, RequestStep, PTL DEF Spec
------------------------------------------------------------------------------
(* What becomes of a decision on the way to its record.                      *)
Suits(a, d) == \/ d.backend \in a.supports
               \/ /\ d.backend = a.def
                  /\ d.reason \in {"legacy_engine", "override_unsupported_fallback",
                                   "auto_unsupported_fallback"}

Runnable(p) ==
  /\ pc[p] \in {"gate", "record"} => Suits(agent[p], dec[p])
  /\ pc[p] \in {"fallback", "recordfb"} => Other(dec[p].backend) \in agent[p].supports

(* Whatever Resolve ends with, the agent can run there, or the reason tells  *)
(* that it is its own engine all the same.                                   *)
LEMMA DecidedRunnable ==
  ASSUME NEW a \in Agents
  PROVE  /\ Suits(a, Legacy(a))
         /\ Suits(a, Override(a))
         /\ \A d \in Decision : Suits(a, Biased(a, d))
<1>1. Suits(a, Legacy(a))
  BY DEF Legacy, Dec, Suits
<1>2. Suits(a, Override(a))
  BY <1>1 DEF Override, Dec, Suits
<1>3. ASSUME NEW d \in Decision PROVE Suits(a, Biased(a, d))
  BY DEF Biased, Dec, Suits
<1> QED
  BY <1>1, <1>2, <1>3

(* A step of one request leaves the decisions of the others alone.           *)
LEMMA OthersRunnable ==
  ASSUME RequestInv, NEW p \in Proc, \A q \in Proc : Runnable(q),
         \E l \in PC : pc' = [pc EXCEPT ![p] = l],
         \E a \in Agents : agent' \in {agent, [agent EXCEPT ![p] = a]},
         \E d : dec' \in {dec, [dec EXCEPT ![p] = d]},
         Runnable(p)'
  PROVE  \A q \in Proc : Runnable(q)'
<1> SUFFICES ASSUME NEW q \in Proc, q # p PROVE Runnable(q)'
  OBVIOUS
<1>1. /\ pc \in [Proc -> PC]
      /\ agent \in [Proc -> Agents]
      /\ dec \in [Proc -> Decision \union {NoDecision}]
  BY DEF RequestInv, TypeOK
<1>2. pc'[q] = pc[q] /\ agent'[q] = agent[q] /\ dec'[q] = dec[q]
  BY <1>1
<1> QED
  BY <1>2 DEF Runnable

(* Every step keeps recorded decisions runnable.                             *)
LEMMA RunnableStep ==
  ASSUME RequestInv, \A q \in Proc : Runnable(q), [Next]_vars
  PROVE  \A q \in Proc : Runnable(q)'
<1> USE DEF Goto, router
<1>0. /\ pc \in [Proc -> PC]
      /\ agent \in [Proc -> Agents]
      /\ dec \in [Proc -> Decision \union {NoDecision}]
      /\ \A p \in Proc : pc[p] \in Deciding => dec[p] \in Decision
  BY DEF RequestInv, TypeOK
<1>01. AnyAgent \in Agents
  BY AgentAssumption DEF AnyAgent
<1>1. ASSUME NEW p \in Proc,
             \E l \in PC \ {"gate", "record", "fallback", "recordfb"} : pc' = [pc EXCEPT ![p] = l],
             \E a \in Agents : agent' \in {agent, [agent EXCEPT ![p] = a]},
             \E d : dec' \in {dec, [dec EXCEPT ![p] = d]}
      PROVE  \A q \in Proc : Runnable(q)'
  <2>1. Runnable(p)'
    BY <1>0, <1>1 DEF Runnable
  <2> QED
    BY <1>1, <2>1, OthersRunnable
<1>2. ASSUME NEW p \in Proc, SetContext(p) PROVE \A q \in Proc : Runnable(q)'
  <2>1. \E a \in Agents : agent' \in {agent, [agent EXCEPT ![p] = a]}
    BY <1>01, <1>2 DEF SetContext
  <2> QED
    BY <1>1, <1>2, <2>1 DEF SetContext, PC
<1>3. ASSUME NEW p \in Proc, StartCall(p) PROVE \A q \in Proc : Runnable(q)'
  <2>1. \E a \in Agents : agent' \in {agent, [agent EXCEPT ![p] = a]}
    BY <1>3 DEF StartCall
  <2> QED
    BY <1>1, <1>3, <2>1 DEF StartCall, PC
<1>4. ASSUME NEW p \in Proc, Execute(p) \/ ExecutePanics(p) \/ PickPanics(p)
      PROVE  \A q \in Proc : Runnable(q)'
  BY <1>1, <1>01, <1>4 DEF Execute, ExecutePanics, PickPanics, PC
<1>5. ASSUME NEW p \in Proc, ClearContext(p) \/ Reply(p)
      PROVE  \A q \in Proc : Runnable(q)'
  BY <1>1, <1>01, <1>5 DEF ClearContext, Reply, PC
<1>6. ASSUME NEW p \in Proc, Resolve(p) PROVE \A q \in Proc : Runnable(q)'
  <2>1. CASE ShouldRoute /\ agent[p].override = "auto"
    BY <1>1, <1>01, <1>6, <2>1 DEF Resolve, PC
  <2>2. CASE ~(ShouldRoute /\ agent[p].override = "auto")
    <3>1. PICK d \in {Legacy(agent[p]), Override(agent[p])} : dec' = [dec EXCEPT ![p] = d]
      BY <1>6, <2>2 DEF Resolve
    <3>2. pc' = [pc EXCEPT ![p] = "gate"] /\ agent' = agent
      BY <1>6, <2>2 DEF Resolve
    <3>3. Suits(agent[p], d)
      BY <1>0, <3>1, DecidedRunnable
    <3>4. Runnable(p)'
      BY <1>0, <3>1, <3>2, <3>3 DEF Runnable
    <3> QED
      BY <1>01, <3>1, <3>2, <3>4, OthersRunnable DEF PC
  <2> QED
    BY <2>1, <2>2
<1>7. ASSUME NEW p \in Proc, Pick(p) PROVE \A q \in Proc : Runnable(q)'
  BY <1>1, <1>01, <1>7 DEF Pick, PC
<1>8. ASSUME NEW p \in Proc, Bias(p) PROVE \A q \in Proc : Runnable(q)'
  <2>1. dec' = [dec EXCEPT ![p] = Biased(agent[p], dec[p])]
    BY <1>8 DEF Bias
  <2>2. dec[p] \in Decision /\ pc' = [pc EXCEPT ![p] = "gate"] /\ agent' = agent
    BY <1>0, <1>8 DEF Bias, Deciding
  <2>3. Suits(agent[p], Biased(agent[p], dec[p]))
    BY <1>0, <2>2, DecidedRunnable
  <2>4. Runnable(p)'
    BY <1>0, <2>1, <2>2, <2>3 DEF Runnable
  <2> QED
    BY <1>01, <2>1, <2>2, <2>4, OthersRunnable DEF PC
<1>9. ASSUME NEW p \in Proc, Gate(p) PROVE \A q \in Proc : Runnable(q)'
  <2>1. pc[p] = "gate" /\ UNCHANGED <<agent, dec>>
        /\ \E l \in {"record", "clear", "attempt"} : pc' = [pc EXCEPT ![p] = l]
    BY <1>9 DEF Gate, AfterResolve
  <2>2. Runnable(p)'
    BY <1>0, <2>1 DEF Runnable
  <2> QED
    BY <1>01, <2>1, <2>2, OthersRunnable DEF PC
<1>10. ASSUME NEW p \in Proc, RecordDecision(p) PROVE \A q \in Proc : Runnable(q)'
  <2>1. /\ \E l \in {"clear", "attempt"} : pc' = [pc EXCEPT ![p] = l]
        /\ UNCHANGED <<agent, dec>>
    BY <1>10 DEF RecordDecision, AfterResolve
  <2> QED
    BY <1>1, <1>01, <2>1 DEF PC
<1>11. ASSUME NEW p \in Proc, AttemptOK(p) \/ AttemptRejected(p) \/ AttemptFails(p)
       PROVE  \A q \in Proc : Runnable(q)'
  BY <1>1, <1>01, <1>11 DEF AttemptOK, AttemptRejected, AttemptFails, PC
<1>12. ASSUME NEW p \in Proc, FallbackGate(p) PROVE \A q \in Proc : Runnable(q)'
  <2>1. CASE ShouldRoute /\ Other(dec[p].backend) \in agent[p].supports
    <3>1. pc' = [pc EXCEPT ![p] = "fallback"] /\ UNCHANGED <<agent, dec>>
      BY <1>12, <2>1 DEF FallbackGate
    <3>2. Runnable(p)'
      BY <1>0, <2>1, <3>1 DEF Runnable
    <3> QED
      BY <1>01, <3>1, <3>2, OthersRunnable DEF PC
  <2>2. CASE ~(ShouldRoute /\ Other(dec[p].backend) \in agent[p].supports)
    BY <1>1, <1>01, <1>12, <2>2 DEF FallbackGate, PC
  <2> QED
    BY <2>1, <2>2
<1>13. ASSUME NEW p \in Proc, FallbackOK(p) \/ FallbackRejected(p)
       PROVE  \A q \in Proc : Runnable(q)'
  <2>1. pc[p] = "fallback" /\ pc' = [pc EXCEPT ![p] = "recordfb"] /\ UNCHANGED <<agent, dec>>
    BY <1>13 DEF FallbackOK, FallbackRejected
  <2>2. Runnable(p)'
    BY <1>0, <2>1 DEF Runnable
  <2> QED
    BY <1>01, <2>1, <2>2, OthersRunnable DEF PC
<1>14. ASSUME NEW p \in Proc, FallbackFails(p) \/ Retry(p) PROVE \A q \in Proc : Runnable(q)'
  BY <1>1, <1>01, <1>14 DEF FallbackFails, Retry, PC
<1>15. ASSUME NEW p \in Proc, RecordFallback(p) PROVE \A q \in Proc : Runnable(q)'
  <2>1. \E d : dec' = [dec EXCEPT ![p] = d]
    BY <1>15 DEF RecordFallback
  <2>2. pc' = [pc EXCEPT ![p] = "done"] /\ agent' = agent
    BY <1>15 DEF RecordFallback
  <2> QED
    BY <1>1, <1>01, <2>1, <2>2 DEF PC
<1>16. CASE UNCHANGED vars
  BY <1>16 DEF vars, Runnable
<1> QED
  BY <1>2, <1>3, <1>4, <1>5, <1>6, <1>7, <1>8, <1>9, <1>10, <1>11, <1>12, <1>13, <1>14,
     <1>15, <1>16 DEF Next, Proceed

(* The decision recorded for an agent is one it can run, or its own engine   *)
(* with a reason that tells so: the ladder, the override and the probes each *)
(* end like that, for any agents.                                            *)
THEOREM RecordedDecisionsRunnable == Spec => []RecordedRunnable
<1> DEFINE I == \A p \in Proc : Runnable(p)
<1>1. Init => I
  BY DEF Init, Runnable
<1>2. RequestInv /\ I /\ [Next]_vars => I'
  BY RunnableStep
<1>3. I => RecordedRunnable
  BY DEF Runnable, Suits, RecordedRunnable
<1> HIDE DEF I
<1> QED
  BY <1>1, <1>2, <1>3, RequestsTyped, PTL DEF Spec
------------------------------------------------------------------------------
(* An entry of the log that is the last of its agent is the agent's decision *)
(* still when another is recorded: the new one, for the agent it is of.      *)
LEMMA RecordMatches ==
  ASSUME RequestInv, DecisionsMatchLog,
         NEW a \in Agents, NEW d \in Decision, Record(a, d)
  PROVE  DecisionsMatchLog'
<1> DEFINE x == [agent |-> a.name, d |-> d]
           n == Len(log')
           shift == Len(log) + 1 - Len(log')
<1>0. /\ log \in Seq(Entries) /\ Len(log) <= LogCap
      /\ a \in AgentRecord
  BY AgentAssumption DEF RequestInv, TypeOK, Entries
<1>1. /\ n \in 1..LogCap
      /\ log'[n] = x
      /\ shift \in {0, 1}
      /\ \A i \in 1..(n - 1) : log'[i] = log[i + Len(log) + 1 - Len(log')]
  BY <1>0, LogAssumption, RecordAppends
<1>2. Len(log) \in Nat /\ LogCap \in Nat
  BY <1>0, LenProperties, LogAssumption
<1>3. \A i \in 1..(n - 1) : i + shift \in 1..Len(log) /\ log'[i] = log[i + shift]
  BY <1>1, <1>2
<1>4. \A k \in 1..Len(log) : k > shift => k - shift \in 1..(n - 1) /\ (k - shift) + shift = k
  BY <1>1, <1>2
<1> SUFFICES ASSUME NEW e \in decisions', NEW i \in 1..n, log'[i].agent = e.agent,
                    \A j \in (i + 1)..n : log'[j].agent # e.agent
             PROVE  log'[i].d = e.d
  BY DEF DecisionsMatchLog
<1>5. e = x \/ (e \in decisions /\ e.agent # a.name)
  BY DEF Record
<1>6. CASE e = x
  <2>1. i = n
    <3>1. CASE i < n
      <4>1. n \in (i + 1)..n /\ log'[n].agent = e.agent
        BY <1>1, <1>2, <1>6, <3>1
      <4> QED
        BY <4>1
    <3> QED
      BY <1>1, <1>2, <3>1
  <2> QED
    BY <1>1, <1>6, <2>1
<1>7. CASE e \in decisions /\ e.agent # a.name
  <2>1. i # n
    BY <1>1, <1>7
  <2>2. i \in 1..(n - 1)
    BY <1>1, <1>2, <2>1
  <2>3. i + shift \in 1..Len(log) /\ log'[i] = log[i + shift]
    BY <1>3, <2>2
  <2>4. ASSUME NEW k \in (i + shift + 1)..Len(log) PROVE log[k].agent # e.agent
    <3>1. k \in 1..Len(log) /\ k > shift /\ k - shift \in (i + 1)..n
      BY <1>1, <1>2, <1>4, <2>2
    <3>2. log'[k - shift] = log[k]
      BY <1>3, <1>4, <3>1
    <3> QED
      BY <3>1, <3>2
  <2>5. log[i + shift].d = e.d
    BY <1>7, <2>3, <2>4 DEF DecisionsMatchLog
  <2> QED
    BY <2>3, <2>5
<1> QED
  BY <1>5, <1>6, <1>7

(* Every step keeps the snapshot and the audit log together.                 *)
LEMMA MatchStep ==
  ASSUME RequestInv, DecisionsMatchLog, [Next]_vars
  PROVE  DecisionsMatchLog'
<1>0. /\ agent \in [Proc -> Agents]
      /\ \A p \in Proc : pc[p] \in Deciding => dec[p] \in Decision
  BY DEF RequestInv, TypeOK
<1>1. ASSUME UNCHANGED <<decisions, log>> PROVE DecisionsMatchLog'
  BY <1>1 DEF DecisionsMatchLog
<1>2. ASSUME NEW p \in Proc, ClearContext(p) PROVE DecisionsMatchLog'
  BY <1>2 DEF ClearContext, DecisionsMatchLog
<1>3. ASSUME NEW p \in Proc, RecordDecision(p) PROVE DecisionsMatchLog'
  BY <1>0, <1>3, RecordMatches DEF RecordDecision, Deciding
<1>4. ASSUME NEW p \in Proc, RecordFallback(p) PROVE DecisionsMatchLog'
  <2> DEFINE d == Dec(Other(dec[p].backend), "load_failure_fallback", TRUE)
  <2>1. Other(dec[p].backend) \in Backend
    BY DEF Other, Backend
  <2>2. d \in Decision
    BY <2>1 DEF Dec, Decision, Reason
  <2>3. Record(agent[p], d)
    BY <1>4 DEF RecordFallback
  <2> HIDE DEF d
  <2> QED
    BY <1>0, <2>2, <2>3, RecordMatches
<1>5. ASSUME NEW p \in Proc,
             \/ SetContext(p) \/ StartCall(p) \/ Execute(p) \/ ExecutePanics(p) \/ Resolve(p)
             \/ Pick(p) \/ PickPanics(p) \/ Bias(p) \/ Gate(p)
             \/ AttemptOK(p) \/ AttemptRejected(p) \/ AttemptFails(p)
             \/ FallbackGate(p) \/ FallbackOK(p) \/ FallbackRejected(p) \/ FallbackFails(p)
             \/ Retry(p) \/ Reply(p)
      PROVE  DecisionsMatchLog'
  <2>1. UNCHANGED <<decisions, log>>
    BY <1>5 DEF router, SetContext, StartCall, Execute, ExecutePanics, Resolve, Pick, PickPanics,
                Bias, Gate, AttemptOK, AttemptRejected, AttemptFails, FallbackGate, FallbackOK,
                FallbackRejected, FallbackFails, Retry, Reply
  <2> QED
    BY <1>1, <2>1
<1>6. CASE UNCHANGED vars
  BY <1>1, <1>6 DEF vars
<1> QED
  BY <1>2, <1>3, <1>4, <1>5, <1>6 DEF Next, Proceed

(* The snapshot of a dispatch and the audit log agree, whatever the cap of   *)
(* the log has pushed out of it.                                             *)
THEOREM SnapshotMatchesLog == Spec => []DecisionsMatchLog
<1>1. Init => DecisionsMatchLog
  BY DEF Init, DecisionsMatchLog
<1>2. RequestInv /\ DecisionsMatchLog /\ [Next]_vars => DecisionsMatchLog'
  BY MatchStep
<1> QED
  BY <1>1, <1>2, RequestsTyped, PTL DEF Spec
------------------------------------------------------------------------------
(* The history variables only watch.                                         *)
LEMMA OnlyWatching ==
  /\ CInit => Init
  /\ [CNext]_shared => [Next]_vars
<1>1. CInit => Init
  BY DEF CInit
<1>2. ASSUME NEW p \in Proc, CSetContext(p) \/ CExecutePanics(p) \/ Continue(p)
      PROVE  Next
  BY <1>2 DEF Next, Proceed, CSetContext, CExecutePanics, Continue, CClearContext, CPick
<1>3. ASSUME NEW p \in Proc, StartCall(p) \/ Answered(p) PROVE Next
  BY <1>3 DEF Next, Proceed, Answered
<1>4. UNCHANGED shared => UNCHANGED vars
  BY DEF shared
<1> QED
  BY <1>1, <1>2, <1>3, <1>4 DEF CNext

LEMMA SharedTyped == CSpec => []RequestInv
<1> QED
  BY OnlyWatching, RequestInit, RequestStep, PTL DEF CSpec

\* The fields of a request are its own.
Touches(p) == /\ \E l \in PC : pc' = [pc EXCEPT ![p] = l]
              /\ \E c : own' \in {own, [own EXCEPT ![p] = c]}
              /\ \E a : agent' \in {agent, [agent EXCEPT ![p] = a]}
              /\ \E d : dec' \in {dec, [dec EXCEPT ![p] = d]}

(* What a step of Continue or Answered leaves alone.                         *)
Frame(p) == /\ Touches(p)
            /\ ctx' = ctx
            /\ own' = own
            /\ mu' = mu \/ PickPanics(p)
            /\ pc'[p] = "idle" => p \notin Dispatchers \union Resolvers
            /\ NoSamples' => NoSamples

(* Samples are never forgotten.                                              *)
LEMMA SamplesStay ==
  ASSUME NEW b \in Backend, probe \in [Backend -> [samples : 0..2, ema : Nat]], Sample(b)
  PROVE  ~NoSamples'
<1>1. PICK ema : probe' = [probe EXCEPT ![b] =
                  [samples |-> IF @.samples < 2 THEN @.samples + 1 ELSE 2, ema |-> ema]]
  BY DEF Sample
<1>2. probe'[b].samples = IF probe[b].samples < 2 THEN probe[b].samples + 1 ELSE 2
  BY <1>1
<1>3. probe[b].samples \in 0..2
  OBVIOUS
<1>4. probe'[b].samples # 0
  BY <1>2, <1>3
<1> QED
  BY <1>4 DEF NoSamples

LEMMA FrameOf ==
  ASSUME RequestInv, NEW p \in Proc,
         \/ Answered(p)
         \/ Resolve(p) \/ PickPanics(p) \/ Bias(p) \/ Gate(p) \/ RecordDecision(p)
         \/ FallbackGate(p) \/ RecordFallback(p) \/ Retry(p) \/ Reply(p) \/ Pick(p)
  PROVE  Frame(p)
<1> USE DEF Goto, router
<1>0. /\ pc \in [Proc -> PC]
      /\ probe \in [Backend -> [samples : 0..2, ema : Nat]]
      /\ Stations
      /\ \A q \in Proc : pc[q] \in Deciding => dec[q] \in Decision
  BY DEF RequestInv, TypeOK
<1>a. \A q \in Proc : q \in Callers \/ q \in Dispatchers \union Resolvers
  BY DEF Proc
<1>1. ASSUME AttemptOK(p) \/ FallbackOK(p) PROVE ~NoSamples'
  <2>1. dec[p].backend \in Backend
    BY <1>0, <1>1 DEF AttemptOK, FallbackOK, Deciding, Decision
  <2>2. Other(dec[p].backend) \in Backend
    BY DEF Other, Backend
  <2> QED
    BY <1>0, <1>1, <2>1, <2>2, SamplesStay DEF AttemptOK, FallbackOK
<1>2. CASE Execute(p)
  BY <1>0, <1>2, ProcAssumption DEF Execute, Frame, Touches, NoSamples, PC
<1>3. CASE AttemptOK(p) \/ AttemptRejected(p) \/ AttemptFails(p)
  BY <1>0, <1>1, <1>3 DEF AttemptOK, AttemptRejected, AttemptFails, Frame, Touches, NoSamples, PC
<1>4. CASE FallbackOK(p) \/ FallbackRejected(p) \/ FallbackFails(p)
  BY <1>0, <1>1, <1>4 DEF FallbackOK, FallbackRejected, FallbackFails, Frame, Touches, NoSamples, PC
<1>5. CASE Resolve(p)
  <2>1. CASE ShouldRoute /\ agent[p].override = "auto"
    BY <1>0, <1>5, <2>1 DEF Resolve, Frame, Touches, NoSamples, PC
  <2>2. CASE ~(ShouldRoute /\ agent[p].override = "auto")
    <3>1. /\ pc' = [pc EXCEPT ![p] = "gate"]
          /\ \E d : dec' = [dec EXCEPT ![p] = d]
          /\ UNCHANGED <<mu, router, own, agent, tries>>
      BY <1>5, <2>2 DEF Resolve
    <3> QED
      BY <1>0, <3>1 DEF Frame, Touches, NoSamples, PC
  <2> QED
    BY <2>1, <2>2
<1>6. CASE PickPanics(p)
  BY <1>0, <1>6 DEF PickPanics, Frame, Touches, NoSamples, PC, Stations
<1>7. CASE Bias(p) \/ Gate(p) \/ Pick(p)
  BY <1>0, <1>7 DEF Bias, Gate, AfterResolve, Pick, Frame, Touches, NoSamples, PC
<1>8. CASE RecordDecision(p)
  BY <1>0, <1>8 DEF RecordDecision, AfterResolve, Frame, Touches, NoSamples, PC
<1>9. CASE FallbackGate(p)
  BY <1>0, <1>9 DEF FallbackGate, Frame, Touches, NoSamples, PC
<1>10. CASE RecordFallback(p)
  BY <1>0, <1>10 DEF RecordFallback, Frame, Touches, NoSamples, PC
<1>11. CASE Retry(p)
  BY <1>0, <1>11 DEF Retry, Frame, Touches, NoSamples, PC
<1>12. CASE Reply(p)
  <2>1. p \notin Dispatchers \union Resolvers
    BY <1>0, <1>12 DEF Reply, Stations
  <2> QED
    BY <1>0, <1>12, <2>1 DEF Reply, Frame, Touches, NoSamples, PC
<1> QED
  BY <1>2, <1>3, <1>4, <1>5, <1>6, <1>7, <1>8, <1>9, <1>10, <1>11, <1>12 DEF Answered

(* The context that is set belongs to a request in its bracket, or to one    *)
(* that panicked.                                                            *)
LEMMA LeakStep ==
  ASSUME RequestInv, ContextNeverLeaks, [CNext]_shared
  PROVE  ContextNeverLeaks'
<1> USE DEF Goto, router
<1>0. /\ pc \in [Proc -> PC]
      /\ own \in [Proc -> Context \union {Nil}]
      /\ Stations
  BY DEF RequestInv, TypeOK
<1>01. Stations'
  BY OnlyWatching, RequestStep DEF RequestInv
<1>1. ASSUME NEW p \in Proc, CSetContext(p) PROVE ContextNeverLeaks'
  <2>1. PICK c \in DispatchContexts \union Contexts : ctx' = c /\ own' = [own EXCEPT ![p] = c]
    BY <1>1 DEF CSetContext, SetContext
  <2>2. own'[p] = ctx'
    BY <1>0, <2>1
  <2>3. InBracket(p)'
    BY <1>0, <1>1, ProcAssumption DEF CSetContext, SetContext, InBracket
  <2> QED
    BY <2>2, <2>3 DEF ContextNeverLeaks
<1>2. ASSUME NEW p \in Proc, CClearContext(p) PROVE ContextNeverLeaks'
  BY <1>2 DEF CClearContext, ClearContext, ContextNeverLeaks
<1>3. ASSUME NEW p \in Proc, CExecutePanics(p) PROVE ContextNeverLeaks'
  <2>1. ctx' = ctx /\ orphans' = orphans \union {own[p]}
        /\ pc' = [pc EXCEPT ![p] = "idle"] /\ own' = [own EXCEPT ![p] = Nil]
    BY <1>3 DEF CExecutePanics, ExecutePanics
  <2>2. ASSUME NEW q \in Proc, q # p, InBracket(q) PROVE InBracket(q)' /\ own'[q] = own[q]
    BY <1>0, <2>1, <2>2 DEF InBracket
  <2> QED
    BY <2>1, <2>2 DEF ContextNeverLeaks
<1>4. ASSUME NEW p \in Proc, Frame(p), UNCHANGED orphans PROVE ContextNeverLeaks'
  <2>1. ASSUME NEW q \in Proc, InBracket(q) PROVE InBracket(q)'
    <3>1. q # p => pc'[q] = pc[q]
      BY <1>0, <1>4 DEF Frame, Touches
    <3>2. CASE q = p
      BY <1>0, <1>01, <1>4, <2>1, <3>2 DEF Frame, InBracket, Stations
    <3> QED
      BY <2>1, <3>1, <3>2 DEF InBracket
  <2> QED
    BY <1>4, <2>1 DEF Frame, ContextNeverLeaks
<1>5. ASSUME NEW p \in Proc, StartCall(p), UNCHANGED orphans PROVE ContextNeverLeaks'
  <2>1. ASSUME NEW q \in Proc, InBracket(q) PROVE InBracket(q)'
    BY <1>0, <1>5, <2>1, ProcAssumption DEF StartCall, InBracket
  <2> QED
    BY <1>5, <2>1 DEF StartCall, ContextNeverLeaks
<1>6. CASE UNCHANGED shared
  BY <1>6 DEF shared, vars, ContextNeverLeaks, InBracket
<1> QED
  BY <1>1, <1>2, <1>3, <1>4, <1>5, <1>6, FrameOf DEF CNext, Continue, CPick

(* A routing context that outlives its request is one of a dispatch whose    *)
(* handler panicked, and the next ClearContext of any request takes it away: *)
(* for any number of requests, any agents and contexts.                      *)
THEOREM NoContextLeaks == CSpec => []ContextNeverLeaks
<1>1. CInit => ContextNeverLeaks
  BY DEF CInit, Init, ContextNeverLeaks
<1>2. RequestInv /\ ContextNeverLeaks /\ [CNext]_shared => ContextNeverLeaks'
  BY LeakStep
<1> QED
  BY <1>1, <1>2, SharedTyped, PTL DEF CSpec
------------------------------------------------------------------------------
(* Whoever is about to read the context finds one, or has been overtaken.    *)
LEMMA StuckStep ==
  ASSUME RequestInv, StuckOnlyByRace, [CNext]_shared
  PROVE  StuckOnlyByRace'
<1> USE DEF Goto, router
<1>0. /\ pc \in [Proc -> PC]
      /\ ctx \in Context \union {Nil}
  BY DEF RequestInv, TypeOK
<1>1. ASSUME NEW p \in Proc, CSetContext(p) PROVE StuckOnlyByRace'
  <2>1. ctx' # Nil
    BY <1>1, ContextAssumption DEF CSetContext, SetContext
  <2>2. mu' = mu /\ overtaken' = overtaken
    BY <1>1 DEF CSetContext, SetContext
  <2> QED
    BY <2>1, <2>2 DEF StuckOnlyByRace
<1>2. ASSUME NEW p \in Proc, CClearContext(p) PROVE StuckOnlyByRace'
  <2>1. /\ mu = "free" /\ mu' = mu /\ pc' = [pc EXCEPT ![p] = "idle"]
        /\ overtaken' = overtaken \union {q \in Proc : pc[q] = "pick"}
    BY <1>2 DEF CClearContext, ClearContext
  <2>2. \A q \in Proc : pc'[q] = "pick" => pc[q] = "pick"
    BY <1>0, <2>1
  <2> QED
    BY <2>1, <2>2 DEF StuckOnlyByRace
<1>3. ASSUME NEW p \in Proc, CPick(p) PROVE StuckOnlyByRace'
  <2>1. /\ mu = "free" /\ mu' = mu /\ ctx' = ctx /\ ctx # Nil
    BY <1>3 DEF CPick, Pick
  <2> QED
    BY <2>1 DEF StuckOnlyByRace
<1>4. ASSUME NEW p \in Proc, PickPanics(p), UNCHANGED overtaken PROVE StuckOnlyByRace'
  <2>1. /\ pc[p] = "pick" /\ ctx = Nil /\ ctx' = ctx
        /\ \E l \in {"clear", "idle"} : pc' = [pc EXCEPT ![p] = l]
    BY <1>4 DEF PickPanics
  <2>2. p \in overtaken
    BY <2>1 DEF StuckOnlyByRace
  <2>3. \A q \in Proc : pc'[q] = "pick" => pc[q] = "pick"
    BY <1>0, <2>1
  <2> QED
    BY <1>4, <2>1, <2>2, <2>3 DEF StuckOnlyByRace
<1>5. ASSUME NEW p \in Proc, Resolve(p), UNCHANGED overtaken PROVE StuckOnlyByRace'
  <2>1. mu' = mu /\ ctx' = ctx /\ (ctx # Nil \/ pc' = [pc EXCEPT ![p] = "gate"])
    BY <1>5 DEF Resolve, ShouldRoute
  <2>2. pc' = [pc EXCEPT ![p] = "gate"] => \A q \in Proc : pc'[q] = "pick" => pc[q] = "pick"
    BY <1>0
  <2> QED
    BY <1>5, <2>1, <2>2 DEF StuckOnlyByRace
<1>6. ASSUME NEW p \in Proc, mu' = mu, ctx' = ctx, UNCHANGED overtaken,
             \E l \in PC \ {"pick"} : pc' = [pc EXCEPT ![p] = l]
      PROVE  StuckOnlyByRace'
  <2>1. \A q \in Proc : pc'[q] = "pick" => pc[q] = "pick"
    BY <1>0, <1>6
  <2> QED
    BY <1>6, <2>1 DEF StuckOnlyByRace
<1>7. ASSUME NEW p \in Proc, UNCHANGED overtaken,
             \/ StartCall(p) \/ ExecutePanics(p) \/ Answered(p) \/ Bias(p) \/ Gate(p)
             \/ RecordDecision(p) \/ FallbackGate(p) \/ RecordFallback(p) \/ Retry(p) \/ Reply(p)
      PROVE  StuckOnlyByRace'
  <2>1. mu' = mu /\ ctx' = ctx
    BY <1>7 DEF StartCall, ExecutePanics, Answered, Bias, Gate, RecordDecision, FallbackGate,
       RecordFallback, Retry, Reply, Execute, AttemptOK, AttemptRejected, AttemptFails,
       FallbackOK, FallbackRejected, FallbackFails
  <2>2. \E l \in PC \ {"pick"} : pc' = [pc EXCEPT ![p] = l]
    BY <1>7 DEF StartCall, ExecutePanics, Answered, Bias, Gate, RecordDecision, FallbackGate,
       RecordFallback, Retry, Reply, Execute, AttemptOK, AttemptRejected, AttemptFails,
       FallbackOK, FallbackRejected, FallbackFails, AfterResolve, PC
  <2> QED
    BY <1>6, <1>7, <2>1, <2>2
<1>8. CASE UNCHANGED shared
  BY <1>8 DEF shared, vars, StuckOnlyByRace
<1> QED
  BY <1>1, <1>2, <1>3, <1>4, <1>5, <1>7, <1>8 DEF CNext, Continue, CExecutePanics

(* pickAuto dereferences a context that is there, and the router's mutex is  *)
(* never left locked, as long as no ClearContext of another request comes    *)
(* between ShouldRoute and pickAuto: for any agents, overridden or not, any  *)
(* number of requests and any panics of the dispatches.                      *)
THEOREM OnlyTheRaceSticks == CSpec => []StuckOnlyByRace
<1>1. CInit => StuckOnlyByRace
  BY DEF CInit, Init, StuckOnlyByRace
<1>2. RequestInv /\ StuckOnlyByRace /\ [CNext]_shared => StuckOnlyByRace'
  BY StuckStep
<1> QED
  BY <1>1, <1>2, SharedTyped, PTL DEF CSpec
------------------------------------------------------------------------------
\* What a context makes of an agent without the bias of the probes.
Plainly(a, d) == LET e == IF a.def # d.backend /\ a.def \in a.supports
                          THEN Dec(a.def, d.reason, FALSE) ELSE d
                 IN  IF e.backend \in a.supports THEN e
                     ELSE Dec(a.def, "auto_unsupported_fallback", TRUE)

Routes(c) == Enabled /\ c.seq /\ ~c.flat

Plain(a, c) == IF ~Routes(c) THEN Legacy(a)
               ELSE IF a.override = "auto" THEN Plainly(a, PickAuto(a, c)) ELSE Override(a)

LEMMA NoBias ==
  ASSUME NoSamples, NEW a \in Agents
  PROVE  /\ \A d \in Decision : Biased(a, d) = Plainly(a, d)
         /\ \A c \in Context : UnderOwn(a, c) = Plain(a, c)
<1>1. a.supports \in SUBSET Backend
  BY AgentAssumption DEF AgentRecord
<1>2. FasterProbe(a) = a.def
  BY <1>1 DEF NoSamples, FasterProbe, Probed
<1>3. \A d \in Decision : Biased(a, d) = Plainly(a, d)
  BY <1>2 DEF Biased, Plainly
<1> QED
  BY <1>3, Decisions DEF UnderOwn, Plain, Routes

\* A resolve that is on its own knows what it will reply.
Alone(p) ==
  pc[p] # "idle" =>
    /\ ctx = own[p] /\ own[p] \in Context
    /\ pc[p] \in {"pick", "probe"} => Routes(own[p]) /\ agent[p].override = "auto"
    /\ pc[p] = "probe" => dec[p] = PickAuto(agent[p], own[p])
    /\ pc[p] \in {"gate", "record", "clear"} /\ NoSamples => dec[p] = Plain(agent[p], own[p])

AllAlone == \A p \in Resolvers \ disturbed : Alone(p)

(* A step of another request that leaves the context alone is none of its    *)
(* business.                                                                 *)
LEMMA OthersAlone ==
  ASSUME RequestInv, NEW p \in Proc, Touches(p), ctx' = ctx, NoSamples' => NoSamples,
         NEW q \in Proc, q # p, Alone(q)
  PROVE  Alone(q)'
<1>0. /\ pc \in [Proc -> PC]
      /\ own \in [Proc -> Context \union {Nil}]
      /\ agent \in [Proc -> Agents]
      /\ dec \in [Proc -> Decision \union {NoDecision}]
  BY DEF RequestInv, TypeOK
<1>1. pc'[q] = pc[q] /\ own'[q] = own[q] /\ agent'[q] = agent[q] /\ dec'[q] = dec[q]
  BY <1>0 DEF Touches
<1> QED
  BY <1>1 DEF Alone

(* Its own steps, up to the one that clears the context.                     *)
LEMMA OwnStep ==
  ASSUME RequestInv, NEW p \in Resolvers, Alone(p),
         \/ Resolve(p) \/ Pick(p) \/ PickPanics(p) \/ Bias(p) \/ Gate(p) \/ RecordDecision(p)
  PROVE  Alone(p)'
<1> USE DEF Goto, router
<1>0. /\ pc \in [Proc -> PC]
      /\ own \in [Proc -> Context \union {Nil}]
      /\ agent \in [Proc -> Agents] /\ agent[p] \in Agents
      /\ dec \in [Proc -> Decision \union {NoDecision}]
      /\ p \in Proc
      /\ ctx' = ctx /\ own' = own /\ agent' = agent
  BY DEF RequestInv, TypeOK, Proc, Resolve, Pick, PickPanics, Bias, Gate, RecordDecision
<1>1. pc[p] # "idle" /\ ctx = own[p] /\ own[p] \in Context /\ ctx # Nil
  BY ContextAssumption DEF Alone, Resolve, Pick, PickPanics, Bias, Gate, RecordDecision
<1>2. CASE Resolve(p)
  <2>1. ShouldRoute <=> Routes(own[p])
    BY <1>1 DEF ShouldRoute, Routes
  <2>2. CASE ShouldRoute /\ agent[p].override = "auto"
    <3>1. pc'[p] = "pick"
      BY <1>0, <1>2, <2>2 DEF Resolve
    <3> QED
      BY <1>0, <1>1, <2>1, <2>2, <3>1 DEF Alone
  <2>3. CASE ~(ShouldRoute /\ agent[p].override = "auto")
    <3>1. pc'[p] = "gate"
          /\ dec'[p] = IF ShouldRoute THEN Override(agent[p]) ELSE Legacy(agent[p])
      BY <1>0, <1>2, <2>3 DEF Resolve
    <3>2. dec'[p] = Plain(agent[p], own[p])
      BY <2>1, <2>3, <3>1 DEF Plain
    <3> QED
      BY <1>0, <1>1, <3>1, <3>2 DEF Alone
  <2> QED
    BY <2>2, <2>3
<1>3. CASE Pick(p)
  <2>1. /\ pc[p] = "pick" /\ pc'[p] = "probe" /\ dec'[p] = PickAuto(agent[p], own[p])
    BY <1>0, <1>1, <1>3 DEF Pick
  <2>2. Routes(own[p]) /\ agent[p].override = "auto"
    BY <2>1 DEF Alone
  <2> QED
    BY <1>0, <1>1, <2>1, <2>2 DEF Alone
<1>4. CASE PickPanics(p)
  BY <1>1, <1>4 DEF PickPanics
<1>5. CASE Bias(p)
  <2>1. /\ pc[p] = "probe" /\ pc'[p] = "gate" /\ dec'[p] = Biased(agent[p], dec[p])
        /\ probe' = probe
    BY <1>0, <1>5 DEF Bias
  <2>2. /\ Routes(own[p]) /\ agent[p].override = "auto"
        /\ dec[p] = PickAuto(agent[p], own[p])
    BY <2>1 DEF Alone
  <2>3. PickAuto(agent[p], own[p]) \in Decision
    BY <1>0, <1>1, Decisions
  <2>4. NoSamples => dec'[p] = Plain(agent[p], own[p])
    BY <1>0, <2>1, <2>2, <2>3, NoBias DEF Plain
  <2>5. NoSamples' => NoSamples
    BY <2>1 DEF NoSamples
  <2> QED
    BY <1>0, <1>1, <2>1, <2>4, <2>5 DEF Alone
<1>6. CASE Gate(p) \/ RecordDecision(p)
  <2>1. /\ pc[p] \in {"gate", "record"} /\ pc'[p] \in {"record", "clear"}
        /\ dec' = dec /\ probe' = probe
    BY <1>0, <1>6 DEF Gate, RecordDecision, AfterResolve
  <2>2. NoSamples' => NoSamples
    BY <2>1 DEF NoSamples
  <2> QED
    BY <1>0, <1>1, <2>1, <2>2 DEF Alone
<1> QED
  BY <1>2, <1>3, <1>4, <1>5, <1>6

(* Every step leaves the resolves that are on their own in peace.            *)
LEMMA AloneStep ==
  ASSUME RequestInv, AllAlone, [CNext]_shared
  PROVE  AllAlone'
<1> USE DEF Goto, router
<1>0. /\ pc \in [Proc -> PC]
      /\ own \in [Proc -> Context \union {Nil}]
      /\ Stations
      /\ \A p \in Resolvers : p \in Proc
  BY DEF RequestInv, TypeOK, Proc
<1>1. ASSUME NEW p \in Proc, CSetContext(p) PROVE AllAlone'
  <2>1. /\ disturbed' = {q \in Resolvers : InBracket(q)} /\ pc[p] = "idle"
        /\ \E l : pc' = [pc EXCEPT ![p] = l]
    BY <1>1 DEF CSetContext, SetContext
  <2>2. PICK c \in Context : ctx' = c /\ own' = [own EXCEPT ![p] = c]
    BY <1>1, ContextAssumption DEF CSetContext, SetContext
  <2>3. ASSUME NEW q \in Resolvers, q \notin disturbed' PROVE Alone(q)'
    <3>1. pc[q] = "idle"
      BY <2>1, <2>3 DEF InBracket
    <3>2. CASE q # p
      <4>1. pc'[q] = "idle"
        BY <1>0, <2>1, <3>1, <3>2
      <4> QED
        BY <4>1 DEF Alone
    <3>3. CASE q = p
      <4>1. pc'[q] = "resolve"
        BY <1>0, <1>1, <3>3, ProcAssumption DEF CSetContext, SetContext
      <4>2. ctx' = own'[q] /\ own'[q] \in Context
        BY <1>0, <2>2, <3>3
      <4> QED
        BY <4>1, <4>2 DEF Alone
    <3> QED
      BY <3>2, <3>3
  <2> QED
    BY <2>3 DEF AllAlone
<1>2. ASSUME NEW p \in Proc, CClearContext(p) PROVE AllAlone'
  <2>1. /\ disturbed' = {q \in Resolvers : InBracket(q)} \ {p}
        /\ pc' = [pc EXCEPT ![p] = "idle"]
    BY <1>2 DEF CClearContext, ClearContext
  <2>2. ASSUME NEW q \in Resolvers, q \notin disturbed' PROVE Alone(q)'
    <3>1. pc'[q] = "idle"
      BY <1>0, <2>1, <2>2 DEF InBracket
    <3> QED
      BY <3>1 DEF Alone
  <2> QED
    BY <2>2 DEF AllAlone
<1>3. ASSUME NEW p \in Proc, p \notin Resolvers, Touches(p), ctx' = ctx, NoSamples' => NoSamples,
             UNCHANGED disturbed
      PROVE  AllAlone'
  <2>1. ASSUME NEW q \in Resolvers, q \notin disturbed PROVE Alone(q)'
    BY <1>0, <1>3, <2>1, OthersAlone DEF AllAlone
  <2> QED
    BY <1>3, <2>1 DEF AllAlone
<1>4. ASSUME NEW p \in Proc, p \in Resolvers, UNCHANGED disturbed,
             \/ Resolve(p) \/ Pick(p) \/ PickPanics(p) \/ Bias(p) \/ Gate(p) \/ RecordDecision(p)
      PROVE  AllAlone'
  <2>1. Frame(p)
    BY <1>4, FrameOf
  <2>2. ASSUME NEW q \in Resolvers, q \notin disturbed PROVE Alone(q)'
    <3>1. CASE q = p
      BY <1>4, <2>2, <3>1, OwnStep DEF AllAlone
    <3>2. CASE q # p
      BY <1>0, <2>1, <2>2, <3>2, OthersAlone DEF AllAlone, Frame
    <3> QED
      BY <3>1, <3>2
  <2> QED
    BY <1>4, <2>2 DEF AllAlone
<1>5. ASSUME NEW p \in Proc, UNCHANGED disturbed, p \in Resolvers,
             \/ Answered(p) \/ FallbackGate(p) \/ RecordFallback(p) \/ Retry(p) \/ Reply(p)
             \/ StartCall(p) \/ ExecutePanics(p)
      PROVE  FALSE
  BY <1>0, <1>5, ProcAssumption DEF Stations, Answered, FallbackGate, RecordFallback, Retry, Reply,
     StartCall, ExecutePanics, Execute, AttemptOK, AttemptRejected, AttemptFails, FallbackOK,
     FallbackRejected, FallbackFails
<1>6. ASSUME NEW p \in Proc, StartCall(p) \/ ExecutePanics(p)
      PROVE  Touches(p) /\ ctx' = ctx /\ (NoSamples' => NoSamples)
  BY <1>6 DEF StartCall, ExecutePanics, Touches, NoSamples, PC
<1>7. ASSUME NEW p \in Proc, p \notin Resolvers, UNCHANGED disturbed,
             \/ Answered(p)
             \/ Resolve(p) \/ PickPanics(p) \/ Bias(p) \/ Gate(p) \/ RecordDecision(p)
             \/ FallbackGate(p) \/ RecordFallback(p) \/ Retry(p) \/ Reply(p) \/ Pick(p)
             \/ StartCall(p) \/ ExecutePanics(p)
      PROVE  AllAlone'
  <2>1. Touches(p) /\ ctx' = ctx /\ (NoSamples' => NoSamples)
    BY <1>6, <1>7, FrameOf DEF Frame
  <2> QED
    BY <1>3, <1>7, <2>1
<1>8. CASE UNCHANGED shared
  BY <1>8 DEF shared, vars, AllAlone, Alone, NoSamples
<1> QED
  BY <1>1, <1>2, <1>4, <1>5, <1>7, <1>8 DEF CNext, Continue, CPick, CExecutePanics

(* A resolve whose context no other request has replaced or cleared replies  *)
(* the decision of that context, whatever calls and dispatches do besides:   *)
(* for any agents, contexts and number of requests.                          *)
THEOREM ResolvesUnderItsContext == CSpec => []ResolvedUnderOwnContext
<1>1. CInit => AllAlone
  BY DEF CInit, Init, AllAlone, Alone, Proc
<1>2. RequestInv /\ AllAlone /\ [CNext]_shared => AllAlone'
  BY AloneStep
<1>3. RequestInv /\ AllAlone => ResolvedUnderOwnContext
  <2> SUFFICES ASSUME RequestInv, AllAlone, NEW p \in Resolvers, p \notin disturbed,
                      pc[p] = "clear", NoSamples
               PROVE  dec[p] = UnderOwn(agent[p], own[p])
    BY DEF ResolvedUnderOwnContext
  <2>1. agent[p] \in Agents
    BY DEF RequestInv, TypeOK, Proc
  <2>2. own[p] \in Context /\ dec[p] = Plain(agent[p], own[p])
    BY DEF AllAlone, Alone
  <2> QED
    BY <2>1, <2>2, NoBias
<1> QED
  BY <1>1, <1>2, <1>3, SharedTyped, PTL DEF CSpec
=============================================================================
