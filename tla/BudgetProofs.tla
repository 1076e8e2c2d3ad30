----------------------------- MODULE BudgetProofs -----------------------------
(* The budgets of a continuation and of the rolling summary hold for any     *)
(* lengths of prompts, answers and digests, any policies and any number of   *)
(* turns; and a reduction keeps any number of contributions, of any lengths, *)
(* and shows the synthesizer the beginning of each.                          *)
EXTENDS Continuation, Synthesis, FiniteSetTheorems, SequenceTheorems, TLAPS

(* A count in a marker has one digit to ten.                                 *)
LEMMA DigitsBounded == ASSUME NEW n \in Int PROVE Digits(n) \in 1..10
<1> DEFINE S == {k \in 1..9 : Power[k] <= n}
<1>1. IsFiniteSet(1..9) /\ Cardinality(1..9) = 9
  <2>1. IsFiniteSet(1..9) /\ Cardinality(1..9) = IF 1 > 9 THEN 0 ELSE (9 - 1) + 1
    BY FS_Interval, 1 \in Int, 9 \in Int, Zenon
  <2> QED
    BY <2>1
<1>2. IsFiniteSet(S) /\ Cardinality(S) <= 9
  BY <1>1, FS_Subset
<1>3. Cardinality(S) \in Nat
  BY <1>2, FS_CardinalityType
<1> QED
  BY <1>2, <1>3 DEF Digits

(* trimBlock: a cut text exceeds its limit by its marker at most.            *)
LEMMA TrimBlockBounded ==
  ASSUME NEW n \in Nat, NEW max \in Nat
  PROVE  /\ TrimBlock(n, max) \in Nat
         /\ TrimBlock(n, max) <= max + 47
         /\ n <= max => TrimBlock(n, max) = n
<1>1. Digits(n - max) \in 1..10
  BY DigitsBounded
<1> QED
  BY <1>1 DEF TrimBlock, TrimMark

LEMMA BuiltBounded ==
  ASSUME NEW whole \in Nat, NEW max \in Nat, NEW followup \in Nat
  PROVE  Built(whole, max, followup) \in Nat /\ Built(whole, max, followup) <= max + 114
<1> DEFINE fb == FollowupBudget(max, followup)
<1>1. fb \in Nat /\ fb <= max /\ max - fb \in Nat
  BY DEF FollowupBudget, Least
<1> HIDE DEF fb
<1>2. /\ TrimBlock(whole, max - fb) \in Nat
      /\ TrimBlock(whole, max - fb) <= max - fb + 47
  BY <1>1, TrimBlockBounded
<1>3. TrimBlock(followup, fb) \in Nat /\ TrimBlock(followup, fb) <= fb + 47
  BY <1>1, TrimBlockBounded
<1> QED
  BY <1>1, <1>2, <1>3 DEF Built, Title, fb

(* foldSummary keeps the summary within its cap and one marker.              *)
LEMMA FoldBounded ==
  ASSUME NEW old \in Nat, old <= SummaryMax + SummaryMark, NEW n \in Nat, NEW digest \in Nat
  PROVE  Fold(old, n, digest) \in Nat /\ Fold(old, n, digest) <= SummaryMax + SummaryMark
<1>1. CASE n = 0
  BY <1>1 DEF Fold
<1>2. CASE n # 0
  <2>1. n * (digest + 1) \in Nat /\ n * (digest + 1) >= 1
    BY <1>2
  <2> DEFINE lines == IF old = 0 THEN n * (digest + 1) - 1 ELSE old + n * (digest + 1)
  <2>2. lines \in Nat
    BY <2>1
  <2>3. Fold(old, n, digest) = IF lines <= SummaryMax THEN lines ELSE SummaryMark + SummaryMax
    BY <1>2 DEF Fold
  <2> QED
    BY <2>2, <2>3 DEF SummaryMax, SummaryMark
<1> QED
  BY <1>1, <1>2

Answers == UNION {[S -> Nat] : S \in SUBSET Agent}
Run     == [prompt : Nat, final : Nat, agents : Answers, decoded : BOOLEAN]

(* A policy with a budget that trimBlock can cut to: the others make it panic. *)
Policy == {policy \in [tokens : Int, chars : Int, include : SUBSET Section, target : Agent] :
             MaxChars(policy) >= 0}

(* The parts of a continuation are lengths.                                  *)
LEMMA LatestIsRun == ASSUME runs \in Seq(Run), runs # <<>> PROVE runs[1] \in Run /\ Latest \in Run
  BY DEF Latest

LEMMA AgentLenIsNat ==
  ASSUME NEW run \in Run, NEW a \in Agent PROVE AgentLen(run, a) \in Nat
<1>1. PICK S \in SUBSET Agent : run.agents \in [S -> Nat]
  BY DEF Run, Answers
<1> QED
  BY <1>1 DEF AgentLen, Has

LEMMA MaxCharsIsNat == ASSUME NEW policy \in Policy PROVE MaxChars(policy) \in Nat
  BY DEF MaxChars, CharsForTokens, Policy

LEMMA ShownIsNat ==
  ASSUME runs \in Seq(Run), runs # <<>>, summary \in Nat, NEW policy \in Policy, NEW s \in Section
  PROVE  /\ Body(s, policy) \in Nat
         /\ Limit(s, MaxChars(policy)) \in Nat
         /\ Shown(s, policy) \in Nat
         /\ s \in policy.include /\ Body(s, policy) <= Limit(s, MaxChars(policy)) =>
              Shown(s, policy) = Body(s, policy)
<1>1. Body(s, policy) \in Nat
  <2>1. policy.target \in Agent
    BY DEF Policy
  <2>2. AgentLen(Latest, policy.target) \in Nat
    BY <2>1, LatestIsRun, AgentLenIsNat
  <2>3. runs[1].prompt \in Nat /\ Latest.final \in Nat
    BY LatestIsRun DEF Run
  <2> QED
    BY <2>2, <2>3 DEF Body, Section
<1>2. Limit(s, MaxChars(policy)) \in Nat
  BY MaxCharsIsNat DEF Limit, Section
<1>3. /\ TrimBlock(Body(s, policy), Limit(s, MaxChars(policy))) \in Nat
      /\ Body(s, policy) <= Limit(s, MaxChars(policy)) =>
           TrimBlock(Body(s, policy), Limit(s, MaxChars(policy))) = Body(s, policy)
  BY <1>1, <1>2, TrimBlockBounded
<1> QED
  BY <1>1, <1>2, <1>3 DEF Shown

LEMMA NotesIsNat ==
  ASSUME runs \in Seq(Run), runs # <<>>, NEW policy \in Policy, NEW brk \in Nat
  PROVE  /\ AgentLen(Latest, NoteOf(policy)) \in Nat
         /\ Notes(policy, brk) \in Nat
<1>1. NoteOf(policy) \in Agent
  BY DEF NoteOf, Agent
<1>2. AgentLen(Latest, NoteOf(policy)) \in Nat
  BY <1>1, LatestIsRun, AgentLenIsNat
<1> QED
  BY <1>2 DEF Notes, Note, FirstLines, LinesKept, Least

LEMMA WrittenIsNat ==
  ASSUME NEW s \in {"summary", "original", "final", "target", "notes", "followup"}, NEW n \in Nat
  PROVE  Written(s, n) \in Nat
  BY DEF Written, Title

LEMMA WholeIsNat ==
  ASSUME runs \in Seq(Run), runs # <<>>, summary \in Nat,
         NEW policy \in Policy, NEW brk \in Nat, NEW prompt \in Nat
  PROVE  /\ Whole(policy, brk, prompt) \in Nat
         /\ Whole(policy, brk, prompt) =
              Preamble + Written("summary", Shown("summary", policy))
              + Written("original", Shown("original", policy))
              + Written("final", Shown("final", policy))
              + Written("target", Shown("target", policy))
              + Written("notes", Notes(policy, brk)) + Written("followup", prompt) + Closing
<1> DEFINE su == Written("summary", Shown("summary", policy))
           og == Written("original", Shown("original", policy))
           fi == Written("final", Shown("final", policy))
           ta == Written("target", Shown("target", policy))
           no == Written("notes", Notes(policy, brk))
           fo == Written("followup", prompt)
<1>1. su \in Nat /\ og \in Nat /\ fi \in Nat /\ ta \in Nat
  BY ShownIsNat, WrittenIsNat DEF Section
<1>2. no \in Nat /\ fo \in Nat
  BY NotesIsNat, WrittenIsNat
<1>3. Title.final = 27 /\ Preamble = 175 /\ Closing = 88
  BY DEF Title, Preamble, Closing
<1>4. Whole(policy, brk, prompt) =
        (((Preamble + su + og) + Title.final) - Title.final) + fi + ta + no + fo + Closing
  BY DEF Whole, FinalStart
<1> HIDE DEF su, og, fi, ta, no, fo
<1>5. Whole(policy, brk, prompt) = Preamble + su + og + fi + ta + no + fo + Closing
  BY <1>1, <1>2, <1>3, <1>4
<1>6. Whole(policy, brk, prompt) \in Nat
  BY <1>1, <1>2, <1>3, <1>5
<1> QED
  BY <1>5, <1>6 DEF su, og, fi, ta, no, fo

(* The state of a conversation: what is under way was built as BuildContin-  *)
(* uation builds it, from the runs and the summary there still are.          *)
ContInv ==
  /\ runs \in Seq(Run)
  /\ summary \in Nat /\ SummaryBounded
  /\ cont # Idle => /\ cont.prompt \in Nat
                    /\ cont.built \in Nat
  /\ Following => /\ runs # <<>>
                  /\ cont.policy \in Policy
                  /\ cont.brk \in Nat
                  /\ cont.whole = Whole(cont.policy, cont.brk, cont.prompt)
                  /\ cont.built = Built(cont.whole, MaxChars(cont.policy), cont.prompt)
                  /\ cont.used = Used(cont.policy, cont.prompt, cont.whole)

LEMMA ContInit == Init => ContInv
<1> SUFFICES ASSUME Init PROVE ContInv
  OBVIOUS
<1>1. summary \in Nat /\ summary <= 6034
  BY LengthsAssumption DEF Init
<1> QED
  BY <1>1 DEF Init, ContInv, SummaryBounded, SummaryMax, SummaryMark, Following, Idle

LEMMA AppendRunStep ==
  ASSUME ContInv, NEW run \in Run, AppendRun(run)
  PROVE  ContInv'
<1> DEFINE rs == Append(runs, run)
<1>1. rs \in Seq(Run) /\ Len(rs) \in Nat
  BY DEF ContInv
<1>2. PICK D \in Evictions(rs), raw \in Digests :
        /\ \E kept \in Enumerations(1..Len(rs) \ D) :
             runs' = [k \in 1..Cardinality(1..Len(rs) \ D) |-> rs[kept[k]]]
        /\ summary' = Fold(summary, Cardinality(D), TrimBlock(raw, 600))
        /\ cont' = Idle
  BY DEF AppendRun
<1>3. PICK kept \in Enumerations(1..Len(rs) \ D) :
        runs' = [k \in 1..Cardinality(1..Len(rs) \ D) |-> rs[kept[k]]]
  BY <1>2
<1> HIDE DEF rs
<1>4. IsFiniteSet(1..Len(rs))
  BY <1>1, FS_Interval
<1>5. Cardinality(D) \in Nat /\ Cardinality(1..Len(rs) \ D) \in Nat
  <2>1. D \in SUBSET (1..Len(rs))
    BY <1>1 DEF Evictions
  <2>2. IsFiniteSet(D) /\ IsFiniteSet(1..Len(rs) \ D)
    BY <1>4, <2>1, FS_Subset
  <2> QED
    BY <2>2, FS_CardinalityType
<1>6. runs' \in Seq(Run)
  <2> DEFINE n == Cardinality(1..Len(rs) \ D)
  <2>1. kept \in [1..n -> 1..Len(rs) \ D]
    BY DEF Enumerations
  <2>2. n \in Nat /\ runs' = [k \in 1..n |-> rs[kept[k]]]
    BY <1>3, <1>5
  <2> HIDE DEF n
  <2>3. \A k \in 1..n : kept[k] \in 1..Len(rs)
    BY <2>1
  <2>4. \A k \in 1..n : rs[kept[k]] \in Run
    BY <1>1, <2>3
  <2> QED
    BY <2>2, <2>4
<1>7. summary' \in Nat /\ SummaryBounded'
  <2>1. raw \in Nat
    BY LengthsAssumption
  <2>2. TrimBlock(raw, 600) \in Nat
    <3> DEFINE cap == 600
    <3>1. cap \in Nat
      OBVIOUS
    <3> HIDE DEF cap
    <3>2. TrimBlock(raw, cap) \in Nat
      BY <2>1, <3>1, TrimBlockBounded
    <3> QED
      BY <3>2 DEF cap
  <2>3. summary \in Nat /\ summary <= SummaryMax + SummaryMark
    BY DEF ContInv, SummaryBounded
  <2> QED
    BY <1>2, <1>5, <2>2, <2>3, FoldBounded DEF SummaryBounded, SummaryMax, SummaryMark
<1> QED
  BY <1>2, <1>6, <1>7 DEF ContInv, Following

LEMMA FollowUpStep ==
  ASSUME ContInv, NEW prompt \in Prompts, NEW policy \in Policies, NEW brk \in Breaks,
         FollowUp(prompt, policy, brk)
  PROVE  ContInv'
<1>1. prompt \in Nat /\ policy \in Policy /\ brk \in Nat
  <2>1. MaxChars(policy) >= 0
    BY DEF FollowUp
  <2> QED
    BY <2>1, LengthsAssumption, PoliciesAssumption DEF Policy
<1> DEFINE whole == Whole(policy, brk, prompt)
           built == Built(whole, MaxChars(policy), prompt)
<1>2. whole \in Nat
  BY <1>1, WholeIsNat DEF ContInv, FollowUp
<1>3. built \in Nat
  BY <1>1, <1>2, MaxCharsIsNat, BuiltBounded
<1>4. cont' = [state |-> "followup", prompt |-> prompt, policy |-> policy, brk |-> brk,
               whole |-> whole, built |-> built, used |-> Used(policy, prompt, whole)]
  BY DEF FollowUp
<1>5. runs' = runs /\ summary' = summary /\ runs # <<>>
  BY DEF FollowUp
<1>6. whole' = whole /\ Used(policy, prompt, whole)' = Used(policy, prompt, whole)
  BY <1>5 DEF Whole, FinalStart, Shown, Body, Latest, Notes, Note, Has, AgentLen, Used, NoteOf
<1> HIDE DEF whole, built
<1> QED
  BY <1>1, <1>2, <1>3, <1>4, <1>5, <1>6 DEF ContInv, Following, SummaryBounded, whole, built

LEMMA ContStep == ContInv /\ [Next]_cvars => ContInv'
<1> SUFFICES ASSUME ContInv, [Next]_cvars PROVE ContInv'
  OBVIOUS
<1>1. ASSUME NEW prompt \in Prompts, Ask(prompt) PROVE ContInv'
  <2>1. cont' = [state |-> "plain", prompt |-> prompt, built |-> prompt] /\ prompt \in Nat
    BY <1>1, LengthsAssumption DEF Ask
  <2>2. runs' = runs /\ summary' = summary
    BY <1>1 DEF Ask
  <2> QED
    BY <2>1, <2>2 DEF ContInv, Following, SummaryBounded
<1>2. ASSUME NEW prompt \in Prompts, NEW policy \in Policies, NEW brk \in Breaks,
             FollowUp(prompt, policy, brk)
      PROVE  ContInv'
  BY <1>2, FollowUpStep
<1>3. ASSUME NEW reply \in Replies, Answered(reply) PROVE ContInv'
  <2>1. reply.final \in Nat /\ reply.agents \in Answers
    BY LengthsAssumption DEF Answers
  <2>2. cont.prompt \in Nat /\ cont.built \in Nat
    BY <1>3 DEF Answered, ContInv
  <2> DEFINE run == [prompt |-> cont.prompt,
                     final |-> IF reply.final = 0 THEN cont.built ELSE reply.final,
                     agents |-> reply.agents, decoded |-> TRUE]
  <2>3. run \in Run
    BY <2>1, <2>2 DEF Run
  <2>4. AppendRun(run)
    BY <1>3 DEF Answered
  <2> HIDE DEF run
  <2> QED
    BY <2>3, <2>4, AppendRunStep
<1>4. CASE Relayed
  <2> DEFINE run == [prompt |-> cont.prompt, final |-> 0, agents |-> NoAgents, decoded |-> TRUE]
  <2>1. run \in Run
    <3>1. [a \in {} |-> 0] \in [{} -> Nat] /\ {} \in SUBSET Agent
      OBVIOUS
    <3>2. NoAgents \in Answers
      BY <3>1 DEF NoAgents, Answers
    <3> QED
      BY <1>4, <3>2 DEF Relayed, ContInv, Run
  <2>2. AppendRun(run)
    BY <1>4 DEF Relayed
  <2> HIDE DEF run
  <2> QED
    BY <2>1, <2>2, AppendRunStep
<1>5. ASSUME NEW reply \in Replies, NEW agent \in Agent, Replayed(reply, agent) PROVE ContInv'
  <2>1. reply.final \in Nat /\ [a \in {agent} |-> reply.final] \in Answers
    <3>1. reply.final \in Nat /\ {agent} \in SUBSET Agent
      BY LengthsAssumption
    <3>2. [a \in {agent} |-> reply.final] \in [{agent} -> Nat]
      BY <3>1
    <3> QED
      BY <3>1, <3>2 DEF Answers
  <2> DEFINE run == [prompt |-> cont.prompt, final |-> reply.final,
                     agents |-> [a \in {agent} |-> reply.final], decoded |-> FALSE]
  <2>2. run \in Run
    BY <1>5, <2>1 DEF Replayed, ContInv, Run
  <2>3. AppendRun(run)
    BY <1>5 DEF Replayed
  <2> HIDE DEF run
  <2> QED
    BY <2>2, <2>3, AppendRunStep
<1>6. CASE Ended
  BY <1>6 DEF Ended, ContInv, Following, SummaryBounded
<1>7. CASE Reload
  <2>1. \A i \in 1..Len(runs) : [runs[i] EXCEPT !.decoded = TRUE] \in Run
    <3>1. \A i \in 1..Len(runs) : runs[i] \in Run
      BY DEF ContInv
    <3>2. \A run \in Run : [run EXCEPT !.decoded = TRUE] \in Run
      BY DEF Run
    <3> QED
      BY <3>1, <3>2
  <2>2. Len(runs) \in Nat
    BY DEF ContInv
  <2>3. runs' \in Seq(Run)
    BY <1>7, <2>1, <2>2 DEF Reload
  <2> QED
    BY <1>7, <2>3 DEF Reload, ContInv, Following, SummaryBounded
<1>8. CASE UNCHANGED cvars
  <2>1. runs' = runs /\ summary' = summary /\ cont' = cont
    BY <1>8 DEF cvars
  <2>2. Following' = Following
    BY <2>1 DEF Following
  <2>3. Following => /\ Whole(cont.policy, cont.brk, cont.prompt)'
                          = Whole(cont.policy, cont.brk, cont.prompt)
                     /\ Used(cont.policy, cont.prompt, cont.whole)'
                          = Used(cont.policy, cont.prompt, cont.whole)
    BY <2>1 DEF Whole, FinalStart, Shown, Body, Latest, Notes, Note, Has, AgentLen, Used, NoteOf
  <2> QED
    BY <2>1, <2>2, <2>3 DEF ContInv, SummaryBounded
<1>9. ASSUME NEW policy \in Policies, FollowUpPanics(policy) PROVE ContInv'
  <2>1. runs' = runs /\ summary' = summary /\ cont' = cont /\ cont = Idle
    BY <1>9 DEF FollowUpPanics
  <2> QED
    BY <2>1 DEF ContInv, Following, SummaryBounded
<1> QED
  BY <1>1, <1>2, <1>3, <1>4, <1>5, <1>6, <1>7, <1>8, <1>9 DEF Next

LEMMA ContInvHolds == Spec => []ContInv
  BY ContInit, ContStep, PTL DEF Spec

(* The length before the last cut is a length.                               *)
LEMMA FollowingWhole == ASSUME ContInv, Following PROVE cont.whole \in Nat
<1>1. /\ runs \in Seq(Run) /\ runs # <<>> /\ summary \in Nat
      /\ cont.policy \in Policy /\ cont.brk \in Nat /\ cont.prompt \in Nat
      /\ cont.whole = Whole(cont.policy, cont.brk, cont.prompt)
  BY DEF ContInv, Following
<1>2. Whole(cont.policy, cont.brk, cont.prompt) \in Nat
  BY <1>1, WholeIsNat, Zenon
<1> QED
  BY <1>1, <1>2

(* The rolling summary never grows beyond its cap and one marker: foldSum-   *)
(* mary, over any number of evictions.                                       *)
THEOREM SummaryStaysBounded == Spec => []SummaryBounded
<1>1. ContInv => SummaryBounded
  BY DEF ContInv
<1> QED
  BY <1>1, ContInvHolds, PTL

(* A continuation exceeds its budget by 114 bytes, or 29 tokens, at most:    *)
(* BuildContinuation.                                                        *)
THEOREM ContinuationStaysBounded == Spec => []ContinuationBounded
<1>1. ContInv => ContinuationBounded
  <2> SUFFICES ASSUME ContInv, Following
               PROVE  /\ cont.built <= MaxChars(cont.policy) + 114
                      /\ cont.policy.tokens > 0 =>
                           EstimateTokens(cont.built) <= cont.policy.tokens + 29
    BY DEF ContinuationBounded
  <2>1. /\ runs \in Seq(Run) /\ runs # <<>> /\ summary \in Nat
        /\ cont.policy \in Policy /\ cont.brk \in Nat /\ cont.prompt \in Nat
        /\ cont.built \in Nat
        /\ cont.whole = Whole(cont.policy, cont.brk, cont.prompt)
        /\ cont.built = Built(cont.whole, MaxChars(cont.policy), cont.prompt)
    BY DEF ContInv, Following
  <2>2. cont.whole \in Nat
    BY FollowingWhole
  <2>3. cont.built <= MaxChars(cont.policy) + 114
    <3> DEFINE max == MaxChars(cont.policy)
    <3>1. max \in Nat
      BY <2>1, MaxCharsIsNat
    <3> HIDE DEF max
    <3>2. Built(cont.whole, max, cont.prompt) <= max + 114
      BY <2>1, <2>2, <3>1, BuiltBounded
    <3> QED
      BY <2>1, <3>2 DEF max
  <2>4. ASSUME cont.policy.tokens > 0
        PROVE  EstimateTokens(cont.built) <= cont.policy.tokens + 29
    <3>1. MaxChars(cont.policy) = cont.policy.tokens * 4 /\ cont.policy.tokens \in Nat
      BY <2>1, <2>4 DEF MaxChars, CharsForTokens, Policy
    <3>2. cont.built <= cont.policy.tokens * 4 + 114
      BY <2>3, <3>1
    <3> QED
      BY <2>1, <3>1, <3>2 DEF EstimateTokens
  <2> QED
    BY <2>3, <2>4
<1> QED
  BY <1>1, ContInvHolds, PTL

(* Where the compaction a client is told of says that nothing was cut, the   *)
(* prompt is whole, or another agent's answer had more than three lines:     *)
(* BuildContinuation.                                                        *)
THEOREM UnusedIsWhole == Spec => []UnusedMeansWhole
<1>1. ContInv => UnusedMeansWhole
  <2> SUFFICES ASSUME ContInv, Following, ~cont.used, ~MoreLines PROVE cont.built = Everything
    BY DEF UnusedMeansWhole
  <2> DEFINE policy == cont.policy
             prompt == cont.prompt
             brk    == cont.brk
             Full(s) == IF s \in policy.include THEN Written(s, Body(s, policy)) ELSE 0
  <2>1. /\ runs \in Seq(Run) /\ runs # <<>> /\ summary \in Nat
        /\ policy \in Policy /\ brk \in Nat /\ prompt \in Nat
        /\ cont.whole = Whole(policy, brk, prompt)
        /\ cont.built = Built(cont.whole, MaxChars(policy), prompt)
        /\ ~Used(policy, prompt, cont.whole)
    BY DEF ContInv, Following
  <2>2. Everything = Preamble + Full("summary") + Full("original") + Full("final")
                     + Full("target")
                     + Written("notes", Note(policy, AgentLen(Latest, NoteOf(policy))))
                     + Written("followup", prompt) + Closing
    BY DEF Everything
  <2>a. ~(brk < AgentLen(Latest, NoteOf(policy)))
    BY DEF MoreLines
  <2> HIDE DEF policy, prompt, brk
  <2>b. Notes(policy, brk) = Note(policy, AgentLen(Latest, NoteOf(policy)))
    <3> DEFINE n == AgentLen(Latest, NoteOf(policy))
    <3>1. n \in Nat
      BY <2>1, NotesIsNat
    <3>2. ~(n > 900)
      BY <2>1 DEF Used
    <3> HIDE DEF n
    <3>3. FirstLines(n, brk) = n
      BY <2>1, <2>a, <3>1, <3>2 DEF FirstLines, LinesKept, Least, n
    <3> QED
      BY <3>3 DEF Notes, n
  <2>3. ASSUME NEW s \in Section PROVE Written(s, Shown(s, policy)) = Full(s)
    <3>1. CASE s \in policy.include
      <4>1. Body(s, policy) \in Nat /\ Limit(s, MaxChars(policy)) \in Nat
        BY <2>1, ShownIsNat
      <4>2. ~(Body(s, policy) > Limit(s, MaxChars(policy)))
        BY <2>1, <3>1 DEF Used
      <4>3. Shown(s, policy) = Body(s, policy)
        BY <2>1, <3>1, <4>1, <4>2, ShownIsNat
      <4> QED
        BY <3>1, <4>3
    <3>2. CASE s \notin policy.include
      BY <3>2 DEF Shown, Written
    <3> QED
      BY <3>1, <3>2
  <2>4. /\ Whole(policy, brk, prompt) \in Nat
        /\ Whole(policy, brk, prompt) =
             Preamble + Written("summary", Shown("summary", policy))
             + Written("original", Shown("original", policy))
             + Written("final", Shown("final", policy))
             + Written("target", Shown("target", policy))
             + Written("notes", Notes(policy, brk)) + Written("followup", prompt) + Closing
    BY <2>1, WholeIsNat
  <2>5. Whole(policy, brk, prompt) = Everything
    <3>1. /\ Written("summary", Shown("summary", policy)) = Full("summary")
          /\ Written("original", Shown("original", policy)) = Full("original")
          /\ Written("final", Shown("final", policy)) = Full("final")
          /\ Written("target", Shown("target", policy)) = Full("target")
      BY <2>3 DEF Section
    <3> HIDE DEF Full
    <3> QED
      BY <2>2, <2>4, <2>b, <3>1
  <2>6. cont.whole <= MaxChars(policy)
    <3>1. cont.whole \in Nat /\ MaxChars(policy) \in Nat
      BY <2>1, <2>4, MaxCharsIsNat
    <3> QED
      BY <2>1, <3>1 DEF Used
  <2> QED
    BY <2>1, <2>5, <2>6 DEF Built
<1> QED
  BY <1>1, ContInvHolds, PTL

(* What a cut of the whole to cut bytes keeps of it, told apart from the     *)
(* state.                                                                    *)
LEMMA KeptByParts ==
  ASSUME NEW cut, cut = Room, NEW a, NEW b
  PROVE  Kept(a, b) =
           IF cont.whole <= MaxChars(cont.policy) THEN b - a
           ELSE Overlap(a, b, 0, HeadOf(cut))
                + Overlap(a, b, cont.whole - (cut - HeadOf(cut)), cont.whole)
  BY DEF Kept

(* The two ends of a cut to 263 bytes or more hold 175 and 88.                *)
LEMMA EndsAreLong ==
  ASSUME NEW cut \in Nat, cut >= 263
  PROVE  HeadOf(cut) \in Nat /\ HeadOf(cut) >= 175 /\ cut - HeadOf(cut) >= 88
<1> DEFINE h == (cut * 2) \div 3
<1>1. HeadOf(cut) = h
  BY DEF HeadOf
<1>2. h \in Nat /\ 3 * h <= cut * 2 /\ 3 * h >= cut * 2 - 2
  OBVIOUS
<1> HIDE DEF h
<1> QED
  BY <1>1, <1>2

(* A quarter of the budget or the follow-up, and what that leaves.            *)
LEMMA QuarterLeft ==
  ASSUME NEW max \in Nat, NEW n \in Nat
  PROVE  /\ FollowupBudget(max, n) \in Nat /\ FollowupBudget(max, n) <= n
         /\ FollowupBudget(max, n) = Least(n, max \div 4)
         /\ max - FollowupBudget(max, n) \in Nat
         /\ max >= 350 => max - FollowupBudget(max, n) >= 263
<1> DEFINE q == max \div 4
<1>1. q \in Nat /\ 4 * q <= max
  OBVIOUS
<1> HIDE DEF q
<1>2. FollowupBudget(max, n) = Least(q, n)
  BY DEF FollowupBudget, q
<1>3. Least(q, n) \in Nat /\ Least(q, n) <= n /\ Least(q, n) <= q /\ Least(q, n) = Least(n, q)
  BY <1>1 DEF Least
<1> QED
  BY <1>1, <1>2, <1>3 DEF q

(* A cut text has at least as many bytes as it was cut to.                    *)
LEMMA CutFillsLimit ==
  ASSUME NEW n \in Nat, NEW max \in Nat, max <= n PROVE TrimBlock(n, max) >= max
<1>1. Digits(n - max) \in 1..10
  BY DigitsBounded
<1> QED
  BY <1>1 DEF TrimBlock, TrimMark

(* The instructions at both ends of a prompt are not cut away, and a quarter *)
(* of the budget's worth of the follow-up comes behind: BuildContinuation.   *)
THEOREM InstructionsAreWhole == Spec => []InstructionsSurvive
<1>1. ContInv => InstructionsSurvive
  <2> SUFFICES ASSUME ContInv, Following, MaxChars(cont.policy) >= 350
               PROVE  /\ Kept(0, Preamble) = Preamble
                      /\ Kept(cont.whole - Closing, cont.whole) = Closing
                      /\ FollowupShown >= Least(cont.prompt, MaxChars(cont.policy) \div 4)
    BY DEF InstructionsSurvive
  <2> DEFINE max   == MaxChars(cont.policy)
             n     == cont.prompt
             whole == cont.whole
             fb    == FollowupBudget(max, n)
             cut   == max - fb
             head  == HeadOf(cut)
  <2>1. /\ max \in Nat /\ n \in Nat /\ whole \in Nat /\ max >= 350
        /\ cont.built = Built(whole, max, n)
    BY FollowingWhole, MaxCharsIsNat DEF ContInv, Following
  <2>2. Room = cut
    BY DEF Room
  <2>3. \A a, b : Kept(a, b) = IF whole <= max THEN b - a
                              ELSE Overlap(a, b, 0, head)
                                   + Overlap(a, b, whole - (cut - head), whole)
    BY <2>2, KeptByParts
  <2>4. FollowupShown = IF whole <= max THEN n ELSE cont.built - TrimBlock(whole, cut) - 20
    BY <2>2 DEF FollowupShown, Title
  <2>5. ~(whole <= max) => cont.built = TrimBlock(whole, cut) + 20 + TrimBlock(n, fb)
    BY <2>1 DEF Built, Title
  <2>6. Preamble = 175 /\ Closing = 88
    BY DEF Preamble, Closing
  <2> HIDE DEF max, n, whole
  <2>7. /\ fb \in Nat /\ fb <= n /\ fb = Least(n, max \div 4)
        /\ cut \in Nat /\ cut >= 263 /\ cut <= max
    <3>1. /\ fb \in Nat /\ fb <= n /\ fb = Least(n, max \div 4)
          /\ max - fb \in Nat /\ max - fb >= 263
      BY <2>1, QuarterLeft
    <3> HIDE DEF fb
    <3> QED
      BY <2>1, <3>1
  <2> HIDE DEF fb, cut
  <2>8. head \in Nat /\ head >= 175 /\ cut - head >= 88
    BY <2>7, EndsAreLong
  <2> HIDE DEF head
  <2>9. CASE whole <= max
    <3>1. max \div 4 \in Nat
      BY <2>1
    <3>2. Least(n, max \div 4) <= n
      BY <2>1, <3>1 DEF Least
    <3>3. 175 - 0 = 175 /\ whole - (whole - 88) = 88
      BY <2>1
    <3>4. FollowupShown >= Least(n, max \div 4)
      BY <2>4, <2>9, <3>2
    <3>5. Kept(0, 175) = 175 /\ Kept(whole - 88, whole) = 88
      BY <2>3, <2>9, <3>3
    <3> QED
      BY <2>6, <3>4, <3>5 DEF max, n, whole
  <2>10. CASE ~(whole <= max)
    <3> DEFINE tail == whole - (cut - head)
    <3>1. tail \in Nat /\ tail > head /\ whole - 88 >= tail /\ whole > max
      BY <2>1, <2>7, <2>8, <2>10
    <3>2. /\ Kept(0, 175) = Overlap(0, 175, 0, head) + Overlap(0, 175, tail, whole)
          /\ Kept(whole - 88, whole) = Overlap(whole - 88, whole, 0, head)
                                      + Overlap(whole - 88, whole, tail, whole)
      BY <2>3, <2>10
    <3> HIDE DEF tail
    <3>3. Overlap(0, 175, 0, head) = 175 /\ Overlap(0, 175, tail, whole) = 0
      BY <2>1, <2>8, <3>1 DEF Overlap, Least
    <3>4. /\ Overlap(whole - 88, whole, 0, head) = 0
          /\ Overlap(whole - 88, whole, tail, whole) = 88
      BY <2>1, <2>8, <3>1 DEF Overlap, Least
    <3>5. TrimBlock(n, fb) \in Nat /\ TrimBlock(n, fb) >= fb
      BY <2>1, <2>7, TrimBlockBounded, CutFillsLimit
    <3>6. TrimBlock(whole, cut) \in Nat
      BY <2>1, <2>7, TrimBlockBounded
    <3>7. FollowupShown = TrimBlock(n, fb)
      BY <2>4, <2>5, <2>10, <3>5, <3>6
    <3> QED
      BY <2>6, <2>7, <3>2, <3>3, <3>4, <3>5, <3>7 DEF max, n, whole
  <2> QED
    BY <2>9, <2>10
<1> QED
  BY <1>1, ContInvHolds, PTL
------------------------------------------------------------------------------
(* A heading adds its length to what stands under it.                        *)
LEMMA WrittenBounded ==
  ASSUME NEW n \in Nat, NEW bound \in Nat, n <= bound + 47
  PROVE  /\ Written("summary", n) \in Nat /\ Written("summary", n) <= 29 + bound + 47
         /\ Written("original", n) \in Nat /\ Written("original", n) <= 27 + bound + 47
<1>1. Written("summary", n) \in {0, 29 + n} /\ Written("original", n) \in {0, 27 + n}
  BY DEF Written, Title
<1> QED
  BY <1>1

(* Where the final answer begins in the whole: behind a third and a fifth of *)
(* the budget, with their headings and markers.                              *)
LEMMA FinalStartBounded ==
  ASSUME runs \in Seq(Run), runs # <<>>, summary \in Nat, NEW policy \in Policy
  PROVE  /\ FinalStart(policy) \in Nat
         /\ FinalStart(policy) <= MaxChars(policy) \div 3 + MaxChars(policy) \div 5 + 352
<1> DEFINE max == MaxChars(policy)
           su  == Shown("summary", policy)
           og  == Shown("original", policy)
<1>1. max \in Nat
  BY MaxCharsIsNat
<1>2. max \div 3 \in Nat /\ max \div 5 \in Nat
  BY <1>1
<1>3. su \in Nat /\ su <= max \div 3 + 47
  <2>1. Body("summary", policy) \in Nat /\ su \in Nat
    BY ShownIsNat DEF Section
  <2>2. TrimBlock(Body("summary", policy), max \div 3) <= max \div 3 + 47
    BY <1>2, <2>1, TrimBlockBounded
  <2> QED
    BY <1>2, <2>1, <2>2 DEF Shown, Limit
<1>4. og \in Nat /\ og <= max \div 5 + 47
  <2>1. Body("original", policy) \in Nat /\ og \in Nat
    BY ShownIsNat DEF Section
  <2>2. TrimBlock(Body("original", policy), max \div 5) <= max \div 5 + 47
    BY <1>2, <2>1, TrimBlockBounded
  <2> QED
    BY <1>2, <2>1, <2>2 DEF Shown, Limit
<1>5. FinalStart(policy) = 175 + Written("summary", su) + Written("original", og) + 27
  BY DEF FinalStart, Preamble, Title
<1> HIDE DEF max, su, og
<1>6. /\ Written("summary", su) \in Nat /\ Written("summary", su) <= 29 + max \div 3 + 47
      /\ Written("original", og) \in Nat /\ Written("original", og) <= 27 + max \div 5 + 47
  BY <1>2, <1>3, <1>4, WrittenBounded
<1>7. FinalStart(policy) \in Nat /\ FinalStart(policy) <= max \div 3 + max \div 5 + 352
  <2> DEFINE a  == max \div 3
             b  == max \div 5
             ws == Written("summary", su)
             wo == Written("original", og)
  <2>1. a \in Nat /\ b \in Nat /\ FinalStart(policy) = 175 + ws + wo + 27
    BY <1>2, <1>5
  <2>2. ws \in Nat /\ ws <= 29 + a + 47 /\ wo \in Nat /\ wo <= 27 + b + 47
    BY <1>6
  <2> HIDE DEF a, b, ws, wo
  <2>3. FinalStart(policy) \in Nat /\ FinalStart(policy) <= a + b + 352
    BY <2>1, <2>2
  <2> QED
    BY <2>3 DEF a, b
<1> QED
  BY <1>7 DEF max

(* The head that a cut keeps reaches beyond that, when the budget is at      *)
(* least 8000 and the follow-up at most an eighth of it.                     *)
Roomy(max, n) == max \in Nat /\ n \in Nat /\ max >= 8000 /\ 8 * n <= max

LEMMA HeadReaches ==
  ASSUME NEW max, NEW n, Roomy(max, n)
  PROVE  /\ HeadOf(max - n) \in Nat
         /\ HeadOf(max - n) <= max - n
         /\ max \div 3 + max \div 5 + 352 < HeadOf(max - n)
<1> DEFINE cut == max - n
<1>0. max \in Nat /\ n \in Nat /\ max >= 8000 /\ 8 * n <= max /\ cut = max - n
  BY DEF Roomy
<1> HIDE DEF cut
<1>1. cut \in Nat /\ cut >= 7000 /\ 8 * cut >= 7 * max
  BY <1>0
<1>2. HeadOf(cut) = (cut * 2) \div 3
  BY <1>1 DEF HeadOf
<1> DEFINE a == max \div 3
           b == max \div 5
           h == (cut * 2) \div 3
<1>3. a \in Nat /\ 3 * a <= max
  BY <1>0
<1>4. b \in Nat /\ 5 * b <= max
  BY <1>0
<1>5. h \in Nat /\ 3 * h <= cut * 2 /\ 3 * h >= cut * 2 - 2
  BY <1>1
<1> HIDE DEF a, b, h
<1>6. a + b + 352 < h /\ h <= cut
  BY <1>0, <1>1, <1>3, <1>4, <1>5
<1> QED
  BY <1>2, <1>5, <1>6 DEF a, b, h, cut

(* The previous answer is not cut away: BuildContinuation keeps two thirds   *)
(* of its budget from the front, and what comes before the answer is less.   *)
THEOREM AnswerIsShown == Spec => []AnswerSurvives
<1>1. ContInv => AnswerSurvives
  <2> SUFFICES ASSUME ContInv, Following, "final" \in cont.policy.include, Latest.final > 0,
                      MaxChars(cont.policy) >= 8000, 8 * cont.prompt <= MaxChars(cont.policy)
               PROVE  LET start == FinalStart(cont.policy)
                      IN  Kept(start, start + Shown("final", cont.policy)) > 0
    BY DEF AnswerSurvives
  <2> DEFINE max   == MaxChars(cont.policy)
             n     == cont.prompt
             start == FinalStart(cont.policy)
             shown == Shown("final", cont.policy)
             end   == start + shown
             cut   == max - n
             head  == HeadOf(cut)
  <2>1. /\ runs \in Seq(Run) /\ runs # <<>> /\ summary \in Nat
        /\ cont.policy \in Policy /\ cont.brk \in Nat /\ cont.prompt \in Nat
        /\ cont.whole = Whole(cont.policy, cont.brk, cont.prompt)
    BY DEF ContInv, Following
  <2>2. max \in Nat /\ n \in Nat /\ max >= 8000 /\ 8 * n <= max
    BY <2>1, MaxCharsIsNat
  <2>3. cont.whole \in Nat
    BY FollowingWhole
  <2>4. FollowupBudget(max, n) = n
    <3> HIDE DEF max, n
    <3> QED
      BY <2>2 DEF FollowupBudget, Least
  <2>5. start \in Nat /\ start <= max \div 3 + max \div 5 + 352
    BY <2>1, FinalStartBounded
  <2>6. shown \in Nat /\ shown > 0
    <3>1. shown \in Nat /\ Limit("final", max) = max \div 4 /\ Body("final", cont.policy) = Latest.final
      BY <2>1, ShownIsNat DEF Section, Limit, Body
    <3>2. shown = TrimBlock(Latest.final, max \div 4)
      BY <3>1 DEF Shown
    <3>3. Latest.final \in Nat
      BY <2>1, LatestIsRun DEF Run
    <3> HIDE DEF max, shown
    <3>4. max \div 4 \in Nat /\ max \div 4 >= 2000
      BY <2>2
    <3>5. Latest.final > max \div 4 => Digits(Latest.final - max \div 4) \in 1..10
      BY <3>3, <3>4, DigitsBounded
    <3> QED
      BY <3>1, <3>2, <3>3, <3>4, <3>5 DEF TrimBlock, TrimMark
  <2>7. cut \in Nat /\ cut = max - n
    BY <2>2
  <2>8. head \in Nat /\ head <= cut /\ max \div 3 + max \div 5 + 352 < head
    <3> HIDE DEF max, n
    <3>1. Roomy(max, n)
      BY <2>2 DEF Roomy
    <3> QED
      BY <3>1, HeadReaches
  <2>9. start < head
    <3> HIDE DEF start, head, max
    <3>1. max \div 3 \in Nat /\ max \div 5 \in Nat
      BY <2>2
    <3> QED
      BY <2>5, <2>8, <3>1
  <2>10. Kept(start, end) = IF cont.whole <= max THEN end - start
                         ELSE Overlap(start, end, 0, head)
                              + Overlap(start, end, cont.whole - (cut - head), cont.whole)
    <3>1. cut = Room
      BY <2>4 DEF Room
    <3> HIDE DEF cut, start, end
    <3> QED
      BY <3>1, KeptByParts
  <2>11. end \in Nat /\ end > start
    BY <2>5, <2>6
  <2> SUFFICES Kept(start, end) > 0
    OBVIOUS
  <2> HIDE DEF max, n, start, shown, end, cut, head
  <2>12. CASE cont.whole <= max
    BY <2>5, <2>10, <2>11, <2>12
  <2>13. CASE ~(cont.whole <= max)
    <3>1. Overlap(start, end, 0, head) \in Nat \ {0}
      BY <2>5, <2>8, <2>9, <2>11 DEF Overlap, Least
    <3>2. cont.whole - (cut - head) \in Int
      BY <2>3, <2>7, <2>8
    <3>3. Overlap(start, end, cont.whole - (cut - head), cont.whole) \in Nat
      BY <2>3, <2>5, <2>11, <3>2 DEF Overlap, Least
    <3> QED
      BY <2>10, <2>13, <3>1, <3>3
  <2> QED
    BY <2>12, <2>13
<1> QED
  BY <1>1, ContInvHolds, PTL
------------------------------------------------------------------------------
(* A reduction loses nothing: the contributions are spread over the blocks   *)
(* of this round and of the next, each call takes one block away, and the    *)
(* only contribution of a reduction of one is called for just once.          *)
Name    == Labels \union 10..28
Block   == [len : Nat, label : Name, from : SUBSET Nat]
From(s) == UNION {s[i].from : i \in 1..Len(s)}

AllThere == From(blocks) \union From(next) = 1..job.many

Counted(many, m, n, c) ==
  /\ many = 1 => \/ c = 0 /\ m = 1 /\ n = 0
                 \/ c = 1 /\ m = 0 /\ n = 1
  /\ many # 1 => m + n + c = many

CallsCounted == Counted(job.many, Len(blocks), Len(next), calls)

RedInv == /\ job.many \in Nat /\ round \in Nat
          /\ blocks \in Seq(Block) /\ next \in Seq(Block) /\ calls \in Nat
          /\ AllThere
          /\ CallsCounted

(* The count goes up with each call, and stays through all the rest.         *)
LEMMA Counting ==
  ASSUME NEW many \in Nat, NEW m \in Nat, NEW n \in Nat, NEW c \in Nat, Counted(many, m, n, c)
  PROVE  /\ many = 1 /\ c = 0 => m = 1 /\ n = 0 /\ Counted(many, 0, 1, 1)
         /\ m > 1 => m - 2 \in Nat /\ Counted(many, m - 2, n + 1, c + 1)
         /\ m = 1 /\ n # 0 => Counted(many, 0, n + 1, c)
         /\ m = 0 /\ n > 1 => Counted(many, n, 0, c)
         /\ n <= 1 /\ n # 0 => n = 1
         /\ m = 0 /\ n = 1 => c = IF many = 1 THEN 1 ELSE many - 1
  BY DEF Counted

(* Who has come to a sequence of blocks.                                     *)
LEMMA FromMember ==
  ASSUME NEW s, NEW x PROVE x \in From(s) <=> \E i \in 1..Len(s) : x \in s[i].from
  BY DEF From

(* Nobody has come to no block, and to a single one those it was made from.   *)
LEMMA FromFew == From(<<>>) = {} /\ \A s \in Seq(Block) : /\ Len(s) = 0 => From(s) = {}
                                                        /\ Len(s) = 1 => From(s) = s[1].from
<1>1. ASSUME NEW s, Len(s) = 0 PROVE From(s) = {}
  <2>1. \A x : x \notin From(s)
    BY <1>1, FromMember
  <2> QED
    BY <2>1
<1>2. ASSUME NEW s, Len(s) = 1 PROVE From(s) = s[1].from
  <2>1. \A x : x \in From(s) <=> x \in s[1].from
    BY <1>2, FromMember
  <2>2. \A x : x \in From(s) => x \in s[1].from
    BY <2>1
  <2> QED
    BY <2>1 DEF From
<1> QED
  BY <1>1, <1>2

(* A block that is appended adds those it was made from, and nobody else.      *)
LEMMA FromAppend ==
  ASSUME NEW s \in Seq(Block), NEW b \in Block
  PROVE  From(Append(s, b)) = From(s) \union b.from
<1>1. /\ Len(s) \in Nat /\ Len(Append(s, b)) = Len(s) + 1
      /\ \A i \in 1..Len(s) : Append(s, b)[i] = s[i]
      /\ Append(s, b)[Len(s) + 1] = b
  BY AppendProperties
<1>2. 1..(Len(s) + 1) = 1..Len(s) \union {Len(s) + 1}
  BY <1>1
<1>3. ASSUME NEW x PROVE x \in From(Append(s, b)) <=> x \in From(s) \union b.from
  <2>1. x \in From(Append(s, b)) <=> \E i \in 1..(Len(s) + 1) : x \in Append(s, b)[i].from
    BY <1>1 DEF From
  <2>2. x \in From(s) <=> \E i \in 1..Len(s) : x \in s[i].from
    BY DEF From
  <2>3. (\E i \in 1..(Len(s) + 1) : x \in Append(s, b)[i].from)
          <=> (\E i \in 1..Len(s) : x \in s[i].from) \/ x \in b.from
    BY <1>1, <1>2
  <2> QED
    BY <2>1, <2>2, <2>3
<1> QED
  BY <1>3

(* A sequence of blocks taken apart.                                         *)
LEMMA FromSplit ==
  ASSUME NEW s \in Seq(Block), NEW k \in 0..Len(s)
  PROVE  /\ SubSeq(s, 1, k) \in Seq(Block) /\ Len(SubSeq(s, 1, k)) = k
         /\ SubSeq(s, k + 1, Len(s)) \in Seq(Block)
         /\ Len(SubSeq(s, k + 1, Len(s))) = Len(s) - k
         /\ From(s) = From(SubSeq(s, 1, k)) \union From(SubSeq(s, k + 1, Len(s)))
<1> DEFINE a == SubSeq(s, 1, k)
           b == SubSeq(s, k + 1, Len(s))
           n == Len(s)
<1>1. n \in Nat /\ k \in 0..n /\ \A i \in 1..n : s[i] \in Block
  BY ElementOfSeq
<1>2. a \in Seq(Block) /\ Len(a) = k /\ \A i \in 1..k : a[i] = s[i]
  BY <1>1
<1>3. b \in Seq(Block) /\ Len(b) = n - k /\ \A i \in 1..(n - k) : b[i] = s[k + i]
  BY <1>1
<1> HIDE DEF a, b, n
<1>4. ASSUME NEW x PROVE x \in From(s) <=> x \in From(a) \union From(b)
  <2>1. /\ x \in From(s) <=> \E i \in 1..n : x \in s[i].from
        /\ x \in From(a) <=> \E i \in 1..k : x \in s[i].from
        /\ x \in From(b) <=> \E i \in 1..(n - k) : x \in s[k + i].from
    <3>1. x \in From(s) <=> \E i \in 1..n : x \in s[i].from
      BY FromMember DEF n
    <3>2. x \in From(a) <=> \E i \in 1..k : x \in a[i].from
      BY <1>2, FromMember
    <3>3. x \in From(b) <=> \E i \in 1..(n - k) : x \in b[i].from
      BY <1>3, FromMember
    <3> QED
      BY <1>2, <1>3, <3>1, <3>2, <3>3
  <2>2. \A i \in 1..n : i \in 1..k \/ (i - k \in 1..(n - k) /\ k + (i - k) = i)
    BY <1>1
  <2>3. (\A i \in 1..k : i \in 1..n) /\ (\A i \in 1..(n - k) : k + i \in 1..n)
    BY <1>1
  <2> QED
    BY <2>1, <2>2, <2>3
<1> QED
  BY <1>2, <1>3, <1>4 DEF a, b, n

(* Before the first call every contribution is one block of this round.       *)
LEMMA RedInit == YInit => RedInv
<1> SUFFICES ASSUME YInit PROVE RedInv
  OBVIOUS
<1>1. job.many \in Nat
  BY CasesAssumption DEF YInit, Jobs
<1>2. PICK lens \in [1..job.many -> Bodies], labels \in [1..job.many -> Labels] :
        blocks = [i \in 1..job.many |-> [len |-> lens[i], label |-> labels[i], from |-> {i}]]
  BY DEF YInit
<1>3. \A i \in 1..job.many : lens[i] \in Nat /\ labels[i] \in Name
  BY CasesAssumption DEF Name
<1>4. blocks \in Seq(Block) /\ Len(blocks) = job.many
  <2>1. \A i \in 1..job.many : [len |-> lens[i], label |-> labels[i], from |-> {i}] \in Block
    BY <1>3 DEF Block
  <2> QED
    BY <1>1, <1>2, <2>1
<1>5. \A i \in 1..job.many : blocks[i].from = {i}
  BY <1>2
<1>6. From(blocks) = 1..job.many
  BY <1>4, <1>5 DEF From
<1>7. next = <<>> /\ calls = 0 /\ round = 1
  BY DEF YInit
<1>8. From(<<>>) = {}
  BY DEF From
<1>9. AllThere
  BY <1>6, <1>7, <1>8 DEF AllThere
<1>10. CallsCounted
  BY <1>1, <1>4, <1>7 DEF CallsCounted, Counted
<1> QED
  BY <1>1, <1>4, <1>7, <1>9, <1>10 DEF RedInv

(* A call, an odd contribution and a new round keep every contribution.       *)
LEMMA RedStep == RedInv /\ [YNext]_yvars => RedInv'
<1> SUFFICES ASSUME RedInv, [YNext]_yvars PROVE RedInv'
  OBVIOUS
<1>0. /\ job.many \in Nat /\ calls \in Nat /\ round \in Nat
      /\ blocks \in Seq(Block) /\ next \in Seq(Block)
      /\ Len(blocks) \in Nat /\ Len(next) \in Nat
      /\ Counted(job.many, Len(blocks), Len(next), calls)
  BY DEF RedInv, CallsCounted
<1>1. ASSUME NEW k \in 1..2, k = Least(2, Len(blocks)), NEW len \in Nat
      PROVE  /\ Merged(len) \in Block
             /\ Merged(len).from = From(SubSeq(blocks, 1, k))
  <2>1. Pair = SubSeq(blocks, 1, k) /\ k \in 0..Len(blocks)
    BY <1>0, <1>1 DEF Pair, Least
  <2>2. Pair \in Seq(Block)
    BY <1>0, <2>1, FromSplit
  <2>3. From(Pair) \subseteq Nat
    <3>1. \A i \in 1..Len(Pair) : Pair[i].from \subseteq Nat
      <4>1. \A i \in 1..Len(Pair) : Pair[i] \in Block
        BY <2>2, ElementOfSeq
      <4>2. \A b \in Block : b.from \subseteq Nat
        BY DEF Block
      <4> QED
        BY <4>1, <4>2
    <3> QED
      BY <3>1, FromMember
  <2> DEFINE name == 8 + Digits(round) + Digits(Len(next))
  <2>4. Merged(len) = [len |-> len, label |-> name, from |-> From(Pair)]
    BY DEF Merged, From
  <2>5. name \in Name
    <3>1. Digits(round) \in 1..10 /\ Digits(Len(next)) \in 1..10
      BY <1>0, DigitsBounded
    <3> DEFINE d == Digits(round)
               e == Digits(Len(next))
    <3> HIDE DEF d, e
    <3>2. d \in 1..10 /\ e \in 1..10
      BY <3>1 DEF d, e
    <3>3. 8 + d + e \in 10..28
      BY <3>2
    <3> QED
      BY <3>3 DEF Name, d, e
  <2> HIDE DEF name
  <2> QED
    BY <1>1, <2>1, <2>3, <2>4, <2>5 DEF Block
<1>2. CASE CallSingle
  <2>1. /\ job' = job /\ round' = round /\ blocks' = <<>> /\ calls' = 1
        /\ job.many = 1 /\ calls = 0
    BY <1>2 DEF CallSingle
  <2>2. /\ Len(blocks) = 1 /\ Len(next) = 0
        /\ Counted(job.many, 0, 1, 1)
    BY <1>0, <2>1, Counting
  <2>3. PICK len \in Bodies : next' = <<Merged(len)>>
    BY <1>2 DEF CallSingle
  <2>4. len \in Nat /\ 1 = Least(2, Len(blocks))
    BY <2>2, CasesAssumption DEF Least
  <2>5. Merged(len) \in Block /\ Merged(len).from = From(SubSeq(blocks, 1, 1))
    BY <1>1, <2>4
  <2>6. From(SubSeq(blocks, 1, 1)) = From(blocks)
    BY <1>0, <2>2, SubSeqFull
  <2>7. From(next) = {} /\ From(<<>>) = {}
    BY <1>0, <2>2, FromFew
  <2>8. From(next') = Merged(len).from /\ Len(next') = 1 /\ next' \in Seq(Block)
    <3>1. Len(next') = 1 /\ next' \in Seq(Block) /\ next'[1] = Merged(len)
      BY <2>3, <2>5
    <3> QED
      BY <3>1, FromFew
  <2>9. AllThere'
    BY <2>1, <2>5, <2>6, <2>7, <2>8 DEF RedInv, AllThere
  <2>10. CallsCounted'
    BY <2>1, <2>2, <2>8 DEF CallsCounted
  <2> QED
    BY <1>0, <2>1, <2>8, <2>9, <2>10 DEF RedInv
<1>3. CASE CallPair
  <2>1. /\ job' = job /\ round' = round
        /\ blocks' = SubSeq(blocks, 3, Len(blocks)) /\ calls' = calls + 1
        /\ Len(blocks) > 1
    BY <1>3 DEF CallPair
  <2>2. PICK len \in Bodies : next' = Append(next, Merged(len))
    BY <1>3 DEF CallPair
  <2>3. len \in Nat /\ 2 = Least(2, Len(blocks)) /\ 2 \in 0..Len(blocks) /\ 2 + 1 = 3
    BY <1>0, <2>1, CasesAssumption DEF Least
  <2>4. Merged(len) \in Block /\ Merged(len).from = From(SubSeq(blocks, 1, 2))
    BY <1>1, <2>3
  <2>5. /\ blocks' \in Seq(Block) /\ Len(blocks') = Len(blocks) - 2
        /\ From(blocks) = From(SubSeq(blocks, 1, 2)) \union From(blocks')
    <3>1. /\ SubSeq(blocks, 2 + 1, Len(blocks)) \in Seq(Block)
          /\ Len(SubSeq(blocks, 2 + 1, Len(blocks))) = Len(blocks) - 2
          /\ From(blocks) = From(SubSeq(blocks, 1, 2))
                            \union From(SubSeq(blocks, 2 + 1, Len(blocks)))
      BY <1>0, <2>3, FromSplit
    <3> QED
      BY <2>1, <2>3, <3>1
  <2>6. /\ next' \in Seq(Block) /\ Len(next') = Len(next) + 1
        /\ From(next') = From(next) \union Merged(len).from
    <3>1. next' \in Seq(Block) /\ Len(next') = Len(next) + 1
      BY <1>0, <2>2, <2>4, AppendProperties
    <3> QED
      BY <1>0, <2>2, <2>4, <3>1, FromAppend
  <2>7. AllThere'
    BY <2>1, <2>4, <2>5, <2>6 DEF RedInv, AllThere
  <2>8. CallsCounted'
    <3>1. Counted(job.many, Len(blocks) - 2, Len(next) + 1, calls + 1)
      BY <1>0, <2>1, Counting
    <3> QED
      BY <2>1, <2>5, <2>6, <3>1 DEF CallsCounted
  <2> QED
    BY <1>0, <2>1, <2>5, <2>6, <2>7, <2>8 DEF RedInv
<1>4. CASE CarryOver
  <2>1. /\ job' = job /\ round' = round /\ blocks' = <<>> /\ calls' = calls
        /\ Len(blocks) = 1 /\ next # <<>> /\ next' = Append(next, blocks[1])
    BY <1>4 DEF CarryOver
  <2>2. blocks[1] \in Block /\ From(blocks) = blocks[1].from /\ From(<<>>) = {}
    BY <1>0, <2>1, ElementOfSeq, FromFew
  <2>3. /\ next' \in Seq(Block) /\ Len(next') = Len(next) + 1
        /\ From(next') = From(next) \union blocks[1].from
    <3>1. next' \in Seq(Block) /\ Len(next') = Len(next) + 1
      BY <1>0, <2>1, <2>2, AppendProperties
    <3> QED
      BY <1>0, <2>1, <2>2, <3>1, FromAppend
  <2>4. AllThere'
    BY <2>1, <2>2, <2>3 DEF RedInv, AllThere
  <2>5. CallsCounted'
    <3>1. Len(next) # 0
      BY <1>0, <2>1, EmptySeq
    <3>2. Counted(job.many, 0, Len(next) + 1, calls)
      BY <1>0, <2>1, <3>1, Counting
    <3> QED
      BY <2>1, <2>3, <3>2 DEF CallsCounted
  <2> QED
    BY <1>0, <2>1, <2>3, <2>4, <2>5 DEF RedInv
<1>5. CASE NextRound
  <2>1. /\ job' = job /\ round' = round + 1
        /\ blocks' = next /\ next' = <<>> /\ calls' = calls
        /\ blocks = <<>> /\ Len(next) > 1
    BY <1>5 DEF NextRound
  <2>2. From(<<>>) = {}
    BY FromFew
  <2>3. AllThere'
    BY <2>1, <2>2 DEF RedInv, AllThere
  <2>4. CallsCounted'
    <3>1. Counted(job.many, Len(next), 0, calls)
      BY <1>0, <2>1, Counting
    <3> QED
      BY <2>1, <3>1 DEF CallsCounted
  <2> QED
    BY <1>0, <2>1, <2>3, <2>4 DEF RedInv
<1>6. CASE UNCHANGED yvars
  BY <1>6 DEF yvars, RedInv, AllThere, CallsCounted, From
<1> QED
  BY <1>2, <1>3, <1>4, <1>5, <1>6 DEF YNext

(* A reduction of any number of contributions, of any lengths, ends with one *)
(* answer that all of them have come to, after one call less than there were *)
(* contributions: ReducePairwise.                                            *)
THEOREM ReductionLosesNothing == YSpec => []ReductionComplete
<1>1. RedInv => ReductionComplete
  <2> SUFFICES ASSUME RedInv, Reduced, job.many > 0
               PROVE  /\ Len(next) = 1
                      /\ next[1].from = 1..job.many
                      /\ calls = IF job.many = 1 THEN 1 ELSE job.many - 1
    BY DEF ReductionComplete
  <2>1. /\ job.many \in Nat /\ calls \in Nat /\ blocks \in Seq(Block) /\ next \in Seq(Block)
        /\ Len(next) \in Nat /\ Len(blocks) = 0 /\ Len(next) <= 1
        /\ AllThere
    BY DEF RedInv, Reduced
  <2>2. Counted(job.many, Len(blocks), Len(next), calls) /\ Len(blocks) \in Nat
    BY <2>1 DEF RedInv, CallsCounted
  <2>3. From(blocks) = {}
    BY <2>1, FromFew
  <2>4. From(next) = 1..job.many /\ 1 \in 1..job.many
    BY <2>1, <2>3 DEF AllThere
  <2>5. Len(next) = 1
    <3>1. From(next) # {}
      BY <2>4
    <3>2. Len(next) # 0
      BY <2>1, <3>1, FromFew
    <3> QED
      BY <2>2, <2>1, <3>2, Counting
  <2>6. From(next) = next[1].from
    BY <2>1, <2>5, FromFew
  <2>7. calls = IF job.many = 1 THEN 1 ELSE job.many - 1
    BY <2>2, <2>1, <2>5, Counting
  <2> QED
    BY <2>4, <2>5, <2>6, <2>7
<1> QED
  BY <1>1, RedInit, RedStep, PTL DEF YSpec
------------------------------------------------------------------------------
(* Sums over one or two blocks.  The recursion in the library's sum has a    *)
(* solution over the subsets of 1..2, and so over those of 1..1 and 1..0.    *)
Chosen(S) == CHOOSE i \in S : TRUE

Sums(f, D, g) ==
  g = [S \in D |-> IF S = {} THEN 0 ELSE f[Chosen(S)] + g[S \ {Chosen(S)}]]

(* What is left when two of at most two have been taken.                     *)
LEMMA TwoTaken ==
  ASSUME NEW S \in SUBSET (1..2), S # {}
  PROVE  /\ Chosen(S) \in S
         /\ S \ {Chosen(S)} # {} =>
              (S \ {Chosen(S)}) \ {Chosen(S \ {Chosen(S)})} = {}
<1>1. ASSUME NEW T, T # {} PROVE Chosen(T) \in T
  BY <1>1 DEF Chosen
<1> DEFINE c == Chosen(S)
           d == Chosen(S \ {c})
<1>2. c \in S
  BY <1>1
<1>3. CASE S \ {c} # {}
  <2> HIDE DEF c
  <2>1. d \in S \ {c}
    BY <1>1, <1>3
  <2> HIDE DEF d
  <2>2. (S \ {c}) \ {d} = {}
    BY <1>2, <2>1
  <2> QED
    BY <1>2, <2>2 DEF c, d
<1> QED
  BY <1>2, <1>3

(* The recursion of the sum has a solution there.                            *)
LEMMA SmallSumExists ==
  ASSUME NEW f, NEW R \in SUBSET (1..2)
  PROVE  \E g : Sums(f, SUBSET R, g)
<1> DEFINE Last(S) == IF S = {} THEN 0 ELSE f[Chosen(S)] + 0
           g == [S \in SUBSET R |-> IF S = {} THEN 0 ELSE f[Chosen(S)] + Last(S \ {Chosen(S)})]
<1>1. \A S \in SUBSET R : S # {} => S \ {Chosen(S)} \in SUBSET R /\ S \in SUBSET (1..2)
  OBVIOUS
<1>2. ASSUME NEW S \in SUBSET R, S # {} PROVE g[S \ {Chosen(S)}] = Last(S \ {Chosen(S)})
  <2> DEFINE T == S \ {Chosen(S)}
  <2>1. T \in SUBSET R /\ (T # {} => T \ {Chosen(T)} = {})
    BY <1>1, <1>2, TwoTaken
  <2> HIDE DEF T
  <2>2. g[T] = Last(T)
    BY <2>1
  <2> QED
    BY <2>2 DEF T
<1>3. g = [S \in SUBSET R |-> IF S = {} THEN 0 ELSE f[Chosen(S)] + g[S \ {Chosen(S)}]]
  <2> HIDE DEF Last
  <2> QED
    BY <1>2
<1> HIDE DEF g
<1> QED
  BY <1>3 DEF Sums

(* The first k of a sequence of lengths, for k up to two.                    *)
LEMMA SmallSums ==
  ASSUME NEW f
  PROVE  /\ SumTo(f, 0) = 0
         /\ f[1] \in Nat => SumTo(f, 1) = f[1]
         /\ f[1] \in Nat /\ f[2] \in Nat => SumTo(f, 2) = f[1] + f[2]
<1> DEFINE G(R) == CHOOSE g : Sums(f, SUBSET R, g)
<1>1. ASSUME NEW R PROVE SumFunctionOnSet(f, R) = G(R)[R]
  BY DEF SumFunctionOnSet, FoldFunctionOnSet, MapThenFoldSet, Sums, Chosen
<1>2. ASSUME NEW R \in SUBSET (1..2)
      PROVE  \A S \in SUBSET R :
               G(R)[S] = IF S = {} THEN 0 ELSE f[Chosen(S)] + G(R)[S \ {Chosen(S)}]
  <2>1. Sums(f, SUBSET R, G(R))
    BY SmallSumExists
  <2> HIDE DEF G
  <2>2. G(R) = [S \in SUBSET R |-> IF S = {} THEN 0 ELSE f[Chosen(S)] + G(R)[S \ {Chosen(S)}]]
    BY <2>1 DEF Sums
  <2> QED
    BY <2>2
<1> HIDE DEF G
<1>3. ASSUME NEW T, T # {} PROVE Chosen(T) \in T
  BY <1>3 DEF Chosen
<1>4. 1..0 = {} /\ 1..1 = {1} /\ 1..2 = {1, 2}
  OBVIOUS
<1>5. SumTo(f, 0) = 0
  BY <1>1, <1>2, <1>4 DEF SumTo
<1>6. ASSUME NEW R \in SUBSET (1..2), NEW i \in 1..2, {i} \subseteq R, f[i] \in Nat
      PROVE  G(R)[{i}] = f[i]
  <2>1. Chosen({i}) = i
    BY <1>3
  <2>2. {i} \in SUBSET R /\ {i} # {} /\ {} \in SUBSET R /\ {i} \ {i} = {}
    BY <1>6
  <2>3. G(R)[{i}] = f[i] + G(R)[{i} \ {i}]
    BY <1>2, <2>1, <2>2
  <2>4. G(R)[{}] = 0
    BY <1>2, <2>2
  <2> QED
    BY <1>6, <2>2, <2>3, <2>4
<1>7. f[1] \in Nat => SumTo(f, 1) = f[1]
  BY <1>1, <1>4, <1>6 DEF SumTo
<1>8. ASSUME f[1] \in Nat, f[2] \in Nat PROVE SumTo(f, 2) = f[1] + f[2]
  <2> DEFINE R == 1..2
             c == Chosen(R)
  <2>1. c \in {1, 2}
    BY <1>3, <1>4
  <2>2. SumTo(f, 2) = f[c] + G(R)[R \ {c}]
    BY <1>1, <1>2, <1>4 DEF SumTo
  <2> HIDE DEF c
  <2>3. CASE c = 1
    <3>1. R \ {c} = {2} /\ G(R)[{2}] = f[2]
      BY <1>4, <1>6, <1>8, <2>3
    <3> QED
      BY <2>2, <2>3, <3>1
  <2>4. CASE c = 2
    <3>1. R \ {c} = {1} /\ G(R)[{1}] = f[1]
      BY <1>4, <1>6, <1>8, <2>4
    <3>2. SumTo(f, 2) = f[2] + f[1]
      BY <2>2, <2>4, <3>1
    <3> QED
      BY <1>8, <3>2
  <2> QED
    BY <2>1, <2>3, <2>4
<1> QED
  BY <1>5, <1>7, <1>8
------------------------------------------------------------------------------
(* A text cut with a note keeps its beginning and exceeds its cap by 46.     *)
LEMMA NoteBounded ==
  ASSUME NEW n \in Nat, NEW max \in Nat, max >= 128
  PROVE  /\ TruncateNote(n, max) \in Nat
         /\ TruncateNote(n, max) <= max + 46
         /\ TruncateNote(n, max) >= Least(n, 60)
BY DEF TruncateNote, Least

(* The cap of a synthesizer is 1024 bytes or more.                           *)
LEMMA CapsAreLarge == ASSUME NEW max \in Caps PROVE max \in Nat /\ max >= 1024
<1>1. PICK o \in Overrides, w \in Windows, t \in {0, 512, 1024} :
        max = EffectiveMaxPromptChars(o, w, t)
  BY DEF Caps
<1>2. o \in Nat /\ w \in Nat /\ t \in Nat
  BY CasesAssumption
<1>3. CASE 256 <= o /\ o <= 262144
  <2>1. max = o * 4
    BY <1>1, <1>3, SMT DEF EffectiveMaxPromptChars
  <2> QED
    BY <1>2, <1>3, <2>1, SMT
<1>4. CASE ~(256 <= o /\ o <= 262144)
  <2> DEFINE reserved == Most(t, 1) + 768
             room     == Clamp(w - reserved, 256, 262144)
  <2>1. reserved \in Nat
    BY <1>2, SMT DEF Most
  <2>2. max = IF w < 512 THEN 1400 * 4 ELSE IF w <= reserved + 64 THEN 256 * 4 ELSE room * 4
    BY <1>1, <1>4, SMT DEF EffectiveMaxPromptChars
  <2> HIDE DEF reserved
  <2>3. w > reserved => room \in Nat /\ room >= 256
    BY <1>2, <2>1, SMT DEF Clamp, Most, Least
  <2> HIDE DEF room
  <2> QED
    BY <1>2, <2>1, <2>2, <2>3, SMT
<1> QED
  BY <1>3, <1>4, SMT

(* A share of the room is no more than the room.                             *)
LEMMA ShareBounded ==
  ASSUME NEW room \in Nat, NEW part \in Nat, NEW total \in Nat, part <= total, total > 0
  PROVE  (room * part) \div total \in Nat /\ (room * part) \div total <= room
<1>1. room * part \in Nat /\ room * total \in Nat /\ room * part <= room * total
  OBVIOUS
<1> DEFINE q == (room * part) \div total
<1>2. q \in Nat /\ q * total <= room * part
  OBVIOUS
<1>3. CASE q > room
  <2>1. q >= room + 1
    BY <1>2, <1>3
  <2> HIDE DEF q
  <2>2. q * total >= (room + 1) * total
    BY <1>2, <2>1
  <2>3. (room + 1) * total = room * total + total
    OBVIOUS
  <2> QED
    BY <1>1, <1>2, <2>2, <2>3
<1> QED
  BY <1>2, <1>3

(* The lengths of n bodies.                                                  *)
LengthsOf(n, bodies) == Len(bodies) = n /\ \A i \in 1..n : bodies[i] \in Nat

(* Every contribution is allowed 128 bytes, and the first no more than that  *)
(* or the room there is for both.                                            *)
LEMMA AllocBounded ==
  ASSUME NEW n \in 1..2, NEW bodies, NEW room \in Nat,
         LengthsOf(n, bodies), Total(bodies) > 0
  PROVE  /\ \A i \in 1..n : Alloc(bodies, room)[i] \in Nat /\ Alloc(bodies, room)[i] >= 128
         /\ Alloc(bodies, room)[1] <= Most(128, room)
<1> DEFINE share == Shares(bodies, room)
           needs == Needs(bodies, room)
           slack == Slack(bodies, room)
           total == Total(bodies)
<1>1. n = 1 \/ n = 2
  OBVIOUS
<1>0. Len(bodies) = n /\ \A i \in 1..n : bodies[i] \in Nat
  BY DEF LengthsOf
<1>2. total \in Nat /\ \A i \in 1..n : bodies[i] <= total
  BY <1>0, <1>1, SmallSums DEF Total
<1>3. \A i \in 1..n : share[i] = Most(128, (room * bodies[i]) \div total)
  BY <1>0 DEF Shares
<1>4. ASSUME NEW i \in 1..n
      PROVE  share[i] \in Nat /\ share[i] >= 128 /\ share[i] <= Most(128, room)
  <2> DEFINE q == (room * bodies[i]) \div total
  <2> HIDE DEF total
  <2>1. q \in Nat /\ q <= room
    BY <1>0, <1>2, ShareBounded DEF total
  <2>2. share[i] = Most(128, q)
    BY <1>3
  <2> HIDE DEF q, share
  <2> QED
    BY <2>1, <2>2 DEF Most
<1>5. \A i \in 1..n : needs[i] = Minus(bodies[i], share[i])
  BY <1>0 DEF Needs
<1> DEFINE used == [i \in 1..n |-> Least(bodies[i], share[i])]
<1>6. slack = Minus(room, Total(used))
  BY <1>0 DEF Slack
<1>7. \A i \in 1..n : Alloc(bodies, room)[i] = share[i] + Least(needs[i], Minus(slack, SumTo(needs, i - 1)))
  BY <1>0 DEF Alloc
<1> HIDE DEF share, needs, slack, total
<1>8. \A i \in 1..n : needs[i] \in Nat
  BY <1>0, <1>4, <1>5 DEF Minus
<1>9. \A i \in 1..n : used[i] \in Nat /\ used[i] = Least(bodies[i], share[i])
  BY <1>0, <1>4 DEF Least
<1>10. Len(used) = n
  OBVIOUS
<1> HIDE DEF used
<1>11. Total(used) \in Nat /\ Total(used) >= used[1]
  BY <1>1, <1>9, <1>10, SmallSums DEF Total
<1>12. slack \in Nat /\ slack <= Minus(room, used[1])
  BY <1>6, <1>9, <1>11 DEF Minus
<1>13. ASSUME NEW i \in 1..n PROVE SumTo(needs, i - 1) \in Nat
  <2>1. CASE i = 1
    BY <2>1, SmallSums
  <2>2. CASE i = 2
    <3>1. needs[1] \in Nat
      BY <1>8, <2>2
    <3> QED
      BY <2>2, <3>1, SmallSums
  <2> QED
    BY <1>1, <2>1, <2>2
<1>14. ASSUME NEW i \in 1..n PROVE Alloc(bodies, room)[i] \in Nat /\ Alloc(bodies, room)[i] >= 128
  <2> DEFINE rest == SumTo(needs, i - 1)
  <2>1. rest \in Nat /\ Alloc(bodies, room)[i] = share[i] + Least(needs[i], Minus(slack, rest))
    BY <1>7, <1>13
  <2> HIDE DEF rest
  <2>2. Least(needs[i], Minus(slack, rest)) \in Nat
    BY <1>8, <1>12, <2>1 DEF Least, Minus
  <2> QED
    BY <1>4, <2>1, <2>2
<1>15. Alloc(bodies, room)[1] <= Most(128, room)
  <2>1. /\ SumTo(needs, 0) = 0 /\ 1 \in 1..n /\ 1 - 1 = 0
    BY SmallSums
  <2>2. Alloc(bodies, room)[1] = share[1] + Least(needs[1], Minus(slack, 0))
    BY <1>7, <2>1
  <2>3. CASE needs[1] = 0
    <3>1. Least(needs[1], Minus(slack, 0)) = 0
      BY <1>12, <2>3 DEF Least, Minus
    <3> QED
      BY <1>4, <2>1, <2>2, <3>1
  <2>4. CASE needs[1] # 0
    <3>1. used[1] = share[1]
      BY <1>0, <1>4, <1>5, <1>9, <2>1, <2>4 DEF Minus, Least
    <3>2. slack <= Minus(room, share[1])
      BY <1>12, <3>1
    <3>3. Least(needs[1], Minus(slack, 0)) <= slack /\ Least(needs[1], Minus(slack, 0)) \in Nat
      BY <1>8, <1>12, <2>1 DEF Least, Minus
    <3> QED
      BY <1>4, <1>12, <2>1, <2>2, <3>2, <3>3 DEF Most, Minus
  <2> QED
    BY <2>3, <2>4
<1> QED
  BY <1>14, <1>15

(* The lengths of a prompt with n blocks whose names have up to 100 bytes.   *)
PromptOf(n, prefix, headers, bodies, footer, max) ==
  /\ n \in 1..2 /\ LengthsOf(n, bodies)
  /\ prefix \in Nat
  /\ LengthsOf(n, headers) /\ \A i \in 1..n : headers[i] <= 123
  /\ footer \in Nat /\ footer >= 218
  /\ max \in Nat /\ max >= 1024

(* The lengths of a prompt whose bodies keep their first 60 bytes, and which  *)
(* fits its cap or has those bytes of the last body within it.                *)
StartsEarly(a, n, headers, bodies, footer, max) ==
  /\ a.prefix \in Nat
  /\ Len(a.bodies) = n
  /\ \A i \in 1..n : a.bodies[i] \in Nat /\ a.bodies[i] >= Least(bodies[i], 60)
  /\ \/ a.prefix + Total(headers) + Total(a.bodies) + footer <= max
     \/ a.prefix + Total(headers) + (IF n = 2 THEN a.bodies[1] ELSE 0) + 61 <= max

(* What stands before the last body leaves room for its first 60 bytes, when *)
(* the prompt has to be cut: names of agents up to 100 bytes do not fill it.  *)
LEMMA BodiesStart ==
  ASSUME NEW n, NEW prefix, NEW headers, NEW bodies, NEW footer, NEW max, NEW a,
         PromptOf(n, prefix, headers, bodies, footer, max),
         a = Assembled(prefix, headers, bodies, footer, max)
  PROVE  StartsEarly(a, n, headers, bodies, footer, max)
<1> DEFINE over == prefix + Total(headers) + footer
           all  == Total(bodies)
           room == max - over
           alloc == Alloc(bodies, room)
<1>0. Len(bodies) = n /\ \A i \in 1..n : bodies[i] \in Nat
  BY DEF PromptOf, LengthsOf
<1>a. /\ n \in 1..2 /\ LengthsOf(n, bodies) /\ prefix \in Nat
      /\ LengthsOf(n, headers) /\ \A i \in 1..n : headers[i] <= 123
      /\ footer \in Nat /\ footer >= 218 /\ max \in Nat /\ max >= 1024
  BY DEF PromptOf
<1> USE <1>a
<1>1. n = 1 \/ n = 2
  OBVIOUS
<1>2. Total(headers) \in Nat /\ Total(headers) <= 246
  <2>1. Len(headers) = n /\ \A i \in 1..n : headers[i] \in Nat /\ headers[i] <= 123
    BY DEF LengthsOf
  <2>2. CASE n = 1
    <3>1. headers[1] \in Nat /\ headers[1] <= 123
      BY <2>1, <2>2
    <3> QED
      BY <2>1, <2>2, <3>1, SmallSums DEF Total
  <2>3. CASE n = 2
    <3>1. headers[1] \in Nat /\ headers[2] \in Nat /\ headers[1] <= 123 /\ headers[2] <= 123
      BY <2>1, <2>3
    <3>2. Total(headers) = headers[1] + headers[2]
      BY <2>1, <2>3, <3>1, SmallSums DEF Total
    <3> QED
      BY <3>1, <3>2
  <2> QED
    BY <1>1, <2>2, <2>3
<1>3. all \in Nat /\ over \in Nat
  <2>1. all \in Nat
    BY <1>0, <1>1, SmallSums DEF Total
  <2> QED
    BY <1>2, <2>1
<1>4. CASE max <= over + 16
  <2>1. a = [prefix |-> TruncateNote(prefix, max \div 3),
             bodies |-> [i \in 1..n |-> TruncateNote(bodies[i], 256)]]
    BY <1>0, <1>4 DEF Assembled
  <2> DEFINE third == max \div 3
             bs    == [i \in 1..n |-> TruncateNote(bodies[i], 256)]
  <2>2. third \in Nat /\ third >= 341 /\ third >= 128 /\ 3 * third <= max
    OBVIOUS
  <2>3. Len(bs) = n /\ \A i \in 1..n : bs[i] = TruncateNote(bodies[i], 256)
    OBVIOUS
  <2> HIDE DEF third, bs
  <2>4. a.prefix = TruncateNote(prefix, third) /\ a.bodies = bs
    BY <2>1 DEF third, bs
  <2>5. a.prefix \in Nat /\ a.prefix <= third + 46
    BY <2>2, <2>4, NoteBounded
  <2>6. ASSUME NEW i \in 1..n
        PROVE  /\ a.bodies[i] \in Nat /\ a.bodies[i] <= 302
               /\ a.bodies[i] >= Least(bodies[i], 60)
    <3> DEFINE b   == bodies[i]
               cap == 256
    <3>1. b \in Nat /\ cap \in Nat /\ cap >= 128 /\ a.bodies[i] = TruncateNote(b, cap)
      BY <1>0, <2>3, <2>4
    <3> HIDE DEF b, cap
    <3>2. /\ TruncateNote(b, cap) \in Nat /\ TruncateNote(b, cap) <= cap + 46
          /\ TruncateNote(b, cap) >= Least(b, 60)
      BY <3>1, NoteBounded
    <3> QED
      BY <3>1, <3>2 DEF b, cap
  <2>7. a.prefix + Total(headers) + (IF n = 2 THEN a.bodies[1] ELSE 0) + 61 <= max
    <3>1. Total(headers) \in Nat /\ Total(headers) <= 246
      BY <1>2
    <3>2. (IF n = 2 THEN a.bodies[1] ELSE 0) \in Nat /\ (IF n = 2 THEN a.bodies[1] ELSE 0) <= 302
      BY <1>1, <2>6
    <3> DEFINE hs   == Total(headers)
               body == IF n = 2 THEN a.bodies[1] ELSE 0
    <3> HIDE DEF hs, body
    <3>3. hs \in Nat /\ hs <= 246 /\ body \in Nat /\ body <= 302
      BY <3>1, <3>2 DEF hs, body
    <3>4. a.prefix + hs + body + 61 <= max
      BY <2>2, <2>5, <3>3
    <3> QED
      BY <3>4 DEF hs, body
  <2> QED
    BY <2>3, <2>4, <2>5, <2>6, <2>7 DEF StartsEarly
<1>5. CASE ~(max <= over + 16) /\ over + all <= max
  <2>1. a = [prefix |-> prefix, bodies |-> bodies]
    BY <1>5 DEF Assembled
  <2>2. \A i \in 1..n : bodies[i] >= Least(bodies[i], 60)
    BY <1>0 DEF Least
  <2>3. prefix + Total(headers) + all + footer <= max
    BY <1>2, <1>3, <1>5
  <2> QED
    BY <1>0, <2>1, <2>2, <2>3 DEF StartsEarly
<1>6. CASE ~(max <= over + 16) /\ ~(over + all <= max)
  <2>1. a = [prefix |-> prefix,
             bodies |-> [i \in 1..n |-> TruncateNote(bodies[i], alloc[i])]]
    BY <1>0, <1>6 DEF Assembled
  <2>2. room \in Nat /\ room >= 17 /\ all > 0 /\ prefix + Total(headers) + footer + room = max
    BY <1>2, <1>3, <1>6
  <2> HIDE DEF over
  <2>3. /\ \A i \in 1..n : alloc[i] \in Nat /\ alloc[i] >= 128
        /\ alloc[1] <= Most(128, room)
    <3> HIDE DEF room
    <3> QED
      BY <2>2, AllocBounded
  <2> HIDE DEF room, alloc, all
  <2>4. Len(a.bodies) = n /\ \A i \in 1..n : a.bodies[i] = TruncateNote(bodies[i], alloc[i])
    BY <2>1
  <2>5. ASSUME NEW i \in 1..n
        PROVE  /\ a.bodies[i] \in Nat /\ a.bodies[i] <= alloc[i] + 46
               /\ a.bodies[i] >= Least(bodies[i], 60)
    <3> DEFINE b == bodies[i]
               c == alloc[i]
    <3>1. b \in Nat /\ c \in Nat /\ c >= 128 /\ a.bodies[i] = TruncateNote(b, c)
      BY <1>0, <2>3, <2>4
    <3> HIDE DEF b, c
    <3>2. /\ TruncateNote(b, c) \in Nat /\ TruncateNote(b, c) <= c + 46
          /\ TruncateNote(b, c) >= Least(b, 60)
      BY <3>1, NoteBounded
    <3> QED
      BY <3>1, <3>2 DEF b, c
  <2>6. a.prefix = prefix
    BY <2>1
  <2>7. prefix + Total(headers) + (IF n = 2 THEN a.bodies[1] ELSE 0) + 61 <= max
    <3>1. Total(headers) \in Nat
      BY <1>2
    <3> DEFINE hs == Total(headers)
    <3> HIDE DEF hs
    <3>2. hs \in Nat /\ prefix + hs + footer + room = max
      BY <2>2, <3>1 DEF hs
    <3>3. a.bodies[1] \in Nat /\ a.bodies[1] <= Most(128, room) + 46
      <4>1. 1 \in 1..n
        BY <1>1
      <4>2. a.bodies[1] \in Nat /\ a.bodies[1] <= alloc[1] + 46 /\ alloc[1] \in Nat
        BY <2>3, <2>5, <4>1
      <4>3. Most(128, room) \in Nat
        BY <2>2 DEF Most
      <4> QED
        BY <2>3, <4>2, <4>3
    <3>4. prefix + hs + (IF n = 2 THEN a.bodies[1] ELSE 0) + 61 <= max
      BY <2>2, <3>2, <3>3 DEF Most
    <3> QED
      BY <3>4 DEF hs
  <2> QED
    BY <2>4, <2>5, <2>6, <2>7 DEF StartsEarly
<1> QED
  BY <1>4, <1>5, <1>6

(* A merge of one or two blocks shows the beginning of each.                 *)
LEMMA BothAreShown ==
  ASSUME NEW n, NEW prefix, NEW headers, NEW bodies, NEW footer, NEW max,
         PromptOf(n, prefix, headers, bodies, footer, max)
  PROVE  /\ AssembleFit(prefix, headers, bodies, footer, max) <= max + 46
         /\ \A i \in 1..n : Visible(i, prefix, headers, bodies, footer, max) >= Least(bodies[i], 60)
<1> DEFINE a == Assembled(prefix, headers, bodies, footer, max)
           joined == Joined(prefix, headers, bodies, footer, max)
<1>a. /\ n \in 1..2 /\ LengthsOf(n, bodies) /\ prefix \in Nat
      /\ LengthsOf(n, headers) /\ \A i \in 1..n : headers[i] <= 123
      /\ footer \in Nat /\ footer >= 218 /\ max \in Nat /\ max >= 1024
  BY DEF PromptOf
<1> USE <1>a
<1>1. /\ a.prefix \in Nat
      /\ Len(a.bodies) = n
      /\ \A i \in 1..n : a.bodies[i] \in Nat /\ a.bodies[i] >= Least(bodies[i], 60)
      /\ \/ a.prefix + Total(headers) + Total(a.bodies) + footer <= max
         \/ a.prefix + Total(headers) + (IF n = 2 THEN a.bodies[1] ELSE 0) + 61 <= max
  <2>1. a = Assembled(prefix, headers, bodies, footer, max)
    OBVIOUS
  <2> HIDE DEF a
  <2>2. StartsEarly(a, n, headers, bodies, footer, max)
    BY <2>1, BodiesStart
  <2> QED
    BY <2>2 DEF StartsEarly
<1>2. joined = a.prefix + Total(headers) + Total(a.bodies) + footer
  BY DEF Joined
<1>3. \A i \in 1..n : Visible(i, prefix, headers, bodies, footer, max) =
        LET start == a.prefix + SumTo(headers, i) + SumTo(a.bodies, i - 1)
            end   == IF joined <= max THEN start + a.bodies[i] ELSE Least(start + a.bodies[i], max - 1)
        IN  Minus(end, start)
  BY DEF Visible
<1>4. AssembleFit(prefix, headers, bodies, footer, max) = TruncateNote(joined, max)
  BY DEF AssembleFit
<1> HIDE DEF a, joined
<1>5. n = 1 \/ n = 2
  OBVIOUS
<1>6. Len(headers) = n /\ \A i \in 1..n : headers[i] \in Nat
  BY DEF LengthsOf
<1>7. Total(headers) \in Nat /\ Total(a.bodies) \in Nat
  <2>1. CASE n = 1
    <3>1. headers[1] \in Nat /\ a.bodies[1] \in Nat
      BY <1>1, <1>6, <2>1
    <3> QED
      BY <1>1, <1>6, <2>1, <3>1, SmallSums DEF Total
  <2>2. CASE n = 2
    <3>1. headers[1] \in Nat /\ a.bodies[1] \in Nat /\ headers[2] \in Nat /\ a.bodies[2] \in Nat
      BY <1>1, <1>6, <2>2
    <3> QED
      BY <1>1, <1>6, <2>2, <3>1, SmallSums DEF Total
  <2> QED
    BY <1>5, <2>1, <2>2
<1>8. joined \in Nat
  BY <1>1, <1>2, <1>7
<1>9. AssembleFit(prefix, headers, bodies, footer, max) <= max + 46
  <2>1. TruncateNote(joined, max) <= max + 46
    BY <1>8, NoteBounded
  <2> QED
    BY <1>4, <2>1
<1>10. ASSUME NEW i \in 1..n
       PROVE  Visible(i, prefix, headers, bodies, footer, max) >= Least(bodies[i], 60)
  <2> DEFINE start == a.prefix + SumTo(headers, i) + SumTo(a.bodies, i - 1)
             end   == IF joined <= max THEN start + a.bodies[i]
                      ELSE Least(start + a.bodies[i], max - 1)
             least == Least(bodies[i], 60)
  <2>1. Visible(i, prefix, headers, bodies, footer, max) = Minus(end, start)
    BY <1>3
  <2>2. least \in Nat /\ least <= 60
    BY DEF LengthsOf, Least
  <2>3. a.bodies[i] \in Nat /\ a.bodies[i] >= least
    BY <1>1
  <2>4. SumTo(headers, i) \in Nat /\ SumTo(headers, i) <= Total(headers)
    <3>1. CASE n = i
      BY <1>6, <1>7, <3>1 DEF Total
    <3>2. CASE n = 2 /\ i = 1
      <4>1. headers[1] \in Nat /\ headers[2] \in Nat
        BY <1>6, <3>2
      <4>2. Total(headers) = headers[1] + headers[2] /\ SumTo(headers, 1) = headers[1]
        BY <1>6, <3>2, <4>1, SmallSums DEF Total
      <4> QED
        BY <3>2, <4>1, <4>2
    <3> QED
      BY <1>5, <3>1, <3>2
  <2>5. /\ SumTo(a.bodies, i - 1) \in Nat
        /\ SumTo(a.bodies, i - 1) <= IF n = 2 THEN a.bodies[1] ELSE 0
    <3>1. CASE i = 1
      <4>1. SumTo(a.bodies, 0) = 0 /\ i - 1 = 0
        BY <3>1, SmallSums
      <4> QED
        BY <1>1, <1>5, <4>1
    <3>2. CASE i = 2
      <4>1. n = 2 /\ a.bodies[1] \in Nat /\ i - 1 = 1
        BY <1>1, <1>5, <3>2
      <4>2. SumTo(a.bodies, 1) = a.bodies[1]
        BY <4>1, SmallSums
      <4> QED
        BY <4>1, <4>2
    <3> QED
      BY <1>5, <3>1, <3>2
  <2>6. start \in Nat
    BY <1>1, <2>4, <2>5
  <2>7. joined <= max \/ start + 61 <= max
    <3> DEFINE hs == Total(headers)
               first == IF n = 2 THEN a.bodies[1] ELSE 0
    <3>1. hs \in Nat /\ first \in Nat
      BY <1>1, <1>5, <1>7
    <3>2. joined <= max \/ a.prefix + hs + first + 61 <= max
      BY <1>1, <1>2
    <3>3. SumTo(headers, i) <= hs /\ SumTo(a.bodies, i - 1) <= first
      BY <2>4, <2>5
    <3> DEFINE p == a.prefix
               x == SumTo(headers, i)
               y == SumTo(a.bodies, i - 1)
    <3>4. p \in Nat /\ x \in Nat /\ y \in Nat
      BY <1>1, <2>4, <2>5
    <3> HIDE DEF hs, first, p, x, y
    <3>5. joined <= max \/ p + hs + first + 61 <= max
      BY <3>2 DEF p
    <3>6. x <= hs /\ y <= first
      BY <3>3 DEF x, y
    <3>7. joined <= max \/ p + x + y + 61 <= max
      BY <3>1, <3>4, <3>5, <3>6
    <3> QED
      BY <3>7 DEF p, x, y
  <2> HIDE DEF start, least
  <2>8. Minus(end, start) >= least
    <3>1. CASE joined <= max
      BY <2>2, <2>3, <2>6, <3>1 DEF Minus
    <3>2. CASE ~(joined <= max)
      BY <2>2, <2>3, <2>6, <2>7, <3>2 DEF Minus, Least
    <3> QED
      BY <3>1, <3>2
  <2> QED
    BY <2>1, <2>8 DEF least
<1> QED
  BY <1>9, <1>10

(* A merge prompt exceeds the cap by less than a marker, and its cut falls   *)
(* behind the beginning of both contributions, for any request, any lengths  *)
(* and any cap that EffectiveMaxPromptChars computes.  The hypothesis is on  *)
(* the names of agents, which come in full before each contribution.         *)
THEOREM MergesShowBoth ==
  ASSUME \A l \in Labels : l <= 100
  PROVE  YSpec => []MergeShowsBoth
<1>1. YInit => job \in Jobs
  BY DEF YInit
<1>2. job \in Jobs /\ [YNext]_yvars => (job \in Jobs)'
  BY DEF YNext, CallSingle, CallPair, CarryOver, NextRound, yvars
<1>3. RedInv /\ job \in Jobs => MergeShowsBoth
  <2> SUFFICES ASSUME RedInv, job \in Jobs, blocks # <<>>
               PROVE  /\ PromptLen <= job.max + 46
                      /\ \A i \in 1..Len(Pair) : Shows(i) >= Least(Pair[i].len, 60)
    BY DEF MergeShowsBoth
  <2> DEFINE n == Len(Pair)
             headers == Headers(Pair)
             footer == Footer[job.kind]
             bodies == Lengths(Pair)
  <2>1. blocks \in Seq(Block) /\ Len(blocks) \in Nat /\ Len(blocks) # 0
    BY EmptySeq DEF RedInv
  <2>2. Pair \in Seq(Block) /\ n \in 1..2
    <3> DEFINE k == Least(2, Len(blocks))
    <3>1. k \in 0..Len(blocks) /\ k \in 1..2
      <4> DEFINE m == Len(blocks)
      <4>1. m \in Nat /\ m # 0
        BY <2>1
      <4> HIDE DEF m
      <4>2. Least(2, m) \in 0..m /\ Least(2, m) \in 1..2
        BY <4>1 DEF Least
      <4> QED
        BY <4>2 DEF m
    <3> HIDE DEF k
    <3>2. SubSeq(blocks, 1, k) \in Seq(Block) /\ Len(SubSeq(blocks, 1, k)) = k
      BY <2>1, <3>1, FromSplit
    <3> QED
      BY <3>1, <3>2 DEF Pair, k
  <2>3. \A i \in 1..n : Pair[i].len \in Nat /\ Pair[i].label \in Nat /\ Pair[i].label <= 100
    <3>1. \A i \in 1..n : Pair[i] \in Block
      BY <2>2, ElementOfSeq
    <3>2. \A b \in Block : b.len \in Nat /\ b.label \in Labels \union 10..28
      BY DEF Block, Name
    <3>3. \A l \in Labels \union 10..28 : l \in Nat /\ l <= 100
      BY CasesAssumption
    <3> QED
      BY <3>1, <3>2, <3>3
  <2>4. Len(bodies) = n /\ \A i \in 1..n : bodies[i] = Pair[i].len
    BY <2>2 DEF Lengths
  <2>5. LengthsOf(n, bodies)
    BY <2>3, <2>4 DEF LengthsOf
  <2>6. job.kind \in {"pipeline", "cascade"} /\ job.user \in Nat
    BY CasesAssumption DEF Jobs, Kind
  <2>7. job.max \in Nat /\ job.max >= 1024
    BY CapsAreLarge DEF Jobs
  <2> DEFINE text == HeaderText[job.kind]
  <2>8. Prefix \in Nat /\ text \in Nat /\ text <= 23 /\ footer \in Nat /\ footer >= 218
    <3>1. CASE job.kind = "pipeline"
      <4>1. Intro[job.kind] = 79 /\ HeaderText[job.kind] = 20 /\ Footer[job.kind] = 218
        BY <3>1 DEF Intro, HeaderText, Footer
      <4> QED
        BY <2>6, <4>1 DEF Prefix
    <3>2. CASE job.kind = "cascade"
      <4>1. Intro[job.kind] = 77 /\ HeaderText[job.kind] = 23 /\ Footer[job.kind] = 222
        BY <3>2 DEF Intro, HeaderText, Footer
      <4> QED
        BY <2>6, <4>1 DEF Prefix
    <3> QED
      BY <2>6, <3>1, <3>2
  <2>9. LengthsOf(n, headers) /\ \A i \in 1..n : headers[i] <= 123
    <3>1. Len(headers) = n /\ \A i \in 1..n : headers[i] = text + Pair[i].label
      BY <2>2 DEF Headers
    <3> DEFINE lens == [i \in 1..n |-> Pair[i].label]
    <3>2. \A i \in 1..n : lens[i] \in Nat /\ lens[i] <= 100 /\ headers[i] = text + lens[i]
      BY <2>3, <3>1
    <3> HIDE DEF headers, text, n, lens
    <3>3. \A i \in 1..n : headers[i] \in Nat /\ headers[i] <= 123
      BY <2>8, <3>2
    <3> QED
      BY <3>1, <3>3 DEF LengthsOf
  <2> HIDE DEF n, headers, footer, bodies, text
  <2>a. PromptOf(n, Prefix, headers, bodies, footer, job.max)
    BY <2>2, <2>5, <2>7, <2>8, <2>9 DEF PromptOf
  <2>10. /\ AssembleFit(Prefix, headers, bodies, footer, job.max) <= job.max + 46
         /\ \A i \in 1..n : Visible(i, Prefix, headers, bodies, footer, job.max) >= Least(bodies[i], 60)
    BY <2>a, BothAreShown
  <2> QED
    BY <2>4, <2>10 DEF PromptLen, Shows, n, headers, footer, bodies
<1> QED
  BY <1>1, <1>2, <1>3, RedInit, RedStep, PTL DEF YSpec
===============================================================================
