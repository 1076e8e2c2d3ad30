---------------------------- MODULE Continuation ----------------------------
(***************************************************************************)
(* The working memory of one conversation: how session/context.go builds   *)
(* the prompt of a follow-up from the runs of a session, how its parts are *)
(* cut to their budgets, and how AppendRun compacts the runs into the      *)
(* rolling summary (summarize.go, compaction.go).  Texts are lengths, as   *)
(* in TextLengths.  Requests of one session follow each other here;        *)
(* SessionStore and Dispatch have them overlap.                            *)
(***************************************************************************)
EXTENDS TextLengths, Integers, Functions

CONSTANTS
  Prompts,    \* lengths of what users ask
  Replies,    \* lengths of what a mode and those of its agents that have an entry answer
  Breaks,     \* where the third line of an agent's answer may end
  Digests,    \* lengths of a run's digest before it is cut
  Policies,   \* context policies of follow-ups
  Summaries,  \* lengths of the summary a loaded session may have
  MaxTurns    \* bound on the turns of the conversation

Section == {"summary", "original", "final", "target"}
Agent   == {"programmer", "summarizer"}

ASSUME LengthsAssumption ==
  /\ Prompts \subseteq Nat \ {0}
  /\ \A reply \in Replies : /\ reply.final \in Nat
                           /\ DOMAIN reply.agents \subseteq Agent
                           /\ reply.agents \in [DOMAIN reply.agents -> Nat]
  /\ Breaks \subseteq Nat \ {0} /\ Digests \subseteq Nat \ {0} /\ Summaries \subseteq 0..6034
ASSUME PoliciesAssumption ==
  Policies \subseteq [tokens : Int, chars : Int, include : SUBSET Section, target : Agent]
ASSUME TurnsAssumption == MaxTurns \in Nat

VARIABLES
  turn,     \* turns so far
  runs,     \* the runs of the session
  summary,  \* the length of its rolling summary
  cont      \* the prompt the request under way runs on, or Idle

cvars == <<turn, runs, summary, cont>>

Idle == [state |-> "idle"]

SessionBudget == 32000  \* defaultSessionBudgetChars
SummaryMax    == 6000   \* summaryMaxChars
SummaryMark   == 34     \* "[...earlier summary compacted...]\n"
------------------------------------------------------------------------------
Title    == [summary |-> 29, original |-> 27, final |-> 27, target |-> 32, notes |-> 32,
             followup |-> 20]
Preamble == 175
Closing  == 88

\* resolveCharBudget: a token budget goes before a budget of characters, and neither is
\* looked at for its sign.
CharsForTokens(tokens) == tokens * 4
MaxChars(policy) == IF policy.tokens > 0 THEN CharsForTokens(policy.tokens) ELSE policy.chars

Limit(s, max) == CASE s = "summary"  -> max \div 3
                   [] s = "original" -> max \div 5
                   [] s = "final"    -> max \div 4
                   [] s = "target"   -> max \div 2

\* The agents of a run that is still as the stream fallback stored it (a map[string]string)
\* are not seen until the document has been through the file.
Has(run, a)      == run.decoded /\ a \in DOMAIN run.agents
AgentLen(run, a) == IF Has(run, a) THEN run.agents[a] ELSE 0

Latest == runs[Len(runs)]

Body(s, policy) == CASE s = "summary"  -> summary
                     [] s = "original" -> runs[1].prompt
                     [] s = "final"    -> Latest.final
                     [] s = "target"   -> AgentLen(Latest, policy.target)

\* A section as appendSection writes it; an empty one is left out.
Shown(s, policy) == IF s \in policy.include THEN TrimBlock(Body(s, policy), Limit(s, MaxChars(policy)))
                    ELSE 0
Written(s, n)    == IF n = 0 THEN 0 ELSE Title[s] + n

\* One note: "- " name ": " lines "\n", also when the agent's text is empty.
NoteOf(policy)      == CHOOSE a \in Agent : a # policy.target
Note(policy, text)  == IF Has(Latest, NoteOf(policy)) THEN 15 + text ELSE 0
Notes(policy, brk)  == Note(policy, FirstLines(AgentLen(Latest, NoteOf(policy)), brk))

FinalStart(policy) == Preamble + Written("summary", Shown("summary", policy))
                      + Written("original", Shown("original", policy)) + Title.final

Whole(policy, brk, followup) ==
  FinalStart(policy) - Title.final
  + Written("final", Shown("final", policy)) + Written("target", Shown("target", policy))
  + Written("notes", Notes(policy, brk)) + Written("followup", followup) + Closing

\* Mutant: the follow-up comes on top of the budget.
BuiltOnTop(whole, max, followup) ==
  IF whole <= max THEN whole
  ELSE TrimBlock(whole, max) + Title.followup + TrimBlock(followup, Least(max \div 4, followup))

\* Mutant: half of the budget, as the target's answer gets.
FollowupHalf(max, followup) == Least(max \div 2, followup)

FollowupBudget(max, followup) == Least(max \div 4, followup)

\* The whole, cut to leave room for the follow-up, which is repeated after it.
Built(whole, max, followup) ==
  LET fb == FollowupBudget(max, followup)
  IN  IF whole <= max THEN whole
      ELSE TrimBlock(whole, max - fb) + Title.followup + TrimBlock(followup, fb)

\* Mutant: a prompt cut as a whole is not reported.
UsedBySection(policy, followup, whole) ==
  \/ \E s \in policy.include : Body(s, policy) > Limit(s, MaxChars(policy))
  \/ AgentLen(Latest, NoteOf(policy)) > 900

\* Compaction["used"]: something was cut for its length.
Used(policy, followup, whole) ==
  \/ \E s \in policy.include : Body(s, policy) > Limit(s, MaxChars(policy))
  \/ AgentLen(Latest, NoteOf(policy)) > 900
  \/ whole > MaxChars(policy)
------------------------------------------------------------------------------
Init == /\ turn = 0
        /\ runs = <<>>
        /\ summary \in Summaries
        /\ cont = Idle

\* A first turn, one that is no follow-up, or one of an unknown session runs on its prompt.
Ask(prompt) == /\ cont = Idle
               /\ turn < MaxTurns
               /\ turn' = turn + 1
               /\ cont' = [state |-> "plain", prompt |-> prompt, built |-> prompt]
               /\ UNCHANGED <<runs, summary>>

\* BuildContinuation.
FollowUp(prompt, policy, brk) ==
  LET whole == Whole(policy, brk, prompt)
  IN  /\ cont = Idle
      /\ runs # <<>>
      /\ MaxChars(policy) >= 0
      /\ turn < MaxTurns
      /\ turn' = turn + 1
      /\ cont' = [state |-> "followup", prompt |-> prompt, policy |-> policy, brk |-> brk,
                  whole |-> whole, built |-> Built(whole, MaxChars(policy), prompt),
                  used |-> Used(policy, prompt, whole)]
      /\ UNCHANGED <<runs, summary>>

\* A cut to a negative budget is out of range in trimBlock, at the latest the cut of the
\* whole: net/http recovers the panic, and nothing is stored.
FollowUpPanics(policy) ==
  /\ cont = Idle
  /\ runs # <<>>
  /\ MaxChars(policy) < 0
  /\ turn < MaxTurns
  /\ turn' = turn + 1
  /\ UNCHANGED <<runs, summary, cont>>

\* runChars, of a set of runs.
Chars(rs, I) ==
  SumFunctionOnSet([i \in 1..Len(rs) |->
    rs[i].prompt + rs[i].final + SumFunction([a \in Agent |-> AgentLen(rs[i], a)])], I)

\* RunsToDrop, for scores that put the runs in any order: dropping goes on while the rest
\* is over the budget, and spares the latest run.
Evictions(rs) ==
  LET Fits(D) == Chars(rs, 1..Len(rs) \ D) <= SessionBudget
      older   == 1..(Len(rs) - 1)
  IN  {D \in SUBSET older : /\ (D = {} \/ \E i \in D : ~Fits(D \ {i}))
                           /\ (D = older \/ Fits(D))}

\* The runs that stay, in their order: the increasing enumerations of their places.
Enumerations(I) ==
  {f \in [1..Cardinality(I) -> I] : \A j, k \in 1..Cardinality(I) : j < k => f[j] < f[k]}

\* Mutant: the whole summary is kept.
FoldWhole(old, n, digest) == IF n = 0 THEN old
                             ELSE IF old = 0 THEN n * (digest + 1) - 1 ELSE old + n * (digest + 1)

\* foldSummary: the old summary and n digests, a line each; the end of it is kept.
Fold(old, n, digest) ==
  LET lines == IF old = 0 THEN n * (digest + 1) - 1 ELSE old + n * (digest + 1)
  IN  IF n = 0 THEN old
      ELSE IF lines <= SummaryMax THEN lines ELSE SummaryMark + SummaryMax

AppendRun(run) ==
  LET rs == Append(runs, run)
  IN  \E D \in Evictions(rs), raw \in Digests :
        /\ \E kept \in Enumerations(1..Len(rs) \ D) :
             runs' = [k \in 1..Cardinality(1..Len(rs) \ D) |-> rs[kept[k]]]
        /\ summary' = Fold(summary, Cardinality(D), TrimBlock(raw, 600))
        /\ cont'    = Idle
        /\ UNCHANGED turn

NoAgents == [a \in {} |-> 0]

\* /api/architect: the envelope's agents, and its final text or else the prompt it ran on.
Answered(reply) ==
  /\ cont # Idle
  /\ AppendRun([prompt |-> cont.prompt,
                final |-> IF reply.final = 0 THEN cont.built ELSE reply.final,
                agents |-> reply.agents, decoded |-> TRUE])

\* A relayed stream: nobody has read the answer.
Relayed == /\ cont # Idle
           /\ AppendRun([prompt |-> cont.prompt, final |-> 0, agents |-> NoAgents,
                         decoded |-> TRUE])

\* The stream fallback: the final text, in the name of one of the agents.
Replayed(reply, agent) ==
  /\ cont # Idle
  /\ reply.final > 0
  /\ AppendRun([prompt |-> cont.prompt, final |-> reply.final,
                agents |-> [a \in {agent} |-> reply.final], decoded |-> FALSE])

\* The request failed, or asked for the continuation alone (/api/session/continuation).
Ended == /\ cont # Idle
         /\ cont' = Idle
         /\ UNCHANGED <<turn, runs, summary>>

\* A restart: every agents field is an object again, and the request is gone.
Reload == /\ runs' = [i \in 1..Len(runs) |-> [runs[i] EXCEPT !.decoded = TRUE]]
          /\ cont' = Idle
          /\ UNCHANGED <<turn, summary>>

Next == \/ \E prompt \in Prompts : Ask(prompt)
        \/ \E prompt \in Prompts, policy \in Policies, brk \in Breaks :
             FollowUp(prompt, policy, brk)
        \/ \E policy \in Policies : FollowUpPanics(policy)
        \/ \E reply \in Replies : Answered(reply)
        \/ Relayed
        \/ \E reply \in Replies, agent \in Agent : Replayed(reply, agent)
        \/ Ended
        \/ Reload

Spec == Init /\ [][Next]_cvars
------------------------------------------------------------------------------
Following == cont # Idle /\ cont.state = "followup"

(* A continuation exceeds its budget by the headings and markers of the last  *)
(* cut only, whatever the lengths of its parts ("trimmed to the policy's char *)
(* budget"): 20 bytes of heading and two markers of at most 47, 29 tokens.    *)
ContinuationBounded == Following =>
  /\ cont.built <= MaxChars(cont.policy) + 114
  /\ cont.policy.tokens > 0 => EstimateTokens(cont.built) <= cont.policy.tokens + 29

\* Where the part a cut keeps of bytes a + 1 .. b falls in lo + 1 .. hi.
Overlap(a, b, lo, hi) == LET l == IF a <= lo THEN lo ELSE a
                             h == Least(b, hi)
                         IN  IF l < h THEN h - l ELSE 0

\* How many of the bytes a + 1 .. b of the whole are in the prompt.
Room       == MaxChars(cont.policy) - FollowupBudget(MaxChars(cont.policy), cont.prompt)
Kept(a, b) == IF cont.whole <= MaxChars(cont.policy) THEN b - a
              ELSE Overlap(a, b, 0, HeadOf(Room))
                   + Overlap(a, b, cont.whole - (Room - HeadOf(Room)), cont.whole)

\* The bytes of the follow-up: it is repeated behind the cut.
FollowupShown == IF cont.whole <= MaxChars(cont.policy) THEN cont.prompt
                 ELSE cont.built - TrimBlock(cont.whole, Room) - Title.followup

(* However long the session is, a budget of 350 bytes keeps what the model is *)
(* told about the prompt whole: the cut of the whole, which takes the middle, *)
(* leaves the instructions before the context and those behind it, and a      *)
(* quarter of the budget's worth of the follow-up stands at the end.          *)
InstructionsSurvive == Following /\ MaxChars(cont.policy) >= 350 =>
  /\ Kept(0, Preamble) = Preamble
  /\ Kept(cont.whole - Closing, cont.whole) = Closing
  /\ FollowupShown >= Least(cont.prompt, MaxChars(cont.policy) \div 4)

(* "Continue from the previous answer": a continuation of at least 8000       *)
(* bytes, for a follow-up of at most an eighth of it, shows the model some of *)
(* the previous final answer, however long the summary, the session's first   *)
(* prompt and the agents' answers are; the cut of the whole takes its middle, *)
(* which is where the previous answer stands.                                 *)
AnswerSurvives ==
  /\ Following
  /\ "final" \in cont.policy.include /\ Latest.final > 0
  /\ MaxChars(cont.policy) >= 8000 /\ 8 * cont.prompt <= MaxChars(cont.policy)
  => LET start == FinalStart(cont.policy)
     IN  Kept(start, start + Shown("final", cont.policy)) > 0

\* All there is to say, before anything is cut.
Everything ==
  LET Full(s) == IF s \in cont.policy.include THEN Written(s, Body(s, cont.policy)) ELSE 0
  IN  Preamble + Full("summary") + Full("original") + Full("final") + Full("target")
      + Written("notes", Note(cont.policy, AgentLen(Latest, NoteOf(cont.policy))))
      + Written("followup", cont.prompt) + Closing

\* The other agent's answer goes on behind its third line.
MoreLines == cont.brk < AgentLen(Latest, NoteOf(cont.policy))

(* The compaction a client is told of: where it says that nothing was cut,    *)
(* the prompt has every included text whole, but for the lines behind the     *)
(* third one of another agent's answer, whose cut nobody is told of.          *)
UnusedMeansWhole == Following /\ ~cont.used => cont.built = Everything \/ MoreLines

(* The rolling summary stays within its cap and one marker for ever           *)
(* ("keeping the result within summaryMaxChars").                             *)
SummaryBounded == summary <= SummaryMax + SummaryMark

(* "trimmed to the policy's char budget" (BuildContinuation).                 *)
WithinBudget == Following => cont.built <= MaxChars(cont.policy)

(* "used" tells of every cut.                                                 *)
UnusedMeansUncut == Following /\ ~cont.used => cont.built = Everything

(* The previous answer of a turn that was answered is shown, also when its    *)
(* stream was relayed.                                                        *)
AnswerShown == Following => Latest.final > 0
=============================================================================
