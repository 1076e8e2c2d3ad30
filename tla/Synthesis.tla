------------------------------ MODULE Synthesis ------------------------------
(***************************************************************************)
(* The prompt a synthesizer gets: internal/synthesis puts the user's       *)
(* request and the contributions of several agents into one text, and cuts *)
(* the contributions, each in proportion, to the synthesizer's context     *)
(* (budget.go, assemble.go).  Pairwise reduction (tiered.go) does so with  *)
(* two contributions at a time, round by round; a call is a step.          *)
(*                                                                         *)
(* A prompt is prefix, then header and body of each block, then footer;    *)
(* all are lengths.                                                        *)
(***************************************************************************)
EXTENDS TextLengths, Functions

CONSTANTS
  Overrides,  \* COFISWARM_SYNTHESIS_MAX_PROMPT_TOKENS; 0 when it is unset or no number
  Windows,    \* context windows of synthesizers
  Users,      \* lengths of the user's request
  Bodies,     \* lengths of contributions
  Labels,     \* lengths of the agents' names
  Many        \* how many contributions there may be

ASSUME CasesAssumption ==
  /\ Overrides \subseteq Nat /\ Windows \subseteq Nat /\ Users \subseteq Nat
  /\ Bodies \subseteq Nat /\ Labels \subseteq Nat /\ Many \subseteq Nat

VARIABLES
  job,     \* what the reduction was called with
  round,   \* of the reduction, which breaks off after 64: after 2^64 contributions
  blocks,  \* the blocks of this round that are still to be merged
  next,    \* the blocks of the next round
  calls    \* calls of the synthesizer

yvars == <<job, round, blocks, next, calls>>

Most(m, n)       == IF m >= n THEN m ELSE n
Minus(m, n)      == IF m > n THEN m - n ELSE 0
Clamp(v, lo, hi) == Most(lo, Least(v, hi))

SumTo(s, k) == SumFunctionOnSet(s, 1..k)
Total(s)    == SumTo(s, Len(s))
------------------------------------------------------------------------------
\* Mutant: the reserve is forgotten in the test for a window that is too small.
EffectiveMaxNoFloor(override, window, tokens) ==
  IF 256 <= override /\ override <= 262144 THEN override * 4
  ELSE IF window < 512 THEN 1400 * 4
  ELSE Least(Minus(window, Most(tokens, 1) + 768), 262144) * 4

\* EffectiveMaxPromptChars: the override, or what the window leaves.
EffectiveMaxPromptChars(override, window, tokens) ==
  LET reserved == Most(tokens, 1) + 768
  IN  IF 256 <= override /\ override <= 262144 THEN override * 4
      ELSE IF window < 512 THEN 1400 * 4
      ELSE IF window <= reserved + 64 THEN 256 * 4
      ELSE Clamp(window - reserved, 256, 262144) * 4

\* Proportional shares of the room, none below 128 ...
Shares(bodies, room) ==
  [i \in 1..Len(bodies) |-> Most(128, (room * bodies[i]) \div Total(bodies))]

\* ... and what they leave over given to the bodies that need more, the first ones first.
Needs(bodies, room) ==
  [i \in 1..Len(bodies) |-> Minus(bodies[i], Shares(bodies, room)[i])]

Slack(bodies, room) ==
  Minus(room, Total([i \in 1..Len(bodies) |-> Least(bodies[i], Shares(bodies, room)[i])]))

Alloc(bodies, room) ==
  LET needs == Needs(bodies, room)
  IN  [i \in 1..Len(bodies) |->
         Shares(bodies, room)[i]
         + Least(needs[i], Minus(Slack(bodies, room), SumTo(needs, i - 1)))]

\* assembleFit before its last cut: what is left of the prefix and of each body.
Assembled(prefix, headers, bodies, footer, max) ==
  LET overhead == prefix + Total(headers) + footer
      whole    == overhead + Total(bodies)
      alloc    == Alloc(bodies, max - overhead)
  IN  IF max <= overhead + 16
      THEN [prefix |-> TruncateNote(prefix, max \div 3),
            bodies |-> [i \in 1..Len(bodies) |-> TruncateNote(bodies[i], 256)]]
      ELSE IF whole <= max
      THEN [prefix |-> prefix, bodies |-> bodies]
      ELSE [prefix |-> prefix,
            bodies |-> [i \in 1..Len(bodies) |-> TruncateNote(bodies[i], alloc[i])]]

Joined(prefix, headers, bodies, footer, max) ==
  LET a == Assembled(prefix, headers, bodies, footer, max)
  IN  a.prefix + Total(headers) + Total(a.bodies) + footer

\* assembleFit, its last cut included.
AssembleFit(prefix, headers, bodies, footer, max) ==
  TruncateNote(Joined(prefix, headers, bodies, footer, max), max)

\* How much of the i-th body stands before that cut.
Visible(i, prefix, headers, bodies, footer, max) ==
  LET a     == Assembled(prefix, headers, bodies, footer, max)
      start == a.prefix + SumTo(headers, i) + SumTo(a.bodies, i - 1)
      end   == IF Joined(prefix, headers, bodies, footer, max) <= max THEN start + a.bodies[i]
               ELSE Least(start + a.bodies[i], max - 1)
  IN  Minus(end, start)

\* buildPrompt, as mergePrompt calls it: the texts about the request and about a block.
Kind       == {"pipeline", "cascade"}
Intro      == [pipeline |-> 79, cascade |-> 77]
HeaderText == [pipeline |-> 20, cascade |-> 23]
Footer     == [pipeline |-> 218, cascade |-> 222]

Caps == {EffectiveMaxPromptChars(o, w, t) : o \in Overrides, w \in Windows, t \in {0, 512, 1024}}

\* EnabledViaEnv and the mode are the caller's; kind is its pipelineLabels.
Jobs == [kind : Kind, user : Users, max : Caps, many : Many]

Prefix      == Intro[job.kind] + job.user
Headers(bs) == [i \in 1..Len(bs) |-> HeaderText[job.kind] + bs[i].label]

\* The blocks the next call merges: two, or the only one there is.
Pair == SubSeq(blocks, 1, Least(2, Len(blocks)))

Lengths(bs) == [i \in 1..Len(bs) |-> bs[i].len]

PromptLen == AssembleFit(Prefix, Headers(Pair), Lengths(Pair), Footer[job.kind], job.max)
Shows(i)  == Visible(i, Prefix, Headers(Pair), Lengths(Pair), Footer[job.kind], job.max)

\* The answer of the synthesizer, named merge_rN_M; the text of an error is an answer too.
Merged(len) == [len |-> len, label |-> 8 + Digits(round) + Digits(Len(next)),
                from |-> UNION {Pair[i].from : i \in 1..Len(Pair)}]
------------------------------------------------------------------------------
YInit == /\ job \in Jobs
         /\ round = 1
         /\ \E lens \in [1..job.many -> Bodies], labels \in [1..job.many -> Labels] :
              blocks = [i \in 1..job.many |-> [len |-> lens[i], label |-> labels[i], from |-> {i}]]
         /\ next = <<>>
         /\ calls = 0

\* A single contribution is rewritten, not passed on.
CallSingle == /\ job.many = 1
              /\ calls = 0
              /\ \E len \in Bodies : next' = <<Merged(len)>>
              /\ blocks' = <<>>
              /\ calls' = 1
              /\ UNCHANGED <<job, round>>

CallPair == /\ Len(blocks) > 1
            /\ \E len \in Bodies : next' = Append(next, Merged(len))
            /\ blocks' = SubSeq(blocks, 3, Len(blocks))
            /\ calls' = calls + 1
            /\ UNCHANGED <<job, round>>

\* Mutant: a block without a partner is left behind.
CarryNothing == /\ Len(blocks) = 1
                /\ next # <<>>
                /\ blocks' = <<>>
                /\ UNCHANGED <<job, round, next, calls>>

\* The odd one out carries forward.
CarryOver == /\ Len(blocks) = 1
             /\ next # <<>>
             /\ next' = Append(next, blocks[1])
             /\ blocks' = <<>>
             /\ UNCHANGED <<job, round, calls>>

NextRound == /\ blocks = <<>>
             /\ Len(next) > 1
             /\ round' = round + 1
             /\ blocks' = next
             /\ next' = <<>>
             /\ UNCHANGED <<job, calls>>

YNext == CallSingle \/ CallPair \/ CarryOver \/ NextRound

YSpec == YInit /\ [][YNext]_yvars

Reduced == blocks = <<>> /\ Len(next) <= 1
------------------------------------------------------------------------------
(* However long the user's request and the answers are, the prompt of a merge *)
(* exceeds the synthesizer's cap by less than one marker ("the bound is       *)
(* maxTotal + len(marker)", synthesis_test.go), and the cut falls behind the  *)
(* beginning of both contributions: the floors of 128 and the markers push    *)
(* the prompt over its cap, and what pays for them is the footer.             *)
MergeShowsBoth == blocks # <<>> =>
  /\ PromptLen <= job.max + 46
  /\ \A i \in 1..Len(Pair) : Shows(i) >= Least(Pair[i].len, 60)

(* A reduction ends with one answer, to which every contribution has come, in *)
(* its round and in the rounds it was carried over, after one call less than  *)
(* there were contributions (TestReducePairwise).                             *)
ReductionComplete == Reduced /\ job.many > 0 =>
  /\ Len(next) = 1
  /\ next[1].from = 1..job.many
  /\ calls = IF job.many = 1 THEN 1 ELSE job.many - 1

(* "preserving the fixed prefix/headers/footer" (assembleFit): when there is  *)
(* room for them at all.                                                      *)
FooterKept == blocks # <<>> =>
  LET headers == Headers(Pair)
  IN  job.max > Prefix + Total(headers) + Footer[job.kind] + 16 =>
        Joined(Prefix, headers, Lengths(Pair), Footer[job.kind], job.max) <= job.max
=============================================================================
