------------------------------ MODULE MCBudgets ------------------------------
(* Instances of Continuation and Synthesis for TLC. *)
EXTENDS Continuation, Synthesis

Policy(t, c, inc, a) == [tokens |-> t, chars |-> c, include |-> inc, target |-> a]
Reply(f, p, n)       == [final |-> f,
                         agents |-> [a \in Agent |-> IF a = "programmer" THEN p ELSE n]]

\* The default budget, a token budget, one about the hard cut, one that just holds the
\* instructions, an include list, and a budget below 0.
MCPolicies == {Policy(0, 24000, Section, "programmer"),
               Policy(2000, 24000, Section, "summarizer"),
               Policy(0, 220, Section, "programmer"),
               Policy(0, 350, Section, "programmer"),
               Policy(0, 8000, {"final", "target"}, "programmer"),
               Policy(0, -1, Section, "programmer")}

\* Answers that fit (the second agent's is empty), that have to be cut, and none at all.
MCReplies == {Reply(300, 300, 0), Reply(20000, 20000, 901), Reply(0, 0, 20000)}

\* The two have nothing in common: a behaviour is one of a conversation or one of a
\* reduction, and leaves the other as it is.
MCInit == \/ /\ Init
             /\ job = [many |-> 0] /\ round = 1 /\ blocks = <<>> /\ next = <<>> /\ calls = 0
          \/ /\ YInit
             /\ turn = MaxTurns /\ runs = <<>> /\ summary = 0 /\ cont = Idle
MCNext == \/ Next /\ UNCHANGED yvars
          \/ YNext /\ UNCHANGED cvars
MCSpec == MCInit /\ [][MCNext]_<<cvars, yvars>>
=============================================================================
