----------------------------- MODULE MCRosterRAG -----------------------------
(* The instance of RosterRAG for TLC. *)
EXTENDS RosterRAG

CONSTANTS a1, a2

\* Longer than one request, so that a roster can expire while others wait.
MCTimeout == 1
MCTTL     == MCTimeout + 1

One == [name |-> a1, topk |-> 1, kinds |-> {"fact"}]
Two == [name |-> a2, topk |-> 9, kinds |-> {}]

\* An agent that opts in later, one that opts out, and one after the other.
MCHistories == {[t \in 0..MaxClock |-> IF t < 1 THEN {} ELSE {One}],
                [t \in 0..MaxClock |-> IF t < 1 THEN {One, Two} ELSE {Two}],
                [t \in 0..MaxClock |-> IF t < 1 THEN {Two} ELSE {One}]}

Body(rag, agents, topk, kinds, min, mem) ==
  [use_rag |-> rag, agents |-> agents, topk |-> topk, kinds |-> kinds,
   min_score |-> min, use_memory |-> mem]

MCBodies == {Body(FALSE, {}, 0, {}, Unset, TRUE),
             Body(TRUE, {}, 0, {"doc"}, Unset, FALSE),
             Body(FALSE, {a1}, 1, {}, Unset, FALSE),
             Body(TRUE, {a2}, 9, {}, 0, FALSE)}

MCChunks == {[kind |-> "doc", distance |-> 0], [kind |-> "fact", distance |-> 1]}
=============================================================================
