--------------------------- MODULE MCSessionStore ---------------------------
(* Instances of SessionStore for TLC. *)
EXTENDS SessionStore, TLC

MCLogs  == {<<>>}
MCEntry == Run

\* Half the budget, weak and strong, and all of it; and a run of the stream fallback, whose
\* agents weigh and count for more than its prompt and its final text.
T(size, hidden, score, rescore) ==
  [size |-> size, hidden |-> hidden, score |-> score, rescore |-> rescore]

MCTexts == {T(1, 0, 0, 0), T(1, 0, 1, 1), T(2, 0, 0, 0), T(1, 1, 0, 1)}

\* Handlers are interchangeable: no definition tells one from another.
MCHandlers == Permutations(Writers)
=============================================================================
