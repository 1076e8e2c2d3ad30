----------------------------- MODULE SseContract -----------------------------
(***************************************************************************)
(* What a client of /api/architect/stream may rely on, as spec/            *)
(* sse-events.md and internal/stream state it for the flat mode: the       *)
(* events arrive in the order session, token*, agent_done*, metrics, done, *)
(* or session, error, done when there is no answer.  A stream that breaks  *)
(* off is begun once more, from the start and on the same response.        *)
(***************************************************************************)
EXTENDS Naturals, Sequences

CONSTANT Streams  \* the requests that are streams

VARIABLES
  wire,   \* the events the client of each has received
  broken  \* the streams that were broken off

\* The events that may come next.
Following(w) ==
  IF w = <<>> THEN {"session"}
  ELSE CASE w[Len(w)] = "session"    -> {"token", "agent_done", "metrics", "error"}
         [] w[Len(w)] = "token"      -> {"token", "agent_done", "metrics"}
         [] w[Len(w)] = "agent_done" -> {"agent_done", "metrics"}
         [] w[Len(w)] \in {"metrics", "error"} -> {"done"}
         [] w[Len(w)] = "done"       -> {}

InOrder(w) == \A i \in 1..Len(w) : w[i] \in Following(SubSeq(w, 1, i - 1))

\* A stream in order, or the beginning of one and after it another.
Allowed(w) == \E k \in 0..Len(w) : InOrder(SubSeq(w, 1, k)) /\ InOrder(SubSeq(w, k + 1, Len(w)))

Init == /\ wire   = [r \in Streams |-> <<>>]
        /\ broken = {}

\* One or more events arrive.
Receive(r) == /\ Len(wire'[r]) > Len(wire[r])
              /\ SubSeq(wire'[r], 1, Len(wire[r])) = wire[r]
              /\ IF r \in broken THEN Allowed(wire'[r]) ELSE InOrder(wire'[r])
              /\ \A s \in Streams \ {r} : wire'[s] = wire[s]
              /\ UNCHANGED broken

\* At most once for each.
Break(r) == /\ r \notin broken
            /\ broken' = broken \union {r}
            /\ UNCHANGED wire

Spec == Init /\ [][\E r \in Streams : Receive(r) \/ Break(r)]_<<wire, broken>>
=============================================================================
