----------------------------- MODULE MCDispatch -----------------------------
(* Instances of Dispatch for TLC. *)
EXTENDS Dispatch

CONSTANTS r1, r2, r3

\* A follow-up to a stream and to a request of the other route.
MCFollowup == [r \in Requests |-> IF r = r2 THEN {r1, r3} ELSE {}]
=============================================================================
