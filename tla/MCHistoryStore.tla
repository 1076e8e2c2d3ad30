--------------------------- MODULE MCHistoryStore ---------------------------
(* Instances of HistoryOverlaps for TLC. *)
EXTENDS HistoryOverlaps

CONSTANTS e1, e2

MCEntry == {e1, e2}
MCLogs  == {<<>>, <<e1>>}
=============================================================================
