----------------------------- MODULE EpisodicLog -----------------------------
(***************************************************************************)
(* What the history log promises to those who append to it.  The comments  *)
(* of internal/history/store.go promise more: the log is append-only, and  *)
(* an entry that was acknowledged keeps its index over restarts.  The code *)
(* keeps that while the log is calm, which concurrent appends may end and  *)
(* a later acknowledgement restores: a death that finds the log calm may   *)
(* forget, from the end, only what was never acknowledged; otherwise it    *)
(* may take acknowledged entries at the end with it.  The one thing        *)
(* besides that a death may do is to leave a file that does not load: then *)
(* the log is lost, and no process serves it any more, so nobody is ever   *)
(* given a shorter one.                                                    *)
(***************************************************************************)
EXTENDS Naturals, Sequences

CONSTANTS Entry, InitialLogs

VARIABLES
  state,  \* "up": being served; "down": between two processes; "lost"
  log,    \* the entries
  calm,   \* every acknowledged entry outlives the process
  acked   \* <<index, entry>> of the acknowledged ones that did

avars == <<state, log, calm, acked>>
------------------------------------------------------------------------------
Init == /\ state = "down"
        /\ log \in InitialLogs
        /\ calm = TRUE
        /\ acked = {}

Serve == /\ state = "down"
         /\ state' = "up"
         /\ UNCHANGED <<log, calm, acked>>

\* Beside another append, or alone.
Extend(e) == /\ state = "up"
             /\ log' = Append(log, e)
             /\ calm' \in {calm, FALSE}
             /\ UNCHANGED <<state, acked>>

\* With it the whole log may have become safe.
Acknowledge(i) == /\ state = "up"
                  /\ acked' = acked \union {<<i, log[i]>>}
                  /\ calm' \in {calm, TRUE}
                  /\ UNCHANGED <<state, log>>

\* The first n entries survive; in a calm log every acknowledged one is among them.
Forget(n) == /\ state = "up"
             /\ calm => \A a \in acked : a[1] <= n
             /\ state' = "down"
             /\ log' = SubSeq(log, 1, n)
             /\ calm' = TRUE
             /\ acked' = {a \in acked : a[1] <= n}

Lose == /\ state = "up"
        /\ state' = "lost"
        /\ log' = <<>>
        /\ calm' = TRUE
        /\ UNCHANGED acked

Next == \/ Serve
        \/ Lose
        \/ \E e \in Entry : Extend(e)
        \/ \E i \in 1..Len(log) : Acknowledge(i)
        \/ \E n \in 0..Len(log) : Forget(n)

Spec == Init /\ [][Next]_avars
=============================================================================
