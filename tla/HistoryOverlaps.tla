--------------------------- MODULE HistoryOverlaps ---------------------------
(***************************************************************************)
(* What the history log keeps although its saves overlap.  Handlers, the   *)
(* eviction hook and the scheduler all append, and each saves outside the  *)
(* mutex (store.go:114): an older text can reach the file last, so that a  *)
(* restart forgets a row whose Append returned nil (HistoryStore,          *)
(* StableWatermark).  Two history variables over the steps of HistoryStore *)
(* say when such a row is at risk, and from when on it is safe again.      *)
(***************************************************************************)
EXTENDS HistoryStore

VARIABLES
  overlap,  \* "none"; "saves": calls of Append have overlapped since a call that ran
            \* alone wrote the file; "mending": and the call in progress has run alone
  gone      \* the rows of acked that went when the process died during an overlap

ovars    == <<hvars, overlap, gone>>
promised == acked \ gone

Alone(w) == \A v \in Writers \ {w} : pc[v] = "idle"

OInit == Init /\ overlap = "none" /\ gone = {}

OAppendRow(w, e) ==
  /\ AppendRow(w, e)
  /\ overlap' = IF ~Alone(w) THEN "saves"
                ELSE IF overlap = "none" THEN "none" ELSE "mending"
  /\ UNCHANGED gone

\* A call that ran alone from end to end has written the whole log.
OWriteOut(w) ==
  /\ WriteOut(w)
  /\ overlap' = IF overlap = "mending" THEN "none" ELSE overlap
  /\ gone'    = gone \ {<<mine[w], snap[w][mine[w]]>>}

\* A process that dies before that may take acknowledged rows with it.
OCrash ==
  /\ Crash
  /\ overlap' = "none"
  /\ gone'    = IF overlap # "none" /\ WellFormed(file)
                THEN gone \union {a \in acked : a[1] >= Len(file)} ELSE gone

OtherSteps == \/ Start
              \/ StartFatal
              \/ \E w \in Writers : \/ Marshal(w)
                                    \/ OpenTruncate(w)
                                    \/ OpenFails(w)
                                    \/ WriteFails(w)

ONext == \/ OCrash
         \/ \E w \in Writers, e \in Entry : OAppendRow(w, e)
         \/ \E w \in Writers : OWriteOut(w)
         \/ OtherSteps /\ UNCHANGED <<overlap, gone>>

OSpec == OInit /\ [][ONext]_ovars
------------------------------------------------------------------------------
OTypeOK == /\ TypeOK
           /\ overlap \in {"none", "saves", "mending"}
           /\ gone \subseteq acked

(* "The log is append-only, so the index is a stable watermark across         *)
(* restarts" (store.go, Since), as far as the code keeps it for any number of *)
(* goroutines: a row whose Append returned nil can only go when the process   *)
(* dies after calls have overlapped and before a call that no other overlaps  *)
(* has been saved.  From such a save on every row acknowledged so far keeps   *)
(* its index, through all crashes and failing writes to come.                 *)
PromisesKept == proc = "up" =>
                  \A a \in promised : a[1] <= Len(rows) /\ rows[a[1]] = a[2]

Quiescent == proc = "up" /\ \A w \in Writers : pc[w] = "idle"

(* When nobody is inside Append, no overlap is left to mend, and each         *)
(* goroutine's last call returned nil, the file holds the whole log: the      *)
(* first undisturbed save also writes the rows that failed saves left only in *)
(* memory, repairs a file they left truncated, and replaces an older text     *)
(* that an overlapping save wrote last.                                       *)
SavedWhenSettled == Quiescent /\ overlap = "none" /\ (\A w \in Writers : ~err[w])
                      => file = Text(rows)

\* Why they hold.  A call that runs alone has marshalled the whole log, and the file it
\* has truncated stays empty until its own write.
OneCall == /\ \A v, w \in Writers : pc[v] # "idle" /\ pc[w] # "idle" => v = w
           /\ \A w \in Writers : pc[w] \in {"open", "write"} => snap[w] = rows
           /\ \A w \in Writers : pc[w] = "write" => file = <<>>

Settled == WellFormed(file) => \A a \in promised : a[1] < Len(file) /\ file[a[1]] = a[2]

OIndInv == /\ IndInv
           /\ OTypeOK
           /\ PromisesKept
           /\ SavedWhenSettled
           /\ overlap # "saves" => OneCall
           /\ overlap = "none" => Settled
           /\ proc # "up" => overlap = "none"
------------------------------------------------------------------------------
\* The log as EpisodicLog sees it: the rows of the process while it is up, and what
\* the next one will load while it is down.
LoadsNext == proc = "down" /\ WellFormed(file)
AbsState  == IF proc = "up" THEN "up" ELSE IF LoadsNext THEN "down" ELSE "lost"
AbsLog    == IF proc = "up" THEN rows ELSE IF LoadsNext THEN Loaded(file) ELSE <<>>
Calm      == overlap = "none"

Abstract == INSTANCE EpisodicLog WITH state <- AbsState, log <- AbsLog,
                                      calm <- Calm, acked <- promised

(* For any number of goroutines the store implements EpisodicLog: whatever    *)
(* write a crash cuts off or the disk fails, the next process either serves   *)
(* the log up to some row or refuses to start; it never serves another order  *)
(* of rows or one that was not posted, and one that lacks an acknowledged row *)
(* only when the process died while an overlap was still to be mended.        *)
ImplementsLog == Abstract!Spec
=============================================================================
