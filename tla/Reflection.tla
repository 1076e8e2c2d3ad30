----------------------------- MODULE Reflection -----------------------------
(***************************************************************************)
(* Episodic reflection: internal/reflect (Scheduler.Tick, Pass, Reflect,   *)
(* FileCursor) over the history log of HistoryStore.                       *)
(*                                                                         *)
(* One goroutine, Sched, wakes up, reads the persisted cursor, takes the   *)
(* rows the log has beyond it, asks the reflector model for lessons,       *)
(* stores them one by one, appends a bookkeeping row to the same log and   *)
(* persists the cursor that Since returned at the beginning.  Other        *)
(* goroutines append episodes at any moment.  Episodes are distinct model  *)
(* values so that the properties can tell which one was reflected on; all  *)
(* bookkeeping rows are the value Note.                                    *)
(***************************************************************************)
EXTENDS HistoryStore

CONSTANTS
  Sched,        \* the goroutine of Scheduler.Run, one of the writers
  Note,         \* a row with source = "reflection"
  MaxEpisodes,  \* SchedulerOpts.MaxEpisodes, 0 for no cap
  MaxLessons,   \* bound on the lessons one completion proposes
  Answers,      \* what the reflector backend may do
  CursorFaults, \* whether writing the cursor file may fail
  Base          \* of the digits of the cursor file; 10 in the code

ASSUME SchedAssumption   == Sched \in Writers
ASSUME NoteAssumption    == Note \in Entry
ASSUME CapAssumption     == MaxEpisodes \in Nat
ASSUME LessonsAssumption == MaxLessons \in Nat
ASSUME AnswersAssumption == Answers \subseteq {"lessons", "unusable", "down"}
ASSUME CursorAssumption  == CursorFaults \in BOOLEAN
ASSUME BaseAssumption    == Base \in Nat /\ Base > 1

VARIABLES
  cursorFile,  \* what FileCursor.Load returns: 0 when missing, truncated or garbage
  tpc,         \* where Tick is
  next,        \* the cursor Pass will return
  window,      \* the episodes given to Reflect
  todo,        \* lessons still to be Put
  seen,        \* observer: episodes handed to the reflector at least once
  finished,    \* observer: episodes handed to it that the saved cursor covers
  capped,      \* observer: episodes passed over because of MaxEpisodes
  outage,      \* observer: episodes whose last completion was a backend failure
  behind       \* observer: it once started from a log shorter than the cursor

tickVars     == <<cursorFile, tpc, next, window, todo>>
observerVars == <<seen, finished, capped, outage, behind>>
rvars        == <<hvars, tickVars, observerVars>>

Episode == Entry \ {Note}
TickPC  == {"sleep", "ask", "put", "book", "open", "write"}
------------------------------------------------------------------------------
\* Mutant: the row at the cursor again.
SinceFrom(cursor) == {i \in 1..Len(rows) : i >= cursor}

\* Since: the indices of the rows at or after the cursor, clamped to the log.
Since(cursor) == {i \in 1..Len(rows) : i > cursor}

\* Mutant: the pass reflects on its own records.
NewRows(cursor) == Since(cursor)

\* Pass: skip reflection records, then keep the most recent MaxEpisodes.
NewEpisodes(cursor) == {i \in Since(cursor) : rows[i] # Note}

MostRecent(I) ==
  {i \in I : MaxEpisodes = 0 \/ Cardinality({j \in I : j > i}) < MaxEpisodes}

RInit == /\ Init
         /\ cursorFile = 0
         /\ tpc    = "sleep"
         /\ next   = 0
         /\ window = {}
         /\ todo   = 0
         /\ seen   = {}
         /\ finished = {}
         /\ capped = {}
         /\ outage = {}
         /\ behind  = FALSE

RStart == /\ Start
          /\ behind' = (behind \/ Len(rows') < cursorFile)
          /\ UNCHANGED <<tickVars, seen, finished, capped, outage>>

RStartFatal == StartFatal /\ UNCHANGED <<tickVars, observerVars>>

\* The scheduler goroutine dies with the process; the cursor file stays.
RCrash == /\ Crash
          /\ tpc'    = "sleep"
          /\ next'   = 0
          /\ window' = {}
          /\ todo'   = 0
          /\ UNCHANGED <<cursorFile, observerVars>>

\* POST /api/history/entry or an eviction: each episode is appended once.
Post(w, e) == /\ e \notin {rows[i] : i \in 1..Len(rows)} \union seen
              /\ AppendRow(w, e)
              /\ UNCHANGED <<tickVars, observerVars>>

PosterSave(w) == SaveStep(w) /\ UNCHANGED <<tickVars, observerVars>>

\* Tick: Load the cursor, Since, filter and cap.  With nothing but bookkeeping rows
\* to skip, Pass only advances the cursor; with nothing at all the tick has no effect.
TickBegin ==
  LET new == NewEpisodes(cursorFile)
      eps == {rows[i] : i \in MostRecent(new)}
  IN  /\ proc = "up"
      /\ tpc = "sleep"
      /\ Len(rows) # cursorFile
      /\ next'   = Len(rows)
      /\ window' = eps
      /\ tpc'    = IF new = {} THEN "open" ELSE "ask"
      /\ seen'   = seen \union eps
      /\ capped' = capped \union ({rows[i] : i \in new} \ eps)
      /\ UNCHANGED <<hvars, cursorFile, todo, finished, outage, behind>>

\* Reflect: the completer returns text that holds a JSON array of n lessons ...
AnswerLessons == /\ "lessons" \in Answers
                 /\ tpc = "ask"
                 /\ todo' \in 0..MaxLessons
                 /\ tpc'    = "put"
                 /\ outage' = outage \ window
                 /\ UNCHANGED <<hvars, cursorFile, next, window, seen, finished, capped, behind>>

\* ... or text without one: ErrUnusable, and Pass skips the window.
AnswerUnusable == /\ "unusable" \in Answers
                  /\ tpc = "ask"
                  /\ tpc'    = "open"
                  /\ outage' = outage \ window
                  /\ UNCHANGED <<hvars, cursorFile, next, window, todo, seen, finished, capped, behind>>

\* The backend is down: CallWithSystem returns an error message as the completion
\* ("... is not responding.", "Connection Error ..."), which has no JSON array either.
AnswerDown == /\ "down" \in Answers
              /\ tpc = "ask"
              /\ tpc'    = "open"
              /\ outage' = outage \union window
              /\ UNCHANGED <<hvars, cursorFile, next, window, todo, seen, finished, capped, behind>>

\* One lesson: invalid, stored, or refused by the rag service; the loop goes on.
PutLesson == /\ tpc = "put"
             /\ todo > 0
             /\ todo' = todo - 1
             /\ UNCHANGED <<hvars, cursorFile, tpc, next, window, observerVars>>

\* The bookkeeping row.
Book == /\ tpc = "put"
        /\ todo = 0
        /\ AppendRow(Sched, Note)
        /\ tpc' = "book"
        /\ UNCHANGED <<cursorFile, next, window, todo, observerVars>>

BookSave == /\ tpc = "book"
            /\ SaveStep(Sched)
            /\ UNCHANGED <<tickVars, observerVars>>

\* Append returned, with an error or not: the cursor is saved either way.
BookReturn == /\ tpc = "book"
              /\ pc[Sched] = "idle"
              /\ tpc' = "open"
              /\ UNCHANGED <<hvars, cursorFile, next, window, todo, observerVars>>

\* FileCursor.Save: os.WriteFile truncates the file, so the cursor it had is gone ...
CursorOpen == /\ tpc = "open"
              /\ cursorFile' = 0
              /\ finished' = {}
              /\ tpc' = "write"
              /\ UNCHANGED <<hvars, next, window, todo, seen, capped, outage, behind>>

\* Mutant: the cursor that is saved is the length of the log by now.
CursorWriteLate == /\ tpc = "write"
                   /\ cursorFile' = Len(rows)
                   /\ tpc' = "sleep"
                   /\ UNCHANGED <<hvars, next, window, todo, observerVars>>

\* ... and writes the new one.
Covered(n) == {rows[i] : i \in {j \in 1..Len(rows) : j <= n}}

CursorWrite == /\ tpc = "write"
               /\ cursorFile' = next
               /\ finished' = seen \intersect Covered(next)
               /\ tpc' = "sleep"
               /\ UNCHANGED <<hvars, next, window, todo, seen, capped, outage, behind>>

\* Either of the two fails: logged, and the tick ends.  The open leaves the file alone,
\* the write any leading digits of the number, or none.
Leading(n) == {m \in 0..n : \E k \in 0..n : m = n \div Base^k}

CursorFails == /\ CursorFaults
               /\ \/ tpc = "open" /\ UNCHANGED cursorFile
                  \/ tpc = "write" /\ cursorFile' \in Leading(next)
               /\ tpc' = "sleep"
               /\ UNCHANGED <<hvars, next, window, todo, observerVars>>

SchedStep == \/ TickBegin
             \/ AnswerLessons
             \/ AnswerUnusable
             \/ AnswerDown
             \/ PutLesson
             \/ Book
             \/ BookSave
             \/ BookReturn
             \/ CursorOpen
             \/ CursorWrite
             \/ CursorFails

PosterStep(w) == \/ \E e \in Episode : Post(w, e)
                 \/ PosterSave(w)

RNext == \/ RStart
         \/ RStartFatal
         \/ RCrash
         \/ \E w \in Writers \ {Sched} : PosterStep(w)
         \/ SchedStep

RSpec == RInit /\ [][RNext]_rvars

\* The ticker keeps firing, and every call the tick makes returns.
RFairness == /\ WF_rvars(RStart)
             /\ WF_rvars(SchedStep)
             /\ \A w \in Writers \ {Sched} : WF_rvars(PosterSave(w))

RFairSpec == RSpec /\ RFairness
------------------------------------------------------------------------------
RTypeOK == /\ TypeOK
           /\ cursorFile \in Nat
           /\ tpc \in TickPC
           /\ next \in Nat
           /\ window \subseteq Episode
           /\ todo \in 0..MaxLessons
           /\ seen \subseteq Episode
           /\ finished \subseteq seen
           /\ capped \subseteq Episode
           /\ outage \subseteq seen
           /\ behind \in BOOLEAN

\* Every episode among the first n rows was handed over, or passed over by the cap.
HandledUpTo(n) == \A i \in 1..Len(rows) :
                    i <= n /\ rows[i] # Note => rows[i] \in seen \union capped

(* The persisted cursor never passes an episode that no tick has picked up:   *)
(* rows appended while a tick is under way, and its own bookkeeping row, stay *)
(* beyond the cursor that Since returned at its beginning, and a crash        *)
(* between the writes of the two files moves neither past the other.  Only a  *)
(* start from a log that is shorter than the cursor breaks it, since the      *)
(* clamped cursor then stands for rows that are gone.                         *)
NoEpisodeSkipped == proc = "up" /\ ~behind => HandledUpTo(cursorFile)

\* The same of the rows the next start would load.
FileHandledUpTo(n) == \A i \in 1..Len(file) :
                        i <= n /\ file[i] \notin {End, Note} => file[i] \in seen \union capped

\* Why: neither the saved cursor nor the one about to be saved is ahead of the log,
\* and while the process is down what the cursor covers of the file is handled.
CursorInv == /\ cursorFile \in Nat
             /\ next \in Nat
             /\ proc # "up" => tpc = "sleep"
             /\ proc # "up" /\ ~behind => FileHandledUpTo(cursorFile)
             /\ proc = "up" /\ ~behind =>
                  /\ cursorFile <= Len(rows) /\ HandledUpTo(cursorFile)
                  /\ tpc # "sleep" => next <= Len(rows) /\ HandledUpTo(next)

(* An episode that was handed to the reflector is not handed to it again once *)
(* the cursor behind it is saved, so its lessons are not duplicated: not by   *)
(* the rows appended while the tick ran, nor after a crash, nor with a log    *)
(* that came back shorter.  Only a later save that is cut off, between the    *)
(* truncation of the file and its write, takes that back.                     *)
FinishedNotRepeated == [][TickBegin => window' \intersect finished = {}]_rvars

(* Refuted: "we may re-reflect this window after a restart" (Tick, of a       *)
(* cursor that was not persisted): what is handed to the reflector again, was *)
(* in the window before.  A write of the cursor that fails has truncated its  *)
(* file, so that the next tick begins with the first row.                     *)
OnlyWindowRepeats == [][TickBegin => window' \intersect seen \subseteq window]_rvars

(* The pass converges: once no more episodes arrive, the ticks reach the end  *)
(* of the log and stay there, instead of reflecting for ever on the rows they *)
(* append themselves.                                                         *)
CatchesUp == <>[](cursorFile = Len(rows))

(* pass.go: "A transient reflection failure leaves the cursor unadvanced so   *)
(* the same episodes are retried next pass": an episode whose only completion *)
(* was a backend outage stays beyond the cursor.                              *)
TransientRetried == proc = "up" =>
  \A i \in 1..Len(rows) : rows[i] \in outage => i > cursorFile
=============================================================================
