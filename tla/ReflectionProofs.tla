-------------------------- MODULE ReflectionProofs --------------------------
(* Reflection never skips an episode, for any number of posters, any cap,    *)
(* any behaviour of the reflector, and any crashes and failing writes.       *)
EXTENDS Reflection, HistoryStoreProofs

(* Reflection uses the log only through the store's own operations.          *)
LEMMA StepIsStoreStep == [RNext]_rvars => [Next]_hvars
<1> SUFFICES ASSUME [RNext]_rvars PROVE [Next]_hvars
  OBVIOUS
<1> USE DEF Next
<1>1. CASE RStart \/ RStartFatal \/ RCrash
  BY <1>1 DEF RStart, RStartFatal, RCrash
<1>2. ASSUME NEW w \in Writers \ {Sched}, PosterStep(w) PROVE [Next]_hvars
  BY <1>2 DEF PosterStep, Post, PosterSave, Episode
<1>3. CASE SchedStep
  <2>1. CASE Book
    BY <2>1, SchedAssumption, NoteAssumption DEF Book
  <2>2. CASE BookSave
    BY <2>2, SchedAssumption DEF BookSave
  <2>3. CASE \/ TickBegin \/ AnswerLessons \/ AnswerUnusable \/ AnswerDown \/ PutLesson
             \/ BookReturn \/ CursorOpen \/ CursorWrite \/ CursorFails
    BY <2>3 DEF TickBegin, AnswerLessons, AnswerUnusable, AnswerDown, PutLesson,
                BookReturn, CursorOpen, CursorWrite, CursorFails
  <2> QED
    BY <1>3, <2>1, <2>2, <2>3 DEF SchedStep
<1>4. CASE UNCHANGED rvars
  BY <1>4 DEF rvars
<1> QED
  BY <1>1, <1>2, <1>3, <1>4 DEF RNext

LEMMA StoreInvHolds == RSpec => []IndInv
<1>1. RInit => Init
  BY DEF RInit
<1>2. RSpec => Spec
  BY <1>1, StepIsStoreStep, PTL DEF RSpec, Spec
<1> QED
  BY <1>2, IndInvHolds, PTL

(* Appending a row keeps what is handled, up to any point of the old log.    *)
LEMMA AppendKeepsHandled ==
  ASSUME TypeOK, NEW w \in Writers, NEW e \in Entry, AppendRow(w, e),
         NEW n \in Nat, n <= Len(rows), HandledUpTo(n), UNCHANGED <<seen, capped>>
  PROVE  /\ n <= Len(rows')
         /\ \A i \in 1..Len(rows') :
              i <= n /\ rows'[i] # Note => rows'[i] \in seen' \union capped'
<1>1. /\ Len(rows') = Len(rows) + 1
      /\ \A i \in 1..Len(rows) : rows'[i] = rows[i]
      /\ Len(rows) \in Nat
  BY AppendProperties DEF AppendRow, TypeOK
<1> QED
  BY <1>1 DEF HandledUpTo

(* The cursor invariant is inductive, given the invariant of the log: the    *)
(* file agrees with the rows when the process dies, and nobody writes it     *)
(* until the next start.                                                     *)
LEMMA NextCursorInv == CursorInv /\ IndInv /\ [RNext]_rvars => CursorInv'
<1> SUFFICES ASSUME CursorInv, IndInv, [RNext]_rvars PROVE CursorInv'
  OBVIOUS
<1>0. TypeOK /\ Len(rows) \in Nat
  BY DEF IndInv, TypeOK
<1>1. CASE RStart
  <2>1. /\ UNCHANGED <<cursorFile, next, tpc, seen, capped>>
        /\ proc = "down" /\ proc' = "up"
        /\ behind' = (behind \/ Len(rows') < cursorFile)
        /\ rows' = Loaded(file) /\ WellFormed(file)
    BY <1>1 DEF RStart, Start, tickVars
  <2>2. /\ rows' \in Seq(Entry)
        /\ Len(rows') = Len(file) - 1
        /\ Len(rows') \in Nat /\ Len(file) \in Nat
        /\ \A i \in 1..Len(rows') : rows'[i] = file[i]
    <3>1. file \in Seq(Cell) /\ Len(file) \in Nat
      BY <1>0 DEF TypeOK
    <3>2. /\ rows' \in Seq(Entry)
          /\ Len(rows') = Len(file) - 1
          /\ \A i \in 1..(Len(file) - 1) : rows'[i] = file[i]
      BY <2>1, <3>1, LoadedRows
    <3> QED
      BY <3>1, <3>2
  <2>3. SUFFICES ASSUME ~behind' PROVE cursorFile <= Len(rows') /\ HandledUpTo(cursorFile)'
    BY <2>1 DEF CursorInv
  <2>4. ~behind /\ cursorFile <= Len(rows')
    <3>1. ~behind /\ ~(Len(rows') < cursorFile)
      BY <2>1, <2>3
    <3> QED
      BY <2>2, <3>1 DEF CursorInv
  <2>5. ASSUME NEW i \in 1..Len(rows'), i <= cursorFile, rows'[i] # Note
        PROVE  rows'[i] \in seen \union capped
    <3>1. i \in 1..Len(file) /\ rows'[i] = file[i]
      BY <2>2
    <3>2. rows'[i] \in Entry /\ rows'[i] # End
      BY <2>2, EndAssumption
    <3> QED
      BY <2>1, <2>4, <2>5, <3>1, <3>2 DEF CursorInv, FileHandledUpTo
  <2> QED
    BY <2>1, <2>4, <2>5 DEF HandledUpTo
<1>2. CASE RStartFatal
  BY <1>2 DEF RStartFatal, StartFatal, CursorInv, FileHandledUpTo, tickVars, observerVars
<1>3. CASE RCrash
  <2>1. /\ UNCHANGED <<cursorFile, file, seen, capped, behind>>
        /\ proc = "up" /\ proc' = "down" /\ tpc' = "sleep" /\ next' = 0
    BY <1>3 DEF RCrash, Crash, observerVars
  <2>2. ASSUME ~behind, NEW i \in 1..Len(file), i <= cursorFile, file[i] \notin {End, Note}
        PROVE  file[i] \in seen \union capped
    <3>1. i <= Len(rows) /\ file[i] = rows[i]
      BY <2>1, <2>2 DEF IndInv, FileAgrees
    <3>2. i \in 1..Len(rows)
      BY <1>0, <3>1 DEF TypeOK
    <3> QED
      BY <2>1, <2>2, <3>1, <3>2 DEF CursorInv, HandledUpTo
  <2> QED
    BY <2>1, <2>2 DEF CursorInv, FileHandledUpTo
<1>4. ASSUME NEW w \in Writers \ {Sched}, NEW e \in Episode, Post(w, e) PROVE CursorInv'
  <2>1. AppendRow(w, e) /\ e \in Entry /\ UNCHANGED <<tickVars, observerVars>>
    BY <1>4 DEF Post, Episode
  <2>0. proc = "up" /\ proc' = "up"
    BY <2>1 DEF AppendRow
  <2>2. ~behind =>
          /\ cursorFile <= Len(rows')
          /\ \A i \in 1..Len(rows') :
               i <= cursorFile /\ rows'[i] # Note => rows'[i] \in seen' \union capped'
    BY <1>0, <2>0, <2>1, AppendKeepsHandled DEF CursorInv, observerVars
  <2>3. ~behind /\ tpc # "sleep" =>
          /\ next <= Len(rows')
          /\ \A i \in 1..Len(rows') :
               i <= next /\ rows'[i] # Note => rows'[i] \in seen' \union capped'
    BY <1>0, <2>0, <2>1, AppendKeepsHandled DEF CursorInv, observerVars
  <2> QED
    BY <2>0, <2>1, <2>2, <2>3 DEF CursorInv, HandledUpTo, tickVars, observerVars
<1>5. ASSUME NEW w \in Writers, SaveStep(w), UNCHANGED <<tickVars, observerVars>>
      PROVE  CursorInv'
  <2>1. UNCHANGED <<rows, proc>> /\ pc[w] # "idle"
    BY <1>5 DEF SaveStep, Marshal, OpenTruncate, OpenFails, WriteOut, WriteFails
  <2>2. proc = "up"
    BY <2>1 DEF IndInv, SnapshotsArePrefixes
  <2> QED
    BY <1>5, <2>1, <2>2 DEF CursorInv, HandledUpTo, tickVars, observerVars
<1>6. CASE TickBegin
  <2> DEFINE new == NewEpisodes(cursorFile)
             eps == {rows[i] : i \in MostRecent(new)}
  <2>1. /\ next' = Len(rows)
        /\ seen' = seen \union eps
        /\ capped' = capped \union ({rows[i] : i \in new} \ eps)
        /\ UNCHANGED <<hvars, cursorFile, behind>>
        /\ proc = "up"
    BY <1>6 DEF TickBegin
  <2>2. ASSUME ~behind, NEW i \in 1..Len(rows), rows[i] # Note
        PROVE  rows[i] \in seen' \union capped'
    <3>1. CASE i <= cursorFile
      BY <2>1, <2>2, <3>1 DEF CursorInv, HandledUpTo
    <3>2. CASE i > cursorFile
      <4>1. i \in new
        BY <2>2, <3>2 DEF NewEpisodes, Since
      <4> HIDE DEF new, eps
      <4> QED
        BY <2>1, <4>1
    <3> QED
      BY <1>0, <3>1, <3>2 DEF CursorInv
  <2>3. UNCHANGED <<rows, proc>>
    BY <2>1 DEF hvars
  <2> QED
    BY <1>0, <2>1, <2>2, <2>3 DEF CursorInv, HandledUpTo
<1>7. CASE AnswerLessons \/ AnswerUnusable \/ AnswerDown
  <2>1. /\ tpc = "ask" /\ tpc' # "sleep"
        /\ UNCHANGED <<rows, proc, cursorFile, next, seen, capped, behind>>
    BY <1>7 DEF AnswerLessons, AnswerUnusable, AnswerDown, hvars
  <2> QED
    BY <2>1 DEF CursorInv, HandledUpTo
<1>8. CASE PutLesson \/ BookReturn
  <2>1. /\ tpc # "sleep" /\ tpc' # "sleep"
        /\ UNCHANGED <<rows, proc, cursorFile, next, seen, capped, behind>>
    BY <1>8 DEF PutLesson, BookReturn, hvars, observerVars
  <2> QED
    BY <2>1 DEF CursorInv, HandledUpTo
<1>9. CASE Book
  <2>1. /\ AppendRow(Sched, Note) /\ tpc = "put" /\ tpc' = "book"
        /\ UNCHANGED <<cursorFile, next, observerVars>>
    BY <1>9 DEF Book
  <2>0. proc = "up" /\ proc' = "up"
    BY <2>1 DEF AppendRow
  <2>2. ~behind =>
          /\ cursorFile <= Len(rows')
          /\ \A i \in 1..Len(rows') :
               i <= cursorFile /\ rows'[i] # Note => rows'[i] \in seen' \union capped'
    BY <1>0, <2>0, <2>1, AppendKeepsHandled, SchedAssumption, NoteAssumption
       DEF CursorInv, observerVars
  <2>3. ~behind =>
          /\ next <= Len(rows')
          /\ \A i \in 1..Len(rows') :
               i <= next /\ rows'[i] # Note => rows'[i] \in seen' \union capped'
    BY <1>0, <2>0, <2>1, AppendKeepsHandled, SchedAssumption, NoteAssumption
       DEF CursorInv, observerVars
  <2> QED
    BY <2>0, <2>1, <2>2, <2>3 DEF CursorInv, HandledUpTo, observerVars
<1>10. CASE CursorOpen \/ CursorWrite \/ CursorFails
  <2>1. /\ tpc # "sleep"
        /\ UNCHANGED <<rows, proc, next, seen, capped, behind>>
    BY <1>10 DEF CursorOpen, CursorWrite, CursorFails, hvars, observerVars
  <2>2. proc = "up"
    BY <2>1 DEF CursorInv
  <2>3. cursorFile' \in Nat /\ (cursorFile' <= next \/ cursorFile' = cursorFile)
    <3>1. CASE CursorOpen
      BY <3>1 DEF CursorOpen, CursorInv
    <3>2. CASE CursorWrite
      BY <3>2 DEF CursorWrite, CursorInv
    <3>3. CASE CursorFails
      BY <3>3 DEF CursorFails, Leading, CursorInv
    <3> QED
      BY <1>10, <3>1, <3>2, <3>3
  <2> QED
    BY <1>0, <2>1, <2>2, <2>3 DEF CursorInv, HandledUpTo
<1>11. CASE UNCHANGED rvars
  BY <1>11 DEF rvars, hvars, tickVars, observerVars, CursorInv, HandledUpTo, FileHandledUpTo
<1>12. CASE BookSave
  BY <1>5, <1>12, SchedAssumption DEF BookSave
<1> QED
  BY <1>1, <1>2, <1>3, <1>4, <1>5, <1>6, <1>7, <1>8, <1>9, <1>10, <1>11, <1>12
     DEF RNext, PosterStep, PosterSave, SchedStep

(* Nothing is handled before the first start.                                *)
LEMMA CursorInvHolds == RSpec => []CursorInv
<1>1. RInit => CursorInv
  <2> SUFFICES ASSUME RInit PROVE CursorInv
    OBVIOUS
  <2>1. cursorFile = 0 /\ next = 0 /\ proc = "down" /\ tpc = "sleep"
    BY DEF RInit, Init
  <2>2. \A i \in 1..Len(file) : ~(i <= 0)
    OBVIOUS
  <2> QED
    BY <2>1, <2>2 DEF CursorInv, FileHandledUpTo
<1>2. CursorInv /\ IndInv /\ [RNext]_rvars => CursorInv'
  BY NextCursorInv
<1> QED
  BY <1>1, <1>2, StoreInvHolds, PTL DEF RSpec

(* As long as no start has found a log shorter than the cursor, the cursor   *)
(* never passes an episode that no tick has picked up, whatever is appended  *)
(* while ticks run, whatever the reflector answers, wherever the process     *)
(* dies and whichever file writes fail.                                      *)
THEOREM NothingSkipped == RSpec => []NoEpisodeSkipped
<1>1. CursorInv => NoEpisodeSkipped
  BY DEF CursorInv, NoEpisodeSkipped
<1> QED
  BY <1>1, CursorInvHolds, PTL
------------------------------------------------------------------------------
(* Nothing the saved cursor covers is handed over again: an episode is in    *)
(* the log once, and those the cursor has been saved behind stand before it, *)
(* in the rows while the process is up and in the file while it is down.     *)
OneOfEach(log) == \A i, j \in 1..Len(log) :
                    log[i] = log[j] /\ log[i] \notin {End, Note} => i = j

Behind(log) == \A i \in 1..Len(log) : log[i] \in finished => i <= cursorFile

RepeatInv ==
  /\ finished \subseteq seen
  /\ Note \notin seen /\ End \notin seen
  /\ tpc = "write" => finished = {}
  /\ proc # "up" => OneOfEach(file) /\ Behind(file)
  /\ proc = "up" => OneOfEach(rows) /\ Behind(rows)

(* A row appended is new to the log and to the reflector, or bookkeeping.    *)
LEMMA AppendKeepsRepeatInv ==
  ASSUME NEW w \in Writers, NEW e \in Entry, TypeOK, RepeatInv, AppendRow(w, e),
         e # Note => e \notin {rows[i] : i \in 1..Len(rows)} \union seen,
         cursorFile' = cursorFile, tpc' = tpc \/ tpc' # "write", UNCHANGED observerVars
  PROVE  RepeatInv'
<1>1. /\ rows' = Append(rows, e) /\ rows \in Seq(Entry)
      /\ proc = "up" /\ proc' = "up"
  BY DEF AppendRow, TypeOK
<1>2. /\ Len(rows) \in Nat
      /\ Len(rows') = Len(rows) + 1
      /\ \A i \in 1..Len(rows) : rows'[i] = rows[i]
      /\ rows'[Len(rows) + 1] = e
  BY <1>1, AppendProperties
<1>3. SUFFICES OneOfEach(rows') /\ \A i \in 1..Len(rows') : rows'[i] \in finished => i <= cursorFile
  BY <1>1, <1>3 DEF RepeatInv, observerVars, OneOfEach, Behind
<1>4. ASSUME NEW i \in 1..Len(rows'), NEW j \in 1..Len(rows'),
             rows'[i] = rows'[j], rows'[i] \notin {End, Note}
      PROVE  i = j
  <2>1. CASE i <= Len(rows) /\ j <= Len(rows)
    <3>1. i \in 1..Len(rows) /\ j \in 1..Len(rows)
      BY <1>2, <2>1
    <3>2. rows'[i] = rows[i] /\ rows'[j] = rows[j]
      BY <1>2, <3>1
    <3>3. OneOfEach(rows)
      BY <1>1, <1>3 DEF RepeatInv
    <3> QED
      BY <1>4, <3>1, <3>2, <3>3 DEF OneOfEach
  <2>2. CASE i > Len(rows) \/ j > Len(rows)
    <3>1. rows'[i] = e
      BY <1>2, <1>4, <2>2
    <3>2. \A k \in 1..Len(rows) : rows'[k] # e
      BY <1>2, <1>4, <3>1
    <3>3. i \notin 1..Len(rows) /\ j \notin 1..Len(rows)
      BY <1>4, <3>1, <3>2
    <3> QED
      BY <1>2, <3>3
  <2> QED
    BY <1>2, <2>1, <2>2
<1>5. ASSUME NEW i \in 1..Len(rows'), rows'[i] \in finished PROVE i <= cursorFile
  <2>1. e \notin finished
    BY DEF RepeatInv
  <2>2. i \in 1..Len(rows)
    BY <1>2, <1>5, <2>1
  <2> QED
    BY <1>1, <1>2, <1>5, <2>2 DEF RepeatInv, Behind
<1> QED
  BY <1>4, <1>5 DEF OneOfEach

(* The invariant is inductive, given that of the cursor and of the log.      *)
LEMMA NextRepeatInv == RepeatInv /\ CursorInv /\ IndInv /\ [RNext]_rvars => RepeatInv'
<1> SUFFICES ASSUME RepeatInv, CursorInv, IndInv, [RNext]_rvars PROVE RepeatInv'
  OBVIOUS
<1>0. /\ TypeOK /\ Len(rows) \in Nat /\ cursorFile \in Nat /\ next \in Nat
      /\ proc # "up" => tpc = "sleep"
  BY DEF IndInv, TypeOK, CursorInv
<1>1. CASE RStart
  <2>1. /\ UNCHANGED <<tpc, cursorFile, finished, seen>>
        /\ proc = "down" /\ proc' = "up"
        /\ rows' = Loaded(file) /\ WellFormed(file) /\ file \in Seq(Cell)
    BY <1>0, <1>1 DEF RStart, Start, TypeOK, tickVars
  <2>2. /\ Len(rows') = Len(file) - 1 /\ Len(file) \in Nat
        /\ \A i \in 1..Len(rows') : rows'[i] = file[i]
    <3>1. Len(file) \in Nat
      BY <2>1
    <3>2. Len(rows') = Len(file) - 1 /\ \A i \in 1..(Len(file) - 1) : rows'[i] = file[i]
      BY <2>1, LoadedRows
    <3> QED
      BY <3>1, <3>2
  <2>3. OneOfEach(rows') /\ \A i \in 1..Len(rows') : rows'[i] \in finished => i <= cursorFile
    BY <2>1, <2>2 DEF RepeatInv, OneOfEach, Behind
  <2> QED
    BY <2>1, <2>3 DEF RepeatInv, OneOfEach, Behind
<1>2. CASE RStartFatal
  BY <1>2 DEF RStartFatal, StartFatal, RepeatInv, OneOfEach, Behind, observerVars, tickVars
<1>3. CASE RCrash
  <2>1. /\ UNCHANGED <<cursorFile, file, finished, seen>>
        /\ proc = "up" /\ proc' = "down" /\ tpc' = "sleep"
        /\ OneOfEach(rows) /\ Behind(rows)
    BY <1>3 DEF RCrash, Crash, observerVars, RepeatInv
  <2>2. ASSUME NEW i \in 1..Len(file), file[i] # End
        PROVE  i \in 1..Len(rows) /\ file[i] = rows[i]
    <3>1. i <= Len(rows) /\ file[i] = rows[i]
      BY <2>1, <2>2 DEF IndInv, FileAgrees
    <3> QED
      BY <1>0, <3>1 DEF TypeOK
  <2>3. OneOfEach(file)
    <3> SUFFICES ASSUME NEW i \in 1..Len(file), NEW j \in 1..Len(file),
                        file[i] = file[j], file[i] \notin {End, Note}
                 PROVE  i = j
      BY DEF OneOfEach
    <3>1. /\ i \in 1..Len(rows) /\ file[i] = rows[i]
          /\ j \in 1..Len(rows) /\ file[j] = rows[j]
      BY <2>2
    <3> QED
      BY <2>1, <3>1 DEF OneOfEach
  <2>4. Behind(file)
    BY <2>1, <2>2 DEF Behind, RepeatInv
  <2> QED
    BY <2>1, <2>3, <2>4 DEF RepeatInv, OneOfEach, Behind
<1>4. ASSUME NEW w \in Writers \ {Sched}, NEW e \in Episode, Post(w, e) PROVE RepeatInv'
  <2>1. /\ AppendRow(w, e) /\ e \in Entry
        /\ e \notin {rows[i] : i \in 1..Len(rows)} \union seen
        /\ UNCHANGED <<tickVars, observerVars>>
    BY <1>4 DEF Post, Episode
  <2>2. cursorFile' = cursorFile /\ tpc' = tpc
    BY <2>1 DEF tickVars
  <2> QED
    BY <1>0, <2>1, <2>2, AppendKeepsRepeatInv
<1>5. ASSUME NEW w \in Writers, SaveStep(w), UNCHANGED <<tickVars, observerVars>>
      PROVE  RepeatInv'
  <2>1. UNCHANGED <<rows, proc>> /\ pc[w] # "idle"
    BY <1>5 DEF SaveStep, Marshal, OpenTruncate, OpenFails, WriteOut, WriteFails
  <2>2. proc = "up"
    BY <2>1 DEF IndInv, SnapshotsArePrefixes
  <2> QED
    BY <1>5, <2>1, <2>2 DEF RepeatInv, OneOfEach, Behind, tickVars, observerVars
<1>6. CASE TickBegin
  <2> DEFINE new == NewEpisodes(cursorFile)
             eps == {rows[i] : i \in MostRecent(new)}
  <2>1. /\ seen' = seen \union eps
        /\ UNCHANGED <<rows, proc, cursorFile, finished>>
        /\ proc = "up" /\ tpc' # "write"
    BY <1>6 DEF TickBegin, hvars
  <2>2. ASSUME NEW x \in eps
        PROVE  x # Note /\ x # End
    <3>1. PICK i \in 1..Len(rows) : x = rows[i] /\ rows[i] # Note
      BY DEF MostRecent, NewEpisodes, Since
    <3>2. rows[i] \in Entry
      BY <1>0 DEF TypeOK
    <3> QED
      BY <3>1, <3>2, EndAssumption
  <2> HIDE DEF new, eps
  <2> QED
    BY <2>1, <2>2 DEF RepeatInv, OneOfEach, Behind
<1>7. CASE \/ AnswerLessons \/ AnswerUnusable \/ AnswerDown \/ PutLesson \/ BookReturn
  <2>1. UNCHANGED <<rows, file, proc, cursorFile, seen, finished>> /\ tpc' # "write"
    BY <1>7 DEF AnswerLessons, AnswerUnusable, AnswerDown, PutLesson, BookReturn,
                hvars, observerVars
  <2> QED
    BY <2>1 DEF RepeatInv, OneOfEach, Behind
<1>8. CASE CursorOpen \/ (CursorFails /\ tpc = "write")
  <2>1. /\ UNCHANGED <<rows, proc, seen>> /\ proc = "up"
        /\ finished' = {}
    <3>1. CASE CursorOpen
      BY <1>0, <3>1 DEF CursorOpen, hvars
    <3>2. CASE CursorFails /\ tpc = "write"
      <4>1. UNCHANGED <<rows, proc, seen, finished>>
        BY <3>2 DEF CursorFails, hvars, observerVars
      <4>2. finished = {} /\ proc = "up"
        BY <1>0, <3>2 DEF RepeatInv
      <4> QED
        BY <4>1, <4>2
    <3> QED
      BY <1>8, <3>1, <3>2
  <2> QED
    BY <2>1 DEF RepeatInv, OneOfEach, Behind
<1>9. CASE CursorWrite
  <2>1. /\ UNCHANGED <<rows, file, proc, seen>> /\ proc = "up"
        /\ tpc' = "sleep" /\ cursorFile' = next /\ finished' = seen \intersect Covered(next)
    BY <1>0, <1>9 DEF CursorWrite, hvars
  <2>2. ASSUME NEW i \in 1..Len(rows), rows[i] \in finished' PROVE i <= next
    <3>1. PICK j \in 1..Len(rows) : j <= next /\ rows[i] = rows[j]
      BY <2>1, <2>2 DEF Covered
    <3>2. rows[i] \notin {End, Note} /\ OneOfEach(rows)
      BY <2>1, <2>2 DEF RepeatInv
    <3>3. i = j
      BY <3>1, <3>2 DEF OneOfEach
    <3> QED
      BY <3>1, <3>3
  <2> QED
    BY <2>1, <2>2 DEF RepeatInv, OneOfEach, Behind
<1>10. CASE Book
  <2>1. AppendRow(Sched, Note) /\ UNCHANGED <<cursorFile, observerVars>> /\ tpc' = "book"
    BY <1>10 DEF Book
  <2> QED
    BY <1>0, <2>1, AppendKeepsRepeatInv, SchedAssumption, NoteAssumption
<1>11. CASE BookSave
  BY <1>5, <1>11, SchedAssumption DEF BookSave
<1>12. CASE UNCHANGED rvars
  BY <1>12 DEF rvars, hvars, tickVars, observerVars, RepeatInv, OneOfEach, Behind
<1>13. CASE CursorFails /\ tpc = "open"
  <2>1. UNCHANGED <<rows, file, proc, cursorFile, seen, finished>> /\ tpc' = "sleep"
    BY <1>13 DEF CursorFails, hvars, observerVars
  <2> QED
    BY <2>1 DEF RepeatInv, OneOfEach, Behind
<1>14. CursorFails => tpc = "open" \/ tpc = "write"
  BY DEF CursorFails
<1> QED
  BY <1>1, <1>2, <1>3, <1>4, <1>5, <1>6, <1>7, <1>8, <1>9, <1>10, <1>11, <1>12, <1>13, <1>14
     DEF RNext, PosterStep, PosterSave, SchedStep

(* When the log found at the first start holds each episode once, an episode *)
(* the saved cursor covers is not handed to the reflector again, until a     *)
(* later save of the cursor is cut off: whatever is posted beside the ticks, *)
(* whatever the reflector answers, wherever the process dies, and whichever  *)
(* writes of the log or the cursor fail.                                     *)
THEOREM FinishedStayFinished ==
  ASSUME \A log \in InitialLogs : OneOfEach(log)
  PROVE  RSpec => FinishedNotRepeated
<1>1. RInit => RepeatInv
  <2> SUFFICES ASSUME RInit PROVE RepeatInv
    OBVIOUS
  <2>1. finished = {} /\ seen = {} /\ proc = "down" /\ tpc = "sleep" /\ file \in {Text(log) : log \in InitialLogs}
    BY DEF RInit, Init
  <2>2. PICK log \in InitialLogs : file = Text(log)
    BY <2>1
  <2>3. /\ Len(log) \in Nat /\ Len(file) = Len(log) + 1
        /\ \A i \in 1..Len(log) : file[i] = log[i]
        /\ file[Len(log) + 1] = End
    <3>1. log \in Seq(Entry)
      BY LogsAssumption
    <3> QED
      BY <2>2, <3>1, TextCells
  <2>4. OneOfEach(file)
    <3> SUFFICES ASSUME NEW i \in 1..Len(file), NEW j \in 1..Len(file),
                        file[i] = file[j], file[i] \notin {End, Note}
                 PROVE  i = j
      BY DEF OneOfEach
    <3>1. i # Len(log) + 1 /\ j # Len(log) + 1
      BY <2>3
    <3>2. i \in 1..Len(log) /\ j \in 1..Len(log)
      BY <2>3, <3>1
    <3> QED
      BY <2>3, <3>2 DEF OneOfEach
  <2> QED
    BY <2>1, <2>4 DEF RepeatInv, Behind
<1>2. RepeatInv /\ CursorInv /\ IndInv /\ [RNext]_rvars => RepeatInv'
  BY NextRepeatInv
<1>3. RepeatInv /\ CursorInv /\ IndInv => (TickBegin => window' \intersect finished = {})
  <2> SUFFICES ASSUME RepeatInv, CursorInv, IndInv, TickBegin,
                      NEW x \in window', x \in finished
               PROVE  FALSE
    OBVIOUS
  <2>1. PICK i \in 1..Len(rows) : i > cursorFile /\ x = rows[i]
    BY DEF TickBegin, MostRecent, NewEpisodes, Since
  <2>2. i <= cursorFile
    BY <2>1 DEF TickBegin, RepeatInv, Behind
  <2>3. cursorFile \in Nat /\ Len(rows) \in Nat
    BY DEF CursorInv, IndInv, TypeOK
  <2> QED
    BY <2>1, <2>2, <2>3
<1> QED
  BY <1>1, <1>2, <1>3, CursorInvHolds, StoreInvHolds, PTL DEF RSpec, FinishedNotRepeated
=============================================================================
