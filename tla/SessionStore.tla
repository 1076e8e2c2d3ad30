---------------------------- MODULE SessionStore ----------------------------
(***************************************************************************)
(* Working memory: internal/session (store.go, compaction.go,              *)
(* summarize.go) and its eviction hook into the history log (httpapi.New). *)
(*                                                                         *)
(* A dispatch gets its ids when it is parsed and calls AppendRun when its  *)
(* mode has answered.  AppendRun appends the run, compacts the session and *)
(* rewrites sessions.json under one mutex; then, outside it and only if    *)
(* the save succeeded, the hook appends each evicted run to the history    *)
(* log, through the steps of HistoryStore.                                 *)
(*                                                                         *)
(* A run keeps what compaction looks at: its id and its text.  size and    *)
(* score are what runChars and scoreRun make of the text while the process *)
(* that made the run is alive.  The stream fallback stores its agents as a *)
(* map[string]string, which the map[string]any type assertions of          *)
(* compaction.go only see once the run has been through the file: hidden   *)
(* more bytes then, and the score rescore.  n numbers the runs, so that    *)
(* the properties can tell them apart when their ids clash.                *)
(***************************************************************************)
EXTENDS HistoryStore, Functions

CONSTANTS
  Named,         \* session ids a client may supply
  Fresh,         \* the absence of a session id: dispatch mints one
  Asked,         \* what requests ask for, a subset of Named \union {Fresh}
  NoOne,         \* nobody holds the session mutex
  Torn,          \* a sessions.json that is not a JSON document
  MaxClock,      \* bound on the wall clock, in ms
  MaxRuns,       \* bound on the number of dispatches
  Texts,         \* the texts of runs, by their lengths and scores
  Budget,        \* defaultSessionBudgetChars
  SummaryCap     \* digests that fit in summaryMaxChars

ASSUME NamesAssumption   == Asked \subseteq Named \union {Fresh} /\ Fresh \notin Named
ASSUME NoOneAssumption   == NoOne \notin Writers
ASSUME BoundsAssumption  == MaxClock \in Nat /\ MaxRuns \in Nat
ASSUME TextsAssumption   == Texts \subseteq [size : Nat, hidden : Nat, score : Nat, rescore : Nat]
ASSUME BudgetsAssumption == Budget \in Nat /\ SummaryCap \in Nat

VARIABLES
  clock,     \* time.Now().UnixMilli()
  count,     \* dispatches so far
  doc,       \* Store.doc
  smu,       \* who holds Store.mu for writing
  sfile,     \* sessions.json
  spc,       \* where each handler is
  run,       \* the run the handler's dispatch will append
  evicted,   \* runs the handler has still to hand to the hook
  serr,      \* observer: whether the last save of sessions.json failed
  done,      \* observer: runs whose AppendRun returned nil
  latest,    \* observer: the last run appended to each session
  clash,     \* observer: sessions where a run got the id of an earlier one
  minted,    \* observer: for each minted session, the runs that minted it
  lost,      \* observer: runs evicted by an AppendRun whose save failed
  restarted  \* observer: whether the process has died at least once

memVars     == <<doc, smu, sfile, spc, run, evicted>>
sessObsVars == <<serr, done, latest, clash, minted, lost, restarted>>
svars       == <<hvars, clock, count, memVars, sessObsVars>>

Session == Named \union (0..MaxClock)
SPC     == {"idle", "running", "locked", "write", "handoff"}
NoRun   == [n |-> 0]
Run     == [n : 1..MaxRuns, session : Session, id : 0..MaxClock,
            text : Texts, whole : BOOLEAN]  \* whole: it has been through the file

\* What sessions.json holds of a session, and the whole document.
Memory   == {m \in [runs : Seq(Run), summary : Seq(1..MaxRuns)] : Len(m.summary) <= SummaryCap}
Document == [Session -> Memory]

ASSUME TornAssumption == Torn \notin Document
------------------------------------------------------------------------------
\* runChars and scoreRun.
Chars(r) == r.text.size + IF r.whole THEN r.text.hidden ELSE 0
Score(r) == IF r.whole THEN r.text.rescore ELSE r.text.score

\* RunsToDrop: walk the runs other than the last from the weakest to the strongest, the
\* older first among equals, dropping each while the rest is still over the budget.
SizeOf(runs, I) == SumFunctionOnSet([i \in 1..Len(runs) |-> Chars(runs[i])], I)

Weaker(runs, i) == {j \in 1..(Len(runs) - 1) :
                      \/ Score(runs[j]) < Score(runs[i])
                      \/ Score(runs[j]) = Score(runs[i]) /\ j < i}

\* Mutant: the last run is a candidate too.
RunsToDropAny(runs) ==
  {runs[i].id : i \in {j \in 1..Len(runs) :
                         SizeOf(runs, 1..Len(runs) \ Weaker(runs, j)) > Budget}}

\* Mutant: one run is dropped, whatever the rest still weighs.
RunsToDropOne(runs) ==
  {runs[i].id : i \in {j \in 1..(Len(runs) - 1) :
                         SizeOf(runs, 1..Len(runs)) > Budget /\ Weaker(runs, j) = {}}}

RunsToDrop(runs) ==
  {runs[i].id : i \in {j \in 1..(Len(runs) - 1) :
                         SizeOf(runs, 1..Len(runs) \ Weaker(runs, j)) > Budget}}

\* The elements of s at the indexes I, in their order.
SelectAt(s, I) ==
  LET at == CHOOSE f \in [1..Cardinality(I) -> I] :
              \A i, j \in 1..Cardinality(I) : i < j => f[i] < f[j]
  IN  [k \in 1..Cardinality(I) |-> s[at[k]]]

\* compactSession: everything that has one of those ids goes; its digests join the
\* summary, of which the tail is kept.
Marked(runs)  == {i \in 1..Len(runs) : runs[i].id \in RunsToDrop(runs)}
Dropped(runs) == SelectAt(runs, Marked(runs))
Kept(runs)    == SelectAt(runs, (1..Len(runs)) \ Marked(runs))

LastOf(s, k)   == IF Len(s) <= k THEN s ELSE SubSeq(s, Len(s) - k + 1, Len(s))

FoldSummary(summary, dropped) ==
  IF dropped = <<>> THEN summary
  ELSE LastOf(summary \o [i \in 1..Len(dropped) |-> dropped[i].n], SummaryCap)

EmptySession == [runs |-> <<>>, summary |-> <<>>]

\* Unmarshalling turns every agents field into map[string]any, which runChars counts.
Reloaded(r) == [r EXCEPT !.whole = TRUE]

ReloadedDoc(f) ==
  [s \in Session |-> [f[s] EXCEPT !.runs = [i \in 1..Len(@) |-> Reloaded(@[i])]]]
------------------------------------------------------------------------------
SInit == /\ Init
         /\ clock   = 0
         /\ count   = 0
         /\ doc     = [s \in Session |-> EmptySession]
         /\ sfile   = doc
         /\ smu     = NoOne
         /\ spc     = [h \in Writers |-> "idle"]
         /\ run     = [h \in Writers |-> NoRun]
         /\ evicted = [h \in Writers |-> <<>>]
         /\ serr    = FALSE
         /\ done    = {}
         /\ latest  = [s \in Session |-> 0]
         /\ clash   = {}
         /\ minted  = [s \in Session |-> {}]
         /\ lost = {}
         /\ restarted = FALSE

Tick == /\ clock < MaxClock
        /\ clock' = clock + 1
        /\ UNCHANGED <<hvars, count, memVars, sessObsVars>>

\* main: sessions first, then the history; either failure is fatal.  So is a file that
\* is there and cannot be read: it stays as it is and the next start reads it anew.
SStart == /\ Start
          /\ sfile # Torn
          /\ doc' = ReloadedDoc(sfile)
          /\ UNCHANGED <<clock, count, smu, sfile, spc, run, evicted, sessObsVars>>

SStartFatal == /\ \/ StartFatal
                  \/ /\ proc = "down"
                     /\ sfile = Torn
                     /\ proc' = "fatal"
                     /\ UNCHANGED <<rows, file, pc, mine, snap, err, acked>>
               /\ UNCHANGED <<clock, count, memVars, sessObsVars>>

SCrash == /\ Crash
          /\ doc'     = [s \in Session |-> EmptySession]
          /\ smu'     = NoOne
          /\ spc'     = [h \in Writers |-> "idle"]
          /\ run'     = [h \in Writers |-> NoRun]
          /\ evicted' = [h \in Writers |-> <<>>]
          /\ serr'    = FALSE
          /\ restarted' = TRUE
          /\ UNCHANGED <<clock, count, sfile, done, latest, clash, minted, lost>>

\* prepare.Parse: NewID is the prefix and the current millisecond, nothing else.
Parse(h, ask) ==
  LET s == IF ask = Fresh THEN clock ELSE ask
      n == count + 1
  IN  /\ proc = "up"
      /\ spc[h] = "idle"
      /\ count < MaxRuns
      /\ count' = n
      /\ \E text \in Texts :
           run' = [run EXCEPT ![h] = [n |-> n, session |-> s, id |-> clock,
                                      text |-> text, whole |-> FALSE]]
      /\ spc' = [spc EXCEPT ![h] = "running"]
      /\ minted' = IF ask = Fresh THEN [minted EXCEPT ![s] = @ \union {n}] ELSE minted
      /\ UNCHANGED <<hvars, clock, doc, smu, sfile, evicted, serr, done, latest, clash,
                     lost, restarted>>

\* Mutant: the mutex is released before the save, as in history/store.go.
AppendRunUnlocked(h) ==
  LET r    == run[h]
      s    == r.session
      runs == Append(doc[s].runs, r)
  IN  /\ spc[h] = "running"
      /\ smu = NoOne
      /\ spc'     = [spc EXCEPT ![h] = "locked"]
      /\ doc'     = [doc EXCEPT ![s] = [runs    |-> Kept(runs),
                                        summary |-> FoldSummary(@.summary, Dropped(runs))]]
      /\ evicted' = [evicted EXCEPT ![h] = Dropped(runs)]
      /\ latest'  = [latest EXCEPT ![s] = r.n]
      /\ clash'   = IF \E i \in 1..Len(doc[s].runs) : doc[s].runs[i].id = r.id
                    THEN clash \union {s} ELSE clash \ {s}
      /\ UNCHANGED <<hvars, clock, count, smu, sfile, run, serr, done, minted,
                     lost, restarted>>

\* AppendRun, under the mutex: append, compact, fold.
AppendRun(h) ==
  LET r    == run[h]
      s    == r.session
      runs == Append(doc[s].runs, r)
  IN  /\ spc[h] = "running"
      /\ smu = NoOne
      /\ smu'     = h
      /\ spc'     = [spc EXCEPT ![h] = "locked"]
      /\ doc'     = [doc EXCEPT ![s] = [runs    |-> Kept(runs),
                                        summary |-> FoldSummary(@.summary, Dropped(runs))]]
      /\ evicted' = [evicted EXCEPT ![h] = Dropped(runs)]
      /\ latest'  = [latest EXCEPT ![s] = r.n]
      /\ clash'   = IF \E i \in 1..Len(doc[s].runs) : doc[s].runs[i].id = r.id
                    THEN clash \union {s} ELSE clash \ {s}
      /\ UNCHANGED <<hvars, clock, count, sfile, run, serr, done, minted,
                     lost, restarted>>

\* saveLocked: truncate, then write, still under the mutex.
SaveTruncate(h) == /\ spc[h] = "locked"
                   /\ sfile' = Torn
                   /\ spc' = [spc EXCEPT ![h] = "write"]
                   /\ UNCHANGED <<hvars, clock, count, doc, smu, run, evicted, sessObsVars>>

SaveWrite(h) == /\ spc[h] = "write"
                /\ sfile' = doc
                /\ smu'   = NoOne
                /\ spc'   = [spc EXCEPT ![h] = IF evicted[h] = <<>> THEN "idle" ELSE "handoff"]
                /\ serr'  = FALSE
                /\ done'  = done \union {run[h].n}
                /\ UNCHANGED <<hvars, clock, count, doc, run, evicted, latest, clash, minted,
                               lost, restarted>>

\* Mutant: the evicted runs are handed off although the session was not saved.
SaveFailsHandsOff(h) == /\ "disk" \in Faults
                        /\ spc[h] \in {"locked", "write"}
                        /\ smu'  = NoOne
                        /\ spc'  = [spc EXCEPT ![h] = "handoff"]
                        /\ serr' = TRUE
                        /\ UNCHANGED <<hvars, clock, count, doc, sfile, run, evicted, done,
                                       latest, clash, minted, lost, restarted>>

\* The error is returned, and the handler drops it together with the evicted runs.
SaveFails(h) == /\ "disk" \in Faults
                /\ spc[h] \in {"locked", "write"}
                /\ smu'     = NoOne
                /\ spc'     = [spc EXCEPT ![h] = "idle"]
                /\ evicted' = [evicted EXCEPT ![h] = <<>>]
                /\ serr'    = TRUE
                /\ lost' = lost \union {evicted[h][i].n : i \in 1..Len(evicted[h])}
                /\ UNCHANGED <<hvars, clock, count, doc, sfile, run, done, latest, clash, minted,
                               restarted>>

\* Mutant: only the first of the evicted runs is handed off.
HandOffFirst(h) == /\ spc[h] = "handoff"
                   /\ evicted[h] # <<>>
                   /\ AppendRow(h, Head(evicted[h]))
                   /\ evicted' = [evicted EXCEPT ![h] = <<>>]
                   /\ UNCHANGED <<clock, count, doc, smu, sfile, spc, run, sessObsVars>>

\* The hook: one history Append per evicted run, each to its end; errors are logged.
HandOff(h) == /\ spc[h] = "handoff"
              /\ evicted[h] # <<>>
              /\ AppendRow(h, Head(evicted[h]))
              /\ evicted' = [evicted EXCEPT ![h] = Tail(@)]
              /\ UNCHANGED <<clock, count, doc, smu, sfile, spc, run, sessObsVars>>

HandOffSave(h) == SaveStep(h) /\ UNCHANGED <<clock, count, memVars, sessObsVars>>

HandOffDone(h) == /\ spc[h] = "handoff"
                  /\ evicted[h] = <<>>
                  /\ pc[h] = "idle"
                  /\ spc' = [spc EXCEPT ![h] = "idle"]
                  /\ UNCHANGED <<hvars, clock, count, doc, smu, sfile, run, evicted, sessObsVars>>

HandlerStep(h) == \/ \E ask \in Asked : Parse(h, ask)
                  \/ AppendRun(h)
                  \/ SaveTruncate(h)
                  \/ SaveWrite(h)
                  \/ SaveFails(h)
                  \/ HandOff(h)
                  \/ HandOffSave(h)
                  \/ HandOffDone(h)

SNext == \/ Tick
         \/ SStart
         \/ SStartFatal
         \/ SCrash
         \/ \E h \in Writers : HandlerStep(h)

SSpec == SInit /\ [][SNext]_svars
------------------------------------------------------------------------------
STypeOK == /\ TypeOK
           /\ clock \in 0..MaxClock
           /\ count \in 0..MaxRuns
           /\ \A s \in Session : /\ doc[s].runs \in Seq(Run)
                                 /\ doc[s].summary \in Seq(1..MaxRuns)
                                 /\ Len(doc[s].summary) <= SummaryCap
           /\ smu \in Writers \union {NoOne}
           /\ spc \in [Writers -> SPC]
           /\ \A h \in Writers : /\ run[h] \in Run \union {NoRun}
                                 /\ evicted[h] \in Seq(Run)
           /\ serr \in BOOLEAN
           /\ done \subseteq 1..MaxRuns
           /\ lost \subseteq 1..MaxRuns
           /\ restarted \in BOOLEAN

Working(s) == {doc[s].runs[i].n : i \in 1..Len(doc[s].runs)}
AtWork     == UNION {Working(s) : s \in Session}
Pending    == UNION {{evicted[h][i].n : i \in 1..Len(evicted[h])} : h \in Writers}
Episodic   == {rows[i].n : i \in 1..Len(rows)}

(* "Working-memory evictions become episodic history" (httpapi.New): a run    *)
(* whose AppendRun succeeded is in its session, on its way to the history     *)
(* log, or in it.                                                             *)
NoRunLost == proc = "up" =>
  done \subseteq AtWork \union Pending \union Episodic

(* The same until the process dies, the runs that AppendRuns with failing     *)
(* saves have evicted left aside: any other failing save, of either file,     *)
(* loses nothing, and neither do concurrent handlers.                         *)
NoOtherRunLost == proc = "up" /\ ~restarted =>
  done \subseteq AtWork \union Pending \union Episodic \union lost

(* Even when saves fail, the process dies anywhere and restarts, a run enters *)
(* the history log at most once, and a run in the history is not also still   *)
(* in the working set that was persisted.                                     *)
HandedOffOnce == proc = "up" =>
  /\ \A i, j \in 1..Len(rows) : rows[i].n = rows[j].n => i = j
  /\ \A s \in Session : Working(s) \intersect Episodic = {}

(* "The latest run is always preserved" (compactSession): the run appended    *)
(* last to a session is still in it.                                          *)
LatestRunKept == proc = "up" =>
  \A s \in Session : latest[s] \in done => latest[s] \in Working(s)

(* The same, for sessions where no run was given the id of an older one.      *)
LatestRunKeptUnlessClash == proc = "up" =>
  \A s \in Session \ clash : latest[s] \in done => latest[s] \in Working(s)

(* A session that an AppendRun leaves with several runs holds at most Budget  *)
(* bytes of the text compaction counts (compactSession).  A reload adds to    *)
(* that nothing but the agents of stream fallbacks, which compaction only     *)
(* sees from then on, and the next AppendRun brings the whole back within     *)
(* the budget.                                                                *)
WorkingSetBounded ==
  \A s \in Session :
    LET runs    == doc[s].runs
        visible == [i \in 1..Len(runs) |-> runs[i].text.size]
    IN  Len(runs) > 1 =>
          /\ SumFunctionOnSet(visible, 1..Len(runs)) <= Budget
          /\ (\E i \in 1..Len(runs) : ~runs[i].whole) => SizeOf(runs, 1..Len(runs)) <= Budget

(* All text of a session's runs is within the budget, or one run is all there *)
(* is: refuted, by a run of the stream fallback.                              *)
AllTextBounded ==
  \A s \in Session :
    LET runs == doc[s].runs
    IN  Len(runs) > 1 =>
          SumFunctionOnSet([i \in 1..Len(runs) |-> runs[i].text.size + runs[i].text.hidden],
                           1..Len(runs)) <= Budget

(* Unlike the history log, sessions.json is written under the mutex: when no  *)
(* save is under way and the last one did not fail, it holds exactly the      *)
(* document in memory, however many handlers append concurrently.             *)
SessionsSaved == proc = "up" /\ smu = NoOne /\ ~serr =>
  sfile # Torn /\ ReloadedDoc(sfile) = ReloadedDoc(doc)

(* The session event tells a client which conversation is its own             *)
(* (sse-events.md): two requests without a session id get different sessions. *)
FreshSessionsDistinct == \A s \in Session : Cardinality(minted[s]) <= 1
=============================================================================
