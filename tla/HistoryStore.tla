---------------------------- MODULE HistoryStore ----------------------------
(***************************************************************************)
(* The episodic history log: internal/history/store.go.                    *)
(*                                                                         *)
(* Goroutines (HTTP handlers of POST /api/history/entry, the eviction hook *)
(* and the reflection scheduler) call Append.  Append extends the rows     *)
(* under the mutex, but marshals them under a second, separate lock and    *)
(* writes the file with no lock at all, and os.WriteFile is itself two     *)
(* steps: open with O_TRUNC, then write.  Each of those is a step here.    *)
(*                                                                         *)
(* The text of the file is a sequence of cells: one per row, then the cell *)
(* End for the closing bracket.  A write puts its cells over the beginning *)
(* of what is there, as write(2) on a descriptor at offset 0 does, so the  *)
(* tail of a longer text survives under a shorter one.  A file that does   *)
(* not exist loads as the empty log, which is also what <<End>> loads as:  *)
(* the two are one state.                                                  *)
(***************************************************************************)
EXTENDS Naturals, Sequences, FiniteSets

CONSTANTS
  Writers,      \* goroutines that append
  Entry,        \* the history entries (their content is opaque to the store)
  End,          \* the closing bracket of the JSON array
  MaxRows,      \* bound on the length of the log
  InitialLogs,  \* the logs a first start may find on disk
  Faults        \* which faults the environment produces

ASSUME EndAssumption     == End \notin Entry
ASSUME MaxRowsAssumption == MaxRows \in Nat
ASSUME LogsAssumption    == InitialLogs \subseteq Seq(Entry)
ASSUME FaultsAssumption  == Faults \subseteq {"crash", "disk"}

VARIABLES
  proc,   \* "down", "up", or "fatal": main called log.Fatal on a failed Load
  rows,   \* Store.rows
  file,   \* the cells of history.json
  pc,     \* where each goroutine is in Append
  mine,   \* index in rows of the row the goroutine's current call appended
  snap,   \* the rows the goroutine has marshalled
  err,    \* whether the goroutine's last call returned an error
  acked   \* observer: <<index, entry>> of every Append that returned nil

storeVars == <<proc, rows, file, pc, mine, snap, err>>
hvars     == <<proc, rows, file, pc, mine, snap, err, acked>>

Cell == Entry \union {End}
PC   == {"idle", "marshal", "open", "write"}
------------------------------------------------------------------------------
Text(log) == Append(log, End)

\* Load accepts exactly one JSON array: anything missing, or left over, is a parse error.
WellFormed(f) == /\ f # <<>>
                 /\ f[Len(f)] = End
                 /\ \A i \in 1..(Len(f) - 1) : f[i] # End

Loaded(f) == SubSeq(f, 1, Len(f) - 1)

Overlay(f, t) == t \o SubSeq(f, Len(t) + 1, Len(f))

Init == /\ proc  = "down"
        /\ rows  = <<>>
        /\ file \in {Text(log) : log \in InitialLogs}
        /\ pc    = [w \in Writers |-> "idle"]
        /\ mine  = [w \in Writers |-> 0]
        /\ snap  = [w \in Writers |-> <<>>]
        /\ err   = [w \in Writers |-> FALSE]
        /\ acked = {}

\* Mutant: the closing bracket is taken for a row.
StartRaw == /\ proc = "down"
            /\ WellFormed(file)
            /\ proc' = "up"
            /\ rows' = file
            /\ UNCHANGED <<file, pc, mine, snap, err, acked>>

\* New: Load at start-up.  main exits through log.Fatal when it fails.
Start == /\ proc = "down"
         /\ WellFormed(file)
         /\ proc' = "up"
         /\ rows' = Loaded(file)
         /\ UNCHANGED <<file, pc, mine, snap, err, acked>>

\* Mutant: a file that does not parse is taken for the empty log.
StartAnew == /\ proc = "down"
             /\ ~WellFormed(file)
             /\ proc' = "up"
             /\ UNCHANGED <<rows, file, pc, mine, snap, err, acked>>

\* A read error other than a missing file ends the start alike, and the next start finds
\* the same file: it changes nothing here, while a file that does not parse is final.
StartFatal == /\ proc = "down"
              /\ ~WellFormed(file)
              /\ proc' = "fatal"
              /\ UNCHANGED <<rows, file, pc, mine, snap, err, acked>>

\* Append, first critical section: s.rows = append(s.rows, entry).
AppendRow(w, e) == /\ proc = "up"
                   /\ pc[w] = "idle"
                   /\ Len(rows) < MaxRows
                   /\ rows' = Append(rows, e)
                   /\ mine' = [mine EXCEPT ![w] = Len(rows) + 1]
                   /\ pc'   = [pc EXCEPT ![w] = "marshal"]
                   /\ UNCHANGED <<proc, file, snap, err, acked>>

\* Mutant: Append answers before the file is written.
MarshalAcks(w) == /\ pc[w] = "marshal"
                  /\ snap' = [snap EXCEPT ![w] = rows]
                  /\ pc'   = [pc EXCEPT ![w] = "open"]
                  /\ acked' = acked \union {<<mine[w], rows[mine[w]]>>}
                  /\ UNCHANGED <<proc, rows, file, mine, err>>

\* saveUnlocked, second critical section: marshal whatever the rows are by now.
Marshal(w) == /\ pc[w] = "marshal"
              /\ snap' = [snap EXCEPT ![w] = rows]
              /\ pc'   = [pc EXCEPT ![w] = "open"]
              /\ UNCHANGED <<proc, rows, file, mine, err, acked>>

\* writeFile: os.WriteFile opens with O_TRUNC ...
OpenTruncate(w) == /\ pc[w] = "open"
                   /\ file' = <<>>
                   /\ pc'   = [pc EXCEPT ![w] = "write"]
                   /\ UNCHANGED <<proc, rows, mine, snap, err, acked>>

\* Mutant: the error of the open is dropped.
OpenFailsSilently(w) == /\ "disk" \in Faults
                        /\ pc[w] = "open"
                        /\ pc'   = [pc EXCEPT ![w] = "idle"]
                        /\ err'  = [err EXCEPT ![w] = FALSE]
                        /\ UNCHANGED <<proc, rows, file, mine, snap, acked>>

\* ... unless MkdirAll or the open fails: the file is untouched, the row stays in memory.
OpenFails(w) == /\ "disk" \in Faults
                /\ pc[w] = "open"
                /\ pc'   = [pc EXCEPT ![w] = "idle"]
                /\ err'  = [err EXCEPT ![w] = TRUE]
                /\ UNCHANGED <<proc, rows, file, mine, snap, acked>>

\* Mutant: the file is opened for appending.
WriteAtEnd(w) == /\ pc[w] = "write"
                 /\ file'  = file \o Text(snap[w])
                 /\ pc'    = [pc EXCEPT ![w] = "idle"]
                 /\ err'   = [err EXCEPT ![w] = FALSE]
                 /\ acked' = acked \union {<<mine[w], snap[w][mine[w]]>>}
                 /\ UNCHANGED <<proc, rows, mine, snap>>

\* The write, and with it Append's nil return.
WriteOut(w) == /\ pc[w] = "write"
               /\ file'  = Overlay(file, Text(snap[w]))
               /\ pc'    = [pc EXCEPT ![w] = "idle"]
               /\ err'   = [err EXCEPT ![w] = FALSE]
               /\ acked' = acked \union {<<mine[w], snap[w][mine[w]]>>}
               /\ UNCHANGED <<proc, rows, mine, snap>>

\* A failed write leaves any proper prefix of the text behind.
WriteFails(w) == /\ "disk" \in Faults
                 /\ pc[w] = "write"
                 /\ \E k \in 0..Len(snap[w]) :
                      file' = Overlay(file, SubSeq(Text(snap[w]), 1, k))
                 /\ pc'  = [pc EXCEPT ![w] = "idle"]
                 /\ err' = [err EXCEPT ![w] = TRUE]
                 /\ UNCHANGED <<proc, rows, mine, snap, acked>>

\* The process dies: a signal, a panic outside net/http, or exit at the end of main
\* while goroutines are still inside Append.
Crash == /\ "crash" \in Faults
         /\ proc = "up"
         /\ proc' = "down"
         /\ rows' = <<>>
         /\ pc'   = [w \in Writers |-> "idle"]
         /\ mine' = [w \in Writers |-> 0]
         /\ snap' = [w \in Writers |-> <<>>]
         /\ err'  = [w \in Writers |-> FALSE]
         /\ UNCHANGED <<file, acked>>

\* saveUnlocked, after the row is in memory.
SaveStep(w) == \/ Marshal(w)
               \/ OpenTruncate(w)
               \/ OpenFails(w)
               \/ WriteOut(w)
               \/ WriteFails(w)

Next == \/ Start
        \/ StartFatal
        \/ Crash
        \/ \E w \in Writers, e \in Entry : AppendRow(w, e)
        \/ \E w \in Writers : SaveStep(w)

Spec == Init /\ [][Next]_hvars
------------------------------------------------------------------------------
TypeOK == /\ proc \in {"down", "up", "fatal"}
          /\ rows \in Seq(Entry)
          /\ file \in Seq(Cell)
          /\ pc \in [Writers -> PC]
          /\ mine \in [Writers -> Nat]
          /\ snap \in [Writers -> Seq(Entry)]
          /\ err \in [Writers -> BOOLEAN]
          /\ acked \subseteq ((Nat \ {0}) \X Entry)

(* However the truncations and writes of concurrent Append calls overlap, and *)
(* whatever part of a text a failed write leaves, every row on disk is the    *)
(* row at the same index in memory: a reload can lose rows of the log, but    *)
(* never reorder, duplicate or invent one.                                    *)
FileAgrees == proc = "up" =>
                \A i \in 1..Len(file) :
                  \/ file[i] = End
                  \/ i <= Len(rows) /\ file[i] = rows[i]

(* "The log is append-only, so the index is a stable watermark across         *)
(* restarts" (store.go, Since): while the process is up, including after any  *)
(* number of restarts, every entry whose Append returned nil is still at the  *)
(* index it was given.                                                        *)
StableWatermark == proc = "up" =>
                     \A a \in acked : a[1] <= Len(rows) /\ rows[a[1]] = a[2]

(* Why FileAgrees holds.  A goroutine inside saveUnlocked holds a prefix of   *)
(* the rows that contains its own row, so any mixture of such texts agrees    *)
(* with the rows; outside a running process no call is in progress.           *)
SnapshotsArePrefixes ==
  /\ proc # "up" => \A w \in Writers : pc[w] = "idle"
  /\ \A w \in Writers : pc[w] = "marshal" => mine[w] \in 1..Len(rows)
  /\ \A w \in Writers : pc[w] \in {"open", "write"} =>
       /\ mine[w] \in 1..Len(snap[w])
       /\ Len(snap[w]) <= Len(rows)
       /\ \A i \in 1..Len(snap[w]) : snap[w][i] = rows[i]

\* The inductive invariant of the store.
IndInv == TypeOK /\ SnapshotsArePrefixes /\ FileAgrees
=============================================================================
