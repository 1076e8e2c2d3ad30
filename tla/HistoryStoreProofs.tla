------------------------- MODULE HistoryStoreProofs -------------------------
(* What HistoryStore and HistoryOverlaps guarantee for any set of writers,   *)
(* any entries and any bound.                                                *)
EXTENDS HistoryOverlaps, SequenceTheorems, TLAPS

(* The cells of a text written over a file: those of the text first, then    *)
(* what is left of a longer file.                                            *)
LEMMA OverlayCells ==
  ASSUME NEW S, NEW f \in Seq(S), NEW t \in Seq(S)
  PROVE  /\ Overlay(f, t) \in Seq(S)
         /\ Len(Overlay(f, t)) = IF Len(f) > Len(t) THEN Len(f) ELSE Len(t)
         /\ \A i \in 1..Len(Overlay(f, t)) :
              Overlay(f, t)[i] = IF i <= Len(t) THEN t[i] ELSE f[i]
<1> DEFINE r == SubSeq(f, Len(t) + 1, Len(f))
<1>1. /\ r \in Seq(S)
      /\ Len(r) = IF Len(f) > Len(t) THEN Len(f) - Len(t) ELSE 0
      /\ \A j \in 1..Len(r) : r[j] = f[Len(t) + j]
  OBVIOUS
<1> HIDE DEF r
<1>2. /\ t \o r \in Seq(S)
      /\ Len(t \o r) = Len(t) + Len(r)
      /\ \A i \in 1..Len(t \o r) :
           (t \o r)[i] = IF i <= Len(t) THEN t[i] ELSE r[i - Len(t)]
  BY <1>1
<1>3. Overlay(f, t) = t \o r
  BY DEF Overlay, r
<1> QED
  BY <1>1, <1>2, <1>3

(* The cells of the marshalled log.                                          *)
LEMMA TextCells ==
  ASSUME NEW log \in Seq(Entry)
  PROVE  /\ Text(log) \in Seq(Cell)
         /\ Len(Text(log)) = Len(log) + 1
         /\ \A i \in 1..Len(log) : Text(log)[i] = log[i]
         /\ Text(log)[Len(log) + 1] = End
<1>1. log \in Seq(Cell) /\ End \in Cell
  BY DEF Cell
<1> QED
  BY <1>1 DEF Text

(* The rows of a file that Load accepts, and its text again.                 *)
LEMMA LoadedRows ==
  ASSUME NEW f \in Seq(Cell), WellFormed(f)
  PROVE  /\ Loaded(f) \in Seq(Entry)
         /\ Len(Loaded(f)) = Len(f) - 1
         /\ \A i \in 1..(Len(f) - 1) : Loaded(f)[i] = f[i]
         /\ f = Text(Loaded(f))
<1>1. Len(f) \in Nat \ {0}
  BY DEF WellFormed
<1>2. \A i \in 1..(Len(f) - 1) : f[i] \in Entry
  BY <1>1 DEF WellFormed, Cell
<1>3. /\ Loaded(f) \in Seq(Entry)
      /\ Len(Loaded(f)) = IF 1 <= Len(f) - 1 THEN Len(f) - 1 - 1 + 1 ELSE 0
      /\ \A i \in 1..(Len(f) - 1 - 1 + 1) : Loaded(f)[i] = f[1 + i - 1]
  BY <1>1, <1>2, SubSeqProperties DEF Loaded
<1>4. /\ Len(Loaded(f)) = Len(f) - 1
      /\ \A i \in 1..(Len(f) - 1) : Loaded(f)[i] = f[i]
  <2>0. \A n \in Nat \ {0} : n - 1 - 1 + 1 = n - 1 /\ (~(1 <= n - 1) => n - 1 = 0)
    OBVIOUS
  <2>1. Len(f) - 1 - 1 + 1 = Len(f) - 1 /\ (~(1 <= Len(f) - 1) => Len(f) - 1 = 0)
    BY <1>1, <2>0
  <2>2. ASSUME NEW i \in 1..(Len(f) - 1) PROVE Loaded(f)[i] = f[i]
    <3>1. 1 + i - 1 = i
      OBVIOUS
    <3> QED
      BY <1>3, <2>1, <3>1
  <2> QED
    BY <1>3, <2>1, <2>2
<1>5. f = Text(Loaded(f))
  <2>1. /\ Text(Loaded(f)) \in Seq(Cell)
        /\ Len(Text(Loaded(f))) = Len(f)
    BY <1>1, <1>3, <1>4, TextCells
  <2>2. \A i \in 1..Len(f) : Text(Loaded(f))[i] = f[i]
    BY <1>1, <1>3, <1>4, TextCells DEF WellFormed
  <2> QED
    BY <2>1, <2>2, SeqEqual
<1> QED
  BY <1>3, <1>4, <1>5
------------------------------------------------------------------------------
(* A prefix of the text of some rows that agree with the log, written over a *)
(* file that agrees with the log, leaves a file that agrees with the log.    *)
LEMMA OverlayAgrees ==
  ASSUME NEW log \in Seq(Entry), NEW s \in Seq(Entry), NEW f \in Seq(Cell),
         NEW t \in Seq(Cell),
         Len(s) <= Len(log),
         \A i \in 1..Len(s) : s[i] = log[i],
         Len(t) <= Len(s) + 1,
         \A i \in 1..Len(t) : t[i] = Text(s)[i],
         \A i \in 1..Len(f) : f[i] = End \/ (i <= Len(log) /\ f[i] = log[i])
  PROVE  \A i \in 1..Len(Overlay(f, t)) :
            \/ Overlay(f, t)[i] = End
            \/ i <= Len(log) /\ Overlay(f, t)[i] = log[i]
<1> SUFFICES ASSUME NEW i \in 1..Len(Overlay(f, t))
             PROVE  \/ Overlay(f, t)[i] = End
                    \/ i <= Len(log) /\ Overlay(f, t)[i] = log[i]
  OBVIOUS
<1>1. Len(Overlay(f, t)) = IF Len(f) > Len(t) THEN Len(f) ELSE Len(t)
  BY OverlayCells
<1>2. Overlay(f, t)[i] = IF i <= Len(t) THEN t[i] ELSE f[i]
  BY OverlayCells
<1>3. CASE i <= Len(t)
  <2>1. t[i] = Text(s)[i] /\ i \in 1..(Len(s) + 1)
    BY <1>3
  <2>2. Text(s)[i] = IF i <= Len(s) THEN s[i] ELSE End
    BY <2>1, TextCells
  <2> QED
    BY <1>2, <1>3, <2>1, <2>2
<1>4. CASE i > Len(t)
  BY <1>1, <1>2, <1>4
<1> QED
  BY <1>3, <1>4

(* The part of the text a failed write leaves behind.                        *)
LEMMA PartialText ==
  ASSUME NEW s \in Seq(Entry), NEW k \in 0..Len(s)
  PROVE  /\ SubSeq(Text(s), 1, k) \in Seq(Cell)
         /\ Len(SubSeq(Text(s), 1, k)) = k
         /\ \A i \in 1..k : SubSeq(Text(s), 1, k)[i] = Text(s)[i]
<1>1. \A i \in 1..k : Text(s)[i] \in Cell
  BY TextCells, ElementOfSeq DEF Cell
<1>2. /\ SubSeq(Text(s), 1, k) \in Seq(Cell)
      /\ Len(SubSeq(Text(s), 1, k)) = IF 1 <= k THEN k - 1 + 1 ELSE 0
      /\ \A i \in 1..(k - 1 + 1) : SubSeq(Text(s), 1, k)[i] = Text(s)[1 + i - 1]
  BY <1>1, SubSeqProperties
<1> QED
  BY <1>2

LEMMA InitIndInv == Init => IndInv
<1> SUFFICES ASSUME Init PROVE IndInv
  OBVIOUS
<1>1. file \in Seq(Cell)
  BY TextCells, LogsAssumption DEF Init
<1>2. TypeOK
  BY <1>1 DEF Init, TypeOK, PC
<1>3. SnapshotsArePrefixes /\ FileAgrees
  BY DEF Init, SnapshotsArePrefixes, FileAgrees
<1> QED
  BY <1>2, <1>3 DEF IndInv

(* Every step of the store preserves the inductive invariant.                *)
LEMMA NextIndInv == IndInv /\ [Next]_hvars => IndInv'
<1> SUFFICES ASSUME IndInv, [Next]_hvars PROVE IndInv'
  OBVIOUS
<1> USE DEF IndInv, PC
<1>1. CASE Start
  <2>1. /\ rows' \in Seq(Entry)
        /\ Len(rows') = Len(file) - 1
        /\ \A i \in 1..(Len(file) - 1) : rows'[i] = file[i]
    BY <1>1, LoadedRows DEF Start, TypeOK
  <2>2. TypeOK'
    BY <1>1, <2>1 DEF Start, TypeOK
  <2>3. SnapshotsArePrefixes'
    BY <1>1 DEF Start, SnapshotsArePrefixes, TypeOK
  <2>4. FileAgrees'
    <3>1. Len(file) \in Nat /\ file[Len(file)] = End /\ UNCHANGED file
      BY <1>1 DEF Start, WellFormed, TypeOK
    <3> QED
      BY <2>1, <3>1 DEF FileAgrees
  <2> QED
    BY <2>2, <2>3, <2>4
<1>2. CASE StartFatal
  BY <1>2 DEF StartFatal, TypeOK, SnapshotsArePrefixes, FileAgrees
<1>3. CASE Crash
  BY <1>3 DEF Crash, TypeOK, SnapshotsArePrefixes, FileAgrees
<1>4. ASSUME NEW w \in Writers, NEW e \in Entry, AppendRow(w, e) PROVE IndInv'
  <2>1. /\ rows' \in Seq(Entry)
        /\ Len(rows') = Len(rows) + 1
        /\ \A i \in 1..Len(rows) : rows'[i] = rows[i]
    BY <1>4, AppendProperties DEF AppendRow, TypeOK
  <2>2. TypeOK'
    BY <1>4, <2>1 DEF AppendRow, TypeOK
  <2>3. SnapshotsArePrefixes'
    BY <1>4, <2>1 DEF AppendRow, SnapshotsArePrefixes, TypeOK
  <2>4. FileAgrees'
    BY <1>4, <2>1 DEF AppendRow, FileAgrees, TypeOK
  <2> QED
    BY <2>2, <2>3, <2>4
<1>5. ASSUME NEW w \in Writers, Marshal(w) PROVE IndInv'
  BY <1>5 DEF Marshal, TypeOK, SnapshotsArePrefixes, FileAgrees
<1>6. ASSUME NEW w \in Writers, OpenTruncate(w) PROVE IndInv'
  BY <1>6 DEF OpenTruncate, TypeOK, SnapshotsArePrefixes, FileAgrees
<1>7. ASSUME NEW w \in Writers, OpenFails(w) PROVE IndInv'
  BY <1>7 DEF OpenFails, TypeOK, SnapshotsArePrefixes, FileAgrees
<1>8. ASSUME NEW w \in Writers, WriteOut(w) PROVE IndInv'
  <2>1. /\ Text(snap[w]) \in Seq(Cell)
        /\ Len(Text(snap[w])) = Len(snap[w]) + 1
    BY TextCells DEF TypeOK
  <2>2. file' \in Seq(Cell)
    BY <1>8, <2>1, OverlayCells DEF WriteOut, TypeOK
  <2>3. <<mine[w], snap[w][mine[w]]>> \in (Nat \ {0}) \X Entry
    <3>1. mine[w] \in 1..Len(snap[w]) /\ snap[w] \in Seq(Entry)
      BY <1>8 DEF WriteOut, SnapshotsArePrefixes, TypeOK
    <3> QED
      BY <3>1, ElementOfSeq
  <2>4. TypeOK'
    BY <1>8, <2>2, <2>3 DEF WriteOut, TypeOK
  <2>5. SnapshotsArePrefixes'
    BY <1>8 DEF WriteOut, SnapshotsArePrefixes, TypeOK
  <2>6. FileAgrees'
    <3>1. /\ Len(snap[w]) <= Len(rows)
          /\ \A i \in 1..Len(snap[w]) : snap[w][i] = rows[i]
          /\ proc = "up"
      BY <1>8 DEF WriteOut, SnapshotsArePrefixes
    <3>2. /\ \A i \in 1..Len(file) : file[i] = End \/ (i <= Len(rows) /\ file[i] = rows[i])
          /\ rows \in Seq(Entry) /\ snap[w] \in Seq(Entry) /\ file \in Seq(Cell)
      BY <3>1 DEF FileAgrees, TypeOK
    <3>3. \A i \in 1..Len(Overlay(file, Text(snap[w]))) :
             \/ Overlay(file, Text(snap[w]))[i] = End
             \/ i <= Len(rows) /\ Overlay(file, Text(snap[w]))[i] = rows[i]
      <4> DEFINE t == Text(snap[w])
      <4>1. /\ t \in Seq(Cell)
            /\ Len(t) <= Len(snap[w]) + 1
            /\ \A i \in 1..Len(t) : t[i] = Text(snap[w])[i]
        BY <2>1, <3>2
      <4> HIDE DEF t
      <4>2. \A i \in 1..Len(Overlay(file, t)) :
               \/ Overlay(file, t)[i] = End
               \/ i <= Len(rows) /\ Overlay(file, t)[i] = rows[i]
        BY <3>1, <3>2, <4>1, OverlayAgrees
      <4> QED
        BY <4>2 DEF t
    <3> QED
      BY <1>8, <3>3 DEF WriteOut, FileAgrees
  <2> QED
    BY <2>4, <2>5, <2>6
<1>9. ASSUME NEW w \in Writers, WriteFails(w) PROVE IndInv'
  <2>1. PICK k \in 0..Len(snap[w]) : file' = Overlay(file, SubSeq(Text(snap[w]), 1, k))
    BY <1>9 DEF WriteFails
  <2> DEFINE t == SubSeq(Text(snap[w]), 1, k)
  <2>2. /\ t \in Seq(Cell)
        /\ Len(t) = k
        /\ \A i \in 1..Len(t) : t[i] = Text(snap[w])[i]
    BY PartialText DEF TypeOK
  <2> HIDE DEF t
  <2>3. file' = Overlay(file, t)
    BY <2>1 DEF t
  <2>4. TypeOK'
    BY <1>9, <2>2, <2>3, OverlayCells DEF WriteFails, TypeOK
  <2>5. SnapshotsArePrefixes'
    BY <1>9 DEF WriteFails, SnapshotsArePrefixes, TypeOK
  <2>6. FileAgrees'
    <3>1. /\ Len(snap[w]) <= Len(rows)
          /\ \A i \in 1..Len(snap[w]) : snap[w][i] = rows[i]
          /\ proc = "up"
      BY <1>9 DEF WriteFails, SnapshotsArePrefixes
    <3>2. /\ \A i \in 1..Len(file) : file[i] = End \/ (i <= Len(rows) /\ file[i] = rows[i])
          /\ rows \in Seq(Entry) /\ snap[w] \in Seq(Entry) /\ file \in Seq(Cell)
      BY <3>1 DEF FileAgrees, TypeOK
    <3>3. Len(t) <= Len(snap[w]) + 1
      BY <2>2, <3>2
    <3>4. \A i \in 1..Len(Overlay(file, t)) :
             \/ Overlay(file, t)[i] = End
             \/ i <= Len(rows) /\ Overlay(file, t)[i] = rows[i]
      BY <2>2, <3>1, <3>2, <3>3, OverlayAgrees
    <3> QED
      BY <1>9, <2>3, <3>4 DEF WriteFails, FileAgrees
  <2> QED
    BY <2>4, <2>5, <2>6
<1>10. CASE UNCHANGED hvars
  BY <1>10 DEF hvars, TypeOK, SnapshotsArePrefixes, FileAgrees
<1> QED
  BY <1>1, <1>2, <1>3, <1>4, <1>5, <1>6, <1>7, <1>8, <1>9, <1>10 DEF Next, SaveStep

LEMMA IndInvHolds == Spec => []IndInv
  BY InitIndInv, NextIndInv, PTL DEF Spec

(* Type correctness of the store, for every set of writers and entries.      *)
THEOREM TypeCorrect == Spec => []TypeOK
<1>1. IndInv => TypeOK
  BY DEF IndInv
<1> QED
  BY <1>1, IndInvHolds, PTL

(* For every number of concurrent Append calls, failing or not, interrupted  *)
(* by crashes or not: the file never holds a row the log does not have at    *)
(* that index.                                                               *)
THEOREM FileNeverInvents == Spec => []FileAgrees
<1>1. IndInv => FileAgrees
  BY DEF IndInv
<1> QED
  BY <1>1, IndInvHolds, PTL
------------------------------------------------------------------------------
(* Writing over an empty file leaves exactly what was written.               *)
LEMMA OverlayEmpty ==
  ASSUME NEW S, NEW t \in Seq(S)
  PROVE  Overlay(<<>>, t) = t
<1>1. <<>> \in Seq(S) /\ Len(<<>>) = 0
  BY EmptySeq
<1>2. SubSeq(<<>>, Len(t) + 1, 0) = <<>>
  <2>1. Len(t) + 1 \in Int /\ 0 < Len(t) + 1
    OBVIOUS
  <2> QED
    BY <2>1, SubSeqEmpty
<1>3. Overlay(<<>>, t) = t \o <<>>
  BY <1>1, <1>2 DEF Overlay
<1> QED
  BY <1>3, ConcatEmptySeq

(* The history variables only watch: every step is a step of the store.      *)
LEMMA OverlapsWatch == OSpec => Spec
<1>1. OInit => Init
  BY DEF OInit
<1>2. [ONext]_ovars => [Next]_hvars
  BY DEF ONext, ovars, OAppendRow, OWriteOut, OCrash, OtherSteps, Next, SaveStep
<1> QED
  BY <1>1, <1>2, PTL DEF OSpec, Spec

\* What has to be shown of a step besides IndInv and the types.
KeepsRows == /\ PromisesKept
             /\ SavedWhenSettled
             /\ overlap # "saves" => OneCall
             /\ overlap = "none" => Settled
             /\ proc # "up" => overlap = "none"

(* A call that runs alone has everything to itself.                          *)
LEMMA OnlyCall ==
  ASSUME NEW w \in Writers, OIndInv, overlap # "saves", pc[w] # "idle"
  PROVE  /\ \A v \in Writers : v # w => pc[v] = "idle"
         /\ pc[w] \in {"open", "write"} => snap[w] = rows
         /\ pc[w] = "write" => file = <<>>
BY DEF OIndInv, OneCall

(* Every step preserves the types of the history variables.                  *)
LEMMA NextOTypeOK == OTypeOK /\ TypeOK' /\ [ONext]_ovars => OTypeOK'
<1> SUFFICES ASSUME OTypeOK, TypeOK', [ONext]_ovars PROVE OTypeOK'
  OBVIOUS
<1>1. CASE OCrash
  BY <1>1 DEF OCrash, Crash, OTypeOK
<1>2. ASSUME NEW w \in Writers, NEW e \in Entry, OAppendRow(w, e) PROVE OTypeOK'
  BY <1>2 DEF OAppendRow, AppendRow, OTypeOK
<1>3. ASSUME NEW w \in Writers, OWriteOut(w) PROVE OTypeOK'
  BY <1>3 DEF OWriteOut, WriteOut, OTypeOK
<1>4. CASE OtherSteps /\ UNCHANGED <<overlap, gone>>
  BY <1>4 DEF OtherSteps, Start, StartFatal, Marshal, OpenTruncate, OpenFails, WriteFails,
              OTypeOK
<1>5. CASE UNCHANGED ovars
  BY <1>5 DEF ovars, hvars, OTypeOK
<1> QED
  BY <1>1, <1>2, <1>3, <1>4, <1>5 DEF ONext

(* What a write that fails leaves behind when its file was empty: a text     *)
(* without its end, which does not load.                                     *)
LEMMA CutTextFails ==
  ASSUME NEW s \in Seq(Entry), NEW k \in 0..Len(s)
  PROVE  ~WellFormed(Overlay(<<>>, SubSeq(Text(s), 1, k)))
<1> DEFINE t == SubSeq(Text(s), 1, k)
<1>1. /\ t \in Seq(Cell)
      /\ Len(t) = k
      /\ \A i \in 1..k : t[i] = Text(s)[i]
  BY PartialText
<1>2. \A i \in 1..k : t[i] \in Entry
  BY <1>1, TextCells, ElementOfSeq
<1> HIDE DEF t
<1>3. Overlay(<<>>, t) = t
  BY <1>1, OverlayEmpty
<1>4. ~WellFormed(t)
  <2> SUFFICES ASSUME WellFormed(t) PROVE FALSE
    OBVIOUS
  <2>1. k \in 1..k
    BY <1>1, EmptySeq DEF WellFormed
  <2> QED
    BY <1>1, <1>2, <2>1, EndAssumption DEF WellFormed
<1> QED
  BY <1>3, <1>4 DEF t

(* Every step of the store preserves the invariant, however calls overlap.   *)
LEMMA NextOIndInv == OIndInv /\ [ONext]_ovars => OIndInv'
<1> SUFFICES ASSUME OIndInv, [ONext]_ovars PROVE OIndInv'
  OBVIOUS
<1>0. /\ TypeOK /\ SnapshotsArePrefixes /\ FileAgrees /\ OTypeOK
      /\ PromisesKept /\ SavedWhenSettled
      /\ overlap # "saves" => OneCall
      /\ overlap = "none" => Settled
      /\ proc # "up" => overlap = "none"
      /\ overlap \in {"none", "saves", "mending"}
  BY DEF OIndInv, IndInv, OTypeOK
<1>i. IndInv'
  <2>1. [Next]_hvars
    BY DEF ONext, ovars, OAppendRow, OWriteOut, OCrash, OtherSteps, Next, SaveStep
  <2> QED
    BY <2>1, NextIndInv DEF OIndInv
<1>t. OTypeOK'
  BY <1>0, <1>i, NextOTypeOK DEF IndInv
<1>a. \A a \in promised : a[1] \in Nat \ {0} /\ a[2] \in Entry
  BY <1>0 DEF TypeOK, promised
<1>q. SUFFICES KeepsRows'
  BY <1>i, <1>t DEF OIndInv, KeepsRows
<1>1. CASE Start /\ UNCHANGED <<overlap, gone>>
  <2>1. /\ rows' \in Seq(Entry)
        /\ Len(rows') = Len(file) - 1
        /\ \A i \in 1..(Len(file) - 1) : rows'[i] = file[i]
        /\ file = Text(rows')
    BY <1>0, <1>1, LoadedRows DEF Start, TypeOK
  <2>2. /\ overlap = "none" /\ WellFormed(file) /\ Settled
        /\ \A w \in Writers : pc[w] = "idle"
        /\ UNCHANGED <<file, pc, snap, acked>>
    BY <1>0, <1>1 DEF Start, SnapshotsArePrefixes
  <2>3. SavedWhenSettled'
    BY <1>1, <2>1 DEF Start, SavedWhenSettled
  <2>4. PromisesKept'
    <3> SUFFICES ASSUME NEW a \in promised PROVE a[1] <= Len(rows') /\ rows'[a[1]] = a[2]
      BY <1>1, <2>2 DEF PromisesKept, promised
    <3>1. Len(file) \in Nat
      BY <1>0 DEF TypeOK
    <3>2. a[1] < Len(file) /\ file[a[1]] = a[2] /\ a[1] \in Nat \ {0}
      BY <1>a, <2>2 DEF Settled
    <3> QED
      BY <2>1, <3>1, <3>2
  <2>5. OneCall' /\ Settled' /\ (proc # "up" => overlap = "none")'
    BY <1>1, <2>2 DEF OneCall, Settled, promised, Start
  <2> QED
    BY <2>3, <2>4, <2>5 DEF KeepsRows
<1>2. CASE StartFatal /\ UNCHANGED <<overlap, gone>>
  BY <1>0, <1>2 DEF StartFatal, KeepsRows, SavedWhenSettled, PromisesKept, Quiescent, OneCall,
                    Settled, promised
<1>3. CASE OCrash
  <2>1. /\ proc' = "down" /\ overlap' = "none" /\ UNCHANGED <<file, acked>>
        /\ \A w \in Writers : pc'[w] = "idle"
        /\ proc = "up"
    BY <1>3 DEF OCrash, Crash
  <2>2. OneCall'
    BY <2>1 DEF OneCall
  <2>3. Settled'
    <3>1. CASE overlap = "none"
      BY <1>0, <1>3, <2>1, <3>1 DEF OCrash, Settled, promised
    <3>2. CASE overlap # "none"
      <4> SUFFICES ASSUME WellFormed(file), NEW a \in promised'
                   PROVE  a[1] < Len(file) /\ file[a[1]] = a[2]
        BY <2>1 DEF Settled
      <4>1. Len(file) \in Nat \ {0} /\ rows \in Seq(Entry)
        BY <1>0, EmptySeq DEF TypeOK, WellFormed
      <4>2. a \in promised /\ ~(a[1] >= Len(file))
        BY <1>3, <2>1, <3>2 DEF OCrash, promised
      <4>3. a[1] \in Nat \ {0} /\ rows[a[1]] = a[2]
        BY <1>0, <1>a, <2>1, <4>2 DEF PromisesKept
      <4>4. a[1] < Len(file) /\ a[1] \in 1..(Len(file) - 1) /\ a[1] \in 1..Len(file)
        BY <4>1, <4>2, <4>3
      <4>5. file[a[1]] # End
        BY <4>4 DEF WellFormed
      <4> QED
        BY <1>0, <2>1, <4>3, <4>4, <4>5 DEF FileAgrees
    <3> QED
      BY <3>1, <3>2
  <2> QED
    BY <2>1, <2>2, <2>3 DEF KeepsRows, PromisesKept, SavedWhenSettled, Quiescent
<1>4. ASSUME NEW w \in Writers, NEW e \in Entry, OAppendRow(w, e) PROVE KeepsRows'
  <2>1. /\ Len(rows') = Len(rows) + 1
        /\ \A i \in 1..Len(rows) : rows'[i] = rows[i]
        /\ Len(rows) \in Nat
        /\ UNCHANGED <<file, snap, acked, gone, proc>>
        /\ proc = "up"
        /\ pc' = [pc EXCEPT ![w] = "marshal"]
    BY <1>0, <1>4, AppendProperties DEF OAppendRow, AppendRow, TypeOK
  <2>2. pc'[w] = "marshal" /\ \A v \in Writers \ {w} : pc'[v] = pc[v]
    BY <1>0, <2>1 DEF TypeOK
  <2>3. PromisesKept'
    BY <1>0, <1>a, <2>1 DEF PromisesKept, promised
  <2>4. ~Quiescent'
    BY <2>2 DEF Quiescent
  <2>5. overlap' # "saves" => OneCall'
    <3> SUFFICES ASSUME overlap' # "saves" PROVE OneCall'
      OBVIOUS
    <3>1. \A v \in Writers : v # w => pc'[v] = "idle"
      BY <1>4, <2>2 DEF OAppendRow, Alone
    <3> QED
      BY <2>2, <3>1 DEF OneCall
  <2>6. overlap' = "none" => Settled'
    BY <1>0, <1>4, <2>1 DEF OAppendRow, Settled, promised
  <2> QED
    BY <2>1, <2>3, <2>4, <2>5, <2>6 DEF KeepsRows, SavedWhenSettled
<1>5. ASSUME NEW w \in Writers, Marshal(w), UNCHANGED <<overlap, gone>> PROVE KeepsRows'
  <2>1. /\ pc'[w] = "open" /\ snap'[w] = rows
        /\ \A v \in Writers \ {w} : pc'[v] = pc[v] /\ snap'[v] = snap[v]
        /\ UNCHANGED <<proc, rows, file, acked>>
    BY <1>0, <1>5 DEF Marshal, TypeOK
  <2>2. pc[w] = "marshal" /\ proc = "up"
    BY <1>0, <1>5 DEF Marshal, SnapshotsArePrefixes
  <2>3. overlap' # "saves" => OneCall'
    BY <1>0, <1>5, <2>1, <2>2, OnlyCall DEF OneCall
  <2>4. PromisesKept' /\ ~Quiescent'
    BY <1>0, <1>5, <2>1 DEF PromisesKept, promised, Quiescent
  <2>5. overlap' = "none" => Settled'
    BY <1>0, <1>5, <2>1 DEF Settled, promised
  <2> QED
    BY <2>1, <2>2, <2>3, <2>4, <2>5 DEF KeepsRows, SavedWhenSettled
<1>6. ASSUME NEW w \in Writers, OpenTruncate(w), UNCHANGED <<overlap, gone>> PROVE KeepsRows'
  <2>1. /\ pc'[w] = "write" /\ file' = <<>>
        /\ \A v \in Writers \ {w} : pc'[v] = pc[v]
        /\ UNCHANGED <<proc, rows, snap, acked>>
    BY <1>0, <1>6 DEF OpenTruncate, TypeOK
  <2>2. pc[w] = "open" /\ proc = "up"
    BY <1>0, <1>6 DEF OpenTruncate, SnapshotsArePrefixes
  <2>3. overlap' # "saves" => OneCall'
    BY <1>0, <1>6, <2>1, <2>2, OnlyCall DEF OneCall
  <2>4. PromisesKept' /\ ~Quiescent'
    BY <1>0, <1>6, <2>1 DEF PromisesKept, promised, Quiescent
  <2>5. Settled'
    BY <2>1 DEF Settled, WellFormed
  <2> QED
    BY <2>1, <2>2, <2>3, <2>4, <2>5 DEF KeepsRows, SavedWhenSettled
<1>7. ASSUME NEW w \in Writers, OpenFails(w), UNCHANGED <<overlap, gone>> PROVE KeepsRows'
  <2>1. /\ pc'[w] = "idle" /\ err'[w] = TRUE
        /\ \A v \in Writers \ {w} : pc'[v] = pc[v]
        /\ UNCHANGED <<proc, rows, file, snap, acked>>
    BY <1>0, <1>7 DEF OpenFails, TypeOK
  <2>2. pc[w] = "open" /\ proc = "up"
    BY <1>0, <1>7 DEF OpenFails, SnapshotsArePrefixes
  <2>3. overlap' # "saves" => OneCall'
    BY <1>0, <1>7, <2>1, <2>2, OnlyCall DEF OneCall
  <2>4. PromisesKept'
    BY <1>0, <1>7, <2>1 DEF PromisesKept, promised
  <2>5. overlap' = "none" => Settled'
    BY <1>0, <1>7, <2>1 DEF Settled, promised
  <2> QED
    BY <2>1, <2>2, <2>3, <2>4, <2>5 DEF KeepsRows, SavedWhenSettled
<1>8. ASSUME NEW w \in Writers, OWriteOut(w) PROVE KeepsRows'
  <2>1. /\ pc'[w] = "idle" /\ pc[w] = "write" /\ proc = "up"
        /\ \A v \in Writers \ {w} : pc'[v] = pc[v]
        /\ UNCHANGED <<proc, rows, snap>>
        /\ file' = Overlay(file, Text(snap[w]))
    BY <1>0, <1>8 DEF OWriteOut, WriteOut, TypeOK, SnapshotsArePrefixes
  <2>2. /\ rows \in Seq(Entry) /\ Len(rows) \in Nat
        /\ mine[w] \in 1..Len(rows)
        /\ rows[mine[w]] = snap[w][mine[w]]
    BY <1>0, <2>1 DEF TypeOK, SnapshotsArePrefixes
  <2>3. promised' = promised \union {<<mine[w], rows[mine[w]]>>}
    BY <1>8, <2>2 DEF OWriteOut, WriteOut, promised
  <2>4. \A a \in promised' : a[1] \in 1..Len(rows) /\ rows[a[1]] = a[2]
    <3>1. ASSUME NEW a \in promised PROVE a[1] \in 1..Len(rows) /\ rows[a[1]] = a[2]
      BY <1>0, <1>a, <2>1, <2>2 DEF PromisesKept
    <3> QED
      BY <2>2, <2>3, <3>1
  <2>5. PromisesKept'
    BY <2>1, <2>2, <2>4 DEF PromisesKept
  <2>6. CASE overlap = "saves"
    <3>1. overlap' = "saves"
      BY <1>8, <2>6 DEF OWriteOut
    <3> QED
      BY <2>1, <2>5, <3>1 DEF KeepsRows, SavedWhenSettled
  <2>7. CASE overlap # "saves"
    <3>1. /\ snap[w] = rows /\ file = <<>>
          /\ \A v \in Writers : pc'[v] = "idle"
      BY <2>1, <2>7, OnlyCall
    <3>2. Text(rows) \in Seq(Cell)
      BY <2>2, TextCells
    <3>3. file' = Text(rows)
      BY <2>1, <3>1, <3>2, OverlayEmpty
    <3>4. /\ Len(file') = Len(rows) + 1
          /\ \A i \in 1..Len(rows) : file'[i] = rows[i]
      BY <2>2, <3>3, TextCells
    <3>5. Settled'
      BY <2>2, <2>4, <3>4 DEF Settled
    <3>6. OneCall'
      BY <3>1 DEF OneCall
    <3>7. SavedWhenSettled'
      BY <2>1, <3>3 DEF SavedWhenSettled
    <3> QED
      BY <2>1, <2>5, <3>5, <3>6, <3>7 DEF KeepsRows
  <2> QED
    BY <2>6, <2>7
<1>9. ASSUME NEW w \in Writers, WriteFails(w), UNCHANGED <<overlap, gone>> PROVE KeepsRows'
  <2>1. /\ pc'[w] = "idle" /\ err'[w] = TRUE
        /\ \A v \in Writers \ {w} : pc'[v] = pc[v]
        /\ UNCHANGED <<proc, rows, snap, acked>>
    BY <1>0, <1>9 DEF WriteFails, TypeOK
  <2>2. pc[w] = "write" /\ proc = "up" /\ rows \in Seq(Entry)
    BY <1>0, <1>9 DEF WriteFails, SnapshotsArePrefixes, TypeOK
  <2>3. PromisesKept'
    BY <1>0, <1>9, <2>1 DEF PromisesKept, promised
  <2>4. CASE overlap = "saves"
    BY <1>9, <2>1, <2>2, <2>3, <2>4 DEF KeepsRows, SavedWhenSettled
  <2>5. CASE overlap # "saves"
    <3>1. /\ snap[w] = rows /\ file = <<>>
          /\ \A v \in Writers : pc'[v] = "idle"
      BY <2>1, <2>2, <2>5, OnlyCall
    <3>2. PICK k \in 0..Len(rows) : file' = Overlay(<<>>, SubSeq(Text(rows), 1, k))
      BY <1>9, <3>1 DEF WriteFails
    <3>3. ~WellFormed(file')
      BY <2>2, <3>2, CutTextFails
    <3>4. OneCall' /\ Settled' /\ SavedWhenSettled'
      BY <2>1, <3>1, <3>3 DEF OneCall, Settled, SavedWhenSettled
    <3> QED
      BY <1>9, <2>1, <2>2, <2>3, <3>4 DEF KeepsRows
  <2> QED
    BY <2>4, <2>5
<1>10. CASE UNCHANGED ovars
  BY <1>0, <1>10 DEF ovars, hvars, KeepsRows, SavedWhenSettled, Quiescent, PromisesKept, OneCall,
                     Settled, promised, WellFormed
<1> QED
  BY <1>1, <1>2, <1>3, <1>4, <1>5, <1>6, <1>7, <1>8, <1>9, <1>10 DEF ONext, OtherSteps

LEMMA OIndInvHolds == OSpec => []OIndInv
<1>1. OInit => OIndInv
  <2> SUFFICES ASSUME OInit PROVE OIndInv
    OBVIOUS
  <2>1. IndInv
    BY InitIndInv DEF OInit
  <2> QED
    BY <2>1 DEF OInit, Init, OIndInv, IndInv, OTypeOK, SavedWhenSettled, Quiescent,
                PromisesKept, OneCall, Settled, promised
<1> QED
  BY <1>1, NextOIndInv, PTL DEF OSpec

(* However many goroutines append, whatever crashes and disk errors they     *)
(* meet: an entry whose Append returned nil keeps its index across every     *)
(* restart, unless the process dies while an overlap of calls is unmended.   *)
THEOREM AcknowledgedStay == OSpec => []PromisesKept
<1>1. OIndInv => PromisesKept
  BY DEF OIndInv
<1> QED
  BY <1>1, OIndInvHolds, PTL

(* For any number of goroutines: a save that nobody overlaps leaves the      *)
(* whole log on disk, the rows of earlier failed or overwritten saves        *)
(* included.                                                                 *)
THEOREM LoneSaveMends == OSpec => []SavedWhenSettled
<1>1. OIndInv => SavedWhenSettled
  BY DEF OIndInv
<1> QED
  BY <1>1, OIndInvHolds, PTL
------------------------------------------------------------------------------
(* The text of a log loads, and loads as that log.                           *)
LEMMA TextLoads ==
  ASSUME NEW l \in Seq(Entry)
  PROVE  WellFormed(Text(l)) /\ Loaded(Text(l)) = l
<1>1. /\ Text(l) \in Seq(Cell)
      /\ Len(Text(l)) = Len(l) + 1
      /\ \A i \in 1..Len(l) : Text(l)[i] = l[i] /\ l[i] \in Entry
      /\ Text(l)[Len(l) + 1] = End
      /\ Len(l) \in Nat
  BY TextCells, ElementOfSeq
<1>2. WellFormed(Text(l))
  BY <1>1, EmptySeq, EndAssumption DEF WellFormed
<1>3. /\ Loaded(Text(l)) \in Seq(Entry)
      /\ Len(Loaded(Text(l))) = Len(l)
      /\ \A i \in 1..Len(l) : Loaded(Text(l))[i] = l[i]
  BY <1>1, <1>2, LoadedRows
<1> QED
  BY <1>2, <1>3, SeqEqual

(* What a crash leaves of the log: its first entries, and of the promises    *)
(* those about them.                                                         *)
LEMMA CrashForgets ==
  ASSUME OIndInv, OCrash, WellFormed(file)
  PROVE  \E n \in 0..Len(rows) : Abstract!Forget(n)
<1>0. /\ TypeOK /\ FileAgrees /\ PromisesKept
      /\ overlap = "none" => Settled
  BY DEF OIndInv, IndInv
<1>1. /\ proc = "up" /\ proc' = "down" /\ file' = file /\ acked' = acked
      /\ overlap' = "none"
  BY DEF OCrash, Crash
<1> DEFINE n == Len(file) - 1
<1>2. /\ Loaded(file) \in Seq(Entry)
      /\ Len(Loaded(file)) = n
      /\ \A i \in 1..n : Loaded(file)[i] = file[i]
  BY <1>0, LoadedRows DEF TypeOK
<1>3. rows \in Seq(Entry) /\ Len(rows) \in Nat /\ Len(file) \in Nat \ {0}
  BY <1>0, EmptySeq DEF TypeOK, WellFormed
<1>4. n \in Nat /\ \A i \in 1..n : i <= Len(rows) /\ file[i] = rows[i]
  BY <1>0, <1>1, <1>3 DEF FileAgrees, WellFormed
<1>5. n \in 0..Len(rows)
  <2> HIDE DEF n
  <2>1. CASE n = 0
    BY <1>3, <2>1
  <2>2. CASE n > 0
    BY <1>3, <1>4, <2>2
  <2> QED
    BY <1>4, <2>1, <2>2
<1>6. Loaded(file) = SubSeq(rows, 1, n)
  <2> HIDE DEF n
  <2>1. /\ SubSeq(rows, 1, n) \in Seq(Entry)
        /\ Len(SubSeq(rows, 1, n)) = n
        /\ \A i \in 1..n : SubSeq(rows, 1, n)[i] = rows[i]
    BY <1>3, <1>5
  <2> QED
    BY <1>2, <1>4, <2>1, SeqEqual
<1>7. \A a \in promised : a[1] \in Nat /\ (a[1] >= Len(file) <=> ~(a[1] <= n))
  BY <1>0, <1>3 DEF TypeOK, promised
<1>8. Calm => \A a \in promised : a[1] <= n
  BY <1>0, <1>3, <1>7 DEF Calm, Settled
<1>9. promised' = {a \in promised : a[1] <= n}
  <2>1. CASE overlap = "none"
    BY <1>1, <1>8, <2>1 DEF OCrash, Calm, promised
  <2>2. CASE overlap # "none"
    <3>1. promised' = promised \ {a \in acked : a[1] >= Len(file)}
      BY <1>1, <2>2 DEF OCrash, promised
    <3> QED
      BY <1>7, <3>1 DEF promised
  <2> QED
    BY <2>1, <2>2
<1>10. /\ AbsState = "up" /\ AbsLog = rows /\ AbsState' = "down" /\ AbsLog' = Loaded(file)
       /\ Calm' = TRUE
  BY <1>1 DEF AbsState, AbsLog, LoadsNext, WellFormed, Loaded, Calm
<1>11. Abstract!Forget(n)
  BY <1>6, <1>8, <1>9, <1>10 DEF Abstract!Forget
<1> QED
  BY <1>5, <1>11

(* Every step of the store is a step of EpisodicLog, or leaves what          *)
(* EpisodicLog sees unchanged.                                               *)
LEMMA StepIsLogStep ==
  ASSUME OIndInv, [ONext]_ovars
  PROVE  [Abstract!Next]_(Abstract!avars)
<1> USE DEF Abstract!avars
<1>0. /\ TypeOK /\ SnapshotsArePrefixes
      /\ overlap # "saves" => OneCall
      /\ overlap \in {"none", "saves", "mending"}
  BY DEF OIndInv, IndInv, OTypeOK
<1>1. CASE Start /\ UNCHANGED <<overlap, gone>>
  BY <1>1 DEF Start, AbsState, AbsLog, LoadsNext, Calm, promised, Abstract!Next, Abstract!Serve
<1>2. CASE StartFatal /\ UNCHANGED <<overlap, gone>>
  BY <1>2 DEF StartFatal, AbsState, AbsLog, LoadsNext, Calm, promised
<1>3. CASE OCrash
  <2>1. CASE ~WellFormed(file)
    BY <1>3, <2>1 DEF OCrash, Crash, AbsState, AbsLog, LoadsNext, WellFormed, Calm, promised,
                      Abstract!Next, Abstract!Lose
  <2>2. CASE WellFormed(file)
    <3>1. AbsLog = rows
      BY <1>3 DEF OCrash, Crash, AbsLog
    <3> QED
      BY <1>3, <2>2, <3>1, CrashForgets DEF Abstract!Next
  <2> QED
    BY <2>1, <2>2
<1>4. ASSUME NEW w \in Writers, NEW e \in Entry, OAppendRow(w, e)
      PROVE  [Abstract!Next]_(Abstract!avars)
  <2>1. overlap # "none" => overlap' # "none"
    BY <1>4 DEF OAppendRow
  <2>2. Calm' \in {Calm, FALSE}
    BY <2>1 DEF Calm
  <2>3. Abstract!Extend(e)
    BY <1>4, <2>2 DEF OAppendRow, AppendRow, AbsState, AbsLog, promised, Abstract!Extend
  <2> QED
    BY <2>3 DEF Abstract!Next
<1>5. ASSUME NEW w \in Writers, Marshal(w) \/ OpenTruncate(w) \/ OpenFails(w) \/ WriteFails(w),
             UNCHANGED <<overlap, gone>>
      PROVE  [Abstract!Next]_(Abstract!avars)
  <2>1. pc[w] # "idle"
    BY <1>5 DEF Marshal, OpenTruncate, OpenFails, WriteFails
  <2>2. proc = "up"
    BY <1>0, <2>1 DEF SnapshotsArePrefixes
  <2>3. proc' = proc /\ rows' = rows /\ acked' = acked
    BY <1>5 DEF Marshal, OpenTruncate, OpenFails, WriteFails
  <2> QED
    BY <1>5, <2>2, <2>3 DEF AbsState, AbsLog, Calm, promised
<1>6. ASSUME NEW w \in Writers, OWriteOut(w)
      PROVE  [Abstract!Next]_(Abstract!avars)
  <2>1. /\ proc = "up" /\ mine[w] \in 1..Len(rows)
        /\ rows[mine[w]] = snap[w][mine[w]]
    BY <1>0, <1>6 DEF OWriteOut, WriteOut, SnapshotsArePrefixes, TypeOK
  <2>2. AbsState = "up" /\ AbsLog = rows /\ AbsState' = "up" /\ AbsLog' = rows
    BY <1>6, <2>1 DEF OWriteOut, WriteOut, AbsState, AbsLog
  <2>3. promised' = promised \union {<<mine[w], rows[mine[w]]>>}
    BY <1>6, <2>1 DEF OWriteOut, WriteOut, promised
  <2>4. Calm' \in {Calm, TRUE}
    BY <1>6 DEF OWriteOut, Calm
  <2>5. Abstract!Acknowledge(mine[w])
    BY <2>2, <2>3, <2>4 DEF Abstract!Acknowledge
  <2> QED
    BY <2>1, <2>2, <2>5 DEF Abstract!Next
<1>7. CASE UNCHANGED ovars
  BY <1>7 DEF ovars, hvars, AbsState, AbsLog, LoadsNext, WellFormed, Loaded, Calm, promised
<1> QED
  BY <1>1, <1>2, <1>3, <1>4, <1>5, <1>6, <1>7 DEF ONext, OtherSteps

(* For any number of goroutines the store implements EpisodicLog: through    *)
(* any crashes and disk errors, the log a process serves is the one before   *)
(* it, less rows at its end; and less only unacknowledged ones, unless an    *)
(* overlap of saves was unmended when the process died.                      *)
THEOREM StoreImplementsLog == OSpec => ImplementsLog
<1>1. OInit => Abstract!Init
  <2> SUFFICES ASSUME OInit PROVE Abstract!Init
    OBVIOUS
  <2>1. PICK l \in InitialLogs : file = Text(l)
    BY DEF OInit, Init
  <2>2. WellFormed(file) /\ Loaded(file) = l
    BY <2>1, TextLoads, LogsAssumption
  <2> QED
    BY <2>2 DEF OInit, Init, Abstract!Init, AbsState, AbsLog, LoadsNext, Calm, promised
<1>2. OIndInv /\ [ONext]_ovars => [Abstract!Next]_(Abstract!avars)
  BY StepIsLogStep
<1> QED
  BY <1>1, <1>2, OIndInvHolds, PTL DEF OSpec, ImplementsLog, Abstract!Spec
=============================================================================
