------------------------- MODULE SessionStoreProofs -------------------------
(* The sessions of the dispatcher, for any number of handlers, any policy of *)
(* compaction, crashes and failing saves.                                    *)
EXTENDS SessionStore, HistoryStoreProofs, FiniteSetTheorems, WellFoundedInduction

(* Induction over the natural numbers, for a set instead of a predicate.     *)
LEMMA Induct ==
  ASSUME NEW S, 0 \in S, \A n \in Nat : n \in S => n + 1 \in S
  PROVE  Nat \subseteq S
<1> DEFINE T == Nat \ S
           R == {ss \in Nat \X Nat : ss[1] < ss[2]}
<1>1. IsWellFoundedOn(R, Nat)
  BY NatLessThanWellFounded DEF OpToRel
<1>2. SUFFICES ASSUME T # {} PROVE FALSE
  OBVIOUS
<1>3. PICK x \in T : \A y \in T : ~ (<<y, x>> \in R)
  <2>1. T \subseteq Nat
    OBVIOUS
  <2> HIDE DEF T, R
  <2> QED
    BY <1>1, <1>2, <2>1, WFMin
<1>4. x # 0 /\ x \in Nat /\ x - 1 \in Nat /\ x = (x - 1) + 1
  BY <1>3
<1>5. x - 1 \notin T
  <2>1. <<x - 1, x>> \in R
    BY <1>4
  <2> QED
    BY <1>3, <2>1
<1> QED
  BY <1>3, <1>4, <1>5

(* Indexes below a bound are finitely many.                                  *)
LEMMA FiniteBelow ==
  ASSUME NEW n \in Nat, NEW I \in SUBSET (1..n)
  PROVE  IsFiniteSet(I) /\ Cardinality(I) \in Nat
<1>1. IsFiniteSet(1..n)
  BY FS_Interval
<1>2. IsFiniteSet(I)
  BY <1>1, FS_Subset
<1> QED
  BY <1>2, FS_CardinalityType

Increasing(f, n) == \A i, j \in 1..n : i < j => f[i] < f[j]

(* The indexes below any bound can be listed in their order.                 *)
LEMMA InOrderExists ==
  ASSUME NEW n \in Nat, NEW I \in SUBSET (1..n)
  PROVE  \E f \in [1..Cardinality(I) -> I] : Increasing(f, Cardinality(I))
<1> DEFINE Listed(J) == \E f \in [1..Cardinality(J) -> J] : Increasing(f, Cardinality(J))
           S == {m \in Nat : \A J \in SUBSET (1..m) : Listed(J)}
<1>1. 0 \in S
  <2>1. \A J \in SUBSET (1..0) : J = {}
    OBVIOUS
  <2>2. Listed({})
    <3>1. Cardinality({}) = 0
      BY FS_EmptySet
    <3>2. [i \in 1..0 |-> i] \in [1..0 -> {}]
      OBVIOUS
    <3> QED
      BY <3>1, <3>2 DEF Increasing
  <2> HIDE DEF Listed
  <2> QED
    BY <2>1, <2>2
<1>2. ASSUME NEW m \in Nat, m \in S PROVE m + 1 \in S
  <2> SUFFICES ASSUME NEW J \in SUBSET (1..(m + 1)) PROVE Listed(J)
    OBVIOUS
  <2>1. CASE m + 1 \notin J
    <3>1. J \in SUBSET (1..m)
      BY <2>1
    <3> QED
      BY <1>2, <3>1
  <2>2. CASE m + 1 \in J
    <3> DEFINE K == J \ {m + 1}
               c == Cardinality(K)
    <3>1. K \in SUBSET (1..m)
      OBVIOUS
    <3>2. IsFiniteSet(K) /\ c \in Nat
      BY <3>1, FiniteBelow
    <3>3. Cardinality(J) = c + 1
      <4>1. J = K \cup {m + 1} /\ m + 1 \notin K
        BY <2>2
      <4> QED
        BY <3>2, <4>1, FS_AddElement
    <3>4. PICK f \in [1..c -> K] : Increasing(f, c)
      BY <1>2, <3>1
    <3> DEFINE g == [i \in 1..(c + 1) |-> IF i <= c THEN f[i] ELSE m + 1]
    <3> HIDE DEF c
    <3>5. g \in [1..(c + 1) -> J]
      <4>1. ASSUME NEW i \in 1..(c + 1) PROVE g[i] \in J
        <5>1. CASE i <= c
          <6>1. i \in 1..c /\ g[i] = f[i]
            BY <3>2, <5>1
          <6> QED
            BY <3>4, <6>1
        <5>2. CASE ~ (i <= c)
          BY <2>2, <5>2
        <5> QED
          BY <5>1, <5>2
      <4> QED
        BY <4>1
    <3>6. Increasing(g, c + 1)
      <4> SUFFICES ASSUME NEW i \in 1..(c + 1), NEW j \in 1..(c + 1), i < j
                   PROVE  g[i] < g[j]
        BY DEF Increasing
      <4>1. i \in 1..c /\ g[i] = f[i]
        BY <3>2
      <4>2. f[i] \in 1..m
        BY <3>1, <3>4, <4>1
      <4>3. CASE j \in 1..c
        <5>1. g[j] = f[j]
          BY <3>2, <4>3
        <5> QED
          BY <3>4, <4>1, <4>3, <5>1 DEF Increasing
      <4>4. CASE j = c + 1
        <5>1. g[j] = m + 1
          BY <3>2, <4>4
        <5> QED
          BY <4>1, <4>2, <5>1
      <4> QED
        BY <3>2, <4>3, <4>4
    <3> HIDE DEF g
    <3> QED
      BY <3>3, <3>5, <3>6
  <2> QED
    BY <2>1, <2>2
<1> HIDE DEF Listed
<1>3. Nat \subseteq S
  <2> HIDE DEF S
  <2> QED
    BY <1>1, <1>2, Induct
<1>4. Listed(I)
  BY <1>3
<1> QED
  BY <1>4 DEF Listed

(* The elements at some indexes, and no others, each as often as there.      *)
LEMMA Selected ==
  ASSUME NEW S, NEW s \in Seq(S), NEW I \in SUBSET (1..Len(s))
  PROVE  /\ SelectAt(s, I) \in Seq(S)
         /\ \E f \in [1..Len(SelectAt(s, I)) -> I] :
              /\ \A k \in 1..Len(SelectAt(s, I)) : SelectAt(s, I)[k] = s[f[k]]
              /\ \A j, k \in 1..Len(SelectAt(s, I)) : f[j] = f[k] => j = k
              /\ \A i \in I : \E k \in 1..Len(SelectAt(s, I)) : f[k] = i
<1> DEFINE n == Cardinality(I)
           P(g) == \A i, j \in 1..n : i < j => g[i] < g[j]
           f == CHOOSE g \in [1..n -> I] : P(g)
<1>0. Len(s) \in Nat
  BY LenProperties
<1>1. IsFiniteSet(I) /\ n \in Nat
  BY <1>0, FiniteBelow
<1>2. f \in [1..n -> I] /\ P(f)
  BY <1>0, InOrderExists DEF Increasing
<1>3. SelectAt(s, I) = [k \in 1..n |-> s[f[k]]]
  BY DEF SelectAt
<1> HIDE DEF n, f
<1>4. /\ SelectAt(s, I) \in Seq(S)
      /\ Len(SelectAt(s, I)) = n
      /\ \A k \in 1..n : SelectAt(s, I)[k] = s[f[k]]
  <2>1. \A k \in 1..n : f[k] \in 1..Len(s) /\ s[f[k]] \in S
    BY <1>2, ElementOfSeq
  <2>2. [k \in 1..n |-> s[f[k]]] \in [1..n -> S]
    BY <2>1
  <2> QED
    BY <1>1, <1>3, <2>2, IsASeq, SeqDef
<1>5. \A j, k \in 1..n : f[j] = f[k] => j = k
  <2> SUFFICES ASSUME NEW j \in 1..n, NEW k \in 1..n, f[j] = f[k], j # k PROVE FALSE
    OBVIOUS
  <2>1. f[j] \in Nat /\ f[k] \in Nat
    <3>1. f[j] \in I /\ f[k] \in I
      BY <1>2
    <3>2. I \subseteq Nat
      BY <1>0
    <3> QED
      BY <3>1, <3>2
  <2>2. f[j] < f[k] \/ f[k] < f[j]
    BY <1>1, <1>2
  <2> QED
    BY <2>1, <2>2
<1>6. \A i \in I : \E k \in 1..n : f[k] = i
  <2>1. IsFiniteSet(1..n) /\ Cardinality(1..n) = n
    BY <1>1, FS_Interval
  <2>2. f \in Injection(1..n, I)
    BY <1>2, <1>5 DEF Injection, IsInjective
  <2>3. f \in Surjection(1..n, I)
    BY <1>1, <2>1, <2>2, FS_Injection DEF n
  <2> QED
    BY <2>3 DEF Surjection
<1> QED
  BY <1>2, <1>4, <1>5, <1>6
------------------------------------------------------------------------------
Numbers(s)  == {s[i].n : i \in 1..Len(s)}
Distinct(s) == \A i, j \in 1..Len(s) : s[i].n = s[j].n => i = j

(* The numbers of the runs at some indexes.                                  *)
LEMMA SelectedRuns ==
  ASSUME NEW runs \in Seq(Run), NEW I \in SUBSET (1..Len(runs))
  PROVE  /\ SelectAt(runs, I) \in Seq(Run)
         /\ Numbers(SelectAt(runs, I)) = {runs[i].n : i \in I}
         /\ Distinct(runs) => Distinct(SelectAt(runs, I))
<1> DEFINE t == SelectAt(runs, I)
<1>1. t \in Seq(Run)
  BY Selected
<1>2. PICK f \in [1..Len(t) -> I] :
        /\ \A k \in 1..Len(t) : t[k] = runs[f[k]]
        /\ \A j, k \in 1..Len(t) : f[j] = f[k] => j = k
        /\ \A i \in I : \E k \in 1..Len(t) : f[k] = i
  BY Selected
<1> HIDE DEF t
<1>3. \A k \in 1..Len(t) : f[k] \in I /\ f[k] \in 1..Len(runs) /\ t[k].n = runs[f[k]].n
  BY <1>2
<1>4. Numbers(t) = {runs[i].n : i \in I}
  <2>1. ASSUME NEW x \in Numbers(t) PROVE x \in {runs[i].n : i \in I}
    <3>1. PICK k \in 1..Len(t) : x = t[k].n
      BY DEF Numbers
    <3> QED
      BY <1>3, <3>1
  <2>2. ASSUME NEW i \in I PROVE runs[i].n \in Numbers(t)
    <3>1. PICK k \in 1..Len(t) : f[k] = i
      BY <1>2
    <3> QED
      BY <1>3, <3>1 DEF Numbers
  <2> QED
    BY <2>1, <2>2
<1>5. ASSUME Distinct(runs) PROVE Distinct(t)
  <2> SUFFICES ASSUME NEW j \in 1..Len(t), NEW k \in 1..Len(t), t[j].n = t[k].n PROVE j = k
    BY DEF Distinct
  <2>1. f[j] = f[k]
    BY <1>3, <1>5 DEF Distinct
  <2> QED
    BY <1>2, <2>1
<1> QED
  BY <1>1, <1>4, <1>5 DEF t

(* Compaction splits a session's runs in two: none is lost, none doubled,    *)
(* and the last one stays unless its id is that of another.                  *)
LEMMA Compacted ==
  ASSUME NEW runs \in Seq(Run)
  PROVE  /\ Kept(runs) \in Seq(Run) /\ Dropped(runs) \in Seq(Run)
         /\ Numbers(runs) = Numbers(Kept(runs)) \union Numbers(Dropped(runs))
         /\ Distinct(runs) => /\ Distinct(Kept(runs)) /\ Distinct(Dropped(runs))
                              /\ Numbers(Kept(runs)) \intersect Numbers(Dropped(runs)) = {}
         /\ \A l \in 1..Len(runs) :
              l = Len(runs) /\ (\A i \in 1..(l - 1) : runs[i].id # runs[l].id)
              => runs[l].n \in Numbers(Kept(runs))
<1> DEFINE I == Marked(runs)
           J == (1..Len(runs)) \ I
           d == Dropped(runs)
           k == Kept(runs)
<1>1. /\ I \in SUBSET (1..Len(runs)) /\ J \in SUBSET (1..Len(runs)) /\ I \union J = 1..Len(runs)
      /\ I \intersect J = {}
  BY DEF Marked
<1>2. d = SelectAt(runs, I) /\ k = SelectAt(runs, J)
  BY DEF Dropped, Kept
<1> HIDE DEF I, J, d, k
<1>3. d \in Seq(Run) /\ k \in Seq(Run)
  BY <1>1, <1>2, SelectedRuns
<1>4. Numbers(d) = {runs[i].n : i \in I} /\ Numbers(k) = {runs[i].n : i \in J}
  BY <1>1, <1>2, SelectedRuns
<1>5. Numbers(runs) = Numbers(k) \union Numbers(d)
  BY <1>1, <1>4 DEF Numbers
<1>6. ASSUME Distinct(runs)
      PROVE  Distinct(k) /\ Distinct(d) /\ Numbers(k) \intersect Numbers(d) = {}
  <2>1. \A i, j \in 1..Len(runs) : runs[i].n = runs[j].n => i = j
    BY <1>6 DEF Distinct
  <2>2. Distinct(k)
    BY <1>1, <1>2, <1>6, SelectedRuns
  <2>3. Distinct(d)
    BY <1>1, <1>2, <1>6, SelectedRuns
  <2>4. Numbers(k) \intersect Numbers(d) = {}
    BY <1>1, <1>4, <2>1
  <2> QED
    BY <2>2, <2>3, <2>4
<1>7. ASSUME NEW l \in 1..Len(runs), l = Len(runs), \A i \in 1..(l - 1) : runs[i].id # runs[l].id
      PROVE  runs[l].n \in Numbers(k)
  <2>1. l \notin I
    BY <1>7 DEF I, Marked, RunsToDrop
  <2> QED
    BY <1>1, <1>4, <2>1
<1> QED
  BY <1>3, <1>5, <1>6, <1>7 DEF k, d
------------------------------------------------------------------------------
(* A document that goes through the file keeps its sessions, their runs and  *)
(* summaries; a second time changes nothing.                                 *)
LEMMA ReloadedRun ==
  ASSUME NEW r \in Run
  PROVE  /\ Reloaded(r) \in Run
         /\ Reloaded(r).n = r.n
         /\ Reloaded(Reloaded(r)) = Reloaded(r)
<1> QED
  BY DEF Reloaded, Run

LEMMA ReloadKeeps ==
  ASSUME NEW f \in Document
  PROVE  /\ ReloadedDoc(f) \in Document
         /\ \A s \in Session : /\ Numbers(ReloadedDoc(f)[s].runs) = Numbers(f[s].runs)
                               /\ Distinct(f[s].runs) => Distinct(ReloadedDoc(f)[s].runs)
         /\ ReloadedDoc(ReloadedDoc(f)) = ReloadedDoc(f)
<1> DEFINE Through(runs) == [i \in 1..Len(runs) |-> Reloaded(runs[i])]
           d == ReloadedDoc(f)
<1>1. ASSUME NEW runs \in Seq(Run)
      PROVE  /\ Through(runs) \in Seq(Run) /\ Len(Through(runs)) = Len(runs)
             /\ \A i \in 1..Len(runs) : Through(runs)[i].n = runs[i].n
             /\ Through(Through(runs)) = Through(runs)
  <2>1. Len(runs) \in Nat /\ \A i \in 1..Len(runs) : runs[i] \in Run
    BY ElementOfSeq, LenProperties
  <2>2. \A i \in 1..Len(runs) : /\ Through(runs)[i] = Reloaded(runs[i])
                               /\ Reloaded(runs[i]) \in Run
                               /\ Reloaded(runs[i]).n = runs[i].n
                               /\ Reloaded(Reloaded(runs[i])) = Reloaded(runs[i])
    BY <2>1, ReloadedRun
  <2>3. Through(runs) \in [1..Len(runs) -> Run]
    BY <2>2
  <2>4. Through(runs) \in Seq(Run) /\ Len(Through(runs)) = Len(runs)
    BY <2>1, <2>3, SeqDef, LenProperties
  <2>5. Through(Through(runs)) = [i \in 1..Len(runs) |-> Reloaded(Through(runs)[i])]
    BY <2>4
  <2> HIDE DEF Through
  <2>6. [i \in 1..Len(runs) |-> Reloaded(Through(runs)[i])] = [i \in 1..Len(runs) |-> Through(runs)[i]]
    BY <2>2
  <2>7. [i \in 1..Len(runs) |-> Through(runs)[i]] = Through(runs)
    BY <2>3
  <2> QED
    BY <2>2, <2>4, <2>5, <2>6, <2>7
<1>2. ASSUME NEW g \in Document, NEW s \in Session
      PROVE  /\ ReloadedDoc(g)[s] = [g[s] EXCEPT !.runs = Through(g[s].runs)]
             /\ g[s] \in Memory /\ g[s].runs \in Seq(Run)
             /\ ReloadedDoc(g)[s].runs = Through(g[s].runs)
             /\ ReloadedDoc(g)[s].summary = g[s].summary
             /\ ReloadedDoc(g)[s] \in Memory
  <2>1. g[s] \in Memory /\ g[s].runs \in Seq(Run)
    BY DEF Document, Memory
  <2>2. ReloadedDoc(g)[s] = [g[s] EXCEPT !.runs = Through(g[s].runs)]
    BY DEF ReloadedDoc
  <2>3. Through(g[s].runs) \in Seq(Run)
    BY <1>1, <2>1
  <2> HIDE DEF Through
  <2>4. ReloadedDoc(g)[s].runs = Through(g[s].runs) /\ ReloadedDoc(g)[s].summary = g[s].summary
    BY <2>1, <2>2 DEF Memory
  <2>5. ReloadedDoc(g)[s] \in Memory
    BY <2>1, <2>2, <2>3, <2>4 DEF Memory
  <2> QED
    BY <2>1, <2>2, <2>4, <2>5
<1>3. d \in Document
  <2>1. d = [s \in Session |-> d[s]]
    BY DEF ReloadedDoc
  <2> QED
    BY <1>2, <2>1 DEF Document
<1>4. ASSUME NEW s \in Session
      PROVE  /\ Numbers(d[s].runs) = Numbers(f[s].runs)
             /\ Distinct(f[s].runs) => Distinct(d[s].runs)
  <2>1. /\ Len(d[s].runs) = Len(f[s].runs)
        /\ \A i \in 1..Len(f[s].runs) : d[s].runs[i].n = f[s].runs[i].n
    <3>1. f[s].runs \in Seq(Run) /\ d[s].runs = Through(f[s].runs)
      BY <1>2
    <3> HIDE DEF d, Through
    <3> QED
      BY <1>1, <3>1
  <2> HIDE DEF d
  <2> QED
    BY <2>1 DEF Numbers, Distinct
<1>5. ReloadedDoc(d) = d
  <2>1. ASSUME NEW s \in Session PROVE ReloadedDoc(d)[s] = d[s]
    <3>1. ReloadedDoc(d)[s] = [d[s] EXCEPT !.runs = Through(d[s].runs)]
      BY <1>2, <1>3
    <3>2. Through(d[s].runs) = d[s].runs
      <4>1. f[s].runs \in Seq(Run) /\ d[s].runs = Through(f[s].runs)
        BY <1>2
      <4> HIDE DEF d, Through
      <4> QED
        BY <1>1, <4>1
    <3>3. d[s] \in Memory
      BY <1>2
    <3> HIDE DEF d, Through
    <3> QED
      BY <3>1, <3>2, <3>3 DEF Memory
  <2>2. ReloadedDoc(d) = [s \in Session |-> ReloadedDoc(d)[s]] /\ d = [s \in Session |-> d[s]]
    BY DEF ReloadedDoc
  <2> HIDE DEF d
  <2> QED
    BY <2>1, <2>2
<1> QED
  BY <1>3, <1>4, <1>5

(* The digests of what is dropped join the summary, which keeps its length.  *)
LEMMA FoldTyped ==
  ASSUME NEW summary \in Seq(1..MaxRuns), Len(summary) <= SummaryCap,
         NEW dropped \in Seq(Run)
  PROVE  /\ FoldSummary(summary, dropped) \in Seq(1..MaxRuns)
         /\ Len(FoldSummary(summary, dropped)) <= SummaryCap
<1> DEFINE d == [i \in 1..Len(dropped) |-> dropped[i].n]
           all == summary \o d
<1>1. CASE dropped = <<>>
  BY <1>1 DEF FoldSummary
<1>2. CASE dropped # <<>>
  <2>1. Len(dropped) \in Nat /\ \A i \in 1..Len(dropped) : dropped[i].n \in 1..MaxRuns
    <3>1. Len(dropped) \in Nat /\ \A i \in 1..Len(dropped) : dropped[i] \in Run
      BY ElementOfSeq, LenProperties
    <3>2. \A r \in Run : r.n \in 1..MaxRuns
      BY DEF Run
    <3> QED
      BY <3>1, <3>2
  <2>2. d \in Seq(1..MaxRuns)
    BY <2>1, SeqDef
  <2>3. all \in Seq(1..MaxRuns) /\ Len(all) \in Nat
    BY <2>2, ConcatProperties, LenProperties
  <2>4. FoldSummary(summary, dropped) = LastOf(all, SummaryCap)
    BY <1>2 DEF FoldSummary
  <2> HIDE DEF d, all
  <2>5. CASE Len(all) <= SummaryCap
    BY <2>3, <2>4, <2>5 DEF LastOf
  <2>6. CASE Len(all) > SummaryCap
    <3>1. LastOf(all, SummaryCap) = SubSeq(all, Len(all) - SummaryCap + 1, Len(all))
      BY <2>3, <2>6, BudgetsAssumption DEF LastOf
    <3>2. Len(all) - SummaryCap + 1 \in 1..(Len(all) + 1)
      BY <2>3, <2>6, BudgetsAssumption
    <3>3. /\ SubSeq(all, Len(all) - SummaryCap + 1, Len(all)) \in Seq(1..MaxRuns)
          /\ Len(SubSeq(all, Len(all) - SummaryCap + 1, Len(all))) =
               IF Len(all) - SummaryCap + 1 <= Len(all)
               THEN Len(all) - (Len(all) - SummaryCap + 1) + 1 ELSE 0
      <4>1. Len(all) - SummaryCap + 1 \in Int /\ Len(all) \in Int
        BY <2>3, <3>2
      <4>2. \A i \in (Len(all) - SummaryCap + 1)..Len(all) : all[i] \in 1..MaxRuns
        <5>1. \A i \in 1..Len(all) : all[i] \in 1..MaxRuns
          BY <2>3, ElementOfSeq
        <5> QED
          BY <2>3, <3>2, <5>1
      <4> QED
        BY <4>1, <4>2, SubSeqProperties
    <3> QED
      BY <2>3, <2>4, <3>1, <3>3, BudgetsAssumption
  <2> QED
    BY <2>3, <2>5, <2>6, BudgetsAssumption
<1> QED
  BY <1>1, <1>2
------------------------------------------------------------------------------
(* Where each handler is, and what it carries.                               *)
Active == {"running", "locked", "write"}

Handlers ==
  /\ proc # "up" => smu = NoOne /\ \A h \in Writers : spc[h] = "idle"
  /\ \A h \in Writers :
       /\ spc[h] \in {"locked", "write"} <=> smu = h
       /\ spc[h] \in Active => run[h] \in Run /\ run[h].n <= count
       /\ spc[h] \in {"idle", "running"} => evicted[h] = <<>>
  /\ \A g, h \in Writers :
       spc[g] \in Active /\ spc[h] \in Active /\ run[g].n = run[h].n => g = h

SessTyped ==
  /\ clock \in 0..MaxClock /\ count \in 0..MaxRuns
  /\ doc \in Document
  /\ sfile # Torn => sfile \in Document
  /\ smu \in Writers \union {NoOne}
  /\ spc \in [Writers -> SPC]
  /\ run \in [Writers -> Run \union {NoRun}]
  /\ evicted \in [Writers -> Seq(Run)]
  /\ serr \in BOOLEAN /\ restarted \in BOOLEAN
  /\ done \subseteq 1..count /\ lost \subseteq 1..MaxRuns

SessInv == SessTyped /\ Handlers

(* At first there are no sessions and no handlers.                           *)
LEMMA EmptyDocument == [s \in Session |-> EmptySession] \in Document
<1>1. EmptySession \in Memory
  <2>1. <<>> \in Seq(Run) /\ <<>> \in Seq(1..MaxRuns) /\ Len(<<>>) = 0
    BY EmptySeq
  <2> QED
    BY <2>1, BudgetsAssumption DEF EmptySession, Memory
<1> QED
  BY <1>1 DEF Document

LEMMA SessInit == SInit => SessInv
<1> SUFFICES ASSUME SInit PROVE SessInv
  OBVIOUS
<1>1. 0 \in 0..MaxClock /\ 0 \in 0..MaxRuns
  BY BoundsAssumption
<1>2. /\ clock = 0 /\ count = 0 /\ doc = [s \in Session |-> EmptySession] /\ sfile = doc
      /\ smu = NoOne /\ spc = [h \in Writers |-> "idle"] /\ run = [h \in Writers |-> NoRun]
      /\ evicted = [h \in Writers |-> <<>>] /\ serr = FALSE /\ restarted = FALSE
      /\ done = {} /\ lost = {}
  BY DEF SInit
<1>3. SessTyped
  BY <1>1, <1>2, EmptyDocument, EmptySeq DEF SessTyped, SPC
<1>4. Handlers
  BY <1>2, NoOneAssumption DEF Handlers, Active
<1> QED
  BY <1>3, <1>4 DEF SessInv

(* Every step keeps the handlers apart, their mutex included.                *)
LEMMA SessStep == SessInv /\ [SNext]_svars => SessInv'
<1> SUFFICES ASSUME SessInv, [SNext]_svars PROVE SessInv'
  OBVIOUS
<1>0. SessTyped /\ Handlers
  BY DEF SessInv
<1>1. CASE Tick
  <2>1. /\ clock' = clock + 1 /\ clock < MaxClock
        /\ UNCHANGED <<proc, count, doc, smu, sfile, spc, run, evicted, serr, done, lost, restarted>>
    BY <1>1 DEF Tick, hvars, memVars, sessObsVars
  <2>2. SessTyped'
    BY <1>0, <2>1, BoundsAssumption DEF SessTyped
  <2> QED
    BY <1>0, <2>1, <2>2 DEF SessInv, Handlers
<1>2. CASE SStart
  <2>1. /\ proc = "down" /\ proc' = "up" /\ sfile # Torn /\ doc' = ReloadedDoc(sfile)
        /\ UNCHANGED <<clock, count, smu, sfile, spc, run, evicted, serr, done, lost, restarted>>
    BY <1>2 DEF SStart, Start, sessObsVars
  <2>2. SessTyped'
    BY <1>0, <2>1, ReloadKeeps DEF SessTyped
  <2> QED
    BY <1>0, <2>1, <2>2 DEF SessInv, Handlers
<1>3. CASE SStartFatal
  <2>1. /\ proc = "down" /\ proc' = "fatal"
        /\ UNCHANGED <<clock, count, doc, smu, sfile, spc, run, evicted, serr, done, lost, restarted>>
    BY <1>3 DEF SStartFatal, StartFatal, memVars, sessObsVars
  <2> QED
    BY <1>0, <2>1 DEF SessInv, SessTyped, Handlers
<1>4. CASE SCrash
  <2>1. /\ proc' = "down" /\ doc' = [s \in Session |-> EmptySession] /\ smu' = NoOne
        /\ spc' = [h \in Writers |-> "idle"] /\ run' = [h \in Writers |-> NoRun]
        /\ evicted' = [h \in Writers |-> <<>>] /\ serr' = FALSE /\ restarted' = TRUE
        /\ UNCHANGED <<clock, count, sfile, done, lost>>
    BY <1>4 DEF SCrash, Crash
  <2>2. SessTyped'
    BY <1>0, <2>1, EmptyDocument, EmptySeq DEF SessTyped, SPC
  <2>3. Handlers'
    BY <2>1, NoOneAssumption DEF Handlers, Active
  <2> QED
    BY <2>2, <2>3 DEF SessInv
<1>5. ASSUME NEW h \in Writers, NEW ask \in Asked, Parse(h, ask) PROVE SessInv'
  <2>1. /\ proc = "up" /\ spc[h] = "idle" /\ count < MaxRuns /\ count' = count + 1
        /\ spc' = [spc EXCEPT ![h] = "running"]
        /\ UNCHANGED <<proc, clock, doc, smu, sfile, evicted, serr, done, lost, restarted>>
    BY <1>5 DEF Parse, hvars
  <2>2. PICK text \in Texts :
          run' = [run EXCEPT ![h] = [n |-> count + 1,
                                     session |-> IF ask = Fresh THEN clock ELSE ask,
                                     id |-> clock, text |-> text, whole |-> FALSE]]
    BY <1>5 DEF Parse
  <2> DEFINE r == [n |-> count + 1, session |-> IF ask = Fresh THEN clock ELSE ask,
                   id |-> clock, text |-> text, whole |-> FALSE]
  <2>3. count \in Nat /\ count + 1 \in 1..MaxRuns /\ count' \in 0..MaxRuns
    BY <1>0, <2>1, BoundsAssumption DEF SessTyped
  <2>4. r \in Run
    <3>1. (IF ask = Fresh THEN clock ELSE ask) \in Session
      BY <1>0, NamesAssumption DEF SessTyped, Session
    <3> QED
      BY <1>0, <2>3, <3>1 DEF SessTyped, Run
  <2>5. r.n = count + 1
    OBVIOUS
  <2>6. run' = [run EXCEPT ![h] = r]
    BY <2>2
  <2> HIDE DEF r
  <2>7. SessTyped'
    <3>1. run' \in [Writers -> Run \union {NoRun}] /\ spc' \in [Writers -> SPC]
      BY <1>0, <2>1, <2>4, <2>6 DEF SessTyped, SPC
    <3>2. done' \subseteq 1..count'
      BY <1>0, <2>1, <2>3 DEF SessTyped
    <3> QED
      BY <1>0, <2>1, <2>3, <3>1, <3>2 DEF SessTyped
  <2>8. run \in [Writers -> Run \union {NoRun}] /\ spc \in [Writers -> SPC]
    BY <1>0 DEF SessTyped
  <2>9. \A g \in Writers : spc'[g] \in Active => run'[g] \in Run /\ run'[g].n <= count'
    <3> SUFFICES ASSUME NEW g \in Writers, spc'[g] \in Active
                 PROVE  run'[g] \in Run /\ run'[g].n <= count'
      OBVIOUS
    <3>1. CASE g = h
      BY <2>1, <2>3, <2>4, <2>5, <2>6, <2>8, <3>1
    <3>2. CASE g # h
      <4>1. spc'[g] = spc[g] /\ run'[g] = run[g]
        BY <2>1, <2>6, <2>8, <3>2
      <4>2. run[g] \in Run /\ run[g].n <= count
        BY <1>0, <4>1 DEF Handlers
      <4>3. run[g].n \in Nat
        BY <4>2 DEF Run
      <4> QED
        BY <2>1, <2>3, <4>1, <4>2, <4>3
    <3> QED
      BY <3>1, <3>2
  <2>10. ASSUME NEW f \in Writers, NEW g \in Writers, spc'[f] \in Active, spc'[g] \in Active,
                run'[f].n = run'[g].n
         PROVE  f = g
    <3>1. \A x \in Writers \ {h} : spc'[x] \in Active =>
            /\ spc[x] \in Active /\ run'[x].n = run[x].n /\ run[x].n # count + 1
      <4> SUFFICES ASSUME NEW x \in Writers \ {h}, spc'[x] \in Active
                   PROVE  /\ spc[x] \in Active /\ run'[x].n = run[x].n /\ run[x].n # count + 1
        OBVIOUS
      <4>1. spc'[x] = spc[x] /\ run'[x] = run[x]
        BY <2>1, <2>6, <2>8
      <4>2. run[x] \in Run /\ run[x].n <= count
        BY <1>0, <4>1 DEF Handlers
      <4>3. run[x].n \in Nat
        BY <4>2 DEF Run
      <4> QED
        BY <2>3, <4>1, <4>2, <4>3
    <3>2. run'[h].n = count + 1
      BY <2>5, <2>6, <2>8
    <3> QED
      BY <1>0, <2>10, <3>1, <3>2 DEF Handlers
  <2>11. \A g \in Writers : /\ spc'[g] \in {"locked", "write"} <=> smu' = g
                            /\ spc'[g] \in {"idle", "running"} => evicted'[g] = <<>>
    BY <1>0, <2>1, <2>8 DEF Handlers
  <2>12. Handlers'
    BY <2>1, <2>9, <2>10, <2>11 DEF Handlers
  <2> QED
    BY <2>7, <2>12 DEF SessInv
<1>6. ASSUME NEW h \in Writers, AppendRun(h) PROVE SessInv'
  <2> DEFINE s == run[h].session
             runs == Append(doc[s].runs, run[h])
  <2>1. /\ spc[h] = "running" /\ smu = NoOne /\ smu' = h
        /\ spc' = [spc EXCEPT ![h] = "locked"]
        /\ doc' = [doc EXCEPT ![s] = [runs    |-> Kept(runs),
                                      summary |-> FoldSummary(doc[s].summary, Dropped(runs))]]
        /\ evicted' = [evicted EXCEPT ![h] = Dropped(runs)]
        /\ UNCHANGED <<proc, clock, count, sfile, run, serr, done, lost, restarted>>
    BY <1>6 DEF AppendRun, hvars
  <2>2. s \in Session /\ run[h] \in Run
    <3>1. run[h] \in Run
      BY <1>0, <2>1 DEF Handlers, Active
    <3> QED
      BY <3>1 DEF Run
  <2>3. doc[s] \in Memory /\ doc[s].runs \in Seq(Run)
    BY <1>0, <2>2 DEF SessTyped, Document, Memory
  <2>4. runs \in Seq(Run)
    BY <2>2, <2>3, AppendProperties
  <2> HIDE DEF runs, s
  <2>5. Kept(runs) \in Seq(Run) /\ Dropped(runs) \in Seq(Run)
    BY <2>4, Compacted
  <2>6. [runs |-> Kept(runs), summary |-> FoldSummary(doc[s].summary, Dropped(runs))] \in Memory
    BY <2>3, <2>5, FoldTyped DEF Memory
  <2>7. doc' \in Document
    BY <1>0, <2>1, <2>2, <2>6 DEF SessTyped, Document
  <2>8. SessTyped'
    BY <1>0, <2>1, <2>5, <2>7 DEF SessTyped, SPC
  <2>9. proc' # "up" => smu' = NoOne /\ \A g \in Writers : spc'[g] = "idle"
    BY <1>0, <2>1 DEF Handlers
  <2>10. /\ spc \in [Writers -> SPC] /\ evicted \in [Writers -> Seq(Run)]
         /\ spc'[h] = "locked" /\ \A g \in Writers \ {h} : spc'[g] = spc[g] /\ evicted'[g] = evicted[g]
    BY <1>0, <2>1 DEF SessTyped
  <2>11. \A g \in Writers :
           /\ spc'[g] \in {"locked", "write"} <=> smu' = g
           /\ spc'[g] \in Active => run'[g] \in Run /\ run'[g].n <= count'
           /\ spc'[g] \in {"idle", "running"} => evicted'[g] = <<>>
    BY <1>0, <2>1, <2>10, NoOneAssumption DEF Handlers, Active
  <2>12. Handlers'
    BY <1>0, <2>1, <2>9, <2>10, <2>11 DEF Handlers, Active
  <2> QED
    BY <2>8, <2>12 DEF SessInv
<1>7. ASSUME NEW h \in Writers, SaveTruncate(h) PROVE SessInv'
  <2>1. /\ spc[h] = "locked" /\ sfile' = Torn /\ spc' = [spc EXCEPT ![h] = "write"]
        /\ UNCHANGED <<proc, clock, count, doc, smu, run, evicted, serr, done, lost, restarted>>
    BY <1>7 DEF SaveTruncate, hvars, sessObsVars
  <2>2. SessTyped'
    BY <1>0, <2>1 DEF SessTyped, SPC
  <2>3. spc \in [Writers -> SPC]
    BY <1>0 DEF SessTyped
  <2>4. Handlers'
    BY <1>0, <2>1, <2>3 DEF Handlers, Active
  <2> QED
    BY <2>2, <2>4 DEF SessInv
<1>8. ASSUME NEW h \in Writers, SaveWrite(h) PROVE SessInv'
  <2>1. /\ spc[h] = "write" /\ sfile' = doc /\ smu' = NoOne
        /\ spc' = [spc EXCEPT ![h] = IF evicted[h] = <<>> THEN "idle" ELSE "handoff"]
        /\ serr' = FALSE /\ done' = done \union {run[h].n}
        /\ UNCHANGED <<proc, clock, count, doc, run, evicted, lost, restarted>>
    BY <1>8 DEF SaveWrite, hvars
  <2>2. run[h] \in Run /\ run[h].n \in 1..count
    <3>1. run[h] \in Run /\ run[h].n <= count
      BY <1>0, <2>1 DEF Handlers, Active
    <3>2. run[h].n \in Nat \ {0}
      BY <3>1 DEF Run
    <3>3. count \in Nat
      BY <1>0, BoundsAssumption DEF SessTyped
    <3> QED
      BY <3>1, <3>2, <3>3
  <2>3. SessTyped'
    BY <1>0, <2>1, <2>2 DEF SessTyped, SPC
  <2>4. spc \in [Writers -> SPC] /\ smu = h
    BY <1>0, <2>1 DEF SessTyped, Handlers
  <2>5. /\ spc'[h] \in {"idle", "handoff"} /\ spc'[h] = "idle" => evicted[h] = <<>>
        /\ \A g \in Writers \ {h} : spc'[g] = spc[g]
    BY <2>1, <2>4
  <2>6. \A g \in Writers :
          /\ spc'[g] \in {"locked", "write"} <=> smu' = g
          /\ spc'[g] \in Active => run'[g] \in Run /\ run'[g].n <= count'
          /\ spc'[g] \in {"idle", "running"} => evicted'[g] = <<>>
    BY <1>0, <2>1, <2>4, <2>5, NoOneAssumption DEF Handlers, Active
  <2>7. proc' # "up" => smu' = NoOne /\ \A g \in Writers : spc'[g] = "idle"
    BY <1>0, <2>1 DEF Handlers
  <2>8. Handlers'
    BY <1>0, <2>1, <2>5, <2>6, <2>7 DEF Handlers, Active
  <2> QED
    BY <2>3, <2>8 DEF SessInv
<1>9. ASSUME NEW h \in Writers, SaveFails(h) PROVE SessInv'
  <2>1. /\ spc[h] \in {"locked", "write"} /\ smu' = NoOne
        /\ spc' = [spc EXCEPT ![h] = "idle"] /\ evicted' = [evicted EXCEPT ![h] = <<>>]
        /\ serr' = TRUE /\ lost' = lost \union {evicted[h][i].n : i \in 1..Len(evicted[h])}
        /\ UNCHANGED <<proc, clock, count, doc, sfile, run, done, restarted>>
    BY <1>9 DEF SaveFails, hvars
  <2>2. {evicted[h][i].n : i \in 1..Len(evicted[h])} \subseteq 1..MaxRuns
    <3>1. \A i \in 1..Len(evicted[h]) : evicted[h][i] \in Run
      BY <1>0, ElementOfSeq DEF SessTyped
    <3>2. \A r \in Run : r.n \in 1..MaxRuns
      BY DEF Run
    <3> QED
      BY <3>1, <3>2
  <2>3. SessTyped'
    BY <1>0, <2>1, <2>2, EmptySeq DEF SessTyped, SPC
  <2>4. spc \in [Writers -> SPC] /\ smu = h /\ evicted \in [Writers -> Seq(Run)]
    BY <1>0, <2>1 DEF SessTyped, Handlers
  <2>5. /\ spc'[h] = "idle" /\ evicted'[h] = <<>>
        /\ \A g \in Writers \ {h} : spc'[g] = spc[g] /\ evicted'[g] = evicted[g]
    BY <2>1, <2>4
  <2>6. \A g \in Writers :
          /\ spc'[g] \in {"locked", "write"} <=> smu' = g
          /\ spc'[g] \in Active => run'[g] \in Run /\ run'[g].n <= count'
          /\ spc'[g] \in {"idle", "running"} => evicted'[g] = <<>>
    BY <1>0, <2>1, <2>4, <2>5, NoOneAssumption DEF Handlers, Active
  <2>7. proc' # "up" => smu' = NoOne /\ \A g \in Writers : spc'[g] = "idle"
    BY <1>0, <2>1 DEF Handlers
  <2>8. Handlers'
    BY <1>0, <2>1, <2>5, <2>6, <2>7 DEF Handlers, Active
  <2> QED
    BY <2>3, <2>8 DEF SessInv
<1>10. ASSUME NEW h \in Writers, HandOff(h) PROVE SessInv'
  <2>1. /\ spc[h] = "handoff" /\ evicted[h] # <<>> /\ proc' = proc
        /\ evicted' = [evicted EXCEPT ![h] = Tail(evicted[h])]
        /\ UNCHANGED <<clock, count, doc, smu, sfile, spc, run, serr, done, lost, restarted>>
    BY <1>10 DEF HandOff, AppendRow, sessObsVars
  <2>2. evicted[h] \in Seq(Run) /\ Tail(evicted[h]) \in Seq(Run)
    <3>1. evicted[h] \in Seq(Run)
      BY <1>0 DEF SessTyped
    <3> QED
      BY <2>1, <3>1, HeadTailProperties
  <2>3. SessTyped'
    BY <1>0, <2>1, <2>2 DEF SessTyped
  <2>4. evicted \in [Writers -> Seq(Run)]
    BY <1>0 DEF SessTyped
  <2>5. Handlers'
    BY <1>0, <2>1, <2>4 DEF Handlers, Active
  <2> QED
    BY <2>3, <2>5 DEF SessInv
<1>11. ASSUME NEW h \in Writers, HandOffSave(h) PROVE SessInv'
  <2>1. /\ proc' = proc
        /\ UNCHANGED <<clock, count, doc, smu, sfile, spc, run, evicted, serr, done, lost, restarted>>
    BY <1>11 DEF HandOffSave, SaveStep, Marshal, OpenTruncate, OpenFails, WriteOut, WriteFails,
                memVars, sessObsVars
  <2> QED
    BY <1>0, <2>1 DEF SessInv, SessTyped, Handlers
<1>12. ASSUME NEW h \in Writers, HandOffDone(h) PROVE SessInv'
  <2>1. /\ spc[h] = "handoff" /\ evicted[h] = <<>> /\ spc' = [spc EXCEPT ![h] = "idle"]
        /\ UNCHANGED <<proc, clock, count, doc, smu, sfile, run, evicted, serr, done, lost, restarted>>
    BY <1>12 DEF HandOffDone, hvars, sessObsVars
  <2>2. SessTyped'
    BY <1>0, <2>1 DEF SessTyped, SPC
  <2>3. spc \in [Writers -> SPC]
    BY <1>0 DEF SessTyped
  <2>4. Handlers'
    BY <1>0, <2>1, <2>3 DEF Handlers, Active
  <2> QED
    BY <2>2, <2>4 DEF SessInv
<1>13. CASE UNCHANGED svars
  BY <1>0, <1>13 DEF svars, hvars, memVars, sessObsVars, SessInv, SessTyped, Handlers
<1> QED
  BY <1>1, <1>2, <1>3, <1>4, <1>5, <1>6, <1>7, <1>8, <1>9, <1>10, <1>11, <1>12, <1>13
     DEF SNext, HandlerStep

LEMMA SessInvHolds == SSpec => []SessInv
BY SessInit, SessStep, PTL DEF SSpec

(* The hook is one more writer of the log, and a start that the sessions     *)
(* make fail leaves the log as it is: the invariant of the log is kept.      *)
LEMMA LogStep ==
  ASSUME Run \subseteq Entry
  PROVE  SessInv /\ IndInv /\ [SNext]_svars => IndInv'
<1> SUFFICES ASSUME SessInv, IndInv, [SNext]_svars PROVE IndInv'
  OBVIOUS
<1>1. CASE [Next]_hvars
  BY <1>1, NextIndInv
<1>2. CASE Tick \/ UNCHANGED svars
  <2>1. UNCHANGED hvars
    BY <1>2 DEF Tick, svars
  <2> QED
    BY <1>1, <2>1
<1>3. CASE SStart \/ SCrash
  <2>1. Next
    BY <1>3 DEF SStart, SCrash, Next
  <2> QED
    BY <1>1, <2>1
<1>4. CASE SStartFatal
  <2>1. CASE StartFatal
    <3>1. Next
      BY <2>1 DEF Next
    <3> QED
      BY <1>1, <3>1
  <2>2. CASE ~StartFatal
    <3>1. /\ proc = "down" /\ proc' = "fatal" /\ UNCHANGED <<rows, file, pc, mine, snap, err, acked>>
      BY <1>4, <2>2 DEF SStartFatal
    <3> QED
      BY <3>1 DEF IndInv, TypeOK, SnapshotsArePrefixes, FileAgrees
  <2> QED
    BY <2>1, <2>2
<1>5. ASSUME NEW h \in Writers, HandlerStep(h) PROVE IndInv'
  <2>1. CASE HandOff(h)
    <3>1. evicted[h] \in Seq(Run) /\ evicted[h] # <<>>
      BY <2>1 DEF HandOff, SessInv, SessTyped
    <3>2. Head(evicted[h]) \in Entry
      BY <3>1, HeadTailProperties
    <3>3. Next
      BY <2>1, <3>2 DEF HandOff, Next
    <3> QED
      BY <1>1, <3>3
  <2>2. CASE HandOffSave(h)
    <3>1. Next
      BY <2>2 DEF HandOffSave, Next
    <3> QED
      BY <1>1, <3>1
  <2>3. CASE \/ \E ask \in Asked : Parse(h, ask)
             \/ AppendRun(h) \/ SaveTruncate(h) \/ SaveWrite(h) \/ SaveFails(h) \/ HandOffDone(h)
    <3>1. UNCHANGED hvars
      BY <2>3 DEF Parse, AppendRun, SaveTruncate, SaveWrite, SaveFails, HandOffDone
    <3> QED
      BY <1>1, <3>1
  <2> QED
    BY <1>5, <2>1, <2>2, <2>3 DEF HandlerStep
<1> QED
  BY <1>2, <1>3, <1>4, <1>5 DEF SNext

LEMMA LogInvHolds == ASSUME Run \subseteq Entry PROVE SSpec => []IndInv
<1>1. SInit => IndInv
  BY InitIndInv DEF SInit
<1>2. SessInv /\ IndInv /\ [SNext]_svars => IndInv'
  BY LogStep
<1> QED
  BY <1>1, <1>2, SessInvHolds, PTL DEF SSpec

(* Every variable of the sessions keeps its type, summaries their length, and *)
(* the log its own: any handlers, any policy, crashes and failing saves.      *)
THEOREM SessionTypes == ASSUME Run \subseteq Entry PROVE SSpec => []STypeOK
<1>1. SessInv /\ IndInv => STypeOK
  <2> SUFFICES ASSUME SessInv, IndInv PROVE STypeOK
    OBVIOUS
  <2>1. SessTyped /\ TypeOK
    BY DEF SessInv, IndInv
  <2>2. ASSUME NEW s \in Session
        PROVE  /\ doc[s].runs \in Seq(Run) /\ doc[s].summary \in Seq(1..MaxRuns)
               /\ Len(doc[s].summary) <= SummaryCap
    BY <2>1 DEF SessTyped, Document, Memory
  <2>3. done \subseteq 1..MaxRuns
    BY <2>1, BoundsAssumption DEF SessTyped
  <2>4. \A h \in Writers : run[h] \in Run \union {NoRun} /\ evicted[h] \in Seq(Run)
    BY <2>1 DEF SessTyped
  <2> QED
    BY <2>1, <2>2, <2>3, <2>4 DEF STypeOK, SessTyped
<1> QED
  BY <1>1, SessInvHolds, LogInvHolds, PTL
------------------------------------------------------------------------------
(* sessions.json is written under the mutex, so a save that has not failed   *)
(* leaves the document as it is when the mutex is released.                  *)
LEMMA SavedStep == SessInv /\ SessionsSaved /\ [SNext]_svars => SessionsSaved'
<1> SUFFICES ASSUME SessInv, SessionsSaved, [SNext]_svars,
                    proc' = "up", smu' = NoOne, ~serr'
             PROVE  sfile' # Torn /\ ReloadedDoc(sfile') = ReloadedDoc(doc')
  BY DEF SessionsSaved
<1>0. SessTyped /\ Handlers
  BY DEF SessInv
<1>1. CASE UNCHANGED <<proc, doc, smu, sfile, serr>>
  BY <1>1 DEF SessionsSaved
<1>2. CASE Tick \/ UNCHANGED svars
  BY <1>1, <1>2 DEF Tick, svars, hvars, memVars, sessObsVars
<1>3. CASE SStart
  <2>1. sfile \in Document /\ sfile # Torn /\ sfile' = sfile /\ doc' = ReloadedDoc(sfile)
    BY <1>0, <1>3 DEF SStart, SessTyped
  <2> QED
    BY <2>1, ReloadKeeps
<1>4. CASE SStartFatal \/ SCrash
  BY <1>4 DEF SStartFatal, StartFatal, SCrash, Crash
<1>5. ASSUME NEW h \in Writers, HandlerStep(h)
      PROVE  sfile' # Torn /\ ReloadedDoc(sfile') = ReloadedDoc(doc')
  <2>1. CASE AppendRun(h)
    BY <2>1, NoOneAssumption DEF AppendRun
  <2>2. CASE SaveTruncate(h)
    <3>1. spc[h] = "locked" /\ smu' = smu
      BY <2>2 DEF SaveTruncate
    <3>2. smu = h
      BY <1>0, <3>1 DEF Handlers
    <3> QED
      BY <3>1, <3>2, NoOneAssumption
  <2>3. CASE SaveWrite(h)
    <3>1. sfile' = doc /\ doc' = doc /\ doc \in Document
      BY <1>0, <2>3 DEF SaveWrite, SessTyped
    <3> QED
      BY <3>1, TornAssumption
  <2>4. CASE SaveFails(h)
    BY <2>4 DEF SaveFails
  <2>5. CASE (\E ask \in Asked : Parse(h, ask)) \/ HandOffDone(h)
    BY <1>1, <2>5 DEF Parse, HandOffDone, hvars, sessObsVars
  <2>6. CASE HandOff(h)
    BY <1>1, <2>6 DEF HandOff, AppendRow, sessObsVars
  <2>7. CASE HandOffSave(h)
    BY <1>1, <2>7 DEF HandOffSave, SaveStep, Marshal, OpenTruncate, OpenFails, WriteOut, WriteFails,
                      memVars, sessObsVars
  <2> QED
    BY <1>5, <2>1, <2>2, <2>3, <2>4, <2>5, <2>6, <2>7 DEF HandlerStep
<1> QED
  BY <1>2, <1>3, <1>4, <1>5 DEF SNext

(* When no save is under way and the last one did not fail, sessions.json is *)
(* the document in memory, for any number of concurrent handlers.            *)
THEOREM SessionsAreSaved == SSpec => []SessionsSaved
<1>1. SInit => SessionsSaved
  BY EmptyDocument, TornAssumption DEF SInit, Init, SessionsSaved
<1> QED
  BY <1>1, SavedStep, SessInvHolds, PTL DEF SSpec
------------------------------------------------------------------------------
(* The numbers in a sequence that grows at its end or shrinks at its front.  *)
LEMMA NumbersEmpty == Numbers(<<>>) = {} /\ Distinct(<<>>)
<1>1. Len(<<>>) = 0
  BY EmptySeq
<1>2. \A i \in 1..Len(<<>>) : FALSE
  BY <1>1
<1> QED
  BY <1>2 DEF Numbers, Distinct

LEMMA NumbersAppend ==
  ASSUME NEW S, NEW s \in Seq(S), NEW e \in S
  PROVE  /\ Numbers(Append(s, e)) = Numbers(s) \union {e.n}
         /\ Distinct(s) /\ e.n \notin Numbers(s) => Distinct(Append(s, e))
<1> DEFINE t == Append(s, e)
<1>1. /\ Len(s) \in Nat /\ Len(t) = Len(s) + 1 /\ t[Len(s) + 1] = e
      /\ \A i \in 1..Len(s) : t[i] = s[i]
  BY AppendProperties, LenProperties
<1> HIDE DEF t
<1>2. 1..Len(t) = 1..Len(s) \union {Len(s) + 1}
  BY <1>1
<1>3. Numbers(t) = Numbers(s) \union {e.n}
  BY <1>1, <1>2 DEF Numbers
<1>4. ASSUME Distinct(s), e.n \notin Numbers(s) PROVE Distinct(t)
  <2>1. \A i \in 1..Len(s) : t[i].n # t[Len(s) + 1].n
    BY <1>1, <1>4 DEF Numbers
  <2>2. \A i, j \in 1..Len(s) : t[i].n = t[j].n => i = j
    BY <1>1, <1>4 DEF Distinct
  <2> QED
    BY <1>2, <2>1, <2>2 DEF Distinct
<1> QED
  BY <1>3, <1>4 DEF t

LEMMA NumbersTail ==
  ASSUME NEW S, NEW s \in Seq(S), s # <<>>
  PROVE  /\ Numbers(s) = {Head(s).n} \union Numbers(Tail(s))
         /\ Distinct(s) => Distinct(Tail(s)) /\ Head(s).n \notin Numbers(Tail(s))
<1> DEFINE t == Tail(s)
           e == Head(s)
<1>1. /\ Len(s) \in Nat /\ Len(s) # 0 /\ Len(t) = Len(s) - 1 /\ e = s[1]
      /\ \A i \in 1..Len(t) : t[i] = s[i + 1]
  BY HeadTailProperties, LenProperties, EmptySeq
<1> HIDE DEF t, e
<1>2. \A i \in 1..Len(t) : i + 1 \in 1..Len(s) /\ i + 1 # 1
  BY <1>1
<1>3. \A i \in 1..Len(s) : i = 1 \/ (i - 1 \in 1..Len(t) /\ s[i] = t[i - 1])
  BY <1>1
<1>4. 1 \in 1..Len(s)
  BY <1>1
<1>5. Numbers(s) = {e.n} \union Numbers(t)
  <2>1. ASSUME NEW x \in Numbers(s) PROVE x \in {e.n} \union Numbers(t)
    BY <1>1, <1>3 DEF Numbers
  <2>2. Numbers(t) \subseteq Numbers(s)
    BY <1>1, <1>2 DEF Numbers
  <2>3. e.n \in Numbers(s)
    BY <1>1, <1>4 DEF Numbers
  <2> QED
    BY <2>1, <2>2, <2>3
<1>6. ASSUME Distinct(s) PROVE Distinct(t) /\ e.n \notin Numbers(t)
  <2>1. ASSUME NEW i \in 1..Len(t), NEW j \in 1..Len(t), t[i].n = t[j].n PROVE i = j
    <3>1. i + 1 = j + 1
      BY <1>1, <1>2, <1>6, <2>1 DEF Distinct
    <3> QED
      BY <1>1, <3>1
  <2>2. \A i \in 1..Len(t) : t[i].n # e.n
    BY <1>1, <1>2, <1>4, <1>6 DEF Distinct
  <2> QED
    BY <2>1, <2>2 DEF Distinct, Numbers
<1> QED
  BY <1>5, <1>6 DEF t, e

(* What AppendRun does to the numbers: the new run and those of its session  *)
(* are afterwards either in the session or with the handler.                 *)
LEMMA AppendRunEffect ==
  ASSUME SessInv, NEW h \in Writers, AppendRun(h)
  PROVE  \E s \in Session, n \in 1..MaxRuns :
           /\ s = run[h].session /\ n = run[h].n /\ evicted[h] = <<>>
           /\ Numbers(doc'[s].runs) \union Numbers(evicted'[h]) = Numbers(doc[s].runs) \union {n}
           /\ \A t \in Session \ {s} : doc'[t] = doc[t]
           /\ \A g \in Writers \ {h} : evicted'[g] = evicted[g]
           /\ Distinct(doc[s].runs) /\ n \notin Numbers(doc[s].runs) =>
                /\ Distinct(doc'[s].runs) /\ Distinct(evicted'[h])
                /\ Numbers(doc'[s].runs) \intersect Numbers(evicted'[h]) = {}
           /\ s \notin clash' => n \in Numbers(doc'[s].runs)
<1> DEFINE s == run[h].session
           n == run[h].n
           old == doc[s].runs
           runs == Append(old, run[h])
<1>1. SessTyped /\ Handlers
  BY DEF SessInv
<1>2. /\ spc[h] = "running"
      /\ doc' = [doc EXCEPT ![s] = [runs    |-> Kept(runs),
                                    summary |-> FoldSummary(doc[s].summary, Dropped(runs))]]
      /\ evicted' = [evicted EXCEPT ![h] = Dropped(runs)]
      /\ clash' = IF \E i \in 1..Len(old) : old[i].id = run[h].id THEN clash \union {s} ELSE clash \ {s}
  BY DEF AppendRun
<1>3. run[h] \in Run /\ s \in Session /\ n \in 1..MaxRuns /\ evicted[h] = <<>>
  <2>1. run[h] \in Run /\ evicted[h] = <<>>
    BY <1>1, <1>2 DEF Handlers, Active
  <2> QED
    BY <2>1 DEF Run
<1>4. doc \in [Session -> Memory] /\ old \in Seq(Run)
  BY <1>1, <1>3 DEF SessTyped, Document, Memory
<1>5. runs \in Seq(Run) /\ Len(old) \in Nat /\ Len(runs) = Len(old) + 1
      /\ runs[Len(old) + 1] = run[h] /\ \A i \in 1..Len(old) : runs[i] = old[i]
  BY <1>3, <1>4, AppendProperties, LenProperties
<1>6. /\ Numbers(runs) = Numbers(old) \union {n}
      /\ Distinct(old) /\ n \notin Numbers(old) => Distinct(runs)
  BY <1>3, <1>4, NumbersAppend
<1>7. evicted \in [Writers -> Seq(Run)]
  BY <1>1 DEF SessTyped
<1> HIDE DEF runs, s, n
<1>8. doc'[s].runs = Kept(runs) /\ evicted'[h] = Dropped(runs)
  BY <1>2, <1>3, <1>4, <1>7
<1>9. /\ \A t \in Session \ {s} : doc'[t] = doc[t]
      /\ \A g \in Writers \ {h} : evicted'[g] = evicted[g]
  BY <1>2, <1>4, <1>7
<1>10. s \notin clash' => n \in Numbers(doc'[s].runs)
  <2> SUFFICES ASSUME s \notin clash' PROVE n \in Numbers(Kept(runs))
    BY <1>8
  <2>1. \A i \in 1..Len(old) : old[i].id # run[h].id
    BY <1>2
  <2>2. /\ Len(old) + 1 \in 1..Len(runs) /\ Len(old) + 1 = Len(runs)
        /\ \A i \in 1..((Len(old) + 1) - 1) : runs[i].id # runs[Len(old) + 1].id
    BY <1>5, <2>1
  <2> QED
    BY <1>5, <2>2, Compacted DEF n
<1>11. /\ Numbers(runs) = Numbers(Kept(runs)) \union Numbers(Dropped(runs))
       /\ Distinct(runs) => /\ Distinct(Kept(runs)) /\ Distinct(Dropped(runs))
                            /\ Numbers(Kept(runs)) \intersect Numbers(Dropped(runs)) = {}
  BY <1>5, Compacted
<1>12. s = run[h].session /\ n = run[h].n
  BY DEF s, n
<1> QED
  BY <1>3, <1>6, <1>8, <1>9, <1>10, <1>11, <1>12

(* The hook takes the first of the runs to the log.                          *)
LEMMA HandOffEffect ==
  ASSUME Run \subseteq Entry, SessInv, IndInv, NEW h \in Writers, HandOff(h)
  PROVE  \E n \in 1..MaxRuns :
           /\ Numbers(rows') = Numbers(rows) \union {n}
           /\ Numbers(evicted[h]) = {n} \union Numbers(evicted'[h])
           /\ \A g \in Writers \ {h} : evicted'[g] = evicted[g]
           /\ Distinct(evicted[h]) => Distinct(evicted'[h]) /\ n \notin Numbers(evicted'[h])
           /\ Distinct(rows) /\ n \notin Numbers(rows) => Distinct(rows')
<1> DEFINE e == Head(evicted[h])
<1>1. /\ evicted \in [Writers -> Seq(Run)] /\ evicted[h] # <<>> /\ rows \in Seq(Entry)
      /\ rows' = Append(rows, e) /\ evicted' = [evicted EXCEPT ![h] = Tail(evicted[h])]
  BY DEF SessInv, SessTyped, IndInv, TypeOK, HandOff, AppendRow
<1>2. e \in Run /\ e \in Entry
  BY <1>1, HeadTailProperties
<1>3. e.n \in 1..MaxRuns
  BY <1>2 DEF Run
<1>4. evicted'[h] = Tail(evicted[h]) /\ \A g \in Writers \ {h} : evicted'[g] = evicted[g]
  BY <1>1
<1>5. /\ Numbers(evicted[h]) = {e.n} \union Numbers(evicted'[h])
      /\ Distinct(evicted[h]) => Distinct(evicted'[h]) /\ e.n \notin Numbers(evicted'[h])
  BY <1>1, <1>4, NumbersTail
<1>6. /\ Numbers(rows') = Numbers(rows) \union {e.n}
      /\ Distinct(rows) /\ e.n \notin Numbers(rows) => Distinct(rows')
  BY <1>1, <1>2, NumbersAppend
<1> QED
  BY <1>3, <1>4, <1>5, <1>6

(* No other step of a handler moves a run.                                   *)
Quiet == \/ Tick \/ UNCHANGED svars
         \/ \E h \in Writers : \/ \E ask \in Asked : Parse(h, ask)
                             \/ SaveTruncate(h) \/ SaveWrite(h)
                             \/ HandOffSave(h) \/ HandOffDone(h)

(* The kinds of steps there are, as far as places are concerned.             *)
LEMMA StepKinds ==
  [SNext]_svars => \/ SStart \/ SStartFatal \/ SCrash \/ Quiet
                   \/ \E h \in Writers : AppendRun(h) \/ SaveFails(h) \/ HandOff(h)
BY DEF SNext, HandlerStep, Quiet

(* What those other steps leave alone.                                       *)
LEMMA QuietMovesNothing == Quiet => UNCHANGED <<proc, rows, doc, evicted, lost, restarted>>
BY DEF Quiet, Tick, Parse, SaveTruncate, SaveWrite, HandOffSave, HandOffDone, SaveStep, Marshal,
       OpenTruncate, OpenFails, WriteOut, WriteFails, svars, hvars, memVars, sessObsVars
------------------------------------------------------------------------------
(* Where a run can be found, by its number.                                  *)
Found == {n \in 1..MaxRuns : \/ \E s \in Session : n \in Numbers(doc[s].runs)
                             \/ \E h \in Writers : n \in Numbers(evicted[h])
                             \/ n \in Numbers(rows)
                             \/ n \in lost}

LostInv == ~restarted =>
  /\ proc # "up" => done = {}
  /\ proc = "up" => /\ done \subseteq Found
                    /\ \A h \in Writers : spc[h] \in {"locked", "write"} => run[h].n \in Found

(* While the process is up a run that can be found stays so.                 *)
LEMMA FoundStays ==
  ASSUME Run \subseteq Entry, SessInv, IndInv, [SNext]_svars, proc = "up", proc' = "up",
         NEW n \in Found
  PROVE  n \in Found'
<1>1. CASE Quiet
  BY <1>1, QuietMovesNothing DEF Found
<1>2. CASE SStart \/ SStartFatal \/ SCrash
  BY <1>2 DEF SStart, Start, SStartFatal, StartFatal, SCrash, Crash
<1>3. ASSUME NEW h \in Writers, AppendRun(h) PROVE n \in Found'
  <2>1. rows' = rows /\ lost' = lost
    BY <1>3 DEF AppendRun, hvars
  <2>2. PICK s \in Session, m \in 1..MaxRuns :
          /\ evicted[h] = <<>>
          /\ Numbers(doc'[s].runs) \union Numbers(evicted'[h]) = Numbers(doc[s].runs) \union {m}
          /\ \A t \in Session \ {s} : doc'[t] = doc[t]
          /\ \A g \in Writers \ {h} : evicted'[g] = evicted[g]
    BY <1>3, AppendRunEffect
  <2>3. \A t \in Session : n \in Numbers(doc[t].runs) =>
          n \in Numbers(doc'[t].runs) \/ n \in Numbers(evicted'[h])
    BY <2>2
  <2>4. \A g \in Writers : n \in Numbers(evicted[g]) => n \in Numbers(evicted'[g])
    BY <2>2, NumbersEmpty
  <2> QED
    BY <2>1, <2>3, <2>4 DEF Found
<1>4. ASSUME NEW h \in Writers, SaveFails(h) PROVE n \in Found'
  <2>1. /\ rows' = rows /\ doc' = doc /\ lost' = lost \union Numbers(evicted[h])
        /\ evicted' = [evicted EXCEPT ![h] = <<>>]
    BY <1>4 DEF SaveFails, hvars, Numbers
  <2>2. \A g \in Writers \ {h} : evicted'[g] = evicted[g]
    BY <2>1 DEF SessInv, SessTyped
  <2> QED
    BY <2>1, <2>2 DEF Found
<1>5. ASSUME NEW h \in Writers, HandOff(h) PROVE n \in Found'
  <2>1. doc' = doc /\ lost' = lost
    BY <1>5 DEF HandOff, sessObsVars
  <2>2. PICK m \in 1..MaxRuns :
          /\ Numbers(rows') = Numbers(rows) \union {m}
          /\ Numbers(evicted[h]) = {m} \union Numbers(evicted'[h])
          /\ \A g \in Writers \ {h} : evicted'[g] = evicted[g]
    BY <1>5, HandOffEffect
  <2>3. \A g \in Writers : n \in Numbers(evicted[g]) =>
          n \in Numbers(evicted'[g]) \/ n \in Numbers(rows')
    BY <2>2
  <2> QED
    BY <2>1, <2>2, <2>3 DEF Found
<1> QED
  BY <1>1, <1>2, <1>3, <1>4, <1>5, StepKinds

(* SaveWrite alone adds to the runs that have to be somewhere, and only one  *)
(* that AppendRun had put in a place.                                        *)
LEMMA LostStep ==
  ASSUME Run \subseteq Entry
  PROVE  SessInv /\ IndInv /\ LostInv /\ [SNext]_svars => LostInv'
<1> SUFFICES ASSUME SessInv, IndInv, LostInv, [SNext]_svars, ~restarted' PROVE LostInv'
  BY DEF LostInv
<1>1. ASSUME proc' # "up" PROVE done' = {}
  <2>1. ~SCrash
    BY DEF SCrash
  <2>2. CASE SStart
    BY <1>1, <2>2 DEF SStart, Start
  <2>3. CASE SStartFatal
    BY <2>3 DEF SStartFatal, StartFatal, sessObsVars, LostInv
  <2>4. CASE Quiet
    <3>1. proc # "up" /\ ~restarted
      BY <1>1, <2>4, QuietMovesNothing
    <3>2. \A h \in Writers : spc[h] = "idle"
      BY <3>1 DEF SessInv, Handlers
    <3>3. done' = done
      BY <2>4, <3>2 DEF Quiet, Tick, Parse, SaveTruncate, SaveWrite, HandOffSave, HandOffDone,
                        svars, sessObsVars
    <3> QED
      BY <3>1, <3>3 DEF LostInv
  <2>5. ASSUME NEW h \in Writers, AppendRun(h) \/ SaveFails(h) \/ HandOff(h) PROVE FALSE
    <3>1. spc[h] # "idle" /\ proc' = proc
      BY <2>5 DEF AppendRun, SaveFails, HandOff, AppendRow, hvars
    <3> QED
      BY <1>1, <3>1 DEF SessInv, Handlers
  <2> QED
    BY <2>1, <2>2, <2>3, <2>4, <2>5, StepKinds
<1>2. ASSUME proc' = "up", proc # "up"
      PROVE  /\ done' \subseteq Found'
             /\ \A h \in Writers : spc'[h] \in {"locked", "write"} => run'[h].n \in Found'
  <2>1. SStart
    <3>1. ~SStartFatal /\ ~SCrash /\ ~Quiet
      BY <1>2, QuietMovesNothing DEF SStartFatal, StartFatal, SCrash, Crash
    <3>2. ASSUME NEW h \in Writers, AppendRun(h) \/ SaveFails(h) \/ HandOff(h) PROVE FALSE
      <4>1. spc[h] # "idle" /\ proc' = proc
        BY <3>2 DEF AppendRun, SaveFails, HandOff, AppendRow, hvars
      <4> QED
        BY <1>2, <4>1
    <3> QED
      BY <3>1, <3>2, StepKinds
  <2>2. done' = done /\ spc' = spc /\ restarted' = restarted
    BY <2>1 DEF SStart, sessObsVars
  <2>3. \A h \in Writers : spc[h] = "idle"
    BY <1>2 DEF SessInv, Handlers
  <2> QED
    BY <1>2, <2>2, <2>3 DEF LostInv
<1>3. ASSUME proc' = "up", proc = "up"
      PROVE  /\ done' \subseteq Found'
             /\ \A h \in Writers : spc'[h] \in {"locked", "write"} => run'[h].n \in Found'
  <2>1. ~restarted
    <3>1. restarted' = restarted \/ SCrash
      BY StepKinds, QuietMovesNothing
         DEF SStart, SStartFatal, AppendRun, SaveFails, HandOff, sessObsVars
    <3> QED
      BY <3>1 DEF SCrash
  <2>2. /\ done \subseteq Found
        /\ \A h \in Writers : spc[h] \in {"locked", "write"} => run[h].n \in Found
    BY <1>3, <2>1 DEF LostInv
  <2>3. /\ done \subseteq Found'
        /\ \A h \in Writers : spc[h] \in {"locked", "write"} => run[h].n \in Found'
    BY <1>3, <2>2, FoundStays
  <2>4. ASSUME NEW n \in done' PROVE n \in Found'
    <3>1. n \in done \/ \E h \in Writers : spc[h] = "write" /\ n = run[h].n
      <4>1. ~SCrash
        BY DEF SCrash
      <4>2. CASE \E h \in Writers : SaveWrite(h)
        BY <2>4, <4>2 DEF SaveWrite
      <4>3. CASE ~ \E h \in Writers : SaveWrite(h)
        BY <2>4, <4>1, <4>3 DEF SNext, HandlerStep, SStart, SStartFatal, Tick, Parse, AppendRun,
           SaveTruncate, SaveFails, HandOff, HandOffSave, HandOffDone, svars, sessObsVars
      <4> QED
        BY <4>2, <4>3
    <3> QED
      BY <2>3, <3>1
  <2>5. ASSUME NEW h \in Writers, spc'[h] \in {"locked", "write"} PROVE run'[h].n \in Found'
    <3>1. CASE spc[h] \in {"locked", "write"} /\ run'[h].n = run[h].n
      BY <2>3, <3>1
    <3>2. CASE AppendRun(h)
      <4>1. PICK s \in Session, m \in 1..MaxRuns :
              /\ m = run[h].n
              /\ Numbers(doc'[s].runs) \union Numbers(evicted'[h]) = Numbers(doc[s].runs) \union {m}
        BY <3>2, AppendRunEffect
      <4>2. run' = run
        BY <3>2 DEF AppendRun
      <4> QED
        BY <4>1, <4>2 DEF Found
    <3>3. CASE ~AppendRun(h)
      <4>1. spc \in [Writers -> SPC] /\ run \in [Writers -> Run \union {NoRun}]
        BY DEF SessInv, SessTyped
      <4>2. CASE SStart \/ SStartFatal \/ SCrash
        BY <1>3, <4>2 DEF SStart, Start, SStartFatal, StartFatal, SCrash, Crash
      <4>3. CASE Tick \/ UNCHANGED svars
        BY <2>5, <3>1, <4>3 DEF Tick, svars, memVars
      <4>4. ASSUME NEW g \in Writers, HandlerStep(g)
            PROVE  spc[h] \in {"locked", "write"} /\ run'[h].n = run[h].n
        <5>1. CASE \E ask \in Asked : Parse(g, ask)
          BY <2>5, <4>1, <5>1 DEF Parse
        <5>2. CASE AppendRun(g)
          BY <2>5, <3>3, <4>1, <5>2 DEF AppendRun
        <5>3. CASE SaveTruncate(g) \/ SaveWrite(g) \/ SaveFails(g) \/ HandOff(g) \/ HandOffSave(g)
                   \/ HandOffDone(g)
          BY <2>5, <4>1, <5>3 DEF SaveTruncate, SaveWrite, SaveFails, HandOff, HandOffSave,
                                  HandOffDone, memVars
        <5> QED
          BY <4>4, <5>1, <5>2, <5>3 DEF HandlerStep
      <4> QED
        BY <3>1, <4>2, <4>3, <4>4 DEF SNext
    <3> QED
      BY <3>2, <3>3
  <2> QED
    BY <2>4, <2>5
<1> QED
  BY <1>1, <1>2, <1>3 DEF LostInv

(* Until the process dies, a run whose AppendRun returned nil is in its      *)
(* session, on its way to the log or in it, but for the runs that AppendRuns *)
(* with failing saves have evicted: for any handlers and any failing writes. *)
THEOREM NothingElseIsLost ==
  ASSUME Run \subseteq Entry
  PROVE  SSpec => []NoOtherRunLost
<1>1. SInit => LostInv
  BY DEF SInit, Init, LostInv
<1>2. SessInv /\ IndInv /\ LostInv /\ [SNext]_svars => LostInv'
  BY LostStep
<1>3. LostInv => NoOtherRunLost
  <2> SUFFICES ASSUME LostInv, proc = "up", ~restarted
               PROVE  done \subseteq AtWork \union Pending \union Episodic \union lost
    BY DEF NoOtherRunLost
  <2> SUFFICES ASSUME NEW n \in done PROVE n \in AtWork \union Pending \union Episodic \union lost
    OBVIOUS
  <2>1. n \in Found
    BY DEF LostInv
  <2>2. /\ \A s \in Session : Working(s) = Numbers(doc[s].runs)
        /\ Episodic = Numbers(rows)
        /\ \A h \in Writers : Numbers(evicted[h]) \subseteq Pending
    BY DEF Working, Pending, Episodic, Numbers
  <2>3. \/ \E s \in Session : n \in Working(s)
        \/ n \in Pending \/ n \in Episodic \/ n \in lost
    BY <2>1, <2>2 DEF Found
  <2>4. (\E s \in Session : n \in Working(s)) => n \in AtWork
    BY DEF AtWork
  <2> QED
    BY <2>3, <2>4
<1> QED
  BY <1>1, <1>2, <1>3, SessInvHolds, LogInvHolds, PTL DEF SSpec
------------------------------------------------------------------------------
(* The number of the last run of a session is new until that run is saved;   *)
(* from then on, unless its id clashed, the run is in the document and in    *)
(* the file, whatever other handlers save.                                   *)
LatestTyped == latest \in [Session -> 0..count] /\ clash \subseteq Session

UnderWay ==
  \A h \in Writers : spc[h] \in Active =>
    /\ run[h].n \notin done
    /\ \A s \in Session : latest[s] = run[h].n => s = run[h].session
    /\ spc[h] # "running" /\ run[h].session \notin clash
         => run[h].n \in Numbers(doc[run[h].session].runs)

LatestThere ==
  \A s \in Session : s \notin clash /\ latest[s] \in done =>
    /\ proc = "up" => latest[s] \in Numbers(doc[s].runs)
    /\ sfile # Torn => latest[s] \in Numbers(sfile[s].runs)

LatestInv == LatestTyped /\ UnderWay /\ LatestThere

(* The mutex keeps the document of a run that is being saved as it is.       *)
LEMMA LatestStep == SessInv /\ LatestInv /\ [SNext]_svars => LatestInv'
<1> SUFFICES ASSUME SessInv, LatestInv, [SNext]_svars PROVE LatestInv'
  OBVIOUS
<1>0. /\ SessTyped /\ Handlers /\ LatestTyped /\ UnderWay /\ LatestThere
      /\ spc \in [Writers -> SPC] /\ run \in [Writers -> Run \union {NoRun}]
      /\ count \in Nat /\ done \subseteq 1..count /\ latest \in [Session -> 0..count]
      /\ \A h \in Writers : spc[h] \in Active => run[h] \in Run
  BY BoundsAssumption DEF SessInv, SessTyped, LatestInv, LatestTyped, Handlers
<1>1. CASE \/ Tick \/ SStartFatal \/ UNCHANGED svars
           \/ \E h \in Writers : HandOff(h) \/ HandOffSave(h) \/ HandOffDone(h)
  <2>1. /\ UNCHANGED <<doc, sfile, done, latest, clash, count, run>>
        /\ proc' = "up" => proc = "up"
    BY <1>1 DEF Tick, SStartFatal, StartFatal, HandOff, AppendRow, HandOffSave, SaveStep, Marshal,
       OpenTruncate, OpenFails, WriteOut, WriteFails, HandOffDone, svars, hvars, memVars, sessObsVars
  <2>2. \A h \in Writers : spc'[h] \in Active => spc[h] = spc'[h]
    BY <1>0, <1>1 DEF Tick, SStartFatal, HandOff, HandOffSave, HandOffDone, svars, memVars, Active
  <2>3. UnderWay'
    BY <1>0, <2>1, <2>2 DEF UnderWay
  <2>4. LatestThere'
    BY <1>0, <2>1 DEF LatestThere
  <2>5. LatestTyped'
    BY <1>0, <2>1 DEF LatestTyped
  <2> QED
    BY <2>3, <2>4, <2>5 DEF LatestInv
<1>2. CASE SStart
  <2>1. /\ UNCHANGED <<sfile, done, latest, clash, count, run, spc>>
        /\ doc' = ReloadedDoc(sfile) /\ sfile # Torn /\ proc # "up"
    BY <1>2 DEF SStart, Start, sessObsVars
  <2>2. \A s \in Session : Numbers(doc'[s].runs) = Numbers(sfile[s].runs)
    BY <1>0, <2>1, ReloadKeeps DEF SessTyped
  <2>3. UnderWay'
    BY <1>0, <2>1 DEF UnderWay, Handlers, Active
  <2>4. LatestThere'
    BY <1>0, <2>1, <2>2 DEF LatestThere
  <2>5. LatestTyped'
    BY <1>0, <2>1 DEF LatestTyped
  <2> QED
    BY <2>3, <2>4, <2>5 DEF LatestInv
<1>3. CASE SCrash
  <2>1. /\ UNCHANGED <<sfile, done, latest, clash, count>>
        /\ proc' # "up" /\ \A h \in Writers : spc'[h] = "idle"
    BY <1>3 DEF SCrash, Crash
  <2> QED
    BY <1>0, <2>1 DEF LatestInv, LatestTyped, UnderWay, LatestThere, Active
<1>4. ASSUME NEW h \in Writers, NEW ask \in Asked, Parse(h, ask) PROVE LatestInv'
  <2>1. /\ UNCHANGED <<proc, doc, sfile, done, latest, clash>>
        /\ count' = count + 1 /\ spc' = [spc EXCEPT ![h] = "running"]
        /\ run' = [run EXCEPT ![h] = run'[h]] /\ run'[h].n = count + 1
    BY <1>0, <1>4 DEF Parse, hvars
  <2>2. LatestTyped'
    BY <1>0, <2>1 DEF LatestTyped
  <2>3. \A g \in Writers \ {h} : spc'[g] = spc[g] /\ run'[g] = run[g]
    BY <1>0, <2>1
  <2>4. spc'[h] = "running" /\ run'[h].n \notin done /\ \A s \in Session : latest[s] # run'[h].n
    BY <1>0, <2>1
  <2>5. UnderWay'
    BY <1>0, <2>1, <2>3, <2>4 DEF UnderWay, Active
  <2>6. LatestThere'
    BY <1>0, <2>1 DEF LatestThere
  <2> QED
    BY <2>2, <2>5, <2>6 DEF LatestInv
<1>5. ASSUME NEW h \in Writers, AppendRun(h) PROVE LatestInv'
  <2>1. PICK s \in Session, n \in 1..MaxRuns :
          /\ s = run[h].session /\ n = run[h].n
          /\ \A t \in Session \ {s} : doc'[t] = doc[t]
          /\ s \notin clash' => n \in Numbers(doc'[s].runs)
    BY <1>5, AppendRunEffect
  <2>2. /\ UNCHANGED <<proc, sfile, done, count, run>> /\ spc[h] = "running" /\ smu = NoOne
        /\ spc' = [spc EXCEPT ![h] = "locked"] /\ latest' = [latest EXCEPT ![s] = n]
        /\ clash' = clash \union {s} \/ clash' = clash \ {s}
    BY <1>5, <2>1 DEF AppendRun, hvars
  <2>3. n \in 1..count /\ n \notin done
    BY <1>0, <2>1, <2>2 DEF UnderWay, Handlers, Active
  <2>4. LatestTyped'
    BY <1>0, <2>1, <2>2, <2>3 DEF LatestTyped
  <2>5. latest'[s] = n /\ \A t \in Session \ {s} : latest'[t] = latest[t]
    BY <1>0, <2>1, <2>2
  <2>6. \A g \in Writers : g # h =>
          /\ spc'[g] = spc[g] /\ spc[g] \notin {"locked", "write"}
          /\ spc[g] \in Active => run[g].n # n
    BY <1>0, <2>1, <2>2, NoOneAssumption DEF Handlers, Active
  <2>7. UnderWay'
    <3> SUFFICES ASSUME NEW g \in Writers, spc'[g] \in Active
                 PROVE  /\ run[g].n \notin done
                        /\ \A t \in Session : latest'[t] = run[g].n => t = run[g].session
                        /\ spc'[g] # "running" /\ run[g].session \notin clash'
                             => run[g].n \in Numbers(doc'[run[g].session].runs)
      BY <2>2 DEF UnderWay
    <3>1. CASE g = h
      BY <1>0, <2>1, <2>2, <2>3, <2>5, <3>1 DEF UnderWay, Active
    <3>2. CASE g # h
      <4>1. spc[g] = "running" /\ spc'[g] = "running" /\ spc[g] \in Active /\ run[g].n # n
        <5>1. /\ spc'[g] = spc[g] /\ spc[g] \notin {"locked", "write"}
              /\ spc[g] \in Active => run[g].n # n
          BY <2>6, <3>2
        <5> QED
          BY <5>1 DEF Active
      <4>2. /\ run[g].n \notin done
            /\ \A t \in Session : latest[t] = run[g].n => t = run[g].session
        BY <1>0, <4>1 DEF UnderWay
      <4> QED
        BY <2>5, <4>1, <4>2
    <3> QED
      BY <3>1, <3>2
  <2>8. LatestThere'
    BY <1>0, <2>1, <2>2, <2>3, <2>5 DEF LatestThere
  <2> QED
    BY <2>4, <2>7, <2>8 DEF LatestInv
<1>6. ASSUME NEW h \in Writers, SaveTruncate(h) \/ SaveFails(h) PROVE LatestInv'
  <2>1. /\ UNCHANGED <<proc, doc, done, latest, clash, count, run>>
        /\ sfile' = sfile \/ sfile' = Torn
        /\ spc[h] \in {"locked", "write"}
        /\ spc' = [spc EXCEPT ![h] = "write"] \/ spc' = [spc EXCEPT ![h] = "idle"]
    BY <1>6 DEF SaveTruncate, SaveFails, hvars, sessObsVars
  <2>2. \A g \in Writers : /\ spc'[g] \in Active => spc[g] \in Active
                           /\ spc'[g] \in Active /\ spc'[g] # "running" => spc[g] # "running"
    BY <1>0, <2>1 DEF Active
  <2>3. UnderWay'
    BY <1>0, <2>1, <2>2 DEF UnderWay
  <2>4. LatestThere'
    BY <1>0, <2>1 DEF LatestThere
  <2>5. LatestTyped'
    BY <1>0, <2>1 DEF LatestTyped
  <2> QED
    BY <2>3, <2>4, <2>5 DEF LatestInv
<1>7. ASSUME NEW h \in Writers, SaveWrite(h) PROVE LatestInv'
  <2>1. /\ UNCHANGED <<proc, doc, latest, clash, count, run>> /\ sfile' = doc
        /\ done' = done \union {run[h].n} /\ spc[h] = "write"
        /\ spc' = [spc EXCEPT ![h] = "idle"] \/ spc' = [spc EXCEPT ![h] = "handoff"]
    BY <1>7 DEF SaveWrite, hvars
  <2>2. proc = "up" /\ spc[h] \in Active
    BY <1>0, <2>1 DEF Handlers, Active
  <2>3. \A g \in Writers : spc'[g] \in Active =>
          g # h /\ spc[g] = spc'[g] /\ run[g].n # run[h].n
    BY <1>0, <2>1, <2>2 DEF Handlers, Active
  <2>4. UnderWay'
    BY <1>0, <2>1, <2>3 DEF UnderWay
  <2>5. ASSUME NEW s \in Session, s \notin clash, latest[s] \in done'
        PROVE  latest[s] \in Numbers(doc[s].runs)
    <3>1. CASE latest[s] \in done
      BY <1>0, <2>2, <2>5, <3>1 DEF LatestThere
    <3>2. CASE latest[s] = run[h].n
      BY <1>0, <2>1, <2>2, <2>5, <3>2 DEF UnderWay
    <3> QED
      BY <2>1, <2>5, <3>1, <3>2
  <2>6. LatestThere'
    BY <2>1, <2>5 DEF LatestThere
  <2>7. LatestTyped'
    BY <1>0, <2>1 DEF LatestTyped
  <2> QED
    BY <2>4, <2>6, <2>7 DEF LatestInv
<1> QED
  BY <1>1, <1>2, <1>3, <1>4, <1>5, <1>6, <1>7 DEF SNext, HandlerStep

(* The run appended last to a session is still in it once its AppendRun has  *)
(* returned nil, unless its id was that of another run: for any number of    *)
(* handlers, over failing saves, crashes and restarts.                       *)
THEOREM LatestRunStays == SSpec => []LatestRunKeptUnlessClash
<1>1. SInit => LatestInv
  <2> SUFFICES ASSUME SInit PROVE LatestInv
    OBVIOUS
  <2>1. /\ latest = [s \in Session |-> 0] /\ clash = {} /\ done = {} /\ count = 0
        /\ \A h \in Writers : spc[h] = "idle"
    BY DEF SInit
  <2> QED
    BY <2>1 DEF LatestInv, LatestTyped, UnderWay, LatestThere, Active
<1>2. SessInv /\ LatestInv /\ [SNext]_svars => LatestInv'
  BY LatestStep
<1>3. LatestInv => LatestRunKeptUnlessClash
  BY DEF LatestInv, LatestThere, LatestRunKeptUnlessClash, Working, Numbers
<1> QED
  BY <1>1, <1>2, <1>3, SessInvHolds, PTL DEF SSpec
------------------------------------------------------------------------------
(* Where a number is.  Numbers not given out yet, or given to a dispatch     *)
(* that has not come to AppendRun, are nowhere.                              *)
Upcoming == {n \in 1..MaxRuns : \/ n > count
                                \/ \E h \in Writers : spc[h] = "running" /\ run[h].n = n}

AllDistinct ==
  /\ \A s \in Session : Distinct(doc[s].runs)
  /\ \A h \in Writers : Distinct(evicted[h])
  /\ Distinct(rows)

OnePlace == \A n \in 1..MaxRuns :
  /\ \A s, t \in Session : n \in Numbers(doc[s].runs) /\ n \in Numbers(doc[t].runs) => s = t
  /\ \A g, h \in Writers : n \in Numbers(evicted[g]) /\ n \in Numbers(evicted[h]) => g = h
  /\ \A s \in Session, h \in Writers :
       ~(n \in Numbers(doc[s].runs) /\ n \in Numbers(evicted[h]))
  /\ n \in Numbers(rows) \/ n \in Upcoming =>
       /\ \A s \in Session : n \notin Numbers(doc[s].runs)
       /\ \A h \in Writers : n \notin Numbers(evicted[h])
  /\ n \in Upcoming => n \notin Numbers(rows)

(* A number comes into a place through AppendRun only.                       *)
LEMMA UpcomingStep ==
  ASSUME SessInv, [SNext]_svars
  PROVE  /\ Upcoming' \subseteq Upcoming
         /\ \A h \in Writers : AppendRun(h) =>
              run[h].n \in Upcoming /\ run[h].n \notin Upcoming'
<1>1. /\ spc \in [Writers -> SPC] /\ run \in [Writers -> Run \union {NoRun}] /\ count \in Nat
      /\ \A h \in Writers : spc[h] \in Active =>
           run[h] \in Run /\ run[h].n \in 1..MaxRuns /\ run[h].n <= count
      /\ \A g, h \in Writers :
           spc[g] \in Active /\ spc[h] \in Active /\ run[g].n = run[h].n => g = h
  BY BoundsAssumption DEF SessInv, SessTyped, Handlers, Run
<1>2. ASSUME \/ Tick \/ UNCHANGED svars \/ SStart \/ SStartFatal \/ SCrash
           \/ \E h \in Writers : \/ SaveTruncate(h) \/ SaveWrite(h) \/ SaveFails(h)
                                 \/ HandOff(h) \/ HandOffSave(h) \/ HandOffDone(h)
      PROVE  Upcoming' \subseteq Upcoming
  <2>1. /\ count' = count
        /\ \A h \in Writers : spc'[h] = "running" => spc[h] = "running" /\ run'[h] = run[h]
    BY <1>1, <1>2 DEF Tick, svars, memVars, SStart, SStartFatal, SCrash, SaveTruncate, SaveWrite,
       SaveFails, HandOff, HandOffSave, HandOffDone
  <2> QED
    BY <2>1 DEF Upcoming
<1>3. ASSUME NEW h \in Writers, NEW ask \in Asked, Parse(h, ask)
      PROVE  Upcoming' \subseteq Upcoming
  <2>1. /\ count' = count + 1 /\ spc' = [spc EXCEPT ![h] = "running"]
        /\ run'[h].n = count + 1 /\ \A g \in Writers : g # h => run'[g] = run[g]
    BY <1>1, <1>3 DEF Parse
  <2> QED
    BY <1>1, <2>1 DEF Upcoming
<1>4. ASSUME NEW h \in Writers, AppendRun(h)
      PROVE  Upcoming' \subseteq Upcoming /\ run[h].n \in Upcoming /\ run[h].n \notin Upcoming'
  <2>1. /\ spc[h] = "running" /\ spc' = [spc EXCEPT ![h] = "locked"] /\ UNCHANGED <<count, run>>
    BY <1>4 DEF AppendRun
  <2>2. run[h].n \in 1..MaxRuns /\ run[h].n <= count
    BY <1>1, <2>1 DEF Active
  <2>3. \A g \in Writers : spc'[g] = "running" =>
          g # h /\ spc[g] = "running" /\ run[g].n # run[h].n
    BY <1>1, <2>1 DEF Active
  <2> QED
    BY <1>1, <2>1, <2>2, <2>3 DEF Upcoming
<1>5. Upcoming' \subseteq Upcoming
  BY <1>2, <1>3, <1>4 DEF SNext, HandlerStep
<1> QED
  BY <1>4, <1>5

(* While the process is up every number stays in at most one place.          *)
LEMMA OnePlaceStep ==
  ASSUME Run \subseteq Entry, SessInv, IndInv, [SNext]_svars, proc = "up", proc' = "up",
         AllDistinct, OnePlace
  PROVE  AllDistinct' /\ OnePlace'
<1>0. /\ Upcoming' \subseteq Upcoming
      /\ \A h \in Writers : AppendRun(h) => run[h].n \in Upcoming /\ run[h].n \notin Upcoming'
  BY UpcomingStep
<1>1. CASE Quiet
  BY <1>0, <1>1, QuietMovesNothing DEF AllDistinct, OnePlace
<1>2. CASE SStart \/ SStartFatal \/ SCrash
  BY <1>2 DEF SStart, Start, SStartFatal, StartFatal, SCrash, Crash
<1>3. ASSUME NEW h \in Writers, AppendRun(h) PROVE AllDistinct' /\ OnePlace'
  <2>1. rows' = rows
    BY <1>3 DEF AppendRun, hvars
  <2>2. PICK s \in Session, m \in 1..MaxRuns :
          /\ m = run[h].n /\ evicted[h] = <<>>
          /\ Numbers(doc'[s].runs) \union Numbers(evicted'[h]) = Numbers(doc[s].runs) \union {m}
          /\ \A t \in Session \ {s} : doc'[t] = doc[t]
          /\ \A g \in Writers \ {h} : evicted'[g] = evicted[g]
          /\ Distinct(doc[s].runs) /\ m \notin Numbers(doc[s].runs) =>
               /\ Distinct(doc'[s].runs) /\ Distinct(evicted'[h])
               /\ Numbers(doc'[s].runs) \intersect Numbers(evicted'[h]) = {}
    BY <1>3, AppendRunEffect
  <2>3. /\ m \in Upcoming /\ m \notin Upcoming' /\ m \notin Numbers(rows)
        /\ \A t \in Session : m \notin Numbers(doc[t].runs)
        /\ \A g \in Writers : m \notin Numbers(evicted[g])
    BY <1>0, <1>3, <2>2 DEF OnePlace
  <2>4. Distinct(doc[s].runs)
    BY DEF AllDistinct
  <2>5. AllDistinct'
    BY <2>1, <2>2, <2>3, <2>4 DEF AllDistinct
  <2>6. /\ \A t \in Session : t # s => Numbers(doc'[t].runs) = Numbers(doc[t].runs)
        /\ \A g \in Writers : g # h => Numbers(evicted'[g]) = Numbers(evicted[g])
    BY <2>2
  <2>7. OnePlace'
    <3> SUFFICES ASSUME NEW n \in 1..MaxRuns
          PROVE  /\ \A t, u \in Session :
                      n \in Numbers(doc'[t].runs) /\ n \in Numbers(doc'[u].runs) => t = u
                 /\ \A f, g \in Writers :
                      n \in Numbers(evicted'[f]) /\ n \in Numbers(evicted'[g]) => f = g
                 /\ \A t \in Session, g \in Writers :
                      ~(n \in Numbers(doc'[t].runs) /\ n \in Numbers(evicted'[g]))
                 /\ n \in Numbers(rows) \/ n \in Upcoming' =>
                      /\ \A t \in Session : n \notin Numbers(doc'[t].runs)
                      /\ \A g \in Writers : n \notin Numbers(evicted'[g])
                 /\ n \in Upcoming' => n \notin Numbers(rows)
      BY <2>1 DEF OnePlace
    <3>1. CASE n = m
      <4>1. /\ \A t \in Session : n \in Numbers(doc'[t].runs) => t = s
            /\ \A g \in Writers : n \in Numbers(evicted'[g]) => g = h
        BY <2>3, <2>6, <3>1
      <4>2. ~(n \in Numbers(doc'[s].runs) /\ n \in Numbers(evicted'[h]))
        BY <2>2, <2>3, <2>4
      <4> QED
        BY <2>3, <3>1, <4>1, <4>2
    <3>2. CASE n # m
      <4>1. /\ n \in Numbers(doc'[s].runs) \/ n \in Numbers(evicted'[h])
                 <=> n \in Numbers(doc[s].runs)
            /\ ~(n \in Numbers(doc'[s].runs) /\ n \in Numbers(evicted'[h]))
        BY <2>2, <2>3, <2>4, <3>2
      <4>2. /\ \A t, u \in Session :
                 n \in Numbers(doc[t].runs) /\ n \in Numbers(doc[u].runs) => t = u
            /\ \A f, g \in Writers :
                 n \in Numbers(evicted[f]) /\ n \in Numbers(evicted[g]) => f = g
            /\ \A t \in Session, g \in Writers :
                 ~(n \in Numbers(doc[t].runs) /\ n \in Numbers(evicted[g]))
            /\ n \in Numbers(rows) \/ n \in Upcoming' =>
                 /\ \A t \in Session : n \notin Numbers(doc[t].runs)
                 /\ \A g \in Writers : n \notin Numbers(evicted[g])
            /\ n \in Upcoming' => n \notin Numbers(rows)
        BY <1>0 DEF OnePlace
      <4>3. n \notin Numbers(evicted[h])
        BY <2>2, NumbersEmpty
      <4>4. /\ \A t \in Session : n \in Numbers(doc'[t].runs) => n \in Numbers(doc[t].runs)
            /\ \A g \in Writers : g # h /\ n \in Numbers(evicted'[g]) => n \in Numbers(evicted[g])
        BY <2>6, <4>1
      <4>5. \A f, g \in Writers : n \in Numbers(evicted'[f]) /\ n \in Numbers(evicted'[g]) => f = g
        BY <4>1, <4>2, <4>4
      <4>6. \A t \in Session, g \in Writers :
              ~(n \in Numbers(doc'[t].runs) /\ n \in Numbers(evicted'[g]))
        BY <4>1, <4>2, <4>4
      <4>7. n \in Numbers(rows) \/ n \in Upcoming' =>
              /\ \A t \in Session : n \notin Numbers(doc'[t].runs)
              /\ \A g \in Writers : n \notin Numbers(evicted'[g])
        BY <4>1, <4>2, <4>4
      <4> QED
        BY <4>2, <4>4, <4>5, <4>6, <4>7
    <3> QED
      BY <3>1, <3>2
  <2> QED
    BY <2>5, <2>7
<1>4. ASSUME NEW h \in Writers, SaveFails(h) PROVE AllDistinct' /\ OnePlace'
  <2>1. /\ rows' = rows /\ doc' = doc /\ evicted' = [evicted EXCEPT ![h] = <<>>]
        /\ evicted \in [Writers -> Seq(Run)]
    BY <1>4 DEF SaveFails, hvars, SessInv, SessTyped
  <2>2. /\ \A g \in Writers : g # h => evicted'[g] = evicted[g]
        /\ Numbers(evicted'[h]) = {} /\ Distinct(evicted'[h])
    BY <2>1, NumbersEmpty
  <2>3. AllDistinct'
    BY <2>1, <2>2 DEF AllDistinct
  <2>4. \A g \in Writers : \A n : n \in Numbers(evicted'[g]) => n \in Numbers(evicted[g])
    BY <2>2
  <2> QED
    BY <1>0, <2>1, <2>3, <2>4 DEF OnePlace
<1>5. ASSUME NEW h \in Writers, HandOff(h) PROVE AllDistinct' /\ OnePlace'
  <2>1. doc' = doc
    BY <1>5 DEF HandOff
  <2>2. PICK m \in 1..MaxRuns :
          /\ Numbers(rows') = Numbers(rows) \union {m}
          /\ Numbers(evicted[h]) = {m} \union Numbers(evicted'[h])
          /\ \A g \in Writers \ {h} : evicted'[g] = evicted[g]
          /\ Distinct(evicted[h]) => Distinct(evicted'[h]) /\ m \notin Numbers(evicted'[h])
          /\ Distinct(rows) /\ m \notin Numbers(rows) => Distinct(rows')
    BY <1>5, HandOffEffect
  <2>3. m \in Numbers(evicted[h]) /\ m \notin Numbers(evicted'[h])
    BY <2>2 DEF AllDistinct
  <2>4. /\ m \notin Numbers(rows) /\ m \notin Upcoming
        /\ \A g \in Writers : m \notin Numbers(evicted'[g])
        /\ \A s \in Session : m \notin Numbers(doc[s].runs)
    BY <2>2, <2>3 DEF OnePlace
  <2>5. AllDistinct'
    BY <2>1, <2>2, <2>4 DEF AllDistinct
  <2>6. \A g \in Writers : \A n : n \in Numbers(evicted'[g]) => n \in Numbers(evicted[g])
    BY <2>2
  <2>7. OnePlace'
    BY <1>0, <2>1, <2>2, <2>4, <2>6 DEF OnePlace
  <2> QED
    BY <2>5, <2>7
<1> QED
  BY <1>1, <1>2, <1>3, <1>4, <1>5, StepKinds

(* What the files hold of the numbers: sessions.json never one that has gone *)
(* to the log, and history.json none twice, for the next start to load.      *)
InLog == {n \in 1..MaxRuns : \E i \in 1..Len(file) : file[i] # End /\ file[i].n = n}

SavedOnce == sfile # Torn =>
  /\ \A s \in Session : Distinct(sfile[s].runs)
  /\ \A n \in 1..MaxRuns, s, t \in Session :
       n \in Numbers(sfile[s].runs) /\ n \in Numbers(sfile[t].runs) => s = t /\ n <= count

SavedApart == sfile # Torn =>
  \A n \in 1..MaxRuns, s \in Session : n \in Numbers(sfile[s].runs) =>
    /\ proc = "up" => /\ n \notin Numbers(rows)
                      /\ \A h \in Writers : spc[h] = "handoff" => n \notin Numbers(evicted[h])
    /\ proc # "up" => n \notin InLog

LogApart == proc # "up" =>
  /\ \A i, j \in 1..Len(file) : file[i] # End /\ file[j] # End /\ file[i].n = file[j].n => i = j
  /\ \A n \in InLog : n <= count

OnceInv == (proc = "up" => AllDistinct /\ OnePlace) /\ SavedOnce /\ SavedApart /\ LogApart

(* A start finds every number once, in the session or in the log.            *)
LEMMA StartOnce ==
  ASSUME Run \subseteq Entry, SessInv, IndInv, OnceInv, SStart
  PROVE  /\ AllDistinct' /\ OnePlace'
         /\ Numbers(rows') \intersect (1..MaxRuns) \subseteq InLog
<1>1. /\ proc = "down" /\ WellFormed(file) /\ rows' = Loaded(file) /\ sfile # Torn
      /\ doc' = ReloadedDoc(sfile) /\ UNCHANGED <<spc, run, evicted, count, sfile, file>>
  BY DEF SStart, Start
<1>2. /\ \A h \in Writers : spc[h] = "idle" /\ evicted[h] = <<>>
      /\ sfile \in Document /\ file \in Seq(Cell) /\ count \in Nat
  BY <1>1, BoundsAssumption DEF SessInv, SessTyped, Handlers, IndInv, TypeOK
<1>3. /\ Len(rows') = Len(file) - 1 /\ Len(file) \in Nat
      /\ \A i \in 1..(Len(file) - 1) : rows'[i] = file[i] /\ file[i] # End
  BY <1>1, <1>2, LoadedRows DEF WellFormed
<1>4. Distinct(rows')
  <2>1. \A i, j \in 1..Len(file) : file[i] # End /\ file[j] # End /\ file[i].n = file[j].n => i = j
    BY <1>1 DEF OnceInv, LogApart
  <2> QED
    BY <1>3, <2>1 DEF Distinct
<1>5. Numbers(rows') \intersect (1..MaxRuns) \subseteq InLog
  BY <1>3 DEF Numbers, InLog
<1>6. \A s \in Session : /\ Numbers(doc'[s].runs) = Numbers(sfile[s].runs)
                         /\ Distinct(doc'[s].runs)
  BY <1>1, <1>2, ReloadKeeps DEF OnceInv, SavedOnce
<1>7. \A h \in Writers : Numbers(evicted'[h]) = {} /\ Distinct(evicted'[h])
  BY <1>1, <1>2, NumbersEmpty
<1>8. \A n \in Upcoming' : n > count
  BY <1>1, <1>2 DEF Upcoming
<1>9. ASSUME NEW n \in 1..MaxRuns
      PROVE  /\ n \in InLog => n <= count
             /\ n \in Numbers(rows') => n \in InLog
             /\ \A s \in Session : n \in Numbers(sfile[s].runs) => n \notin InLog /\ n <= count
             /\ \A s, t \in Session :
                  n \in Numbers(sfile[s].runs) /\ n \in Numbers(sfile[t].runs) => s = t
  BY <1>1, <1>5 DEF OnceInv, LogApart, SavedApart, SavedOnce
<1>10. OnePlace'
  <2>1. \A n \in 1..MaxRuns : n \in Upcoming' => ~(n <= count)
    BY <1>2, <1>8
  <2> QED
    BY <1>6, <1>7, <1>9, <2>1 DEF OnePlace
<1> QED
  BY <1>4, <1>5, <1>6, <1>7, <1>10 DEF AllDistinct

(* What a write to sessions.json puts there.                                 *)
LEMMA SavedOnceStep ==
  ASSUME SessInv, [SNext]_svars, OnceInv
  PROVE  SavedOnce'
<1>1. count \in Nat /\ count' \in Nat /\ count <= count'
  <2>1. count \in Nat
    BY BoundsAssumption DEF SessInv, SessTyped
  <2>2. ASSUME NEW h \in Writers, HandlerStep(h) PROVE count' = count \/ count' = count + 1
    <3>1. CASE \E ask \in Asked : Parse(h, ask)
      BY <3>1 DEF Parse
    <3>2. CASE ~ \E ask \in Asked : Parse(h, ask)
      BY <2>2, <3>2 DEF HandlerStep, AppendRun, SaveTruncate, SaveWrite, SaveFails, HandOff,
                        HandOffSave, HandOffDone
    <3> QED
      BY <3>1, <3>2
  <2>3. count' = count \/ count' = count + 1
    BY <2>2 DEF SNext, Tick, SStart, SStartFatal, SCrash, svars
  <2> QED
    BY <2>1, <2>3
<1>2. CASE sfile' = sfile \/ sfile' = Torn
  BY <1>1, <1>2 DEF OnceInv, SavedOnce
<1>3. ASSUME NEW h \in Writers, SaveWrite(h) PROVE SavedOnce'
  <2>1. sfile' = doc /\ count' = count /\ proc = "up"
    BY <1>3 DEF SaveWrite, SessInv, Handlers
  <2>2. \A s \in Session : Distinct(doc[s].runs)
    BY <2>1 DEF OnceInv, AllDistinct
  <2>3. \A n \in 1..MaxRuns : n > count => n \in Upcoming
    BY DEF Upcoming
  <2>4. \A n \in 1..MaxRuns, s \in Session : n \in Numbers(doc[s].runs) => n <= count
    BY <1>1, <2>1, <2>3 DEF OnceInv, OnePlace
  <2>5. \A n \in 1..MaxRuns, s, t \in Session :
          n \in Numbers(doc[s].runs) /\ n \in Numbers(doc[t].runs) => s = t
    BY <2>1 DEF OnceInv, OnePlace
  <2> QED
    BY <2>1, <2>2, <2>4, <2>5 DEF SavedOnce
<1> QED
  BY <1>2, <1>3 DEF SNext, HandlerStep, Tick, SStart, SStartFatal, SCrash, Parse, AppendRun,
     SaveTruncate, SaveFails, HandOff, HandOffSave, HandOffDone, svars, memVars

(* A handler moves only while the process is up, and leaves it up.           *)
LEMMA HandlerUp ==
  ASSUME SessInv, IndInv, NEW h \in Writers, HandlerStep(h)
  PROVE  proc = "up" /\ proc' = "up"
<1>1. proc # "up" => spc[h] = "idle" /\ pc[h] = "idle"
  BY DEF SessInv, Handlers, IndInv, SnapshotsArePrefixes
<1>2. CASE \E ask \in Asked : Parse(h, ask)
  BY <1>2 DEF Parse, hvars
<1>3. CASE HandOffSave(h)
  BY <1>1, <1>3 DEF HandOffSave, SaveStep, Marshal, OpenTruncate, OpenFails, WriteOut, WriteFails
<1>4. CASE \/ AppendRun(h) \/ SaveTruncate(h) \/ SaveWrite(h) \/ SaveFails(h) \/ HandOff(h)
           \/ HandOffDone(h)
  BY <1>1, <1>4 DEF AppendRun, SaveTruncate, SaveWrite, SaveFails, HandOff, AppendRow, HandOffDone,
                    hvars
<1> QED
  BY <1>2, <1>3, <1>4 DEF HandlerStep

(* What a crash leaves in history.json was in the log.                       *)
LEMMA CrashOnce ==
  ASSUME SessInv, IndInv, proc = "up", AllDistinct, OnePlace
  PROVE  /\ \A i, j \in 1..Len(file) :
              file[i] # End /\ file[j] # End /\ file[i].n = file[j].n => i = j
         /\ \A n \in InLog : n \in Numbers(rows) /\ n <= count
<1>1. /\ \A i \in 1..Len(file) : file[i] = End \/ (i <= Len(rows) /\ file[i] = rows[i])
      /\ Len(file) \in Nat /\ Len(rows) \in Nat
  BY DEF IndInv, FileAgrees, TypeOK
<1>2. \A i \in 1..Len(file) : file[i] # End => i \in 1..Len(rows) /\ file[i] = rows[i]
  BY <1>1
<1>3. \A n \in InLog : n \in 1..MaxRuns /\ n \in Numbers(rows)
  BY <1>2 DEF InLog, Numbers
<1>4. \A n \in 1..MaxRuns : n > count => n \in Upcoming
  BY DEF Upcoming
<1>5. \A n \in InLog : ~(n > count)
  BY <1>3, <1>4 DEF OnePlace
<1>6. \A i, j \in 1..Len(file) : file[i] # End /\ file[j] # End /\ file[i].n = file[j].n => i = j
  BY <1>2 DEF AllDistinct, Distinct
<1> QED
  BY <1>3, <1>5, <1>6, BoundsAssumption DEF SessInv, SessTyped

(* A number leaves sessions.json before it can get into the log.             *)
LEMMA SavedApartStep ==
  ASSUME Run \subseteq Entry, SessInv, IndInv, [SNext]_svars, OnceInv
  PROVE  SavedApart'
<1>1. CASE SStart
  <2>1. /\ Numbers(rows') \intersect (1..MaxRuns) \subseteq InLog
        /\ sfile' = sfile /\ proc # "up" /\ proc' = "up" /\ \A h \in Writers : spc'[h] # "handoff"
    BY <1>1, StartOnce DEF SStart, Start, SessInv, Handlers
  <2> QED
    BY <2>1 DEF OnceInv, SavedApart
<1>2. CASE Tick \/ UNCHANGED svars \/ SStartFatal
  <2>1. /\ UNCHANGED <<sfile, rows, file, evicted, spc>>
        /\ proc' = proc \/ (proc # "up" /\ proc' # "up")
    BY <1>2 DEF Tick, SStartFatal, StartFatal, svars, hvars, memVars
  <2>2. InLog' = InLog
    BY <2>1 DEF InLog
  <2> QED
    BY <2>1, <2>2 DEF OnceInv, SavedApart
<1>3. CASE SCrash
  <2>1. proc = "up" /\ proc' # "up" /\ UNCHANGED <<file, sfile>>
    BY <1>3 DEF SCrash, Crash
  <2>2. \A n \in InLog : n \in Numbers(rows)
    BY <2>1, CrashOnce DEF OnceInv
  <2>3. InLog' = InLog
    BY <2>1 DEF InLog
  <2> QED
    BY <2>1, <2>2, <2>3 DEF OnceInv, SavedApart
<1>4. ASSUME NEW h \in Writers, HandlerStep(h) PROVE SavedApart'
  <2>0. proc = "up" /\ proc' = "up" /\ spc \in [Writers -> SPC] /\ evicted \in [Writers -> Seq(Run)]
    BY <1>4, HandlerUp DEF SessInv, SessTyped
  <2>1. CASE SaveTruncate(h)
    BY <2>1 DEF SaveTruncate, SavedApart
  <2>2. CASE SaveWrite(h)
    <3>1. sfile' = doc /\ evicted' = evicted /\ rows' = rows
      BY <2>2 DEF SaveWrite, hvars
    <3> QED
      BY <2>0, <3>1 DEF OnceInv, OnePlace, SavedApart
  <2>3. CASE HandOff(h)
    <3>1. spc[h] = "handoff" /\ spc' = spc /\ sfile' = sfile
      BY <2>3 DEF HandOff
    <3>2. PICK m \in 1..MaxRuns :
            /\ Numbers(rows') = Numbers(rows) \union {m}
            /\ Numbers(evicted[h]) = {m} \union Numbers(evicted'[h])
            /\ \A g \in Writers \ {h} : evicted'[g] = evicted[g]
      BY <2>3, HandOffEffect
    <3>3. \A g \in Writers : \A n : n \in Numbers(evicted'[g]) => n \in Numbers(evicted[g])
      BY <3>2
    <3> QED
      BY <2>0, <3>1, <3>2, <3>3 DEF OnceInv, SavedApart
  <2>4. CASE \/ \E ask \in Asked : Parse(h, ask)
             \/ AppendRun(h) \/ SaveFails(h) \/ HandOffSave(h) \/ HandOffDone(h)
    <3>1. sfile' = sfile /\ rows' = rows
      BY <2>4 DEF Parse, AppendRun, SaveFails, HandOffSave, SaveStep, Marshal, OpenTruncate,
                  OpenFails, WriteOut, WriteFails, HandOffDone, hvars, memVars
    <3>2. \A g \in Writers : spc'[g] = "handoff" => spc[g] = "handoff" /\ evicted'[g] = evicted[g]
      BY <2>0, <2>4 DEF Parse, AppendRun, SaveFails, HandOffSave, HandOffDone, memVars
    <3> QED
      BY <2>0, <3>1, <3>2 DEF OnceInv, SavedApart
  <2> QED
    BY <1>4, <2>1, <2>2, <2>3, <2>4 DEF HandlerStep
<1> QED
  BY <1>1, <1>2, <1>3, <1>4 DEF SNext

(* While the process is down history.json stays as the crash left it.        *)
LEMMA LogApartStep ==
  ASSUME SessInv, IndInv, [SNext]_svars, OnceInv
  PROVE  LogApart'
<1> SUFFICES ASSUME proc' # "up" PROVE LogApart'
  BY DEF LogApart
<1>1. \A h \in Writers : ~HandlerStep(h)
  BY HandlerUp
<1>2. CASE Tick \/ UNCHANGED svars \/ SStartFatal
  <2>1. UNCHANGED <<file, count>> /\ proc # "up"
    BY <1>2 DEF Tick, SStartFatal, StartFatal, svars, hvars
  <2>2. InLog' = InLog
    BY <2>1 DEF InLog
  <2> QED
    BY <2>1, <2>2 DEF OnceInv, LogApart
<1>3. CASE SCrash
  <2>1. proc = "up" /\ UNCHANGED <<file, count>>
    BY <1>3 DEF SCrash, Crash
  <2>2. InLog' = InLog
    BY <2>1 DEF InLog
  <2> QED
    BY <2>1, <2>2, CrashOnce DEF OnceInv, LogApart
<1>4. CASE SStart
  BY <1>4 DEF SStart, Start
<1> QED
  BY <1>1, <1>2, <1>3, <1>4 DEF SNext

(* Whatever fails, dies or runs concurrently, a run enters the history log   *)
(* at most once, and none in the log is still in a session: for logs found   *)
(* at the first start that hold none of these runs and no number twice.      *)
THEOREM EvictedRunsOnce ==
  ASSUME Run \subseteq Entry,
         \A log \in InitialLogs : Distinct(log) /\ Numbers(log) \intersect (1..MaxRuns) = {}
  PROVE  SSpec => []HandedOffOnce
<1>1. SInit => OnceInv
  <2> SUFFICES ASSUME SInit PROVE OnceInv
    OBVIOUS
  <2>1. PICK log \in InitialLogs : file = Text(log)
    BY DEF SInit, Init
  <2>2. /\ log \in Seq(Entry) /\ Distinct(log) /\ Numbers(log) \intersect (1..MaxRuns) = {}
        /\ Len(file) = Len(log) + 1 /\ Len(log) \in Nat
        /\ \A i \in 1..Len(log) : file[i] = log[i]
        /\ file[Len(log) + 1] = End
    BY <2>1, TextCells, LogsAssumption
  <2>3. \A i \in 1..Len(file) : file[i] # End => i \in 1..Len(log) /\ file[i] = log[i]
    BY <2>2
  <2>4. InLog = {}
    BY <2>2, <2>3 DEF InLog, Numbers
  <2>5. \A i, j \in 1..Len(file) : file[i] # End /\ file[j] # End /\ file[i].n = file[j].n => i = j
    BY <2>2, <2>3 DEF Distinct
  <2>6. /\ proc = "down" /\ \A s \in Session : sfile[s].runs = <<>>
    BY DEF SInit, Init, EmptySession
  <2>7. \A s \in Session : Distinct(sfile[s].runs) /\ Numbers(sfile[s].runs) = {}
    BY <2>6, NumbersEmpty
  <2> QED
    BY <2>4, <2>5, <2>6, <2>7 DEF OnceInv, SavedOnce, SavedApart, LogApart
<1>2. SessInv /\ IndInv /\ OnceInv /\ [SNext]_svars => OnceInv'
  <2> SUFFICES ASSUME SessInv, IndInv, OnceInv, [SNext]_svars PROVE OnceInv'
    OBVIOUS
  <2>1. SavedOnce' /\ SavedApart' /\ LogApart'
    BY SavedOnceStep, SavedApartStep, LogApartStep
  <2>2. ASSUME proc' = "up" PROVE AllDistinct' /\ OnePlace'
    <3>1. CASE proc = "up"
      BY <2>2, <3>1, OnePlaceStep DEF OnceInv
    <3>2. CASE proc # "up"
      <4>1. SStart
        BY <2>2, <3>2, HandlerUp
           DEF SNext, Tick, SStartFatal, StartFatal, SCrash, Crash, svars, hvars
      <4> QED
        BY <4>1, StartOnce
    <3> QED
      BY <3>1, <3>2
  <2> QED
    BY <2>1, <2>2 DEF OnceInv
<1>3. SessInv /\ OnceInv => HandedOffOnce
  <2> SUFFICES ASSUME SessInv, OnceInv, proc = "up" PROVE HandedOffOnce
    BY DEF HandedOffOnce
  <2>1. AllDistinct /\ OnePlace
    BY DEF OnceInv
  <2>2. ASSUME NEW s \in Session, NEW n \in Working(s) PROVE n \notin Episodic
    <3>1. doc[s].runs \in Seq(Run)
      BY DEF SessInv, SessTyped, Document, Memory
    <3>2. PICK i \in 1..Len(doc[s].runs) : n = doc[s].runs[i].n
      BY DEF Working
    <3>3. doc[s].runs[i] \in Run
      BY <3>1, ElementOfSeq
    <3>4. n \in 1..MaxRuns /\ n \in Numbers(doc[s].runs)
      BY <3>2, <3>3 DEF Numbers, Run
    <3> QED
      BY <2>1, <3>4 DEF OnePlace, Episodic, Numbers
  <2> QED
    BY <2>1, <2>2 DEF HandedOffOnce, AllDistinct, Distinct
<1> QED
  BY <1>1, <1>2, <1>3, SessInvHolds, LogInvHolds, PTL DEF SSpec
------------------------------------------------------------------------------
(* Sums over finite sets of indexes.  The recursion in the library's sum has *)
(* a solution, by induction over the size of the subsets it is solved for.   *)
Chosen(s) == CHOOSE x \in s : TRUE

Sums(f, D, g) ==
  g = [s \in D |-> IF s = {} THEN 0 ELSE f[Chosen(s)] + g[s \ {Chosen(s)}]]

(* The element the recursion removes is one of the set.                      *)
LEMMA ChosenIn == ASSUME NEW s, s # {} PROVE Chosen(s) \in s
BY DEF Chosen

(* What is left of a finite set without its chosen element.                  *)
LEMMA Smaller ==
  ASSUME NEW s, IsFiniteSet(s), NEW x \in s
  PROVE  /\ IsFiniteSet(s \ {x}) /\ Cardinality(s) \in Nat /\ Cardinality(s \ {x}) \in Nat
         /\ Cardinality(s) = Cardinality(s \ {x}) + 1
<1>1. IsFiniteSet(s \ {x}) /\ Cardinality(s \ {x}) = Cardinality(s) - 1
  BY FS_RemoveElement
<1> QED
  BY <1>1, FS_CardinalityType

(* There is a function that solves the recursion on all subsets.             *)
LEMMA SumExists ==
  ASSUME NEW f, NEW S, IsFiniteSet(S)
  PROVE  \E g : Sums(f, SUBSET S, g)
<1> DEFINE UpTo(n) == {s \in SUBSET S : Cardinality(s) <= n}
           Solved == {n \in Nat : \E g : Sums(f, UpTo(n), g)}
<1>1. \A s \in SUBSET S : IsFiniteSet(s) /\ Cardinality(s) \in Nat
  BY FS_Subset, FS_CardinalityType
<1>2. \A s \in SUBSET S : s # {} =>
        /\ Chosen(s) \in s /\ s \ {Chosen(s)} \in SUBSET S
        /\ Cardinality(s) = Cardinality(s \ {Chosen(s)}) + 1
  BY <1>1, ChosenIn, Smaller
<1>3. 0 \in Solved
  <2> DEFINE g == [s \in UpTo(0) |-> 0]
  <2>1. \A s \in UpTo(0) : s = {}
    <3>1. ASSUME NEW s \in UpTo(0), s # {} PROVE FALSE
      <4>1. s \in SUBSET S /\ Cardinality(s) <= 0
        OBVIOUS
      <4>2. s \ {Chosen(s)} \in SUBSET S /\ Cardinality(s) = Cardinality(s \ {Chosen(s)}) + 1
        BY <1>2, <3>1, <4>1
      <4>3. Cardinality(s \ {Chosen(s)}) \in Nat
        BY <1>1, <4>2
      <4> QED
        BY <4>1, <4>2, <4>3
    <3> QED
      BY <3>1
  <2>2. g = [s \in UpTo(0) |-> IF s = {} THEN 0 ELSE f[Chosen(s)] + g[s \ {Chosen(s)}]]
    BY <2>1
  <2> HIDE DEF g
  <2> QED
    BY <2>2 DEF Sums
<1>4. ASSUME NEW n \in Nat, n \in Solved PROVE n + 1 \in Solved
  <2>1. PICK g : Sums(f, UpTo(n), g)
    BY <1>4
  <2> DEFINE k == [s \in UpTo(n + 1) |-> IF s = {} THEN 0 ELSE f[Chosen(s)] + g[s \ {Chosen(s)}]]
  <2>2. \A s \in UpTo(n) : g[s] = IF s = {} THEN 0 ELSE f[Chosen(s)] + g[s \ {Chosen(s)}]
    <3>1. g = [s \in UpTo(n) |-> IF s = {} THEN 0 ELSE f[Chosen(s)] + g[s \ {Chosen(s)}]]
      BY <2>1 DEF Sums
    <3> HIDE DEF UpTo
    <3> QED
      BY <3>1
  <2>3. \A s \in UpTo(n) : s \in UpTo(n + 1)
    BY <1>1
  <2>4. \A s \in UpTo(n + 1) : s # {} => s \ {Chosen(s)} \in UpTo(n)
    BY <1>1, <1>2
  <2>5. \A s \in UpTo(n) : k[s] = g[s]
    BY <2>2, <2>3
  <2>6. \A s \in UpTo(n + 1) : s # {} => k[s \ {Chosen(s)}] = g[s \ {Chosen(s)}]
    BY <2>4, <2>5
  <2>7. k = [s \in UpTo(n + 1) |-> IF s = {} THEN 0 ELSE f[Chosen(s)] + k[s \ {Chosen(s)}]]
    BY <2>6
  <2> HIDE DEF k, UpTo
  <2>8. Sums(f, UpTo(n + 1), k)
    BY <2>7 DEF Sums
  <2> QED
    BY <2>8
<1>5. Nat \subseteq Solved
  <2> HIDE DEF Solved
  <2> QED
    BY <1>3, <1>4, Induct
<1>6. Cardinality(S) \in Solved /\ Cardinality(S) \in Nat
  BY <1>1, <1>5
<1>7. UpTo(Cardinality(S)) = SUBSET S
  <2>1. \A s \in SUBSET S : Cardinality(s) <= Cardinality(S)
    BY FS_Subset
  <2> QED
    BY <2>1
<1> QED
  BY <1>6, <1>7

(* Two solutions agree where both are defined.                               *)
LEMMA SumUnique ==
  ASSUME NEW f, NEW S, NEW T, NEW g, NEW k,
         IsFiniteSet(S), T \subseteq S, Sums(f, SUBSET S, g), Sums(f, SUBSET T, k)
  PROVE  g[T] = k[T]
<1> DEFINE Same == {n \in Nat : \A s \in SUBSET T : Cardinality(s) = n => g[s] = k[s]}
<1>1. \A s \in SUBSET T : s \in SUBSET S /\ IsFiniteSet(s) /\ Cardinality(s) \in Nat
  BY FS_Subset, FS_CardinalityType
<1>2. \A s \in SUBSET T :
        /\ g[s] = IF s = {} THEN 0 ELSE f[Chosen(s)] + g[s \ {Chosen(s)}]
        /\ k[s] = IF s = {} THEN 0 ELSE f[Chosen(s)] + k[s \ {Chosen(s)}]
  <2>1. /\ g = [s \in SUBSET S |-> IF s = {} THEN 0 ELSE f[Chosen(s)] + g[s \ {Chosen(s)}]]
        /\ k = [s \in SUBSET T |-> IF s = {} THEN 0 ELSE f[Chosen(s)] + k[s \ {Chosen(s)}]]
    BY DEF Sums
  <2>2. \A s \in SUBSET S : g[s] = IF s = {} THEN 0 ELSE f[Chosen(s)] + g[s \ {Chosen(s)}]
    BY <2>1
  <2>3. \A s \in SUBSET T : k[s] = IF s = {} THEN 0 ELSE f[Chosen(s)] + k[s \ {Chosen(s)}]
    BY <2>1
  <2> QED
    BY <1>1, <2>2, <2>3
<1>3. \A s \in SUBSET T : s # {} =>
        /\ s \ {Chosen(s)} \in SUBSET T
        /\ Cardinality(s) = Cardinality(s \ {Chosen(s)}) + 1
  BY <1>1, ChosenIn, Smaller
<1>4. 0 \in Same
  <2>1. ASSUME NEW s \in SUBSET T, Cardinality(s) = 0 PROVE s = {}
    <3>1. CASE s # {}
      <4>1. Cardinality(s) = Cardinality(s \ {Chosen(s)}) + 1 /\ s \ {Chosen(s)} \in SUBSET T
        BY <1>3, <3>1
      <4>2. Cardinality(s \ {Chosen(s)}) \in Nat
        BY <1>1, <4>1
      <4> QED
        BY <2>1, <4>1, <4>2
    <3> QED
      BY <3>1
  <2> QED
    BY <1>2, <2>1
<1>5. ASSUME NEW n \in Nat, n \in Same PROVE n + 1 \in Same
  <2> SUFFICES ASSUME NEW s \in SUBSET T, Cardinality(s) = n + 1 PROVE g[s] = k[s]
    BY <1>5
  <2>1. s # {}
    BY FS_EmptySet
  <2>2. s \ {Chosen(s)} \in SUBSET T /\ Cardinality(s \ {Chosen(s)}) = n
    BY <1>1, <1>3, <2>1
  <2>3. g[s \ {Chosen(s)}] = k[s \ {Chosen(s)}]
    BY <1>5, <2>2
  <2> QED
    BY <1>2, <2>1, <2>3
<1>6. Nat \subseteq Same
  <2> HIDE DEF Same
  <2> QED
    BY <1>4, <1>5, Induct
<1> QED
  BY <1>1, <1>6

(* The library's sum, unfolded once.                                         *)
LEMMA SumUnfolds ==
  ASSUME NEW f, NEW S, IsFiniteSet(S)
  PROVE  SumFunctionOnSet(f, S) =
           IF S = {} THEN 0 ELSE f[Chosen(S)] + SumFunctionOnSet(f, S \ {Chosen(S)})
<1> DEFINE G(T) == CHOOSE g : Sums(f, SUBSET T, g)
<1>1. ASSUME NEW T PROVE SumFunctionOnSet(f, T) = G(T)[T]
  BY DEF SumFunctionOnSet, FoldFunctionOnSet, MapThenFoldSet, Sums, Chosen
<1>2. ASSUME NEW T \in SUBSET S PROVE IsFiniteSet(T) /\ Sums(f, SUBSET T, G(T))
  BY SumExists, FS_Subset
<1> HIDE DEF G
<1>3. Sums(f, SUBSET S, G(S))
  BY <1>2
<1>4. G(S)[S] = IF S = {} THEN 0 ELSE f[Chosen(S)] + G(S)[S \ {Chosen(S)}]
  <2>1. G(S) = [s \in SUBSET S |-> IF s = {} THEN 0 ELSE f[Chosen(s)] + G(S)[s \ {Chosen(s)}]]
    BY <1>3 DEF Sums
  <2>2. \A s \in SUBSET S : G(S)[s] = IF s = {} THEN 0 ELSE f[Chosen(s)] + G(S)[s \ {Chosen(s)}]
    BY <2>1
  <2> QED
    BY <2>2
<1>5. ASSUME NEW T \in SUBSET S PROVE G(S)[T] = G(T)[T]
  <2>1. Sums(f, SUBSET S, G(S)) /\ Sums(f, SUBSET T, G(T))
    BY <1>2
  <2> QED
    BY <2>1, SumUnique
<1> QED
  BY <1>1, <1>4, <1>5

(* The sum of natural numbers is one.                                        *)
LEMMA SumTyped ==
  ASSUME NEW f, NEW S, IsFiniteSet(S), \A x \in S : f[x] \in Nat
  PROVE  \A T \in SUBSET S : SumFunctionOnSet(f, T) \in Nat
<1> DEFINE Sum(T) == SumFunctionOnSet(f, T)
           Good == {n \in Nat : \A T \in SUBSET S : Cardinality(T) = n => Sum(T) \in Nat}
<1>1. \A T \in SUBSET S : IsFiniteSet(T) /\ Cardinality(T) \in Nat
  BY FS_Subset, FS_CardinalityType
<1>2. \A T \in SUBSET S : Sum(T) = IF T = {} THEN 0 ELSE f[Chosen(T)] + Sum(T \ {Chosen(T)})
  BY <1>1, SumUnfolds
<1> HIDE DEF Sum
<1>3. 0 \in Good
  <2>1. ASSUME NEW T \in SUBSET S, Cardinality(T) = 0 PROVE Sum(T) \in Nat
    <3>1. T = {}
      BY <1>1, <2>1, FS_EmptySet
    <3> QED
      BY <1>2, <3>1
  <2> QED
    BY <2>1
<1>4. ASSUME NEW n \in Nat, n \in Good PROVE n + 1 \in Good
  <2> SUFFICES ASSUME NEW T \in SUBSET S, Cardinality(T) = n + 1 PROVE Sum(T) \in Nat
    OBVIOUS
  <2>1. T # {} /\ Chosen(T) \in T
    BY FS_EmptySet, ChosenIn
  <2>2. T \ {Chosen(T)} \in SUBSET S /\ Cardinality(T \ {Chosen(T)}) = n
    BY <1>1, <2>1, Smaller
  <2> QED
    BY <1>2, <1>4, <2>1, <2>2
<1>5. Nat \subseteq Good
  <2> HIDE DEF Good
  <2> QED
    BY <1>3, <1>4, Induct
<1>6. \A T \in SUBSET S : Sum(T) \in Nat
  BY <1>1, <1>5
<1> QED
  BY <1>6 DEF Sum

(* Any of the indexes can be set apart.                                      *)
LEMMA SumPick ==
  ASSUME NEW f, NEW S, IsFiniteSet(S), \A x \in S : f[x] \in Nat
  PROVE  \A x \in S : SumFunctionOnSet(f, S) = f[x] + SumFunctionOnSet(f, S \ {x})
<1> DEFINE Sum(T) == SumFunctionOnSet(f, T)
           Good == {n \in Nat : \A T \in SUBSET S : Cardinality(T) = n =>
                       \A x \in T : Sum(T) = f[x] + Sum(T \ {x})}
<1>1. \A T \in SUBSET S : IsFiniteSet(T) /\ Cardinality(T) \in Nat /\ Sum(T) \in Nat
  BY FS_Subset, FS_CardinalityType, SumTyped
<1>2. \A T \in SUBSET S : Sum(T) = IF T = {} THEN 0 ELSE f[Chosen(T)] + Sum(T \ {Chosen(T)})
  BY <1>1, SumUnfolds
<1> HIDE DEF Sum
<1>3. 0 \in Good
  <2>1. ASSUME NEW T \in SUBSET S, Cardinality(T) = 0 PROVE T = {}
    BY <1>1, <2>1, FS_EmptySet
  <2> QED
    BY <2>1
<1>4. ASSUME NEW n \in Nat, n \in Good PROVE n + 1 \in Good
  <2> SUFFICES ASSUME NEW T \in SUBSET S, Cardinality(T) = n + 1, NEW x \in T
               PROVE  Sum(T) = f[x] + Sum(T \ {x})
    OBVIOUS
  <2> DEFINE c == Chosen(T)
  <2>1. c \in T /\ Sum(T) = f[c] + Sum(T \ {c})
    BY <1>2, ChosenIn
  <2> HIDE DEF c
  <2>2. ASSUME NEW y \in T
        PROVE  /\ T \ {y} \in SUBSET S /\ Cardinality(T \ {y}) = n
               /\ \A z \in T \ {y} : Sum(T \ {y}) = f[z] + Sum((T \ {y}) \ {z})
    <3>1. T \ {y} \in SUBSET S /\ Cardinality(T \ {y}) = n
      BY <1>1, Smaller
    <3> QED
      BY <1>4, <3>1
  <2>3. CASE x = c
    BY <2>1, <2>3
  <2>4. CASE x # c
    <3>1. x \in T \ {c} /\ c \in T \ {x}
      BY <2>1, <2>4
    <3>2. Sum(T \ {c}) = f[x] + Sum((T \ {c}) \ {x})
      BY <2>1, <2>2, <3>1
    <3>3. Sum(T \ {x}) = f[c] + Sum((T \ {x}) \ {c})
      BY <2>2, <3>1
    <3>4. (T \ {c}) \ {x} = (T \ {x}) \ {c}
      OBVIOUS
    <3>5. Sum((T \ {x}) \ {c}) \in Nat /\ f[c] \in Nat /\ f[x] \in Nat
      BY <1>1, <2>1
    <3>6. Sum(T) = f[c] + (f[x] + Sum((T \ {x}) \ {c}))
      BY <2>1, <3>2, <3>4
    <3> QED
      BY <3>3, <3>5, <3>6
  <2> QED
    BY <2>3, <2>4
<1>5. Nat \subseteq Good
  <2> HIDE DEF Good
  <2> QED
    BY <1>3, <1>4, Induct
<1>6. \A x \in S : Sum(S) = f[x] + Sum(S \ {x})
  BY <1>1, <1>5
<1> QED
  BY <1>6 DEF Sum

(* A part of the indexes sums up to at most as much.                         *)
LEMMA SumSubset ==
  ASSUME NEW f, NEW S, IsFiniteSet(S), \A x \in S : f[x] \in Nat, NEW T \in SUBSET S
  PROVE  SumFunctionOnSet(f, T) <= SumFunctionOnSet(f, S)
<1> DEFINE Sum(U) == SumFunctionOnSet(f, U)
           Good == {n \in Nat : \A U \in SUBSET S : T \subseteq U /\ Cardinality(U) = n =>
                       Sum(T) <= Sum(U)}
<1>1. \A U \in SUBSET S : IsFiniteSet(U) /\ Cardinality(U) \in Nat /\ Sum(U) \in Nat
  BY FS_Subset, FS_CardinalityType, SumTyped
<1>2. \A U \in SUBSET S : \A x \in U : Sum(U) = f[x] + Sum(U \ {x})
  <2> SUFFICES ASSUME NEW U \in SUBSET S PROVE \A x \in U : Sum(U) = f[x] + Sum(U \ {x})
    OBVIOUS
  <2>1. IsFiniteSet(U) /\ \A x \in U : f[x] \in Nat
    BY <1>1
  <2> QED
    BY <2>1, SumPick
<1> HIDE DEF Sum
<1>3. 0 \in Good
  <2>1. ASSUME NEW U \in SUBSET S, T \subseteq U, Cardinality(U) = 0 PROVE Sum(T) <= Sum(U)
    <3>1. U = {} /\ T = U
      BY <1>1, <2>1, FS_EmptySet
    <3> QED
      BY <1>1, <3>1
  <2> QED
    BY <2>1
<1>4. ASSUME NEW n \in Nat, n \in Good PROVE n + 1 \in Good
  <2> SUFFICES ASSUME NEW U \in SUBSET S, T \subseteq U, Cardinality(U) = n + 1
               PROVE  Sum(T) <= Sum(U)
    OBVIOUS
  <2>1. CASE T = U
    BY <1>1, <2>1
  <2>2. CASE T # U
    <3>1. PICK x \in U : x \notin T
      BY <2>2
    <3>2. U \ {x} \in SUBSET S /\ T \subseteq U \ {x} /\ Cardinality(U \ {x}) = n
      BY <1>1, <3>1, Smaller
    <3>3. Sum(T) <= Sum(U \ {x})
      BY <1>4, <3>2
    <3>4. Sum(U) = f[x] + Sum(U \ {x}) /\ f[x] \in Nat
      BY <1>2, <3>1
    <3>5. Sum(T) \in Nat /\ Sum(U \ {x}) \in Nat
      BY <1>1, <3>2
    <3> QED
      BY <3>3, <3>4, <3>5
  <2> QED
    BY <2>1, <2>2
<1>5. Nat \subseteq Good
  <2> HIDE DEF Good
  <2> QED
    BY <1>3, <1>4, Induct
<1>6. Sum(T) <= Sum(S)
  BY <1>1, <1>5
<1> QED
  BY <1>6 DEF Sum

(* The sum of greater values is at least as great.                           *)
LEMMA SumPointwise ==
  ASSUME NEW f, NEW g, NEW S, IsFiniteSet(S), \A x \in S : f[x] \in Nat,
         \A x \in S : g[x] \in Nat, \A x \in S : f[x] <= g[x]
  PROVE  SumFunctionOnSet(f, S) <= SumFunctionOnSet(g, S)
<1> DEFINE F(T) == SumFunctionOnSet(f, T)
           G(T) == SumFunctionOnSet(g, T)
           Good == {n \in Nat : \A T \in SUBSET S : Cardinality(T) = n => F(T) <= G(T)}
<1>1. \A T \in SUBSET S : IsFiniteSet(T) /\ Cardinality(T) \in Nat /\ F(T) \in Nat /\ G(T) \in Nat
  BY FS_Subset, FS_CardinalityType, SumTyped
<1>2. ASSUME NEW T \in SUBSET S, NEW x \in T
      PROVE  F(T) = f[x] + F(T \ {x}) /\ G(T) = g[x] + G(T \ {x})
  <2>1. IsFiniteSet(T) /\ (\A y \in T : f[y] \in Nat) /\ (\A y \in T : g[y] \in Nat)
    BY <1>1
  <2> QED
    BY <2>1, SumPick
<1>3. F({}) = 0 /\ G({}) = 0
  BY FS_EmptySet, SumUnfolds
<1> HIDE DEF F, G
<1>4. 0 \in Good
  <2>1. ASSUME NEW T \in SUBSET S, Cardinality(T) = 0 PROVE T = {}
    BY <1>1, <2>1, FS_EmptySet
  <2> QED
    BY <1>3, <2>1
<1>5. ASSUME NEW n \in Nat, n \in Good PROVE n + 1 \in Good
  <2> SUFFICES ASSUME NEW T \in SUBSET S, Cardinality(T) = n + 1 PROVE F(T) <= G(T)
    OBVIOUS
  <2>1. PICK x : x \in T
    BY FS_EmptySet
  <2>2. T \ {x} \in SUBSET S /\ Cardinality(T \ {x}) = n
    BY <1>1, <2>1, Smaller
  <2>3. F(T \ {x}) <= G(T \ {x}) /\ F(T \ {x}) \in Nat /\ G(T \ {x}) \in Nat
    BY <1>1, <1>5, <2>2
  <2>4. F(T) = f[x] + F(T \ {x}) /\ G(T) = g[x] + G(T \ {x})
    BY <1>2, <2>1
  <2>5. f[x] \in Nat /\ g[x] \in Nat /\ f[x] <= g[x]
    BY <2>1
  <2> QED
    BY <2>3, <2>4, <2>5
<1>6. Nat \subseteq Good
  <2> HIDE DEF Good
  <2> QED
    BY <1>4, <1>5, Induct
<1>7. F(S) <= G(S)
  BY <1>1, <1>6
<1> QED
  BY <1>7 DEF F, G

(* h numbers the values of f over R anew, as those of g over S.              *)
Renumbers(h, g, S, f, R) ==
  /\ h \in [S -> R]
  /\ IsFiniteSet(S) /\ IsFiniteSet(R)
  /\ \A x \in R : f[x] \in Nat
  /\ \A x \in S : g[x] = f[h[x]]
  /\ \A x, y \in S : h[x] = h[y] => x = y
  /\ \A z \in R : \E x \in S : h[x] = z

(* The sum does not depend on what the indexes are.                          *)
LEMMA SumReindexed ==
  ASSUME NEW h, NEW g, NEW S, NEW f, NEW R, Renumbers(h, g, S, f, R)
  PROVE  SumFunctionOnSet(g, S) = SumFunctionOnSet(f, R)
<1>0. /\ h \in [S -> R]
      /\ IsFiniteSet(S) /\ IsFiniteSet(R)
      /\ \A x \in R : f[x] \in Nat
      /\ \A x \in S : g[x] = f[h[x]]
      /\ \A x, y \in S : h[x] = h[y] => x = y
      /\ \A z \in R : \E x \in S : h[x] = z
  BY DEF Renumbers
<1> DEFINE Img(T) == {h[x] : x \in T}
           F(U) == SumFunctionOnSet(f, U)
           G(U) == SumFunctionOnSet(g, U)
           Good == {n \in Nat : \A T \in SUBSET S : Cardinality(T) = n => G(T) = F(Img(T))}
<1>1. \A T \in SUBSET S : /\ IsFiniteSet(T) /\ Cardinality(T) \in Nat
                          /\ Img(T) \in SUBSET R /\ IsFiniteSet(Img(T))
  <2>1. \A T \in SUBSET S : Img(T) \in SUBSET R
    BY <1>0
  <2> QED
    BY <1>0, <2>1, FS_Subset, FS_CardinalityType
<1>2. ASSUME NEW T \in SUBSET S, NEW x \in T
      PROVE  G(T) = f[h[x]] + G(T \ {x}) /\ F(Img(T)) = f[h[x]] + F(Img(T \ {x}))
  <2>1. IsFiniteSet(T) /\ \A y \in T : g[y] \in Nat
    BY <1>0, <1>1
  <2>2. G(T) = f[h[x]] + G(T \ {x})
    BY <1>0, <2>1, SumPick
  <2>3. IsFiniteSet(Img(T)) /\ h[x] \in Img(T) /\ \A z \in Img(T) : f[z] \in Nat
    BY <1>0, <1>1
  <2> HIDE DEF Img
  <2>4. F(Img(T)) = f[h[x]] + F(Img(T) \ {h[x]})
    BY <2>3, SumPick
  <2>5. Img(T) \ {h[x]} = Img(T \ {x})
    BY <1>0 DEF Img
  <2> QED
    BY <2>2, <2>4, <2>5
<1>3. G({}) = 0 /\ F(Img({})) = 0
  <2>1. IsFiniteSet({}) /\ Img({}) = {}
    BY FS_EmptySet
  <2> QED
    BY <2>1, SumUnfolds
<1> HIDE DEF F, G, Img
<1>4. 0 \in Good
  <2>1. ASSUME NEW T \in SUBSET S, Cardinality(T) = 0 PROVE T = {}
    BY <1>1, <2>1, FS_EmptySet
  <2> QED
    BY <1>3, <2>1
<1>5. ASSUME NEW n \in Nat, n \in Good PROVE n + 1 \in Good
  <2> SUFFICES ASSUME NEW T \in SUBSET S, Cardinality(T) = n + 1 PROVE G(T) = F(Img(T))
    OBVIOUS
  <2>1. PICK x : x \in T
    BY FS_EmptySet
  <2>2. T \ {x} \in SUBSET S /\ Cardinality(T \ {x}) = n
    <3>1. IsFiniteSet(T)
      BY <1>1
    <3>2. Cardinality(T \ {x}) \in Nat /\ Cardinality(T) = Cardinality(T \ {x}) + 1
      BY <2>1, <3>1, Smaller
    <3> QED
      BY <3>2
  <2>3. G(T \ {x}) = F(Img(T \ {x}))
    BY <1>5, <2>2
  <2> QED
    BY <1>2, <2>1, <2>3
<1>6. Nat \subseteq Good
  <2> HIDE DEF Good
  <2> QED
    BY <1>4, <1>5, Induct
<1>7. G(S) = F(Img(S))
  BY <1>1, <1>6
<1>8. Img(S) = R
  BY <1>0 DEF Img
<1> QED
  BY <1>7, <1>8 DEF F, G
------------------------------------------------------------------------------
(* A set of natural numbers has a least one.                                 *)
LEMMA LeastNumber ==
  ASSUME NEW S \in SUBSET Nat, S # {}
  PROVE  \E x \in S : \A y \in S : x <= y
<1> DEFINE R == {ss \in Nat \X Nat : ss[1] < ss[2]}
<1>1. IsWellFoundedOn(R, Nat)
  BY NatLessThanWellFounded DEF OpToRel
<1>2. PICK x \in S : \A y \in S : ~ (<<y, x>> \in R)
  <2> HIDE DEF R
  <2> QED
    BY <1>1, WFMin
<1>3. ASSUME NEW y \in S PROVE x <= y
  <2>1. x \in Nat /\ y \in Nat /\ ~ (<<y, x>> \in R)
    BY <1>2
  <2> QED
    BY <2>1
<1> QED
  BY <1>3

(* What compaction counts of a run, whether it has been through the file or  *)
(* not, and how it scores it.                                                *)
LEMMA RunNumbers ==
  ASSUME NEW r \in Run
  PROVE  /\ Chars(r) \in Nat /\ Score(r) \in Nat
         /\ r.text.size \in Nat /\ r.text.size <= Chars(r)
<1>1. r.text \in [size : Nat, hidden : Nat, score : Nat, rescore : Nat] /\ r.whole \in BOOLEAN
  BY TextsAssumption DEF Run
<1> QED
  BY <1>1 DEF Chars, Score

(* Among finitely many candidates one is the weakest.                        *)
LEMMA WeakestExists ==
  ASSUME NEW runs \in Seq(Run), NEW C \in SUBSET (1..Len(runs)), C # {}
  PROVE  \E j \in C : \A i \in C : i \notin Weaker(runs, j)
<1> DEFINE scores == {Score(runs[i]) : i \in C}
<1>1. \A i \in C : i \in Nat /\ Score(runs[i]) \in Nat
  <2>1. ASSUME NEW i \in C PROVE i \in Nat /\ Score(runs[i]) \in Nat
    <3>1. i \in Nat /\ runs[i] \in Run
      BY ElementOfSeq, LenProperties
    <3> QED
      BY <3>1, RunNumbers
  <2> QED
    BY <2>1
<1>2. PICK low \in scores : \A x \in scores : low <= x
  <2>1. scores \in SUBSET Nat /\ scores # {}
    BY <1>1
  <2> HIDE DEF scores
  <2> QED
    BY <2>1, LeastNumber
<1> DEFINE D == {i \in C : Score(runs[i]) = low}
<1>3. PICK j \in D : \A i \in D : j <= i
  <2>1. D \in SUBSET Nat /\ D # {}
    BY <1>1, <1>2
  <2> HIDE DEF D
  <2> QED
    BY <2>1, LeastNumber
<1>4. ASSUME NEW i \in C PROVE i \notin Weaker(runs, j)
  <2>1. low <= Score(runs[i]) /\ low \in Nat
    BY <1>1, <1>2
  <2>2. Score(runs[i]) = low => j <= i
    BY <1>3
  <2> QED
    BY <1>1, <1>3, <2>1, <2>2 DEF Weaker
<1> QED
  BY <1>3, <1>4

(* The text compaction counts before the runs go through the file, and when  *)
(* it looks at them as they are.                                             *)
Visible(runs) == [i \in 1..Len(runs) |-> runs[i].text.size]
Counted(runs) == [i \in 1..Len(runs) |-> Chars(runs[i])]

VisibleFits(runs) == Len(runs) > 1 => SumFunctionOnSet(Visible(runs), 1..Len(runs)) <= Budget
CountedFits(runs) == Len(runs) > 1 => SumFunctionOnSet(Counted(runs), 1..Len(runs)) <= Budget

Fits(runs) == /\ VisibleFits(runs)
              /\ (\E i \in 1..Len(runs) : ~runs[i].whole) => CountedFits(runs)

(* What compaction keeps is one run, or within the budget: the weakest run   *)
(* it keeps, but for the last, is one with which the rest was within it.     *)
LEMMA KeptFits ==
  ASSUME NEW runs \in Seq(Run)
  PROVE  CountedFits(Kept(runs))
<1> DEFINE l == Len(runs)
           K == (1..l) \ Marked(runs)
           t == SelectAt(runs, K)
           sizes == [i \in 1..l |-> Chars(runs[i])]
<1>1. l \in Nat /\ \A i \in 1..l : runs[i] \in Run
  BY ElementOfSeq, LenProperties
<1>0. K \in SUBSET (1..Len(runs))
  OBVIOUS
<1> HIDE DEF K
<1>2. t \in Seq(Run)
  BY <1>0, Selected
<1>3. PICK f \in [1..Len(t) -> K] :
        /\ \A k \in 1..Len(t) : t[k] = runs[f[k]]
        /\ \A j, k \in 1..Len(t) : f[j] = f[k] => j = k
        /\ \A i \in K : \E k \in 1..Len(t) : f[k] = i
  BY <1>0, Selected
<1>4. Kept(runs) = t
  BY DEF Kept, K
<1> HIDE DEF t
<1>5. Len(t) \in Nat /\ \A k \in 1..Len(t) : f[k] \in K /\ f[k] \in 1..l
  BY <1>0, <1>2, <1>3, LenProperties
<1>6. CASE K \subseteq {l}
  <2>1. \A k \in 1..Len(t) : f[k] = l
    BY <1>5, <1>6
  <2>2. \A j, k \in 1..Len(t) : j = k
    BY <1>3, <2>1
  <2>3. ~(1 \in 1..Len(t) /\ 2 \in 1..Len(t))
    BY <2>2
  <2> QED
    BY <1>4, <1>5, <2>3 DEF CountedFits
<1>7. CASE ~(K \subseteq {l})
  <2> DEFINE C == K \ {l}
  <2>1. C # {} /\ C \in SUBSET (1..Len(runs)) /\ C \subseteq 1..(l - 1)
    <3>1. \A i \in 1..l : i # l => i \in 1..(l - 1)
      BY <1>1
    <3>2. \A i \in C : i \in 1..l /\ i # l
      BY <1>0
    <3>3. \E i \in K : i # l
      BY <1>7
    <3> QED
      BY <3>1, <3>2, <3>3
  <2>2. PICK j \in C : \A i \in C : i \notin Weaker(runs, j)
    <3> HIDE DEF C
    <3> QED
      BY <2>1, WeakestExists
  <2>3. K \subseteq (1..l) \ Weaker(runs, j)
    <3>1. \A i \in Weaker(runs, j) : i \in 1..(l - 1) /\ i # l
      BY <1>1 DEF Weaker
    <3> QED
      BY <1>0, <2>2, <3>1
  <2>4. ~(SizeOf(runs, (1..l) \ Weaker(runs, j)) > Budget)
    <3>1. j \in 1..(l - 1) /\ j \notin Marked(runs) /\ j \in 1..l
      BY <1>1, <2>1, <2>2 DEF K
    <3> QED
      BY <3>1 DEF Marked, RunsToDrop
  <2>5. \A i \in 1..l : sizes[i] \in Nat /\ sizes[i] = Chars(runs[i])
    BY <1>1, RunNumbers
  <2>6. IsFiniteSet(1..l) /\ IsFiniteSet(K) /\ IsFiniteSet((1..l) \ Weaker(runs, j))
        /\ IsFiniteSet(1..Len(t))
    <3>1. IsFiniteSet(1..l) /\ IsFiniteSet(1..Len(t))
      BY <1>1, <1>5, FS_Interval
    <3>2. K \subseteq 1..l /\ (1..l) \ Weaker(runs, j) \subseteq 1..l
      BY <1>0
    <3> QED
      BY <3>1, <3>2, FS_Subset
  <2>7. SumFunctionOnSet(sizes, K) <= SumFunctionOnSet(sizes, (1..l) \ Weaker(runs, j))
    <3>1. \A i \in (1..l) \ Weaker(runs, j) : sizes[i] \in Nat
      BY <2>5
    <3> HIDE DEF sizes
    <3> QED
      BY <2>3, <2>6, <3>1, SumSubset
  <2>8. SumFunctionOnSet(sizes, (1..l) \ Weaker(runs, j)) \in Nat
        /\ SumFunctionOnSet(sizes, K) \in Nat
    <3> HIDE DEF sizes
    <3>1. K \in SUBSET (1..l) /\ (1..l) \ Weaker(runs, j) \in SUBSET (1..l)
      BY <1>0
    <3> QED
      BY <2>5, <2>6, <3>1, SumTyped
  <2>9. SumFunctionOnSet(Counted(t), 1..Len(t)) = SumFunctionOnSet(sizes, K)
    <3>1. \A k \in 1..Len(t) : Counted(t)[k] = sizes[f[k]]
      <4> SUFFICES ASSUME NEW k \in 1..Len(t) PROVE Counted(t)[k] = sizes[f[k]]
        OBVIOUS
      <4>1. f[k] \in 1..l /\ t[k] = runs[f[k]]
        BY <1>3, <1>5
      <4>2. Counted(t)[k] = Chars(runs[f[k]])
        BY <4>1 DEF Counted
      <4> QED
        BY <2>5, <4>1, <4>2
    <3>2. \A i \in K : sizes[i] \in Nat
      BY <1>0, <2>5
    <3> DEFINE w == Counted(t)
               D == 1..Len(t)
    <3>3. Renumbers(f, w, D, sizes, K)
      BY <1>3, <2>6, <3>1, <3>2 DEF Renumbers
    <3> HIDE DEF sizes, w, D
    <3>4. SumFunctionOnSet(w, D) = SumFunctionOnSet(sizes, K)
      BY <3>3, SumReindexed
    <3> QED
      BY <3>4 DEF w, D
  <2>10. SizeOf(runs, (1..l) \ Weaker(runs, j)) = SumFunctionOnSet(sizes, (1..l) \ Weaker(runs, j))
    BY DEF SizeOf
  <2> HIDE DEF sizes, C
  <2>11. SumFunctionOnSet(Counted(t), 1..Len(t)) <= Budget
    BY <2>4, <2>7, <2>8, <2>9, <2>10, BudgetsAssumption
  <2> QED
    BY <1>4, <2>11 DEF CountedFits
<1> QED
  BY <1>6, <1>7

(* As it is when none of them had been through the file, but never less.     *)
LEMMA CountedEnough ==
  ASSUME NEW runs \in Seq(Run), CountedFits(runs)
  PROVE  Fits(runs)
<1> DEFINE v == Visible(runs)
           c == Counted(runs)
           I == 1..Len(runs)
<1>1. Len(runs) \in Nat /\ \A i \in 1..Len(runs) : runs[i] \in Run
  BY ElementOfSeq, LenProperties
<1>2. /\ IsFiniteSet(I) /\ \A i \in I : v[i] \in Nat
      /\ \A i \in I : c[i] \in Nat
      /\ \A i \in I : v[i] <= c[i]
  <2>1. IsFiniteSet(1..Len(runs))
    BY <1>1, FS_Interval
  <2>2. ASSUME NEW i \in 1..Len(runs)
        PROVE  /\ v[i] = runs[i].text.size /\ c[i] = Chars(runs[i])
               /\ v[i] \in Nat /\ c[i] \in Nat /\ v[i] <= c[i]
    <3>1. v[i] = runs[i].text.size /\ c[i] = Chars(runs[i])
      BY DEF Visible, Counted
    <3>2. runs[i] \in Run
      BY <1>1
    <3> QED
      BY <3>1, <3>2, RunNumbers
  <2> QED
    BY <2>1, <2>2
<1> HIDE DEF v, c, I
<1>3. SumFunctionOnSet(v, I) <= SumFunctionOnSet(c, I)
  BY <1>2, SumPointwise
<1>4. SumFunctionOnSet(v, I) \in Nat /\ SumFunctionOnSet(c, I) \in Nat
  BY <1>2, SumTyped
<1>5. Len(runs) > 1 => SumFunctionOnSet(c, I) <= Budget
  BY DEF CountedFits, c, I
<1>6. Len(runs) > 1 => SumFunctionOnSet(v, I) <= Budget
  BY <1>3, <1>4, <1>5, BudgetsAssumption
<1> QED
  BY <1>6 DEF Fits, VisibleFits, v, I

(* A document that went through the file counts the visible text as before,  *)
(* and every run of it is whole.                                             *)
LEMMA FitsReloaded ==
  ASSUME NEW f \in Document, NEW s \in Session, Fits(f[s].runs)
  PROVE  Fits(ReloadedDoc(f)[s].runs)
<1> DEFINE runs == f[s].runs
           back == [i \in 1..Len(runs) |-> Reloaded(runs[i])]
<1>1. f[s] \in Memory /\ runs \in Seq(Run)
  BY DEF Document, Memory
<1>2. ReloadedDoc(f)[s].runs = back
  BY <1>1 DEF ReloadedDoc, Memory
<1>3. Len(runs) \in Nat /\ \A i \in 1..Len(runs) : runs[i] \in Run
  BY <1>1, ElementOfSeq, LenProperties
<1> HIDE DEF runs
<1>4. Len(back) = Len(runs)
  BY <1>3
<1>5. \A i \in 1..Len(runs) : back[i].whole = TRUE /\ back[i].text = runs[i].text
  BY <1>3 DEF Reloaded, Run
<1> HIDE DEF back
<1>6. Visible(back) = Visible(runs)
  BY <1>4, <1>5 DEF Visible
<1>7. VisibleFits(runs)
  BY DEF Fits, runs
<1>8. VisibleFits(back)
  BY <1>4, <1>6, <1>7 DEF VisibleFits
<1> QED
  BY <1>2, <1>4, <1>5, <1>8 DEF Fits

(* The document in memory and the one on disk fit.  The mutex is no part of  *)
(* it: a save writes the document in memory as it is.                        *)
FitInv == \A s \in Session : /\ Fits(doc[s].runs)
                             /\ sfile # Torn => Fits(sfile[s].runs)

(* Every step leaves the sessions within the budget, in memory and on disk.  *)
LEMMA FitStep == SessInv /\ FitInv /\ [SNext]_svars => FitInv'
<1> SUFFICES ASSUME SessInv, FitInv, [SNext]_svars PROVE FitInv'
  OBVIOUS
<1>1. CASE SStart
  <2>1. doc' = ReloadedDoc(sfile) /\ sfile' = sfile /\ sfile # Torn
    BY <1>1 DEF SStart
  <2>2. ASSUME NEW s \in Session PROVE Fits(doc'[s].runs)
    <3>1. sfile \in Document /\ Fits(sfile[s].runs)
      BY <2>1 DEF FitInv, SessInv, SessTyped
    <3> QED
      BY <2>1, <3>1, FitsReloaded
  <2> QED
    BY <2>1, <2>2 DEF FitInv
<1>2. CASE SCrash
  <2>1. sfile' = sfile /\ \A s \in Session : doc'[s].runs = <<>>
    BY <1>2 DEF SCrash, EmptySession
  <2>2. Fits(<<>>)
    BY EmptySeq DEF Fits, VisibleFits, CountedFits
  <2> QED
    BY <2>1, <2>2 DEF FitInv
<1>3. ASSUME NEW h \in Writers, AppendRun(h) PROVE FitInv'
  <2> DEFINE s    == run[h].session
             runs == Append(doc[s].runs, run[h])
  <2>1. /\ sfile' = sfile /\ spc[h] = "running"
        /\ doc' = [doc EXCEPT ![s] = [runs    |-> Kept(runs),
                                      summary |-> FoldSummary(doc[s].summary, Dropped(runs))]]
    BY <1>3 DEF AppendRun
  <2>2. run[h] \in Run /\ s \in Session /\ doc \in [Session -> Memory]
    BY <2>1 DEF SessInv, SessTyped, Handlers, Active, Document, Run
  <2>3. runs \in Seq(Run)
    BY <2>2, AppendProperties DEF Memory
  <2>4. Fits(Kept(runs))
    <3>1. Kept(runs) \in Seq(Run) /\ CountedFits(Kept(runs))
      BY <2>3, KeptFits, Compacted
    <3> QED
      BY <3>1, CountedEnough
  <2> HIDE DEF runs, s
  <2>5. doc'[s].runs = Kept(runs) /\ \A t \in Session : t # s => doc'[t] = doc[t]
    BY <2>1, <2>2
  <2> QED
    BY <2>1, <2>4, <2>5 DEF FitInv
<1>4. CASE sfile' = doc /\ doc' = doc
  BY <1>4 DEF FitInv
<1>5. CASE (sfile' = sfile \/ sfile' = Torn) /\ doc' = doc
  BY <1>5 DEF FitInv
<1>6. CASE Tick \/ UNCHANGED svars \/ SStartFatal
  BY <1>5, <1>6 DEF Tick, SStartFatal, svars, memVars
<1>7. ASSUME NEW h \in Writers, HandlerStep(h), ~AppendRun(h) PROVE FitInv'
  BY <1>4, <1>5, <1>7 DEF HandlerStep, Parse, SaveTruncate, SaveWrite, SaveFails, HandOff, HandOffSave,
     HandOffDone, memVars
<1> QED
  BY <1>1, <1>2, <1>3, <1>6, <1>7 DEF SNext

(* A session that an AppendRun leaves with several runs is within the budget *)
(* as compaction counts, and a reload adds only the agents of the stream     *)
(* fallback to that: for any texts, scores and ids, through any crash and    *)
(* failing save.                                                             *)
THEOREM WorkingSetStaysBounded == SSpec => []WorkingSetBounded
<1>1. SInit => FitInv
  <2> SUFFICES ASSUME SInit PROVE FitInv
    OBVIOUS
  <2>1. \A s \in Session : doc[s].runs = <<>> /\ sfile[s].runs = <<>>
    BY DEF SInit, EmptySession
  <2>2. Fits(<<>>)
    BY EmptySeq DEF Fits, VisibleFits, CountedFits
  <2> QED
    BY <2>1, <2>2 DEF FitInv
<1>2. SessInv /\ FitInv /\ [SNext]_svars => FitInv'
  BY FitStep
<1>3. FitInv => WorkingSetBounded
  BY DEF FitInv, Fits, VisibleFits, CountedFits, Visible, Counted, SizeOf, WorkingSetBounded
<1> QED
  BY <1>1, <1>2, <1>3, SessInvHolds, PTL DEF SSpec
==============================================================================
