-------------------------- MODULE AgentStreamProofs --------------------------
(* The drainer delivers what the engine sends, for any body, however it is   *)
(* cut into chunks and wherever it breaks off.                               *)
EXTENDS AgentStream, SequenceTheorems, NaturalsInduction, WellFoundedInduction, TLAPS

(* Induction over the natural numbers, for a set instead of a predicate.     *)
LEMMA Induct ==
  ASSUME NEW S, 0 \in S, \A n \in Nat : n \in S => n + 1 \in S
  PROVE  Nat \subseteq S
<1> DEFINE T == Nat \ S
           R == {ss \in Nat \X Nat : ss[1] < ss[2]}
<1>1. IsWellFoundedOn(R, Nat)
  BY NatLessThanWellFounded DEF OpToRel
<1>2. SUFFICES ASSUME T # {} PROVE FALSE
  OBVIOUS
<1>3. PICK x \in T : \A y \in T : ~ (<<y, x>> \in R)
  <2>1. T \subseteq Nat
    OBVIOUS
  <2> HIDE DEF T, R
  <2> QED
    BY <1>1, <1>2, <2>1, WFMin
<1>4. x # 0 /\ x \in Nat /\ x - 1 \in Nat /\ x = (x - 1) + 1
  BY <1>3
<1>5. x - 1 \notin T
  <2>1. <<x - 1, x>> \in R
    BY <1>4
  <2> QED
    BY <1>3, <2>1
<1> QED
  BY <1>3, <1>4, <1>5

(* A set of natural numbers has a least one.                                 *)
LEMMA LeastNumber ==
  ASSUME NEW S \in SUBSET Nat, S # {}
  PROVE  \E x \in S : \A y \in S : x <= y
<1> DEFINE R == {ss \in Nat \X Nat : ss[1] < ss[2]}
<1>1. IsWellFoundedOn(R, Nat)
  BY NatLessThanWellFounded DEF OpToRel
<1>2. PICK x \in S : \A y \in S : ~ (<<y, x>> \in R)
  <2> HIDE DEF R
  <2> QED
    BY <1>1, WFMin
<1>3. ASSUME NEW y \in S PROVE x <= y
  <2>1. x \in Nat /\ y \in Nat /\ ~ (<<y, x>> \in R)
    BY <1>2
  <2> QED
    BY <2>1
<1> QED
  BY <1>3
------------------------------------------------------------------------------
(* The deltas of a text are collected by a walk over its cells.              *)
Walks(t, n, f) ==
  f = [i \in 0..n |-> IF i = 0 THEN <<>>
                      ELSE IF IsDelta(t, i) THEN Append(f[i - 1], t[i])
                      ELSE f[i - 1]]

Walk(t) == CHOOSE f : Walks(t, Len(t), f)

(* The recursion of the walk has a solution.                                 *)
LEMMA WalkExists == ASSUME NEW t, NEW n \in Nat PROVE \E f : Walks(t, n, f)
<1> DEFINE Solved == {m \in Nat : \E f : Walks(t, m, f)}
<1>1. 0 \in Solved
  <2> DEFINE f == [i \in 0..0 |-> <<>>]
  <2>1. f = [i \in 0..0 |-> IF i = 0 THEN <<>>
                            ELSE IF IsDelta(t, i) THEN Append(f[i - 1], t[i])
                            ELSE f[i - 1]]
    OBVIOUS
  <2> HIDE DEF f
  <2>2. Walks(t, 0, f)
    BY <2>1 DEF Walks
  <2> QED
    BY <2>2
<1>2. ASSUME NEW m \in Nat, m \in Solved PROVE m + 1 \in Solved
  <2>1. PICK f : Walks(t, m, f)
    BY <1>2
  <2> DEFINE g == [i \in 0..(m + 1) |-> IF i = 0 THEN <<>>
                                        ELSE IF IsDelta(t, i) THEN Append(f[i - 1], t[i])
                                        ELSE f[i - 1]]
  <2>2. \A i \in 0..m : f[i] = IF i = 0 THEN <<>>
                               ELSE IF IsDelta(t, i) THEN Append(f[i - 1], t[i])
                               ELSE f[i - 1]
    <3>1. f = [i \in 0..m |-> IF i = 0 THEN <<>>
                              ELSE IF IsDelta(t, i) THEN Append(f[i - 1], t[i])
                              ELSE f[i - 1]]
      BY <2>1 DEF Walks
    <3> QED
      BY <3>1
  <2>3. \A i \in 0..m : g[i] = f[i]
    BY <2>2
  <2>4. \A i \in 0..(m + 1) : i # 0 => i - 1 \in 0..m
    OBVIOUS
  <2>5. \A i \in 0..(m + 1) : i # 0 => g[i - 1] = f[i - 1]
    <3> HIDE DEF g
    <3> QED
      BY <2>3, <2>4
  <2>6. g = [i \in 0..(m + 1) |-> IF i = 0 THEN <<>>
                                  ELSE IF IsDelta(t, i) THEN Append(g[i - 1], t[i])
                                  ELSE g[i - 1]]
    BY <2>5
  <2> HIDE DEF g
  <2>7. Walks(t, m + 1, g)
    BY <2>6 DEF Walks
  <2> QED
    BY <2>7
<1>3. Nat \subseteq Solved
  <2> HIDE DEF Solved
  <2> QED
    BY <1>1, <1>2, Induct
<1> QED
  BY <1>3

(* One step of the walk, and where it ends.                                  *)
LEMMA WalkUnfolds ==
  ASSUME NEW t \in Seq(Cell)
  PROVE  /\ Deltas(t) = Walk(t)[Len(t)]
         /\ Walk(t)[0] = <<>>
         /\ \A i \in 1..Len(t) :
              Walk(t)[i] = IF IsDelta(t, i) THEN Append(Walk(t)[i - 1], t[i]) ELSE Walk(t)[i - 1]
<1>1. Deltas(t) = Walk(t)[Len(t)]
  BY DEF Deltas, Walk, Walks
<1>2. Len(t) \in Nat
  BY LenProperties
<1>3. Walks(t, Len(t), Walk(t))
  <2>1. \E f : Walks(t, Len(t), f)
    BY <1>2, WalkExists
  <2> QED
    BY <2>1 DEF Walk
<1> DEFINE w == Walk(t)
<1> HIDE DEF w
<1>4. w = [i \in 0..Len(t) |-> IF i = 0 THEN <<>>
                               ELSE IF IsDelta(t, i) THEN Append(w[i - 1], t[i])
                               ELSE w[i - 1]]
  BY <1>3 DEF Walks, w
<1>5. \A i \in 0..Len(t) : w[i] = IF i = 0 THEN <<>>
                                  ELSE IF IsDelta(t, i) THEN Append(w[i - 1], t[i])
                                  ELSE w[i - 1]
  BY <1>4
<1>6. w[0] = <<>>
  BY <1>2, <1>5
<1>7. \A i \in 1..Len(t) : w[i] = IF IsDelta(t, i) THEN Append(w[i - 1], t[i]) ELSE w[i - 1]
  BY <1>2, <1>5
<1> QED
  BY <1>1, <1>6, <1>7 DEF w

(* The walk collects deltas only.                                            *)
LEMMA WalkTyped ==
  ASSUME NEW t \in Seq(Cell)
  PROVE  /\ \A i \in 0..Len(t) : Walk(t)[i] \in Seq(Token)
         /\ Deltas(t) \in Seq(Token)
<1> DEFINE Good == {n \in Nat : n <= Len(t) => Walk(t)[n] \in Seq(Token)}
<1>1. Len(t) \in Nat
  BY LenProperties
<1>2. 0 \in Good
  BY WalkUnfolds, EmptySeq
<1>3. ASSUME NEW n \in Nat, n \in Good PROVE n + 1 \in Good
  <2> SUFFICES ASSUME n + 1 <= Len(t) PROVE Walk(t)[n + 1] \in Seq(Token)
    OBVIOUS
  <2>1. n + 1 \in 1..Len(t) /\ (n + 1) - 1 = n /\ Walk(t)[n] \in Seq(Token)
    BY <1>1, <1>3
  <2>2. Walk(t)[n + 1] = IF IsDelta(t, n + 1) THEN Append(Walk(t)[n], t[n + 1]) ELSE Walk(t)[n]
    BY <2>1, WalkUnfolds
  <2>3. CASE IsDelta(t, n + 1)
    <3>1. t[n + 1] \in Token
      BY <2>3 DEF IsDelta
    <3> QED
      BY <2>1, <2>2, <2>3, <3>1, AppendProperties
  <2>4. CASE ~IsDelta(t, n + 1)
    BY <2>1, <2>2, <2>4
  <2> QED
    BY <2>3, <2>4
<1>4. Nat \subseteq Good
  <2> HIDE DEF Good
  <2> QED
    BY <1>2, <1>3, Induct
<1>5. \A i \in 0..Len(t) : Walk(t)[i] \in Seq(Token)
  BY <1>1, <1>4
<1> QED
  BY <1>1, <1>5, WalkUnfolds

(* The first n cells of u are those of t behind the a-th, deltas or not.     *)
Mirrors(u, t, a, n) ==
  /\ a + n <= Len(t) /\ n <= Len(u)
  /\ \A k \in 1..n : u[k] = t[a + k] /\ (IsDelta(u, k) <=> IsDelta(t, a + k))

(* Then the walk over them collects the same behind a as from the start.     *)
LEMMA WalkShift ==
  ASSUME NEW u \in Seq(Cell), NEW t \in Seq(Cell), NEW a \in Nat, NEW n \in Nat, Mirrors(u, t, a, n)
  PROVE  Walk(t)[a + n] = Walk(t)[a] \o Walk(u)[n]
<1> DEFINE Same(m) == Walk(t)[a + m] = Walk(t)[a] \o Walk(u)[m]
           Good == {m \in Nat : m <= n => Same(m)}
<1>1. Len(t) \in Nat /\ Len(u) \in Nat /\ a + n <= Len(t) /\ n <= Len(u)
  BY LenProperties DEF Mirrors
<1>2. Walk(t)[a] \in Seq(Token)
  BY <1>1, WalkTyped
<1>3. 0 \in Good
  <2>1. Walk(u)[0] = <<>> /\ a + 0 = a
    BY WalkUnfolds
  <2>2. Walk(t)[a] \o <<>> = Walk(t)[a]
    BY <1>2, ConcatEmptySeq
  <2>3. Same(0)
    BY <2>1, <2>2
  <2> HIDE DEF Same
  <2> QED
    BY <2>3
<1>4. ASSUME NEW m \in Nat, m \in Good PROVE m + 1 \in Good
  <2> HIDE DEF Same
  <2>0. m + 1 \in Nat /\ (m + 1 <= n => Same(m))
    BY <1>4
  <2> SUFFICES ASSUME m + 1 <= n PROVE Same(m + 1)
    BY <2>0
  <2>1. /\ m + 1 \in 1..Len(u) /\ a + (m + 1) \in 1..Len(t) /\ m + 1 \in 1..n
        /\ (m + 1) - 1 = m /\ (a + (m + 1)) - 1 = a + m
    BY <1>1
  <2> USE DEF Same
  <2>8. Walk(t)[a + m] = Walk(t)[a] \o Walk(u)[m]
    BY <2>0
  <2>2. u[m + 1] = t[a + (m + 1)] /\ (IsDelta(u, m + 1) <=> IsDelta(t, a + (m + 1)))
    BY <2>1 DEF Mirrors
  <2>3. Walk(u)[m + 1] = IF IsDelta(u, m + 1) THEN Append(Walk(u)[m], u[m + 1]) ELSE Walk(u)[m]
    BY <2>1, WalkUnfolds
  <2>4. Walk(t)[a + (m + 1)] = IF IsDelta(t, a + (m + 1))
                               THEN Append(Walk(t)[a + m], t[a + (m + 1)]) ELSE Walk(t)[a + m]
    BY <2>1, WalkUnfolds
  <2>5. Walk(u)[m] \in Seq(Token)
    BY <1>1, <2>1, WalkTyped
  <2>6. CASE IsDelta(u, m + 1)
    <3> DEFINE x == Walk(t)[a]
               y == Walk(u)[m]
               e == u[m + 1]
    <3>1. e \in Token
      BY <2>6 DEF IsDelta
    <3>2. Walk(u)[m + 1] = Append(y, e) /\ Walk(t)[a + (m + 1)] = Append(x \o y, e)
      BY <2>1, <2>2, <2>3, <2>4, <2>6, <2>8
    <3>3. x \in Seq(Token) /\ y \in Seq(Token)
      BY <1>2, <2>5
    <3> HIDE DEF x, y, e
    <3>4. /\ x \o y \in Seq(Token) /\ <<e>> \in Seq(Token)
          /\ Append(x \o y, e) = (x \o y) \o <<e>> /\ Append(y, e) = y \o <<e>>
      BY <3>1, <3>3, ConcatProperties, AppendIsConcat
    <3>5. Append(x \o y, e) = x \o Append(y, e)
      BY <3>3, <3>4, ConcatAssociative
    <3> QED
      BY <3>2, <3>5 DEF x
  <2>7. CASE ~IsDelta(u, m + 1)
    BY <2>1, <2>2, <2>3, <2>4, <2>7, <2>8
  <2> QED
    BY <2>6, <2>7
<1>5. Nat \subseteq Good
  <2> HIDE DEF Good
  <2> QED
    BY <1>3, <1>4, Induct
<1>6. Same(n)
  <2> HIDE DEF Same
  <2> QED
    BY <1>5
<1> QED
  BY <1>6
------------------------------------------------------------------------------
(* The cells that shape a text are no payloads.                              *)
LEMMA CellsApart == NL \in Cell /\ NL \notin Token /\ NL # Data /\ NL # Done
BY CellAssumption DEF Cell, NL, Data, Done

(* A part of a text.                                                         *)
LEMMA PartOf ==
  ASSUME NEW w \in Seq(Cell), NEW i \in Nat, NEW j \in Nat, i >= 1, j <= Len(w), i <= j + 1
  PROVE  /\ SubSeq(w, i, j) \in Seq(Cell)
         /\ Len(SubSeq(w, i, j)) = (j + 1) - i
         /\ \A k \in 1..((j + 1) - i) : SubSeq(w, i, j)[k] = w[(i + k) - 1]
<1>1. Len(w) \in Nat /\ \A k \in i..j : w[k] \in Cell
  <2>1. Len(w) \in Nat /\ \A k \in i..j : k \in 1..Len(w)
    BY LenProperties
  <2> QED
    BY <2>1, ElementOfSeq
<1>2. /\ SubSeq(w, i, j) \in Seq(Cell)
      /\ Len(SubSeq(w, i, j)) = IF i <= j THEN j - i + 1 ELSE 0
      /\ \A k \in 1..(j - i + 1) : SubSeq(w, i, j)[k] = w[i + k - 1]
  BY <1>1, SubSeqProperties
<1> QED
  BY <1>2

(* Texts of the same cells are the same.                                     *)
LEMMA SameText ==
  ASSUME NEW u \in Seq(Cell), NEW w \in Seq(Cell), Len(u) = Len(w), \A k \in 1..Len(u) : u[k] = w[k]
  PROVE  u = w
<1>1. u = [k \in 1..Len(u) |-> u[k]] /\ w = [k \in 1..Len(w) |-> w[k]]
  BY SeqDef, LenProperties
<1> QED
  BY <1>1

(* A part of a part is a part.                                               *)
LEMMA PartOfPart ==
  ASSUME NEW w \in Seq(Cell), NEW m \in Nat, NEW n \in Nat, m >= 1, n <= Len(w), m <= n + 1,
         NEW i \in Nat, NEW j \in Nat, i >= 1, j <= (n + 1) - m, i <= j + 1
  PROVE  SubSeq(SubSeq(w, m, n), i, j) = SubSeq(w, (m + i) - 1, (m + j) - 1)
<1> DEFINE v == SubSeq(w, m, n)
           a == (m + i) - 1
           b == (m + j) - 1
<1>1. v \in Seq(Cell) /\ Len(v) = (n + 1) - m /\ \A k \in 1..((n + 1) - m) : v[k] = w[(m + k) - 1]
  BY PartOf
<1>2. a \in Nat /\ b \in Nat /\ a >= 1 /\ b <= Len(w) /\ a <= b + 1 /\ (b + 1) - a = (j + 1) - i
  BY LenProperties
<1> HIDE DEF v
<1>3. /\ SubSeq(v, i, j) \in Seq(Cell)
      /\ Len(SubSeq(v, i, j)) = (j + 1) - i
      /\ \A k \in 1..((j + 1) - i) : SubSeq(v, i, j)[k] = v[(i + k) - 1]
  BY <1>1, PartOf
<1>4. /\ SubSeq(w, a, b) \in Seq(Cell)
      /\ Len(SubSeq(w, a, b)) = (j + 1) - i
      /\ \A k \in 1..((j + 1) - i) : SubSeq(w, a, b)[k] = w[(a + k) - 1]
  <2> HIDE DEF a, b
  <2> QED
    BY <1>2, PartOf
<1>5. ASSUME NEW k \in 1..((j + 1) - i) PROVE SubSeq(v, i, j)[k] = SubSeq(w, a, b)[k]
  <2>1. (i + k) - 1 \in 1..((n + 1) - m) /\ (m + ((i + k) - 1)) - 1 = (a + k) - 1
    OBVIOUS
  <2>2. v[(i + k) - 1] = w[(m + ((i + k) - 1)) - 1]
    BY <1>1, <2>1
  <2> QED
    BY <1>3, <1>4, <2>1, <2>2
<1>6. SubSeq(v, i, j) = SubSeq(w, a, b)
  <2> HIDE DEF a, b
  <2> QED
    BY <1>3, <1>4, <1>5, SameText
<1> QED
  BY <1>6 DEF v

(* The newline at the end of a text tells nothing.                           *)
LEMMA NewlineAtEnd ==
  ASSUME NEW w \in Seq(Cell), NEW n \in Nat, Len(w) = n + 1, w[n + 1] = NL
  PROVE  /\ Deltas(w) = Deltas(SubSeq(w, 1, n))
         /\ HasDone(w) <=> HasDone(SubSeq(w, 1, n))
<1> DEFINE v == SubSeq(w, 1, n)
<1>1. v \in Seq(Cell) /\ Len(v) = n /\ \A k \in 1..n : v[k] = w[k]
  BY PartOf
<1> HIDE DEF v
<1>2. ASSUME NEW k \in 1..n PROVE IsPayload(w, k) <=> IsPayload(v, k)
  <2>1. k > 1 => k - 1 \in 1..n
    OBVIOUS
  <2>2. k > 1 /\ ~(k - 1 = 1) => (k - 1) - 1 \in 1..n
    OBVIOUS
  <2>3. k # n => k + 1 \in 1..n
    OBVIOUS
  <2>4. LineEnd(w, k) <=> LineEnd(v, k)
    BY <1>1, <2>3 DEF LineEnd
  <2>5. k > 1 => (LineStart(w, k - 1) <=> LineStart(v, k - 1))
    BY <1>1, <2>2 DEF LineStart
  <2> QED
    BY <1>1, <2>1, <2>4, <2>5 DEF IsPayload
<1>3. Mirrors(v, w, 0, n)
  BY <1>1, <1>2 DEF Mirrors, IsDelta
<1>4. Walk(w)[n] = Walk(v)[n]
  <2>1. Walk(w)[0 + n] = Walk(w)[0] \o Walk(v)[n]
    BY <1>1, <1>3, WalkShift
  <2>2. Walk(w)[0] = <<>> /\ Walk(v)[n] \in Seq(Token)
    BY <1>1, WalkUnfolds, WalkTyped
  <2>3. <<>> \o Walk(v)[n] = Walk(v)[n]
    BY <2>2, ConcatEmptySeq
  <2> QED
    BY <2>1, <2>2, <2>3
<1>5. Walk(w)[n + 1] = Walk(w)[n]
  <2>1. n + 1 \in 1..Len(w) /\ (n + 1) - 1 = n /\ ~IsDelta(w, n + 1)
    BY CellsApart DEF IsDelta
  <2> QED
    BY <2>1, WalkUnfolds
<1>6. Deltas(w) = Deltas(v)
  BY <1>1, <1>4, <1>5, WalkUnfolds
<1>7. HasDone(w) <=> HasDone(v)
  <2>1. \A i \in 1..Len(w) : i \in 1..n \/ (i = n + 1 /\ w[i] # Done)
    BY CellsApart
  <2>2. \A i \in 1..n : i \in 1..Len(w) /\ i \in 1..Len(v) /\ w[i] = v[i]
    BY <1>1
  <2> QED
    BY <1>1, <1>2, <2>1, <2>2 DEF HasDone
<1> QED
  BY <1>6, <1>7 DEF v

(* Behind a newline a text can be taken apart.                               *)
LEMMA SplitAtNewline ==
  ASSUME NEW w \in Seq(Cell), NEW d \in Nat, d <= Len(w), d = 0 \/ w[d] = NL
  PROVE  /\ Deltas(w) = Deltas(SubSeq(w, 1, d)) \o Deltas(SubSeq(w, d + 1, Len(w)))
         /\ HasDone(w) <=> HasDone(SubSeq(w, 1, d)) \/ HasDone(SubSeq(w, d + 1, Len(w)))
<1> DEFINE v == SubSeq(w, 1, d)
           u == SubSeq(w, d + 1, Len(w))
           n == Len(w) - d
<1>0. Len(w) \in Nat /\ n \in Nat /\ d + n = Len(w)
  BY LenProperties
<1>1. v \in Seq(Cell) /\ Len(v) = d /\ \A k \in 1..d : v[k] = w[k]
  BY <1>0, PartOf
<1>2. u \in Seq(Cell) /\ Len(u) = n /\ \A k \in 1..n : u[k] = w[d + k]
  <2>1. /\ u \in Seq(Cell) /\ Len(u) = (Len(w) + 1) - (d + 1)
        /\ \A k \in 1..((Len(w) + 1) - (d + 1)) : u[k] = w[((d + 1) + k) - 1]
    BY <1>0, PartOf
  <2>2. (Len(w) + 1) - (d + 1) = n /\ \A k \in 1..n : ((d + 1) + k) - 1 = d + k
    BY <1>0
  <2> HIDE DEF u, n
  <2> QED
    BY <2>1, <2>2
<1> HIDE DEF u, v, n
<1>3. ASSUME NEW k \in 1..d, w[k] # NL PROVE IsPayload(w, k) <=> IsPayload(v, k)
  <2>1. k > 1 => k - 1 \in 1..d
    OBVIOUS
  <2>2. k > 1 /\ ~(k - 1 = 1) => (k - 1) - 1 \in 1..d
    OBVIOUS
  <2>3. k + 1 \in 1..d /\ k # d /\ k # Len(w)
    BY <1>0, <1>3
  <2>4. LineEnd(w, k) <=> LineEnd(v, k)
    BY <1>1, <2>3 DEF LineEnd
  <2>5. k > 1 => (LineStart(w, k - 1) <=> LineStart(v, k - 1))
    BY <1>1, <2>2 DEF LineStart
  <2> QED
    BY <1>1, <2>1, <2>4, <2>5 DEF IsPayload
<1>4. ASSUME NEW k \in 1..d, w[k] = NL PROVE ~IsDelta(w, k) /\ ~IsDelta(v, k) /\ w[k] # Done
  BY <1>1, <1>4, CellsApart DEF IsDelta
<1>5. ASSUME NEW k \in 1..n PROVE IsPayload(u, k) <=> IsPayload(w, d + k)
  <2>1. LineEnd(u, k) <=> LineEnd(w, d + k)
    <3>1. k # n => k + 1 \in 1..n /\ d + (k + 1) = (d + k) + 1
      BY <1>0
    <3>2. k = n <=> d + k = Len(w)
      BY <1>0
    <3> QED
      BY <1>2, <3>1, <3>2 DEF LineEnd
  <2>2. CASE k = 1
    <3>1. ~IsPayload(u, k)
      BY <2>2 DEF IsPayload
    <3>2. d # 0 => w[(d + k) - 1] # Data
      BY <2>2, CellsApart
    <3>3. ~IsPayload(w, d + k)
      BY <2>2, <3>2 DEF IsPayload
    <3> QED
      BY <3>1, <3>3
  <2>3. CASE k # 1
    <3>1. k - 1 \in 1..n /\ d + (k - 1) = (d + k) - 1 /\ k > 1 /\ d + k > 1
      BY <1>0, <2>3
    <3>2. LineStart(u, k - 1) <=> LineStart(w, (d + k) - 1)
      <4>1. CASE k - 1 = 1
        <5>1. (d + k) - 1 = d + 1 /\ ((d + k) - 1) - 1 = d
          BY <4>1
        <5> QED
          BY <4>1, <5>1 DEF LineStart
      <4>2. CASE k - 1 # 1
        <5>1. /\ (k - 1) - 1 \in 1..n /\ d + ((k - 1) - 1) = ((d + k) - 1) - 1
              /\ (d + k) - 1 # 1
          BY <1>0, <2>3, <4>2
        <5> QED
          BY <1>2, <4>2, <5>1 DEF LineStart
      <4> QED
        BY <4>1, <4>2
    <3>3. u[k - 1] = w[(d + k) - 1]
      BY <1>2, <3>1
    <3> QED
      BY <2>1, <3>1, <3>2, <3>3 DEF IsPayload
  <2> QED
    BY <2>2, <2>3
<1>6. Mirrors(v, w, 0, d) /\ Mirrors(u, w, d, n)
  <2>1. Mirrors(v, w, 0, d)
    BY <1>0, <1>1, <1>3, <1>4 DEF Mirrors, IsDelta
  <2>2. Mirrors(u, w, d, n)
    <3>1. \A k \in 1..n : u[k] = w[d + k] /\ (IsDelta(u, k) <=> IsDelta(w, d + k))
      BY <1>2, <1>5 DEF IsDelta
    <3>2. d + n <= Len(w) /\ n <= Len(u)
      BY <1>0, <1>2
    <3> QED
      BY <3>1, <3>2 DEF Mirrors
  <2> QED
    BY <2>1, <2>2
<1>7. Walk(w)[d] = Walk(v)[d]
  <2>1. Walk(w)[0 + d] = Walk(w)[0] \o Walk(v)[d]
    BY <1>1, <1>6, WalkShift
  <2>2. Walk(w)[0] = <<>> /\ Walk(v)[d] \in Seq(Token)
    BY <1>1, WalkUnfolds, WalkTyped
  <2>3. <<>> \o Walk(v)[d] = Walk(v)[d]
    BY <2>2, ConcatEmptySeq
  <2> QED
    BY <2>1, <2>2, <2>3
<1>8. Walk(w)[d + n] = Walk(w)[d] \o Walk(u)[n]
  BY <1>0, <1>2, <1>6, WalkShift
<1>9. Deltas(w) = Deltas(v) \o Deltas(u)
  BY <1>0, <1>1, <1>2, <1>7, <1>8, WalkUnfolds
<1>10. HasDone(w) <=> HasDone(v) \/ HasDone(u)
  <2>1. ASSUME NEW i \in 1..Len(w), w[i] = Done, IsPayload(w, i) PROVE HasDone(v) \/ HasDone(u)
    <3>1. CASE i <= d
      <4>1. i \in 1..d
        BY <3>1
      <4> QED
        BY <1>1, <1>3, <2>1, <4>1, CellsApart DEF HasDone
    <3>2. CASE ~(i <= d)
      <4>1. i - d \in 1..n /\ d + (i - d) = i
        BY <1>0, <3>2
      <4> QED
        BY <1>2, <1>5, <2>1, <4>1 DEF HasDone
    <3> QED
      BY <3>1, <3>2
  <2>2. ASSUME NEW i \in 1..Len(v), v[i] = Done, IsPayload(v, i) PROVE HasDone(w)
    <3>1. i \in 1..d /\ i \in 1..Len(w) /\ w[i] = Done
      BY <1>0, <1>1, <2>2
    <3> QED
      BY <1>3, <2>2, <3>1, CellsApart DEF HasDone
  <2>3. ASSUME NEW i \in 1..Len(u), u[i] = Done, IsPayload(u, i) PROVE HasDone(w)
    <3>1. i \in 1..n /\ d + i \in 1..Len(w)
      BY <1>0, <1>2, <2>3
    <3> QED
      BY <1>2, <1>5, <2>3, <3>1 DEF HasDone
  <2> QED
    BY <2>1, <2>2, <2>3 DEF HasDone
<1> QED
  BY <1>9, <1>10 DEF u, v

(* The part up to a place behind a newline, continued.                       *)
LEMMA Continued ==
  ASSUME NEW t \in Seq(Cell), NEW d \in Nat, NEW e \in Nat, d <= e, e <= Len(t), d = 0 \/ t[d] = NL
  PROVE  /\ Deltas(SubSeq(t, 1, e)) = Deltas(SubSeq(t, 1, d)) \o Deltas(SubSeq(t, d + 1, e))
         /\ HasDone(SubSeq(t, 1, e)) <=>
              HasDone(SubSeq(t, 1, d)) \/ HasDone(SubSeq(t, d + 1, e))
<1> DEFINE w == SubSeq(t, 1, e)
<1>1. w \in Seq(Cell) /\ Len(w) = e /\ \A k \in 1..e : w[k] = t[k]
  BY PartOf
<1>2. SubSeq(w, 1, d) = SubSeq(t, 1, d) /\ SubSeq(w, d + 1, e) = SubSeq(t, d + 1, e)
  <2>1. SubSeq(w, 1, d) = SubSeq(t, (1 + 1) - 1, (1 + d) - 1)
    BY PartOfPart
  <2>2. SubSeq(w, d + 1, e) = SubSeq(t, (1 + (d + 1)) - 1, (1 + e) - 1)
    BY PartOfPart
  <2>3. (1 + 1) - 1 = 1 /\ (1 + d) - 1 = d /\ (1 + (d + 1)) - 1 = d + 1 /\ (1 + e) - 1 = e
    OBVIOUS
  <2> HIDE DEF w
  <2> QED
    BY <2>1, <2>2, <2>3
<1> HIDE DEF w
<1>3. d = 0 \/ w[d] = NL
  BY <1>1
<1>4. /\ Deltas(w) = Deltas(SubSeq(w, 1, d)) \o Deltas(SubSeq(w, d + 1, e))
      /\ HasDone(w) <=> HasDone(SubSeq(w, 1, d)) \/ HasDone(SubSeq(w, d + 1, e))
  BY <1>1, <1>3, SplitAtNewline
<1> QED
  BY <1>2, <1>4 DEF w
------------------------------------------------------------------------------
(* The first blank line of a text that has one.                              *)
LEMMA FirstBlankIn ==
  ASSUME NEW t \in Seq(Cell), Blanks(t) # {}
  PROVE  /\ FirstBlank(t) \in 2..Len(t)
         /\ t[FirstBlank(t)] = NL /\ t[FirstBlank(t) - 1] = NL
<1>1. Len(t) \in Nat /\ Blanks(t) \in SUBSET Nat
  BY LenProperties DEF Blanks
<1>2. \E i \in Blanks(t) : \A j \in Blanks(t) : i <= j
  BY <1>1, LeastNumber
<1>3. FirstBlank(t) \in Blanks(t)
  BY <1>2 DEF FirstBlank
<1> QED
  BY <1>3 DEF Blanks

(* What feed hands on of a buffer, and what it keeps.                        *)
LEMMA FrameTaken ==
  ASSUME NEW t \in Seq(Cell), Blanks(t) # {}
  PROVE  /\ SubSeq(t, 1, FirstBlank(t) - 2) \in Seq(Cell)
         /\ SubSeq(t, FirstBlank(t) + 1, Len(t)) \in Seq(Cell)
         /\ Deltas(SubSeq(t, 1, FirstBlank(t) - 2)) = Deltas(SubSeq(t, 1, FirstBlank(t)))
         /\ HasDone(SubSeq(t, 1, FirstBlank(t) - 2)) <=> HasDone(SubSeq(t, 1, FirstBlank(t)))
<1> DEFINE b == FirstBlank(t)
<1>1. /\ b \in Nat /\ b - 1 \in Nat /\ b - 2 \in Nat /\ b <= Len(t) /\ Len(t) \in Nat
      /\ t[b] = NL /\ t[b - 1] = NL
  BY FirstBlankIn, LenProperties
<1> HIDE DEF b
<1>2. /\ SubSeq(t, 1, b) \in Seq(Cell) /\ Len(SubSeq(t, 1, b)) = b
      /\ \A k \in 1..b : SubSeq(t, 1, b)[k] = t[k]
  BY <1>1, PartOf
<1>3. /\ SubSeq(t, 1, b - 1) \in Seq(Cell) /\ Len(SubSeq(t, 1, b - 1)) = b - 1
      /\ \A k \in 1..(b - 1) : SubSeq(t, 1, b - 1)[k] = t[k]
  BY <1>1, PartOf
<1>4. SubSeq(t, 1, b - 2) \in Seq(Cell) /\ SubSeq(t, b + 1, Len(t)) \in Seq(Cell)
  BY <1>1, PartOf
<1>5. SubSeq(SubSeq(t, 1, b), 1, b - 1) = SubSeq(t, 1, b - 1)
  <2>1. SubSeq(SubSeq(t, 1, b), 1, b - 1) = SubSeq(t, (1 + 1) - 1, (1 + (b - 1)) - 1)
    BY <1>1, PartOfPart
  <2>2. (1 + 1) - 1 = 1 /\ (1 + (b - 1)) - 1 = b - 1
    BY <1>1
  <2> QED
    BY <2>1, <2>2
<1>6. SubSeq(SubSeq(t, 1, b - 1), 1, b - 2) = SubSeq(t, 1, b - 2)
  <2>1. SubSeq(SubSeq(t, 1, b - 1), 1, b - 2) = SubSeq(t, (1 + 1) - 1, (1 + (b - 2)) - 1)
    BY <1>1, PartOfPart
  <2>2. (1 + 1) - 1 = 1 /\ (1 + (b - 2)) - 1 = b - 2
    BY <1>1
  <2> QED
    BY <2>1, <2>2
<1>7. /\ Deltas(SubSeq(t, 1, b)) = Deltas(SubSeq(t, 1, b - 1))
      /\ HasDone(SubSeq(t, 1, b)) <=> HasDone(SubSeq(t, 1, b - 1))
  <2> DEFINE w == SubSeq(t, 1, b)
             n == b - 1
  <2>1. w \in Seq(Cell) /\ n \in Nat /\ Len(w) = n + 1 /\ w[n + 1] = NL
    BY <1>1, <1>2
  <2> HIDE DEF w, n
  <2>2. Deltas(w) = Deltas(SubSeq(w, 1, n)) /\ (HasDone(w) <=> HasDone(SubSeq(w, 1, n)))
    BY <2>1, NewlineAtEnd
  <2> QED
    BY <1>5, <2>2 DEF w, n
<1>8. /\ Deltas(SubSeq(t, 1, b - 1)) = Deltas(SubSeq(t, 1, b - 2))
      /\ HasDone(SubSeq(t, 1, b - 1)) <=> HasDone(SubSeq(t, 1, b - 2))
  <2> DEFINE w == SubSeq(t, 1, b - 1)
             n == b - 2
  <2>1. w \in Seq(Cell) /\ n \in Nat /\ Len(w) = n + 1 /\ w[n + 1] = NL
    BY <1>1, <1>3
  <2> HIDE DEF w, n
  <2>2. Deltas(w) = Deltas(SubSeq(w, 1, n)) /\ (HasDone(w) <=> HasDone(SubSeq(w, 1, n)))
    BY <2>1, NewlineAtEnd
  <2> QED
    BY <1>6, <2>2 DEF w, n
<1> QED
  BY <1>4, <1>7, <1>8 DEF b
------------------------------------------------------------------------------
(* Every variable of a stream keeps its type.                                *)
THEOREM StreamTypes == Spec => []TypeOK
<1> DEFINE Out == Token \union {NotResponding, Done}
<1>1. Init => TypeOK
  <2> SUFFICES ASSUME Init PROVE TypeOK
    OBVIOUS
  <2>1. body \in Bodies /\ Len(body) \in Nat
    BY BodiesAssumption, LenProperties DEF Init
  <2>2. buf \in Seq(Cell) /\ out \in Seq(Out)
    BY EmptySeq DEF Init
  <2>3. body \in Bodies /\ pos \in 0..Len(body)
    BY <2>1 DEF Init
  <2>4. pc \in PC /\ watcher \in {"waiting", "ended"}
    BY DEF Init, PC
  <2>5. done \in BOOLEAN /\ gone \in BOOLEAN /\ ctx \in BOOLEAN /\ broke \in BOOLEAN
    BY DEF Init
  <2> QED
    BY <2>2, <2>3, <2>4, <2>5 DEF TypeOK
<1>2. TypeOK /\ [Next]_vars => TypeOK'
  <2> SUFFICES ASSUME TypeOK, [Next]_vars PROVE TypeOK'
    OBVIOUS
  <2>0. body \in Seq(Cell) /\ Len(body) \in Nat /\ buf \in Seq(Cell) /\ out \in Seq(Out)
        /\ pos \in 0..Len(body)
    BY BodiesAssumption, LenProperties DEF TypeOK
  <2>a. ASSUME NEW t \in Seq(Cell) PROVE out \o Deltas(t) \in Seq(Out)
    <3>1. \A s \in Seq(Token) : s \in Seq(Out)
      BY DEF Out
    <3>2. Deltas(t) \in Seq(Out)
      BY <3>1, WalkTyped
    <3> HIDE DEF Out
    <3> QED
      BY <2>0, <3>2, ConcatProperties
  <2>1. CASE Disconnect \/ WatcherCancels \/ WatcherEnds \/ Connect \/ ReadEOF \/ ReadBreaks
    BY <2>1 DEF TypeOK, PC, Disconnect, WatcherCancels, WatcherEnds, Connect, ReadEOF, ReadBreaks
  <2>2. CASE ConnectFails
    <3>1. out' \in Seq(Out)
      <4>1. NotResponding \in Out
        OBVIOUS
      <4> HIDE DEF Out
      <4> QED
        BY <2>0, <2>2, <4>1, AppendProperties DEF ConnectFails
    <3> QED
      BY <2>2, <3>1 DEF TypeOK, PC, ConnectFails
  <2>3. CASE Read
    <3>1. PICK n \in (pos + 1)..Len(body) : buf' = buf \o SubSeq(body, pos + 1, n) /\ pos' = n
      BY <2>3 DEF Read
    <3>2. SubSeq(body, pos + 1, n) \in Seq(Cell)
      BY <2>0, PartOf
    <3>3. buf' \in Seq(Cell) /\ pos' \in 0..Len(body)
      BY <2>0, <3>1, <3>2, ConcatProperties
    <3> QED
      BY <2>3, <3>3 DEF TypeOK, PC, Read
  <2>4. CASE DrainFrame
    <3>1. Blanks(buf) # {}
      BY <2>4 DEF DrainFrame
    <3>2. out' \in Seq(Out) /\ buf' \in Seq(Cell) /\ done' \in BOOLEAN
      BY <2>0, <2>4, <2>a, <3>1, FrameTaken DEF DrainFrame
    <3> QED
      BY <2>4, <3>2 DEF TypeOK, DrainFrame
  <2>5. CASE Drained
    BY <2>5 DEF TypeOK, PC, Drained
  <2>6. CASE Flush
    <3>1. out' \in Seq(Out) /\ buf' \in Seq(Cell) /\ done' \in BOOLEAN
      BY <2>0, <2>6, <2>a, EmptySeq DEF Flush
    <3> QED
      BY <2>6, <3>1 DEF TypeOK, PC, Flush
  <2>7. CASE Finish
    <3>1. out' \in Seq(Out)
      <4>1. Done \in Out
        OBVIOUS
      <4> HIDE DEF Out
      <4> QED
        BY <2>0, <2>7, <4>1, AppendProperties DEF Finish
    <3> QED
      BY <2>7, <3>1 DEF TypeOK, PC, Finish
  <2>8. CASE UNCHANGED vars
    BY <2>8 DEF TypeOK, vars
  <2> QED
    BY <2>1, <2>2, <2>3, <2>4, <2>5, <2>6, <2>7, <2>8 DEF Next, Work
<1> QED
  BY <1>1, <1>2, PTL DEF Spec

(* The first d cells of the body are drained: they end with a blank line, if *)
(* there are any, their deltas are with the client, and the buffer has the   *)
(* rest of what was read.                                                    *)
DrainedTo(d) ==
  /\ d \in 0..pos
  /\ d > 0 => d > 1 /\ body[d] = NL /\ body[d - 1] = NL
  /\ buf = SubSeq(body, d + 1, pos)
  /\ out = Deltas(SubSeq(body, 1, d))
  /\ done <=> HasDone(SubSeq(body, 1, d))

(* A read begins with no blank line in the buffer and no [DONE] behind it;   *)
(* at the end the client has what was read.                                  *)
StreamInv ==
  /\ pc = "connect" => pos = 0
  /\ pc \in {"connect", "read", "drain", "flush"} => \E d \in 0..pos : DrainedTo(d)
  /\ pc = "read" => Blanks(buf) = {} /\ ~done
  /\ pc = "finish" /\ pos > 0 => out = Deltas(Received)
  /\ pc = "returned" /\ pos > 0 => out = Deltas(Received) \o <<Done>>

(* Nothing is in an empty text.                                              *)
LEMMA EmptyText == /\ <<>> \in Seq(Cell) /\ Deltas(<<>>) = <<>> /\ ~HasDone(<<>>) /\ Blanks(<<>>) = {}
<1>1. <<>> \in Seq(Cell) /\ Len(<<>>) = 0
  BY EmptySeq
<1>2. Deltas(<<>>) = <<>>
  BY <1>1, WalkUnfolds
<1>3. ~HasDone(<<>>) /\ Blanks(<<>>) = {}
  BY <1>1 DEF HasDone, Blanks
<1> QED
  BY <1>1, <1>2, <1>3

(* As StreamInv is found at the start ...                                    *)
LEMMA StreamInit == TypeOK /\ Init => StreamInv
<1> SUFFICES ASSUME TypeOK, Init PROVE StreamInv
  OBVIOUS
<1>1. body \in Seq(Cell) /\ SubSeq(body, 1, 0) = <<>> /\ SubSeq(body, 0 + 1, 0) = <<>>
  BY BodiesAssumption, SubSeqEmpty DEF TypeOK
<1>2. /\ pos = 0 /\ buf = <<>> /\ out = <<>> /\ done = FALSE /\ pc = "connect"
  BY DEF Init
<1>3. DrainedTo(0)
  <2>1. out = Deltas(SubSeq(body, 1, 0)) /\ ~HasDone(SubSeq(body, 1, 0)) /\ ~done
    BY <1>1, <1>2, EmptyText
  <2>2. 0 \in 0..pos /\ ~(0 > 0) /\ buf = SubSeq(body, 0 + 1, pos)
    BY <1>1, <1>2
  <2> QED
    BY <2>1, <2>2 DEF DrainedTo
<1>4. 0 \in 0..pos
  BY <1>2
<1> QED
  BY <1>2, <1>3, <1>4 DEF StreamInv

(* ... every step keeps it.                                                  *)
LEMMA StreamStep == TypeOK /\ TypeOK' /\ StreamInv /\ [Next]_vars => StreamInv'
<1> SUFFICES ASSUME TypeOK, TypeOK', StreamInv, [Next]_vars PROVE StreamInv'
  OBVIOUS
<1>0. body \in Seq(Cell) /\ Len(body) \in Nat /\ pos \in Nat /\ pos <= Len(body) /\ body' = body
  BY BodiesAssumption, LenProperties DEF TypeOK, Next, Work, vars, Disconnect, WatcherCancels,
     WatcherEnds, Connect, ConnectFails, Read, ReadEOF, ReadBreaks, DrainFrame, Drained, Flush, Finish
<1>1. ASSUME UNCHANGED <<body, pos, pc, buf, done, out>> PROVE StreamInv'
  BY <1>1 DEF StreamInv, DrainedTo, Received
<1>2. CASE Disconnect \/ WatcherCancels \/ WatcherEnds \/ UNCHANGED vars
  BY <1>1, <1>2 DEF Disconnect, WatcherCancels, WatcherEnds, vars
<1>3. CASE Connect
  <2>1. pos = 0 /\ UNCHANGED <<body, pos, buf, done, out>> /\ pc = "connect" /\ pc' = "read"
    BY <1>3 DEF Connect, StreamInv
  <2>2. PICK d \in 0..pos : DrainedTo(d)
    BY <2>1 DEF StreamInv
  <2>3. d = 0 /\ SubSeq(body, 1, 0) = <<>> /\ SubSeq(body, 0 + 1, 0) = <<>>
    BY <2>1, SubSeqEmpty
  <2>4. buf = <<>> /\ ~done
    BY <2>1, <2>2, <2>3, EmptyText DEF DrainedTo
  <2>5. Blanks(buf) = {}
    BY <2>4, EmptyText
  <2>6. DrainedTo(d)'
    BY <2>1, <2>2 DEF DrainedTo
  <2>7. Blanks(buf)' = {} /\ ~done'
    BY <2>1, <2>4, <2>5
  <2> QED
    BY <2>1, <2>6, <2>7 DEF StreamInv
<1>4. CASE ConnectFails
  <2>1. pos = 0 /\ pos' = 0 /\ pc' = "finish"
    BY <1>4 DEF ConnectFails, StreamInv
  <2> QED
    BY <2>1 DEF StreamInv
<1>5. CASE ReadEOF \/ ReadBreaks
  <2>1. UNCHANGED <<body, pos, buf, done, out>> /\ pc = "read" /\ pc' = "flush"
    BY <1>5 DEF ReadEOF, ReadBreaks
  <2>2. PICK d \in 0..pos : DrainedTo(d)
    BY <2>1 DEF StreamInv
  <2>3. DrainedTo(d)'
    BY <2>1, <2>2 DEF DrainedTo
  <2> QED
    BY <2>1, <2>3 DEF StreamInv
<1>6. CASE Drained
  <2>1. /\ UNCHANGED <<body, pos, buf, done, out>> /\ pc = "drain" /\ Blanks(buf) = {}
        /\ pc' = "flush" \/ (pc' = "read" /\ ~done)
    BY <1>6 DEF Drained
  <2>2. PICK d \in 0..pos : DrainedTo(d)
    BY <2>1 DEF StreamInv
  <2>3. DrainedTo(d)'
    BY <2>1, <2>2 DEF DrainedTo
  <2>4. Blanks(buf)' = {} /\ done' = done
    BY <2>1
  <2> QED
    BY <2>1, <2>3, <2>4 DEF StreamInv
<1>7. CASE Read
  <2>1. PICK n \in (pos + 1)..Len(body) : buf' = buf \o SubSeq(body, pos + 1, n) /\ pos' = n
    BY <1>7 DEF Read
  <2>2. UNCHANGED <<body, done, out>> /\ pc = "read" /\ pc' = "drain"
    BY <1>7 DEF Read
  <2>3. PICK d \in 0..pos : DrainedTo(d)
    BY <2>2 DEF StreamInv
  <2>4. buf' = SubSeq(body, d + 1, n)
    <3>1. /\ d + 1 \in 1..Len(body) + 1 /\ pos \in (d + 1) - 1..Len(body) /\ n \in pos..Len(body)
          /\ buf = SubSeq(body, d + 1, pos)
      BY <1>0, <2>1, <2>3 DEF DrainedTo
    <3>2. SubSeq(body, d + 1, pos) \o SubSeq(body, pos + 1, n) = SubSeq(body, d + 1, n)
      BY <1>0, <3>1, ConcatAdjacentSubSeq
    <3> QED
      BY <2>1, <3>1, <3>2
  <2>5. d \in 0..n
    BY <1>0, <2>1
  <2>6. DrainedTo(d)'
    BY <2>1, <2>2, <2>3, <2>4, <2>5 DEF DrainedTo
  <2> QED
    BY <2>1, <2>2, <2>5, <2>6 DEF StreamInv
<1>8. CASE DrainFrame
  <2> DEFINE b == FirstBlank(buf)
             frame == SubSeq(buf, 1, b - 2)
  <2>1. /\ UNCHANGED <<body, pos, pc>> /\ pc = "drain" /\ Blanks(buf) # {}
        /\ out' = out \o Deltas(frame) /\ done' = (done \/ HasDone(frame))
        /\ buf' = SubSeq(buf, b + 1, Len(buf))
    BY <1>8 DEF DrainFrame
  <2>2. PICK d \in 0..pos : DrainedTo(d)
    BY <2>1 DEF StreamInv
  <2>3. buf \in Seq(Cell) /\ b \in 2..Len(buf) /\ buf[b] = NL /\ buf[b - 1] = NL
    BY <2>1, FirstBlankIn DEF TypeOK
  <2>4. /\ Deltas(frame) = Deltas(SubSeq(buf, 1, b))
        /\ HasDone(frame) <=> HasDone(SubSeq(buf, 1, b))
    BY <2>1, <2>3, FrameTaken
  <2> HIDE DEF frame, b
  <2>5. d \in Nat /\ d <= pos /\ buf = SubSeq(body, d + 1, pos)
    BY <1>0, <2>2 DEF DrainedTo
  <2>6. Len(buf) = pos - d /\ \A k \in 1..(pos - d) : buf[k] = body[d + k]
    <3>1. /\ Len(buf) = (pos + 1) - (d + 1)
          /\ \A k \in 1..((pos + 1) - (d + 1)) : buf[k] = body[((d + 1) + k) - 1]
      BY <1>0, <2>5, PartOf
    <3>2. (pos + 1) - (d + 1) = pos - d /\ \A k \in 1..(pos - d) : ((d + 1) + k) - 1 = d + k
      BY <1>0, <2>5
    <3> QED
      BY <3>1, <3>2
  <2>7. b \in Nat /\ b > 1 /\ d + b <= pos /\ d + b \in Nat /\ b \in 1..(pos - d) /\ b - 1 \in 1..(pos - d)
    BY <1>0, <2>3, <2>5, <2>6
  <2>8. body[d + b] = NL /\ body[(d + b) - 1] = NL
    <3>1. d + (b - 1) = (d + b) - 1
      BY <2>5, <2>7
    <3> QED
      BY <2>3, <2>6, <2>7, <3>1
  <2>9. SubSeq(buf, 1, b) = SubSeq(body, d + 1, d + b)
    <3>1. SubSeq(SubSeq(body, d + 1, pos), 1, b) = SubSeq(body, ((d + 1) + 1) - 1, ((d + 1) + b) - 1)
      BY <1>0, <2>5, <2>7, PartOfPart
    <3>2. ((d + 1) + 1) - 1 = d + 1 /\ ((d + 1) + b) - 1 = d + b
      BY <2>5, <2>7
    <3> QED
      BY <2>5, <3>1, <3>2
  <2>10. buf' = SubSeq(body, (d + b) + 1, pos)
    <3>1. SubSeq(SubSeq(body, d + 1, pos), b + 1, pos - d)
            = SubSeq(body, ((d + 1) + (b + 1)) - 1, ((d + 1) + (pos - d)) - 1)
      BY <1>0, <2>5, <2>7, PartOfPart
    <3>2. ((d + 1) + (b + 1)) - 1 = (d + b) + 1 /\ ((d + 1) + (pos - d)) - 1 = pos
      BY <1>0, <2>5, <2>7
    <3> QED
      BY <2>1, <2>5, <2>6, <3>1, <3>2
  <2>11. /\ Deltas(SubSeq(body, 1, d + b)) = Deltas(SubSeq(body, 1, d)) \o Deltas(SubSeq(body, d + 1, d + b))
         /\ HasDone(SubSeq(body, 1, d + b)) <=>
              HasDone(SubSeq(body, 1, d)) \/ HasDone(SubSeq(body, d + 1, d + b))
    <3>1. d = 0 \/ body[d] = NL
      BY <2>2, <2>5 DEF DrainedTo
    <3>2. d <= d + b /\ d + b <= Len(body)
      BY <1>0, <2>5, <2>7
    <3> QED
      BY <1>0, <2>5, <2>7, <3>1, <3>2, Continued
  <2>12. out' = Deltas(SubSeq(body, 1, d + b)) /\ (done' <=> HasDone(SubSeq(body, 1, d + b)))
    BY <2>1, <2>2, <2>4, <2>9, <2>11 DEF DrainedTo
  <2>13. d + b \in 0..pos /\ d + b > 1
    BY <1>0, <2>5, <2>7
  <2>14. PICK e \in 0..pos : /\ e > 1 /\ body[e] = NL /\ body[e - 1] = NL
                             /\ buf' = SubSeq(body, e + 1, pos)
                             /\ out' = Deltas(SubSeq(body, 1, e))
                             /\ done' <=> HasDone(SubSeq(body, 1, e))
    BY <2>8, <2>10, <2>12, <2>13
  <2>15. DrainedTo(e)'
    BY <2>1, <2>14 DEF DrainedTo
  <2> QED
    BY <2>1, <2>14, <2>15 DEF StreamInv
<1>9. CASE Flush
  <2>1. UNCHANGED <<body, pos>> /\ pc = "flush" /\ pc' = "finish" /\ out' = out \o Deltas(buf)
    BY <1>9 DEF Flush
  <2>2. PICK d \in 0..pos : DrainedTo(d)
    BY <2>1 DEF StreamInv
  <2>3. d \in Nat /\ d <= pos /\ (d = 0 \/ body[d] = NL)
    BY <1>0, <2>2 DEF DrainedTo
  <2>4. Deltas(SubSeq(body, 1, pos)) = Deltas(SubSeq(body, 1, d)) \o Deltas(SubSeq(body, d + 1, pos))
    BY <1>0, <2>3, Continued
  <2>5. out' = Deltas(Received)'
    BY <2>1, <2>2, <2>4 DEF DrainedTo, Received
  <2> QED
    BY <2>1, <2>5 DEF StreamInv
<1>10. CASE Finish
  <2>1. UNCHANGED <<body, pos>> /\ pc = "finish" /\ pc' = "returned" /\ out' = Append(out, Done)
    BY <1>10 DEF Finish
  <2>2. ASSUME pos > 0 PROVE out' = (Deltas(Received) \o <<Done>>)'
    <3>1. out = Deltas(Received)
      BY <2>1, <2>2 DEF StreamInv
    <3>2. out' = out \o <<Done>>
      BY <2>1, AppendIsConcat DEF TypeOK
    <3> QED
      BY <2>1, <3>1, <3>2 DEF Received
  <2> QED
    BY <2>1, <2>2 DEF StreamInv
<1> QED
  BY <1>2, <1>3, <1>4, <1>5, <1>6, <1>7, <1>8, <1>9, <1>10 DEF Next, Work

(* What every state of a stream satisfies.                                   *)
LEMMA StreamInvHolds == Spec => []StreamInv
<1> QED
  BY StreamTypes, StreamInit, StreamStep, PTL DEF Spec

(* However the body is cut into chunks and wherever it breaks off, the client *)
(* has exactly the deltas of what was read when the handler returns: feed and *)
(* flush split the text only behind a newline, where Deltas splits as well.   *)
THEOREM ChunksDoNotShow == Spec => []ChunkingIsInvisible
<1>1. StreamInv => ChunkingIsInvisible
  BY DEF StreamInv, ChunkingIsInvisible
<1> QED
  BY <1>1, StreamInvHolds, PTL

(* Whenever the goroutine goes back to the connection the client has every   *)
(* frame that is complete: the loop of feed has left no blank line behind.   *)
THEOREM NothingWaits == Spec => []DeliveredAtOnce
<1>1. TypeOK /\ StreamInv => DeliveredAtOnce
  <2> SUFFICES ASSUME TypeOK, StreamInv, pc = "read"
               PROVE  out = Deltas(Complete(Received)) /\ ~HasDone(Complete(Received))
    BY DEF DeliveredAtOnce
  <2>0. body \in Seq(Cell) /\ pos \in Nat /\ pos <= Len(body) /\ Len(body) \in Nat
    BY BodiesAssumption, LenProperties DEF TypeOK
  <2>1. PICK d \in 0..pos : DrainedTo(d)
    BY DEF StreamInv
  <2>2. Blanks(buf) = {} /\ ~done
    BY DEF StreamInv
  <2>3. /\ d \in Nat /\ d <= pos /\ (d > 0 => d > 1 /\ body[d] = NL /\ body[d - 1] = NL)
        /\ buf = SubSeq(body, d + 1, pos)
        /\ out = Deltas(SubSeq(body, 1, d)) /\ ~HasDone(SubSeq(body, 1, d))
    BY <2>0, <2>1, <2>2 DEF DrainedTo
  <2>4. /\ Received \in Seq(Cell) /\ Len(Received) = pos
        /\ \A k \in 1..pos : Received[k] = body[k]
    BY <2>0, PartOf DEF Received
  <2>5. Len(buf) = pos - d /\ \A k \in 1..(pos - d) : buf[k] = body[d + k]
    <3>1. /\ Len(buf) = (pos + 1) - (d + 1)
          /\ \A k \in 1..((pos + 1) - (d + 1)) : buf[k] = body[((d + 1) + k) - 1]
      BY <2>0, <2>3, PartOf
    <3>2. (pos + 1) - (d + 1) = pos - d /\ \A k \in 1..(pos - d) : ((d + 1) + k) - 1 = d + k
      BY <2>0, <2>3
    <3> QED
      BY <3>1, <3>2
  <2>6. ASSUME NEW i \in Blanks(Received) PROVE i \in Nat /\ i > 1 /\ i <= d + 1
    <3>1. i \in 2..pos /\ body[i] = NL /\ body[i - 1] = NL
      BY <2>0, <2>4 DEF Blanks
    <3>2. CASE i > d + 1
      <4>1. /\ i - d \in 2..(pos - d) /\ i - d \in 1..(pos - d) /\ (i - d) - 1 \in 1..(pos - d)
            /\ d + (i - d) = i /\ d + ((i - d) - 1) = i - 1
        BY <2>0, <2>3, <3>1, <3>2
      <4>2. i - d \in Blanks(buf)
        BY <2>5, <3>1, <4>1 DEF Blanks
      <4> QED
        BY <2>2, <4>2
    <3> QED
      BY <2>3, <3>1, <3>2
  <2>7. d > 0 => d \in Blanks(Received)
    BY <2>0, <2>3, <2>4 DEF Blanks
  <2>8. CASE Blanks(Received) = {}
    <3>1. d = 0 /\ Complete(Received) = <<>> /\ SubSeq(body, 1, 0) = <<>>
      BY <2>3, <2>7, <2>8, SubSeqEmpty DEF Complete
    <3> QED
      BY <2>3, <3>1
  <2>9. CASE Blanks(Received) # {}
    <3> DEFINE Last(i) == i \in Blanks(Received) /\ \A j \in Blanks(Received) : j <= i
    <3>1. d > 0
      BY <2>3, <2>6, <2>9
    <3>2. PICK m \in {d, d + 1} : Last(m)
      <4>1. CASE d + 1 \in Blanks(Received)
        BY <2>6, <4>1
      <4>2. CASE d + 1 \notin Blanks(Received)
        <5>1. \A j \in Blanks(Received) : j <= d
          BY <2>3, <2>6, <4>2
        <5> QED
          BY <2>7, <3>1, <5>1
      <4> QED
        BY <4>1, <4>2
    <3>3. ASSUME NEW i, Last(i) PROVE i = m
      BY <2>6, <3>2, <3>3
    <3>4. Complete(Received) = SubSeq(Received, 1, m)
      <4>1. (CHOOSE i \in Blanks(Received) : \A j \in Blanks(Received) : j <= i) = m
        BY <3>2, <3>3
      <4> QED
        BY <2>9, <4>1 DEF Complete
    <3>5. m \in Nat /\ m <= pos
      BY <2>0, <2>3, <2>4, <3>2 DEF Blanks
    <3>6. SubSeq(Received, 1, m) = SubSeq(body, 1, m)
      <4>1. SubSeq(SubSeq(body, 1, pos), 1, m) = SubSeq(body, (1 + 1) - 1, (1 + m) - 1)
        BY <2>0, <3>5, PartOfPart
      <4>2. (1 + 1) - 1 = 1 /\ (1 + m) - 1 = m
        BY <3>5
      <4> QED
        BY <4>1, <4>2 DEF Received
    <3>7. CASE m = d
      BY <2>3, <3>4, <3>6, <3>7
    <3>8. CASE m = d + 1
      <4> DEFINE w == SubSeq(body, 1, m)
      <4>1. /\ w \in Seq(Cell) /\ Len(w) = m /\ \A k \in 1..m : w[k] = body[k]
        BY <2>0, <3>5, PartOf
      <4>2. body[m] = NL
        BY <2>0, <2>4, <3>2 DEF Blanks
      <4>3. SubSeq(w, 1, d) = SubSeq(body, 1, d)
        <5>1. SubSeq(SubSeq(body, 1, m), 1, d) = SubSeq(body, (1 + 1) - 1, (1 + d) - 1)
          BY <2>0, <2>3, <3>5, <3>8, PartOfPart
        <5>2. (1 + 1) - 1 = 1 /\ (1 + d) - 1 = d
          BY <2>3
        <5> QED
          BY <5>1, <5>2
      <4> HIDE DEF w
      <4>4. w[d + 1] = NL /\ Len(w) = d + 1
        BY <2>3, <3>8, <4>1, <4>2
      <4>5. Deltas(w) = Deltas(SubSeq(w, 1, d)) /\ (HasDone(w) <=> HasDone(SubSeq(w, 1, d)))
        BY <2>3, <4>1, <4>4, NewlineAtEnd
      <4> QED
        BY <2>3, <3>4, <3>6, <4>3, <4>5 DEF w
    <3> QED
      BY <3>2, <3>7, <3>8
  <2> QED
    BY <2>8, <2>9
<1> QED
  BY <1>1, StreamTypes, StreamInvHolds, PTL
==============================================================================
