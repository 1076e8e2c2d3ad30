----------------------------- MODULE TextLengths -----------------------------
(***************************************************************************)
(* The helpers that cut texts to a budget, of internal/session/text.go and *)
(* tokens.go and of internal/synthesis/budget.go.                          *)
(*                                                                         *)
(* A text is its length in bytes; texts are ASCII, so ToValidUTF8 drops    *)
(* nothing.  What is counted is exact: markers have the lengths they have  *)
(* in the code.                                                            *)
(***************************************************************************)
EXTENDS Naturals, Sequences, FiniteSets

Least(m, n) == IF m <= n THEN m ELSE n

\* Decimal digits of a count below 10^10; the integers of TLC end at 2^31.
Power     == <<10, 100, 1000, 10000, 100000, 1000000, 10000000, 100000000, 1000000000>>
Digits(n) == 1 + Cardinality({k \in 1..9 : Power[k] <= n})

\* "\n\n[...compacted: omitted %d chars...]\n\n"
TrimMark(omitted) == 37 + Digits(omitted)

\* Mutant: the first third and the last two thirds are kept.
HeadOfThird(max) == IF max < 256 THEN max ELSE max \div 3

\* trimBlock: how much of the beginning a cut keeps, and the length of the result.
HeadOf(max) == IF max < 256 THEN max ELSE (max * 2) \div 3

TrimBlock(n, max) == IF n <= max THEN n
                     ELSE IF max < 256 THEN max
                     ELSE max + TrimMark(n - max)

\* firstLines(s, 3, 900), where the third line of s ends at brk: what is kept, and the result.
LinesKept(n, brk)  == Least(n, Least(brk, 900))
FirstLines(n, brk) == IF LinesKept(n, brk) < n THEN LinesKept(n, brk) + 18 ELSE n

EstimateTokens(n) == (n + 3) \div 4

\* truncateNote: a cut below the cap, and its marker behind it.
TruncateNote(n, max) == IF n <= max THEN n
                        ELSE IF max <= 80 THEN max
                        ELSE max - 1 + 47
=============================================================================
