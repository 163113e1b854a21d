----------------------------- MODULE Correction -----------------------------
(***************************************************************************)
(* One choice question of a run, or one row of a matrix: the weights its   *)
(* next answer is drawn from follow from the answers counted so far        *)
(* (run_answer_runtime.go), which follow from the weights.  This checks    *)
(* the correction of Distribution over every history of draws, whether or  *)
(* not the strategy has counters of its own.                               *)
(***************************************************************************)
EXTENDS Distribution

CONSTANTS
  Options,    \* how many options the question has
  Cases,      \* [e, row, named, base]: a strategy and what a job adds to it
  MaxDraws    \* bound: answers counted

\* A weight may be negative: nothing checks the weights of a request for that.
SoundTables(e) ==
  /\ e.options \in Seq(Int) /\ e.custom \in Seq(Int)
  /\ \A table \in {e.rows, e.customRows} : \A row \in DOMAIN table : table[row] \in Seq(Int)

ASSUME CorrectionAssumption ==
  /\ Options \in Nat \ {0}
  /\ \A c \in Cases : SoundTables(c.e) /\ c.base \in Nat

VARIABLES
  entry,      \* one of Cases
  counts      \* answers submitted so far, by option

question == <<entry, counts>>

WeightsAfter(c) ==
  selectionEntry(entry.e, entry.row, Options, entry.named, entry.base, c, positiveTotal(c))

NoCounts == [i \in 1..Options |-> 0]

Weights == WeightsAfter(counts)

\* What the correction aims at: the weights before any answer was counted.
Wanted == WeightsAfter(NoCounts)

CorrectionInit == entry \in Cases /\ counts = NoCounts

Draw ==
  /\ positiveTotal(counts) < MaxDraws
  /\ \E i \in SelectedIndex(effectiveSelectionValues(entry.e, Weights), Options) :
       counts' = [counts EXCEPT ![i] = @ + 1]
  /\ UNCHANGED entry

CorrectionSpec == CorrectionInit /\ [][Draw]_question

\* distribution_runtime.go:27: the correction leans towards the target and
\* never overrules it: an option the target excludes stays excluded and every
\* other one stays possible; of two equally wanted options the one submitted
\* less often weighs no less; and where the caller's ratios are to be kept, a
\* less wanted option never overtakes.
CorrectionSound ==
  /\ Positive(Weights) = Positive(Wanted)
  /\ \A i, j \in 1..Options :
       /\ Wanted[i] = Wanted[j] /\ counts[i] < counts[j] => Weights[i] >= Weights[j]
       /\ isStrictRatioEntry(entry.e) /\ Wanted[i] < Wanted[j] => Weights[i] <= Weights[j]

=============================================================================
