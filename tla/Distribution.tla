---------------------------- MODULE Distribution ----------------------------
(***************************************************************************)
(* The weights of one choice question before an option is drawn            *)
(* (internal/answerplan/distribution.go, distribution_runtime.go): which   *)
(* table of the strategy is read, the boost of the persona, the tendency   *)
(* of a dimension, and the correction towards the wanted distribution from *)
(* the counts of the answers submitted so far.                             *)
(*                                                                         *)
(* The code divides every vector by its total at every stage; only ratios  *)
(* matter, so a vector is a sequence of integers here and keeps the factor *)
(* of its stage; no one refuses a negative weight.  Factors are in thousandths.  exp is replaced by the      *)
(* rational function (2 + x) / (2 - x), which agrees with it in what the   *)
(* properties use: 1 at 0, positive and growing over the clamped arguments.*)
(***************************************************************************)
EXTENDS Integers, Sequences, FiniteSets, FiniteSetsExt, SequencesExt

NoWeights == <<>>

Positive(w) == {i \in DOMAIN w : w[i] > 0}

positiveTotal(w) ==
  LET upTo[k \in 0..Len(w)] == IF k = 0 THEN 0 ELSE upTo[k - 1] + (IF w[k] > 0 THEN w[k] ELSE 0)
  IN  upTo[Len(w)]

\* Cut or padded to n options; evenly weighted when nothing is positive.
fitProbabilityCount(w, n) ==
  LET cut == [i \in 1..n |-> IF i \in DOMAIN w THEN w[i] ELSE 0]
  IN  IF Positive(cut) = {} THEN [i \in 1..n |-> 1] ELSE cut

\* The target the correction starts from: what is not positive counts as zero.
normalizeDistributionTarget(w, n) ==
  LET fitted == fitProbabilityCount(w, n)
  IN  [i \in 1..n |-> IF fitted[i] > 0 THEN fitted[i] ELSE 0]

FirstWeighted(tables) ==
  LET usable == {k \in DOMAIN tables : Positive(tables[k]) # {}}
  IN  IF usable = {} THEN NoWeights ELSE tables[Min(usable)]

Preferred(e, custom, probabilities) ==
  IF e.mode = "custom" THEN <<custom, probabilities>> ELSE <<probabilities, custom>>

\* A matrix row (row > 0) has its own weights, else those of the question.
effectiveProbabilityValues(e, row, n) ==
  LET Row(table) == IF row \in DOMAIN table THEN table[row] ELSE NoWeights
      rows    == Preferred(e, Row(e.customRows), Row(e.rows))
      options == Preferred(e, e.custom, e.options)
  IN  fitProbabilityCount(FirstWeighted(rows \o options), n)

isStrictRatioEntry(e) ==
  /\ e.mode = "custom"
  /\ \E w \in {e.custom, e.options} \cup Range(e.customRows) \cup Range(e.rows) :
       Positive(w) # {}

personaBoostFactor == 3

\* named: the options whose text holds a keyword of the persona.
applyPersonaBoost(w, named) ==
  [i \in DOMAIN w |-> IF i \in named THEN personaBoostFactor * w[i] ELSE w[i]]

tendencyWindow(n) == IF n <= 3 THEN 0 ELSE IF n <= 5 THEN 1 ELSE 2

tendencyDecay(distance, window) ==
  CASE distance = 0                   -> 1000
    [] distance > window              -> 250
    [] distance = 1 /\ window = 2     -> 775
    [] OTHER                          -> 550

\* Around the base option of the dimension; up to three options leave no room
\* for a window and only the base keeps a weight.
applyDimensionTendency(w, n, base) ==
  IF tendencyWindow(n) = 0 THEN [i \in 1..n |-> IF i = base THEN 1000 ELSE 0]
  ELSE LET fitted == fitProbabilityCount(w, n)
           Distance(i) == IF i > base THEN i - base ELSE base - i
       IN  [i \in 1..n |-> fitted[i] * tendencyDecay(Distance(i), tendencyWindow(n))]

-----------------------------------------------------------------------------
(* The correction.                                                         *)

Standard == [warmup |-> 12, gain |-> 4200, least |-> 450, most |-> 2200, limit |-> 420]
Priority == [warmup |-> 14, gain |-> 1750, least |-> 800, most |-> 1280, limit |-> 280]

Clamp(x, low, high) == IF x < low THEN low ELSE IF x > high THEN high ELSE x

Exp(x) == (1000 * (2000 + x)) \div (2000 - x)

\* gap: wanted share minus submitted share, in thousandths.
Exponent(gap, total, p) ==
  LET samples == IF total < p.warmup THEN total ELSE p.warmup
      limited == Clamp(gap, 0 - p.limit, p.limit)
  IN  (p.gain * samples * limited) \div (1000 * p.warmup)

\* A plausible slip: the submitted share minus the wanted one.
FactorInverted(gap, total, p) == Clamp(Exp(Exponent(0 - gap, total, p)), p.least, p.most)

Factor(gap, total, p) == Clamp(Exp(Exponent(gap, total, p)), p.least, p.most)

Share(n, total) == (1000 * n) \div total

\* target is normalised and counts are cut or padded to its length.
resolveDistributionProbabilitiesWithPriority(target, counts, total, p) ==
  IF total <= 0 THEN target
  ELSE [i \in DOMAIN target |->
          IF target[i] <= 0 THEN 0
          ELSE target[i] * Factor(Share(target[i], positiveTotal(target)) - Share(counts[i], total),
                                  total, p)]

\* No option gets more than one whose reference weight is larger.
enforceReferenceRankOrder(w, reference) ==
  [i \in DOMAIN w |->
     IF i \notin Positive(reference) THEN w[i]
     ELSE Min({w[i]} \cup {w[j] : j \in {k \in DOMAIN w : reference[k] > reference[i]}})]

\* base = 0: the strategy has no active dimension.
selectionEntry(e, row, n, named, base, counts, total) ==
  LET values   == effectiveProbabilityValues(e, row, n)
      strict   == isStrictRatioEntry(e)
      boosted  == IF strict THEN values ELSE applyPersonaBoost(values, named)
      tended   == IF base = 0 THEN boosted ELSE applyDimensionTendency(boosted, n, base)
      target   == normalizeDistributionTarget(tended, n)
      resolved == resolveDistributionProbabilitiesWithPriority(
                    target, counts, total, IF base = 0 THEN Standard ELSE Priority)
  IN  IF ~(strict \/ base # 0) THEN tended
      ELSE IF strict THEN enforceReferenceRankOrder(resolved, tended)
      ELSE resolved

\* What an answer is drawn from: custom weights come before those computed.
effectiveSelectionValues(e, computed) ==
  IF e.mode = "custom" /\ Positive(e.custom) # {} THEN e.custom ELSE computed

\* SelectedIndex: any option with a weight may be drawn, the first without one.
SelectedIndex(w, n) ==
  LET drawn == {i \in Positive(w) : i <= n}
  IN  IF drawn = {} THEN {1} ELSE drawn

=============================================================================
