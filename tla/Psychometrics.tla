---------------------------- MODULE Psychometrics ---------------------------
(***************************************************************************)
(* The joint plan of the scale questions of a run                          *)
(* (internal/psychometrics): for every item, which option each sample      *)
(* chooses, so that over all samples the options are taken as often as     *)
(* their weights ask.                                                      *)
(*                                                                         *)
(* Which sample gets which option follows from random scores tuned towards *)
(* a reliability coefficient; any arrangement with the right counts may    *)
(* come out, and the model takes them all.  Options count from 0, vectors  *)
(* of weights are sequences.  A question is [num, kind, options, rows,     *)
(* scores]: scores is <<>> for options without an order, else the score of *)
(* each option (ascending or descending).  A strategy entry is described   *)
(* in Distribution.                                                        *)
(***************************************************************************)
EXTENDS Distribution

NoRow == 0

AtLeast(low, n) == IF n < low THEN low ELSE n

\* Two options at least, counted from whatever knows of them.
optionCount(q, e) ==
  AtLeast(2, IF q.options > 0 THEN q.options
             ELSE IF e.custom # <<>> THEN Len(e.custom)
             ELSE IF e.options # <<>> THEN Len(e.options) ELSE 5)

Abs(n) == IF n < 0 THEN 0 - n ELSE n

Cubed(x) == x * x * x

Eighth(x) == Cubed(x) * Cubed(x) * x * x

buildBiasTargetProbabilities(n, bias) ==
  CASE n = 2 /\ bias = "left"  -> <<3, 1>>
    [] n = 2 /\ bias = "right" -> <<1, 3>>
    [] n = 2 /\ bias = "center" -> <<1, 1>>
    [] n > 2 /\ bias = "left"  -> [i \in 1..n |-> Eighth(n - i)]
    [] n > 2 /\ bias = "right" -> [i \in 1..n |-> Eighth(i - 1)]
    [] OTHER                   -> [i \in 1..n |-> Cubed(n - 1 - Abs(2 * i - n - 1))]

\* Whoever uses a vector takes what is negative in it for zero first.
normalizeProbabilityList(w) == [i \in DOMAIN w |-> IF w[i] < 0 THEN 0 ELSE w[i]]

\* The tables of the strategy in the order they are asked for.
probabilitiesForEntry(e, row, n) ==
  LET Row(table) == IF row \in DOMAIN table THEN table[row] ELSE NoWeights
      customFirst == IF e.mode = "custom" THEN <<Row(e.customRows)>> ELSE <<>>
      tables == customFirst \o <<Row(e.rows)>>
                \o (IF e.mode = "custom" THEN <<e.custom>> ELSE <<>>)
                \o <<e.options, e.custom>>
      found  == FirstWeighted(tables)
      cut    == [i \in 1..n |-> IF i \in DOMAIN found THEN found[i] ELSE 0]
  IN  IF Positive(cut) = {} THEN NoWeights ELSE normalizeProbabilityList(cut)

Moment(w) == FoldFunctionOnSet(+, 0, [i \in DOMAIN w |-> (i - 1) * w[i]], DOMAIN w)

resolveBias(e, w, n) ==
  LET whole == positiveTotal(w) * AtLeast(1, n - 1)
  IN  CASE e.bias \in {"left", "center", "right"} -> e.bias
        [] w = NoWeights                          -> "center"
        [] 10 * Moment(w) <= 4 * whole            -> "left"
        [] 10 * Moment(w) >= 6 * whole            -> "right"
        [] OTHER                                  -> "center"

newItem(q, e, row) ==
  LET n     == optionCount(q, e)
      given == probabilitiesForEntry(e, row, n)
      w     == IF given = NoWeights
               THEN buildBiasTargetProbabilities(n, resolveBias(e, given, n)) ELSE given
  IN  [num |-> q.num, row |-> row, count |-> n, weights |-> w,
       scores |-> IF q.kind = "single" THEN q.scores ELSE <<>>]

blueprintItems(q, e) ==
  CASE q.kind \in {"scale", "score", "dropdown"} -> {newItem(q, e, NoRow)}
    [] q.kind = "single" /\ q.scores # <<>>      -> {newItem(q, e, NoRow)}
    [] q.kind = "matrix"                         -> {newItem(q, e, r) : r \in 1..AtLeast(1, q.rows)}
    [] OTHER                                     -> {}

Ungrouped == {"", "ungrouped"}

\* Without any dimension all items make one group; with one, the items
\* outside the dimensions are left out.
buildBlueprint(questions, entries) ==
  LET planned == {q \in questions : q.num \in DOMAIN entries
                                    /\ blueprintItems(q, entries[q.num]) # {}}
      Of(d)   == UNION {blueprintItems(q, entries[q.num]) :
                          q \in {p \in planned : entries[p.num].dimension = d}}
      named   == {entries[q.num].dimension : q \in planned} \ Ungrouped
  IN  IF named = {} THEN {UNION {blueprintItems(q, entries[q.num]) : q \in planned}} \ {{}}
      ELSE {Of(d) : d \in named}

-----------------------------------------------------------------------------
(* Quotas and the plan.                                                    *)

\* A plausible slip: every share rounded down, the rest to the last option.
QuotasFloored(w, n) ==
  LET whole == positiveTotal(w)
      Floor(i) == (w[i] * n) \div whole
      used == positiveTotal([i \in DOMAIN w |-> Floor(i)])
  IN  [i \in DOMAIN w |-> IF i = Len(w) THEN Floor(i) + n - used ELSE Floor(i)]

\* Largest remainders; the larger weight, then the earlier option breaks ties.
integerQuotas(w, n) ==
  LET whole        == positiveTotal(w)
      Floor(i)     == (w[i] * n) \div whole
      Remainder(i) == (w[i] * n) % whole
      Ahead(i, j)  == \/ Remainder(i) > Remainder(j)
                      \/ Remainder(i) = Remainder(j) /\ w[i] > w[j]
                      \/ Remainder(i) = Remainder(j) /\ w[i] = w[j] /\ i < j
      left == n - positiveTotal([i \in DOMAIN w |-> Floor(i)])
      Raised(i) == Cardinality({j \in DOMAIN w : Ahead(j, i)}) < left
  IN  [i \in DOMAIN w |-> Floor(i) + (IF Raised(i) THEN 1 ELSE 0)]

choiceIndexForScore(item, score) ==
  LET options == {c \in DOMAIN item.scores : item.scores[c] = score}
  IN  Clamp(IF options = {} THEN score ELSE Min(options) - 1, 0, item.count - 1)

\* assignChoicesFromScores: score s goes to quota s of the samples.
Arrangements(item, n) ==
  LET quotas == integerQuotas(item.weights, n)
      scored == {f \in [0..(n - 1) -> 0..(item.count - 1)] :
                   \A s \in 0..(item.count - 1) :
                     Cardinality({j \in DOMAIN f : f[j] = s}) = quotas[s + 1]}
  IN  {[j \in 0..(n - 1) |-> choiceIndexForScore(item, f[j])] : f \in scored}

Key(item) == <<item.num, item.row>>

PlannedItems(questions, entries) ==
  UNION {group \in buildBlueprint(questions, entries) : Cardinality(group) >= 2}

\* The plans that may come out: item key -> sample -> option.
JointPlans(items, n) ==
  LET all == UNION {Arrangements(item, n) : item \in items}
  IN  {plan \in [{Key(item) : item \in items} -> all] :
         \A item \in items : plan[Key(item)] \in Arrangements(item, n)}

oneHot(n, choice) ==
  [i \in 1..AtLeast(1, n) |-> IF i = Clamp(choice, 0, AtLeast(1, n) - 1) + 1 THEN 1 ELSE 0]

\* The entry of question q in sample j.
applyQuestionSample(q, e, plan, j) ==
  LET n       == optionCount(q, e)
      rows    == {r \in 1..AtLeast(1, q.rows) : <<q.num, r>> \in DOMAIN plan}
      Kept(r) == IF r \in DOMAIN e.rows /\ e.rows[r] # <<>> THEN e.rows[r] ELSE e.options
  IN  IF <<q.num, NoRow>> \in DOMAIN plan
      THEN [e EXCEPT !.options = oneHot(n, plan[<<q.num, NoRow>>][j]),
                     !.rows = <<>>, !.custom = <<>>, !.customRows = <<>>]
      ELSE IF q.kind = "matrix" /\ rows # {}
      THEN [e EXCEPT !.rows = [r \in 1..AtLeast(1, q.rows) |->
                                 IF r \in rows THEN oneHot(n, plan[<<q.num, r>>][j]) ELSE Kept(r)],
                     !.options = <<>>, !.custom = <<>>, !.customRows = <<>>]
      ELSE e

ApplySample(questions, entries, plan, j) ==
  [num \in DOMAIN entries |->
     IF \E q \in questions : q.num = num
     THEN applyQuestionSample(CHOOSE q \in questions : q.num = num, entries[num], plan, j)
     ELSE entries[num]]

=============================================================================
