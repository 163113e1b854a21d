-------------------------- MODULE AnswerPlan_proofs --------------------------
(***************************************************************************)
(* Proofs about the answer plan, for every survey of well-formed           *)
(* questions (AnswerPlan's SurveysAssumption) and every draw.              *)
(*                                                                         *)
(* All answering actions have one shape, Gives: the current question, a    *)
(* sound answer that the rules allow, its reservations and a jump target.  *)
(* StepDoes shows that every step of Next either gives such an answer or   *)
(* passes a question over, so the invariant has two steps to survive.      *)
(*                                                                         *)
(* The invariant PlanInv says of the questions behind what the properties  *)
(* say of a finished plan, and of those ahead what the jump target means:  *)
(* an answer jumps over exactly those before the target.  It is inductive  *)
(* because a condition, a rule and a jump read only questions of a lower   *)
(* number, which, with the pages in question order, are all behind and     *)
(* keep their answers.                                                     *)
(***************************************************************************)
EXTENDS AnswerPlan, FiniteSetTheorems, WellFoundedInduction, TLAPS

-----------------------------------------------------------------------------
(* Least and greatest elements                                             *)

\* A non-empty set of natural numbers has a least element.
LEMMA LeastExists ==
  ASSUME NEW S, S \subseteq Nat, S # {}
  PROVE  \E x \in S : \A y \in S : x <= y
<1> DEFINE below == OpToRel(<, Nat)
<1>1. IsWellFoundedOn(below, Nat)
  BY NatLessThanWellFounded
<1>2. \A x, y \in Nat : <<y, x>> \in below <=> y < x
  BY DEF OpToRel
<1> HIDE DEF below
<1>3. PICK x \in S : \A y \in S : ~(<<y, x>> \in below)
  BY <1>1, WFMin
<1>4. ASSUME NEW y \in S PROVE x <= y
  <2>1. x \in Nat /\ y \in Nat
    OBVIOUS
  <2>2. ~(y < x)
    BY <1>2, <1>3, <2>1, Zenon
  <2> QED
    BY <2>1, <2>2
<1> QED
  BY <1>4

LEMMA MinIsLeast ==
  ASSUME NEW S, S \subseteq Nat, S # {}
  PROVE  Min(S) \in S
BY LeastExists DEF Min

LEMMA MaxOfTwo ==
  ASSUME NEW a \in Int, NEW b \in Int
  PROVE  Max({a, b}) = IF a >= b THEN a ELSE b
BY DEF Max

LEMMA MinOfTwo ==
  ASSUME NEW a \in Int, NEW b \in Int
  PROVE  Min({a, b}) = IF a <= b THEN a ELSE b
BY DEF Min

\* Put adds or replaces one value and leaves the others.
LEMMA PutValues ==
  ASSUME NEW f, NEW key, NEW value
  PROVE  /\ DOMAIN Put(f, key, value) = DOMAIN f \cup {key}
         /\ Put(f, key, value)[key] = value
         /\ \A k \in DOMAIN f : k # key => Put(f, key, value)[k] = f[k]
BY DEF Put

-----------------------------------------------------------------------------
(* Options                                                                 *)

\* The number of options a question is answered with.
Count(q) == Max({1, q.options})

\* maxInt(1, question.Options): at least one option, and the weights are those
\* of options.
LEMMA OptionsAre ==
  ASSUME NEW q, WellFormed(q)
  PROVE  /\ Count(q) \in Nat \ {0} /\ q.options <= Count(q)
         /\ Options(q) = 0..(Count(q) - 1)
         /\ IsFiniteSet(Options(q)) /\ Cardinality(Options(q)) = Count(q)
         /\ Max(Options(q)) = Count(q) - 1
         /\ q.entry.positive \subseteq Options(q)
<1>1. q.options \in Nat /\ q.entry.positive \subseteq 0..(q.options - 1)
  BY DEF WellFormed
<1>2. Count(q) = IF 1 >= q.options THEN 1 ELSE q.options
  BY <1>1, MaxOfTwo DEF Count
<1>3. Count(q) \in Nat \ {0} /\ q.options <= Count(q)
  BY <1>1, <1>2
<1>4. Options(q) = 0..(Count(q) - 1)
  BY DEF Options, Count
<1>5. IsFiniteSet(Options(q)) /\ Cardinality(Options(q)) = Count(q)
  <2>1. Count(q) - 1 \in Int /\ ~(0 > Count(q) - 1)
    BY <1>3
  <2> QED
    BY <1>3, <1>4, <2>1, FS_Interval
<1>6. Max(Options(q)) = Count(q) - 1
  <2> DEFINE n == Count(q) - 1
  <2>1. n \in Nat /\ Options(q) = 0..n
    BY <1>3, <1>4
  <2> HIDE DEF n
  <2>2. Max(0..n) = n
    BY <2>1 DEF Max
  <2> QED
    BY <2>1, <2>2 DEF n
<1>7. q.entry.positive \subseteq Options(q)
  BY <1>1, <1>3, <1>4
<1> QED
  BY <1>3, <1>4, <1>5, <1>6, <1>7

\* fitProbabilityCount leaves at least one option, and weights on options alone.
LEMMA FitIsOptions ==
  ASSUME NEW q, WellFormed(q), NEW S
  PROVE  /\ Fit(S, q) \subseteq Options(q) /\ Fit(S, q) # {}
         /\ S \subseteq Options(q) /\ S # {} => Fit(S, q) = S
<1>1. Options(q) # {}
  BY OptionsAre
<1> QED
  BY <1>1 DEF Fit

-----------------------------------------------------------------------------
(* Answers of one question                                                 *)

\* A draw is not empty, is cut to the upper limit and filled to the lower one
\* (SelectedIndices, selection.go:52): the answer lies within the limits,
\* whatever weights the rules have left.
LEMMA MultipleIsWithin ==
  ASSUME NEW q, WellFormed(q), NEW P \in Multiple(q)
  PROVE  P \subseteq Options(q) /\ WithinLimits(q, Cardinality(P))
<1> DEFINE w == MultipleWeights(q)
           n == Cardinality(Options(q))
           hi == IF q.max <= 0 \/ q.max > n THEN n ELSE q.max
           least == IF q.min <= 0 THEN 1 ELSE q.min
           lo == Min({hi, least})
           drawn == {S \in SUBSET w.positive : w.sure \subseteq S /\ S # {}}
           cut == UNION {IF Cardinality(S) <= hi THEN {S} ELSE kSubset(hi, S) : S \in drawn}
           filled(S) ==
             IF Cardinality(S) >= lo THEN {S}
             ELSE IF Cardinality(w.positive) >= lo
             THEN {T \in kSubset(lo, w.positive) : S \subseteq T}
             ELSE {T \in kSubset(lo, Options(q)) : w.positive \subseteq T}
<1>1. Multiple(q) = UNION {filled(S) : S \in cut}
  BY DEF Multiple
<1>2. w.positive \subseteq Options(q)
  <2>1. \E S : w.positive = Fit(S, q)
    BY DEF MultipleWeights, RuledMultiple
  <2> QED
    BY <2>1, FitIsOptions
<1>3. /\ n \in Nat \ {0} /\ q.options <= n /\ IsFiniteSet(Options(q))
      /\ q.min \in Int /\ q.max \in Int /\ q.options \in Nat
  BY OptionsAre DEF WellFormed
<1> HIDE DEF w, n
<1>4. hi \in 1..n /\ (q.max >= 1 => hi <= q.max) /\ (q.max <= 0 => hi = n)
  BY <1>3
<1>5. least \in Nat \ {0} /\ (q.min >= 1 => least = q.min)
  BY <1>3
<1>6. lo = IF hi <= least THEN hi ELSE least
  <2>1. hi \in Int /\ least \in Int
    BY <1>3, <1>4, <1>5
  <2> HIDE DEF hi, least
  <2> QED
    BY <2>1, MinOfTwo
<1>7. /\ lo \in 1..hi
      /\ q.min >= 1 /\ q.min <= q.options /\ (q.max >= 1 => q.min <= q.max) => q.min <= lo
  <2>1. q.min >= 1 /\ q.min <= q.options /\ (q.max >= 1 => q.min <= q.max) => q.min <= hi
    BY <1>3
  <2> HIDE DEF hi, least, lo
  <2> QED
    BY <1>3, <1>4, <1>5, <1>6, <2>1
<1> HIDE DEF hi, least, lo
<1>8. ASSUME NEW S \in cut PROVE S \subseteq w.positive /\ Cardinality(S) \in 1..hi
  <2>1. PICK D \in drawn : S \in IF Cardinality(D) <= hi THEN {D} ELSE kSubset(hi, D)
    OBVIOUS
  <2>2. D \subseteq w.positive /\ D # {} /\ IsFiniteSet(D)
    BY <1>2, <1>3, FS_Subset
  <2>3. Cardinality(D) \in Nat \ {0}
    BY <2>2, FS_CardinalityType, FS_EmptySet
  <2>4. CASE Cardinality(D) <= hi
    BY <1>3, <1>4, <2>1, <2>2, <2>3, <2>4
  <2>5. CASE ~(Cardinality(D) <= hi)
    BY <1>3, <1>4, <2>1, <2>2, <2>5 DEF kSubset
  <2> QED
    BY <2>4, <2>5
<1> HIDE DEF cut
<1>9. PICK S \in cut : P \in filled(S)
  BY <1>1
<1>10. Cardinality(P) \in lo..hi /\ P \subseteq Options(q)
  <2>1. S \subseteq w.positive /\ Cardinality(S) \in 1..hi
    BY <1>8
  <2>2. CASE Cardinality(S) >= lo
    BY <1>2, <1>3, <1>4, <1>7, <1>9, <2>1, <2>2
  <2>3. CASE ~(Cardinality(S) >= lo)
    <3>1. P \in kSubset(lo, w.positive) \cup kSubset(lo, Options(q))
      BY <1>9, <2>3
    <3>2. Cardinality(P) = lo /\ P \subseteq Options(q)
      BY <1>2, <3>1 DEF kSubset
    <3> QED
      BY <1>3, <1>4, <1>7, <3>2
  <2> QED
    BY <2>2, <2>3
<1>11. WithinLimits(q, Cardinality(P))
  BY <1>3, <1>4, <1>7, <1>10 DEF WithinLimits
<1> QED
  BY <1>10, <1>11

\* The ratio of a dimension: an option and the number of steps it is one of.
IsRatio(ratio) == ratio \in Nat \X (Nat \ {0}) /\ ratio[1] <= ratio[2]

\* The first answer of a dimension sets a ratio, and the others take it over.
LEMMA RatiosAreTyped ==
  ASSUME NEW q, WellFormed(q), \A d \in DOMAIN bases : IsRatio(bases[d]),
         NEW support, support \subseteq Options(q), NEW ratio \in Ratios(q, support)
  PROVE  /\ q.entry.dimension = "" => ratio = NoRatio
         /\ ratio = NoRatio \/ IsRatio(ratio)
<1>1. CASE q.entry.dimension = ""
  BY <1>1 DEF Ratios
<1>2. CASE q.entry.dimension # "" /\ q.entry.dimension \in DOMAIN bases
  BY <1>2 DEF Ratios
<1>3. CASE q.entry.dimension # "" /\ q.entry.dimension \notin DOMAIN bases
  <2> DEFINE steps == Max({1, Max(Options(q))})
  <2>1. PICK i \in support : ratio = <<i, steps>>
    BY <1>3 DEF Ratios
  <2>2. steps = IF 1 >= Count(q) - 1 THEN 1 ELSE Count(q) - 1
    <3>1. Max(Options(q)) = Count(q) - 1 /\ Count(q) - 1 \in Int
      BY OptionsAre
    <3> QED
      BY <3>1, MaxOfTwo
  <2>3. i \in 0..(Count(q) - 1) /\ Count(q) \in Nat \ {0}
    BY OptionsAre
  <2> HIDE DEF steps
  <2>4. steps \in Nat \ {0} /\ i \in Nat /\ i <= steps
    BY <2>2, <2>3
  <2> QED
    BY <1>3, <2>1, <2>4 DEF IsRatio
<1> QED
  BY <1>1, <1>2, <1>3

\* A ratio scaled to the question is one of its options
\* (applyDimensionTendency, distribution.go:108).
LEMMA BaseIsOption ==
  ASSUME NEW q, WellFormed(q), NEW ratio, IsRatio(ratio)
  PROVE  Base(q, ratio) \in Options(q)
<1> DEFINE top == Max(Options(q))
           steps == Max({1, top})
           scaled == 2 * ratio[1] * steps + ratio[2]
           index == scaled \div (2 * ratio[2])
<1>1. top \in Nat /\ Options(q) = 0..top
  BY OptionsAre
<1> HIDE DEF top
<1>2. steps \in Nat
  <2>1. steps = IF 1 >= top THEN 1 ELSE top
    BY <1>1, MaxOfTwo
  <2> QED
    BY <1>1, <2>1
<1> HIDE DEF steps
<1>3. ratio[1] \in Nat /\ ratio[2] \in Nat \ {0}
  BY DEF IsRatio
<1>4. 2 * ratio[1] * steps \in Nat
  <2>1. 2 * ratio[1] \in Nat
    BY <1>3
  <2>2. \A a, b \in Nat : a * b \in Nat
    OBVIOUS
  <2> QED
    BY <1>2, <2>1, <2>2
<1>5. scaled \in Nat
  BY <1>3, <1>4
<1> HIDE DEF scaled
<1>6. index \in Nat
  <2>1. 2 * ratio[2] \in Nat \ {0}
    BY <1>3
  <2>2. \A a \in Nat, b \in Nat \ {0} : a \div b \in Nat
    OBVIOUS
  <2> QED
    BY <1>5, <2>1, <2>2
<1>7. Base(q, ratio) = Min({top, index})
  BY DEF Base, top, steps, scaled
<1> HIDE DEF index
<1>8. Min({top, index}) = IF top <= index THEN top ELSE index
  BY <1>1, <1>6, MinOfTwo
<1> QED
  BY <1>1, <1>6, <1>7, <1>8

\* Rules, tendencies and custom weights leave options of the question.
LEMMA SupportsAreOptions ==
  ASSUME NEW q, WellFormed(q)
  PROVE  /\ SingleSupport(q) \subseteq Options(q)
         /\ \A row : RowSupport(q, row) \subseteq Options(q)
<1>1. SingleSupport(q) \subseteq Options(q)
  BY FitIsOptions DEF SingleSupport
<1>2. ASSUME NEW S, S \subseteq Options(q), NEW r PROVE Ruled(S, r) \subseteq Options(q)
  BY <1>2 DEF Ruled
<1>3. Fit(q.entry.positive, q) \subseteq Options(q)
  BY FitIsOptions
<1> QED
  BY <1>1, <1>2, <1>3 DEF RowSupport

LEMMA OfferedAreOptions ==
  ASSUME NEW q, WellFormed(q), NEW support, support \subseteq Options(q),
         NEW ratio, ratio = NoRatio \/ IsRatio(ratio), NEW replaced
  PROVE  Offered(q, support, ratio, replaced) \subseteq Options(q)
<1>1. q.entry.positive \subseteq Options(q)
  BY OptionsAre
<1>2. Narrowed(q, support, ratio) \subseteq Options(q)
  BY BaseIsOption DEF Narrowed
<1> QED
  BY <1>1, <1>2 DEF Offered

LEMMA ForcedIsOption ==
  ASSUME NEW q, WellFormed(q)
  PROVE  Forced(q) \in Options(q)
<1> DEFINE wanted == Max({0, q.forced})
           last == Max({0, q.options - 1})
<1>1. q.forced \in Int /\ q.options \in Nat
  BY DEF WellFormed
<1>2. /\ wanted = IF 0 >= q.forced THEN 0 ELSE q.forced
      /\ last = IF 0 >= q.options - 1 THEN 0 ELSE q.options - 1
  BY <1>1, MaxOfTwo
<1>3. wanted \in Nat /\ last \in Nat
  BY <1>1, <1>2
<1>4. Forced(q) = Min({wanted, last})
  BY DEF Forced
<1>5. last <= Count(q) - 1 /\ Count(q) \in Nat \ {0} /\ Options(q) = 0..(Count(q) - 1)
  BY <1>1, <1>2, OptionsAre
<1> HIDE DEF wanted, last
<1>6. Min({wanted, last}) = IF wanted <= last THEN wanted ELSE last
  BY <1>3, MinOfTwo
<1> QED
  BY <1>3, <1>4, <1>5, <1>6

\* The latest triggered rule decides a choice without a tendency: the weights it
\* leaves replace custom ones, unless none of its targets is an option.
LEMMA ChoiceObeysRule ==
  ASSUME NEW q, WellFormed(q), q.entry.positive \cap Allowed(q) # {},
         NEW i \in Offered(q, SingleSupport(q), NoRatio, Replaced(q, None, q.entry.positive))
  PROVE  i \in Allowed(q)
<1> DEFINE rule == latestTriggeredRule(q, None)
           P == q.entry.positive
<1>1. i \in Options(q) /\ P \subseteq Options(q)
  BY OptionsAre, SupportsAreOptions, OfferedAreOptions
<1>2. CASE Triggered(q, None) = {}
  BY <1>1, <1>2 DEF Allowed
<1>3. CASE Triggered(q, None) # {} /\ rule.action = "must_select"
  <2>1. Allowed(q) = rule.targets
    BY <1>3 DEF Allowed
  <2>2. Replaced(q, None, P)
    BY <1>3, <2>1 DEF Replaced
  <2>3. SingleSupport(q) = P \cap rule.targets
    <3>1. Ruled(P, rule) = P \cap rule.targets
      BY <1>3, <2>1 DEF Ruled
    <3> QED
      BY <1>1, <1>3, <2>1, <3>1, FitIsOptions DEF SingleSupport
  <2> QED
    BY <2>1, <2>2, <2>3 DEF Offered, Narrowed
<1>4. CASE Triggered(q, None) # {} /\ rule.action # "must_select"
  <2>1. Allowed(q) = Options(q) \ rule.targets
    BY <1>4 DEF Allowed
  <2>2. CASE rule.targets \cap Options(q) = {}
    BY <1>1, <2>1, <2>2
  <2>3. CASE rule.targets \cap Options(q) # {}
    <3>1. P \ rule.targets # {}
      BY <1>1, <2>1
    <3>2. Replaced(q, None, P)
      BY <1>4, <2>3, <3>1 DEF Replaced
    <3>3. SingleSupport(q) = P \ rule.targets
      <4>1. Ruled(P, rule) = P \ rule.targets
        BY <1>4, <3>1 DEF Ruled
      <4> QED
        BY <1>1, <1>4, <3>1, <4>1, FitIsOptions DEF SingleSupport
    <3>4. i \in P \ rule.targets
      BY <3>2, <3>3 DEF Offered, Narrowed
    <3> QED
      BY <1>1, <2>1, <3>4
  <2> QED
    BY <2>2, <2>3
<1> QED
  BY <1>2, <1>3, <1>4

-----------------------------------------------------------------------------
(* What a step does                                                        *)

\* An answer of the question's own options, within its limits.
Sound(q, answer) ==
  /\ answer.picks \subseteq Options(q)
  /\ \A i \in DOMAIN answer.rows : answer.rows[i] \in Options(q)
  /\ q.entry.kind = "multiple" => WithinLimits(q, Cardinality(answer.picks))

\* RuleObeyed for one question.
Obeys(q, answer) ==
  q.entry.kind \in ChoiceKinds /\ q.forced = None /\ q.entry.dimension = ""
    /\ q.entry.positive \cap Allowed(q) # {}
  => answer.picks \subseteq Allowed(q)

\* What all answering actions have in common.
Gives(q, answer) ==
  /\ Reached(q) /\ questionVisible(q)
  /\ Answer(q, answer.picks, answer.rows)
  /\ answer = [picks |-> answer.picks, rows |-> answer.rows]
  /\ Sound(q, answer) /\ Obeys(q, answer)
  /\ pending' = pending \cup Reserved(q, answer)
  /\ \A d \in DOMAIN bases' : IsRatio(bases'[d])

\* The parts of the type invariant a single step relies on.
Ready ==
  /\ survey \in Surveys /\ left \subseteq survey.questions
  /\ \A d \in DOMAIN bases : IsRatio(bases[d])

LEMMA KeptRatios ==
  ASSUME NEW q, \A d \in DOMAIN bases : IsRatio(bases[d]),
         NEW ratio, ratio = NoRatio \/ IsRatio(ratio), Keep(q, ratio)
  PROVE  \A d \in DOMAIN bases' : IsRatio(bases'[d])
<1>1. CASE ratio = NoRatio
  BY <1>1 DEF Keep
<1>2. CASE ratio # NoRatio
  <2>1. bases' = Put(bases, q.entry.dimension, ratio)
    BY <1>2 DEF Keep
  <2>2. /\ DOMAIN bases' = DOMAIN bases \cup {q.entry.dimension}
        /\ bases'[q.entry.dimension] = ratio
        /\ \A d \in DOMAIN bases : d # q.entry.dimension => bases'[d] = bases[d]
    BY <2>1 DEF Put
  <2>3. ASSUME NEW d \in DOMAIN bases' PROVE bases'[d] \in {ratio, bases[d]} /\ IsRatio(bases'[d])
    <3>1. d = q.entry.dimension \/ (d \in DOMAIN bases /\ d # q.entry.dimension)
      BY <2>2
    <3>2. CASE d = q.entry.dimension
      BY <1>2, <2>2, <3>2
    <3>3. CASE d \in DOMAIN bases /\ d # q.entry.dimension
      BY <2>2, <3>3
    <3> QED
      BY <3>1, <3>2, <3>3
  <2> QED
    BY <2>3
<1> QED
  BY <1>1, <1>2

\* A choice is one of the offered options or the forced one, and reserved
\* unless it is forced.
LEMMA SingleGives ==
  ASSUME Ready, NEW q \in left, WellFormed(q), AnswerSingle(q)
  PROVE  \E answer : Gives(q, answer)
<1> DEFINE support == SingleSupport(q)
           replaced == Replaced(q, None, q.entry.positive)
<1>1. PICK ratio \in Ratios(q, support) :
        \E i \in Offered(q, support, ratio, replaced) :
          /\ Answer(q, {IF q.forced = None THEN i ELSE Forced(q)}, <<>>)
          /\ Keep(q, ratio)
          /\ Reserve(IF Tracked(q) /\ q.forced = None
                     THEN {Reservation(q, None, i)} ELSE {})
  BY DEF AnswerSingle
<1>2. PICK i \in Offered(q, support, ratio, replaced) :
        /\ Answer(q, {IF q.forced = None THEN i ELSE Forced(q)}, <<>>)
        /\ Keep(q, ratio)
        /\ Reserve(IF Tracked(q) /\ q.forced = None
                   THEN {Reservation(q, None, i)} ELSE {})
  BY <1>1
<1> DEFINE answer == [picks |-> {IF q.forced = None THEN i ELSE Forced(q)}, rows |-> <<>>]
<1>3. Reached(q) /\ questionVisible(q) /\ q.entry.kind \in ChoiceKinds
  BY DEF AnswerSingle, Asked
<1>4. support \subseteq Options(q) /\ (ratio = NoRatio \/ IsRatio(ratio))
  BY SupportsAreOptions, RatiosAreTyped DEF Ready
<1>5. Answer(q, answer.picks, answer.rows)
  BY <1>2
<1>6. Sound(q, answer)
  <2>1. i \in Options(q) /\ Forced(q) \in Options(q)
    BY <1>4, OfferedAreOptions, ForcedIsOption
  <2>2. answer.picks \subseteq Options(q) /\ DOMAIN answer.rows = {}
    BY <2>1
  <2>3. q.entry.kind # "multiple"
    BY <1>3 DEF ChoiceKinds
  <2> QED
    BY <2>2, <2>3 DEF Sound
<1>7. Obeys(q, answer)
  <2> SUFFICES ASSUME q.forced = None, q.entry.dimension = "",
                      q.entry.positive \cap Allowed(q) # {}
               PROVE  answer.picks \subseteq Allowed(q)
    BY DEF Obeys
  <2>1. ratio = NoRatio
    BY <1>4, RatiosAreTyped DEF Ready
  <2>2. i \in Allowed(q)
    BY <2>1, ChoiceObeysRule
  <2> QED
    BY <2>2
<1>8. pending' = pending \cup Reserved(q, answer)
  <2>1. Reserved(q, answer) =
          IF Tracked(q) /\ q.forced = None THEN {Reservation(q, None, i)} ELSE {}
    <3>1. answer.picks = {IF q.forced = None THEN i ELSE Forced(q)} /\ DOMAIN answer.rows = {}
      OBVIOUS
    <3> HIDE DEF answer
    <3> QED
      BY <1>3, <3>1 DEF Reserved, Tracked
  <2> QED
    BY <1>2, <2>1 DEF Reserve
<1>9. \A d \in DOMAIN bases' : IsRatio(bases'[d])
  BY <1>2, <1>4, KeptRatios DEF Ready
<1>10. answer = [picks |-> answer.picks, rows |-> answer.rows]
  OBVIOUS
<1> HIDE DEF answer
<1> QED
  BY <1>3, <1>5, <1>6, <1>7, <1>8, <1>9, <1>10 DEF Gives

\* Every row of a matrix is answered and reserved.
LEMMA MatrixGives ==
  ASSUME Ready, NEW q \in left, WellFormed(q), AnswerMatrix(q)
  PROVE  \E answer : Gives(q, answer)
<1> DEFINE rows == 0..(Max({1, q.rows}) - 1)
<1>1. PICK ratio \in Ratios(q, RowSupport(q, 0)) :
        \E chosen \in [1..Cardinality(rows) -> Options(q)] :
          /\ Answer(q, {}, chosen)
          /\ Keep(q, ratio)
          /\ Reserve(IF Tracked(q)
                     THEN {Reservation(q, row, chosen[row + 1]) : row \in rows} ELSE {})
  BY DEF AnswerMatrix
<1>2. PICK chosen \in [1..Cardinality(rows) -> Options(q)] :
        /\ Answer(q, {}, chosen)
        /\ Keep(q, ratio)
        /\ Reserve(IF Tracked(q)
                   THEN {Reservation(q, row, chosen[row + 1]) : row \in rows} ELSE {})
  BY <1>1
<1> DEFINE answer == [picks |-> {}, rows |-> chosen]
<1>3. Reached(q) /\ questionVisible(q) /\ q.entry.kind = "matrix"
  BY DEF AnswerMatrix, Asked
<1>4. RowSupport(q, 0) \subseteq Options(q)
  BY SupportsAreOptions
<1>5. ratio = NoRatio \/ IsRatio(ratio)
  BY <1>4, RatiosAreTyped DEF Ready
<1>6. Sound(q, answer) /\ Obeys(q, answer)
  BY <1>3 DEF Sound, Obeys, ChoiceKinds
<1>7. pending' = pending \cup Reserved(q, answer)
  <2> DEFINE k == Max({1, q.rows})
  <2>1. k \in Nat \ {0}
    <3>1. q.rows \in Nat
      BY DEF WellFormed
    <3>2. k = IF 1 >= q.rows THEN 1 ELSE q.rows
      BY <3>1, MaxOfTwo
    <3> QED
      BY <3>1, <3>2
  <2>2. rows = 0..(k - 1)
    OBVIOUS
  <2> HIDE DEF k
  <2>3. Cardinality(rows) = k
    <3>1. ~(0 > k - 1) /\ k - 1 \in Int
      BY <2>1
    <3> QED
      BY <2>1, <2>2, <3>1, FS_Interval
  <2>4. DOMAIN chosen = 1..k
    BY <2>3
  <2>5. {Reservation(q, row, chosen[row + 1]) : row \in 0..(k - 1)}
          = {Reservation(q, i - 1, chosen[i]) : i \in 1..k}
    <3>1. ASSUME NEW row \in 0..(k - 1)
          PROVE  Reservation(q, row, chosen[row + 1])
                   \in {Reservation(q, i - 1, chosen[i]) : i \in 1..k}
      <4> DEFINE i == row + 1
      <4>1. i \in 1..k /\ i - 1 = row
        BY <2>1
      <4> QED
        BY <4>1
    <3>2. ASSUME NEW i \in 1..k
          PROVE  Reservation(q, i - 1, chosen[i])
                   \in {Reservation(q, row, chosen[row + 1]) : row \in 0..(k - 1)}
      <4> DEFINE row == i - 1
      <4>1. row \in 0..(k - 1) /\ row + 1 = i
        BY <2>1
      <4> QED
        BY <4>1
    <3> QED
      BY <3>1, <3>2
  <2>6. q.entry.kind \notin ChoiceKinds
    BY <1>3 DEF ChoiceKinds
  <2>7. Reserved(q, answer) =
          IF Tracked(q) THEN {Reservation(q, i - 1, chosen[i]) : i \in 1..k} ELSE {}
    BY <2>4, <2>6 DEF Reserved, Tracked
  <2> QED
    BY <1>2, <2>2, <2>5, <2>7 DEF Reserve
<1>8. \A d \in DOMAIN bases' : IsRatio(bases'[d])
  BY <1>2, <1>5, KeptRatios DEF Ready
<1>9. Answer(q, answer.picks, answer.rows) /\ answer = [picks |-> answer.picks, rows |-> answer.rows]
  BY <1>2
<1> HIDE DEF answer
<1> QED
  BY <1>3, <1>6, <1>7, <1>8, <1>9 DEF Gives

\* The other kinds reserve nothing and set no ratio.
LEMMA UntrackedGives ==
  ASSUME Ready, NEW q \in left, WellFormed(q), AnswerMultiple(q) \/ AnswerOther(q)
  PROVE  \E answer : Gives(q, answer)
<1>1. PICK picks :
        /\ Answer(q, picks, <<>>)
        /\ picks \subseteq Options(q)
        /\ q.entry.kind = "multiple" => WithinLimits(q, Cardinality(picks))
  <2>1. CASE AnswerMultiple(q)
    <3>1. PICK P \in Multiple(q) : Answer(q, P, <<>>)
      BY <2>1 DEF AnswerMultiple
    <3> QED
      BY <3>1, MultipleIsWithin
  <2>2. CASE AnswerOther(q)
    <3>1. /\ q.entry.kind # "multiple"
          /\ Answer(q, IF q.entry.kind = "order" THEN Options(q) ELSE {}, <<>>)
      BY <2>2 DEF AnswerOther, Asked
    <3> QED
      BY <3>1
  <2> QED
    BY <2>1, <2>2
<1> DEFINE answer == [picks |-> picks, rows |-> <<>>]
<1>2. /\ Reached(q) /\ questionVisible(q) /\ q.entry.kind \notin ChoiceKinds
      /\ UNCHANGED <<bases, pending>>
  BY DEF AnswerMultiple, AnswerOther, Asked, ChoiceKinds
<1>3. answer.picks = picks /\ answer.rows = <<>> /\ DOMAIN answer.rows = {}
      /\ answer = [picks |-> answer.picks, rows |-> answer.rows]
  OBVIOUS
<1> HIDE DEF answer
<1>4. Reserved(q, answer) = {}
  BY <1>2, <1>3 DEF Reserved
<1>5. Sound(q, answer) /\ Obeys(q, answer)
  BY <1>1, <1>2, <1>3 DEF Sound, Obeys
<1> QED
  BY <1>1, <1>2, <1>3, <1>4, <1>5 DEF Gives, Ready

\* A step of the planning, as far as the invariants have to look at it.
LEMMA StepDoes ==
  ASSUME Ready, Next
  PROVE  \/ Validate \/ Finish
         \/ \E q \in left : Skip(q) \/ Reject(q) \/ \E answer : Gives(q, answer)
<1>1. ASSUME NEW q \in left PROVE WellFormed(q)
  BY SurveysAssumption DEF Ready
<1> QED
  BY <1>1, SingleGives, MatrixGives, UntrackedGives DEF Next

-----------------------------------------------------------------------------
(* The inductive invariant                                                 *)

\* The questions that the loop goes through, and those that are behind it.
Numbered == {q \in survey.questions : q.num > 0}

Passed == Numbered \ left

Typed ==
  /\ survey \in Surveys
  /\ phase \in {"validating", "building", "built", "rejected"}
  /\ left \subseteq Numbered /\ (phase = "validating" => left = Numbered)
  /\ jumpTarget \in Nat
  /\ \A d \in DOMAIN bases : IsRatio(bases[d])

\* Only questions that are behind have an answer, and a sound one.
AnswersSound ==
  \A n \in DOMAIN answers : \E q \in Passed :
    q.num = n /\ q.role = "question" /\ Sound(q, answers[n])

\* Questions are taken in their order.
InOrder == \A q \in Passed, r \in left : Before(q, r)

RulesObeyed ==
  PagesInOrder =>
    \A q \in Passed : Answered(q.num) => Obeys(q, answers[q.num])

\* JourneyJustified for the questions that are behind, and what the jump target
\* says of those to come: before the end they lie behind a jump exactly if they
\* come before it, and all of them do when a jump has ended the plan.
Journey ==
  PagesInOrder =>
    /\ phase \in {"building", "built"} => \A q \in Numbered : LogicSupported(q)
    /\ phase \in {"building", "built"} =>
         \A q \in Passed : q.role = "question" =>
           (Answered(q.num) <=> Shown(q) /\ ~JumpedOver(q))
    /\ \A q \in left : JumpedOver(q) <=> (phase = "built" \/ q.num < jumpTarget)

PlanInv ==
  Typed /\ AnswersSound /\ InOrder /\ PendingMatches /\ RulesObeyed /\ Journey

-----------------------------------------------------------------------------
(* Questions and their order                                               *)

LEMMA QuestionIs ==
  ASSUME survey \in Surveys, NEW q \in survey.questions
  PROVE  Question(q.num) = q /\ WellFormed(q)
BY SurveysAssumption DEF Question

\* The nums of questions tell them apart, and are positive where they are gone
\* through.
LEMMA NumsDiffer ==
  ASSUME Typed, NEW q \in Numbered, NEW r \in Numbered
  PROVE  q.num \in Nat \ {0} /\ (q # r => q.num # r.num)
BY SurveysAssumption DEF Typed, Numbered, WellFormed

LEMMA PagesAreNaturals ==
  ASSUME NEW q, WellFormed(q)
  PROVE  pageOf(q) \in Nat
<1>1. q.page \in Int
  BY DEF WellFormed
<1>2. pageOf(q) = IF 1 >= q.page THEN 1 ELSE q.page
  BY <1>1, MaxOfTwo DEF pageOf
<1> QED
  BY <1>1, <1>2

\* While a question is left, the loop has a next one: the first number on the
\* first page.
LEMMA CurrentIsFirst ==
  ASSUME Typed, left # {}
  PROVE  current \in left /\ \A r \in left : Before(current, r)
<1>1. \A q \in left : pageOf(q) \in Nat /\ q.num \in Nat
  BY QuestionIs, NumsDiffer, PagesAreNaturals DEF Typed, Numbered
<1> DEFINE pages == {pageOf(q) : q \in left}
<1>2. PICK page \in pages : \A p \in pages : page <= p
  <2>1. pages \subseteq Nat /\ pages # {}
    BY <1>1
  <2> HIDE DEF pages
  <2> QED
    BY <2>1, LeastExists
<1> DEFINE nums == {q.num : q \in {r \in left : pageOf(r) = page}}
<1>3. PICK num \in nums : \A n \in nums : num <= n
  <2>1. nums \subseteq Nat /\ nums # {}
    BY <1>1
  <2> HIDE DEF nums
  <2> QED
    BY <2>1, LeastExists
<1>4. PICK q \in left : pageOf(q) = page /\ q.num = num
  BY <1>3
<1>5. ASSUME NEW r \in left PROVE Before(q, r)
  <2>1. pageOf(q) <= pageOf(r)
    BY <1>2, <1>4
  <2>2. pageOf(r) = pageOf(q) => q.num <= r.num
    BY <1>3, <1>4
  <2>3. pageOf(q) \in Nat /\ pageOf(r) \in Nat
    BY <1>1
  <2> QED
    BY <2>1, <2>2, <2>3 DEF Before
<1>6. \E first \in left : \A r \in left : Before(first, r)
  BY <1>4, <1>5
<1> QED
  BY <1>6 DEF current

\* With pages in question order, what comes before has the smaller number.
LEMMA BeforeIsBelow ==
  ASSUME Typed, PagesInOrder, NEW q \in Numbered, NEW r \in Numbered,
         Before(q, r), q # r
  PROVE  q.num < r.num
<1>1. q.num \in Nat /\ r.num \in Nat /\ q.num # r.num
  BY NumsDiffer
<1>2. pageOf(q) \in Nat /\ pageOf(r) \in Nat
  BY QuestionIs, PagesAreNaturals DEF Typed, Numbered
<1>3. r.num < q.num => pageOf(r) <= pageOf(q)
  BY DEF PagesInOrder, Numbered
<1> QED
  BY <1>1, <1>2, <1>3 DEF Before

LEMMA JumpIsTyped ==
  ASSUME NEW q, WellFormed(q), NEW answer
  PROVE  resolveJumpTarget(q, answer).target \in Nat
<1> DEFINE chosen == {i \in DOMAIN q.jumps :
                        q.jumps[i].target > 0 /\ q.jumps[i].option \in Selected(answer)}
           always == {i \in DOMAIN q.jumps : q.jumps[i].target > 0 /\ q.jumps[i].option < 0}
<1>1. /\ DOMAIN q.jumps \subseteq Nat
      /\ \A i \in DOMAIN q.jumps : q.jumps[i].target \in Int
  <2> DEFINE jumps == q.jumps
             Jumps == [option : Int, target : Int, ends : BOOLEAN]
  <2>1. jumps \in Seq(Jumps)
    BY DEF WellFormed
  <2> HIDE DEF jumps, Jumps
  <2>2. DOMAIN jumps \subseteq Nat /\ \A i \in DOMAIN jumps : jumps[i] \in Jumps
    BY <2>1
  <2>3. \A jump \in Jumps : jump.target \in Int
    BY DEF Jumps
  <2> QED
    BY <2>2, <2>3 DEF jumps
<1>2. chosen # {} => Min(chosen) \in chosen
  <2>1. chosen \subseteq Nat
    BY <1>1
  <2> HIDE DEF chosen
  <2> QED
    BY <2>1, MinIsLeast
<1>3. always # {} => Min(always) \in always
  <2>1. always \subseteq Nat
    BY <1>1
  <2> HIDE DEF always
  <2> QED
    BY <2>1, MinIsLeast
<1>4. CASE chosen # {}
  <2>1. resolveJumpTarget(q, answer) = q.jumps[Min(chosen)]
    BY <1>4 DEF resolveJumpTarget
  <2> QED
    <3>1. PICK i \in DOMAIN q.jumps :
            q.jumps[i].target > 0 /\ resolveJumpTarget(q, answer) = q.jumps[i]
      BY <1>2, <1>4, <2>1
    <3>2. q.jumps[i].target \in Int
      BY <1>1
    <3> QED
      BY <3>1, <3>2
<1>5. CASE chosen = {} /\ always # {}
  <2>1. resolveJumpTarget(q, answer) = q.jumps[Min(always)]
    BY <1>5 DEF resolveJumpTarget
  <2> QED
    <3>1. PICK i \in DOMAIN q.jumps :
            q.jumps[i].target > 0 /\ resolveJumpTarget(q, answer) = q.jumps[i]
      BY <1>3, <1>5, <2>1
    <3>2. q.jumps[i].target \in Int
      BY <1>1
    <3> QED
      BY <3>1, <3>2
<1>6. CASE chosen = {} /\ always = {}
  <2>1. resolveJumpTarget(q, answer) = [option |-> None, target |-> 0, ends |-> FALSE]
    BY <1>6 DEF resolveJumpTarget
  <2> QED
    BY <2>1
<1> QED
  BY <1>4, <1>5, <1>6

\* With supported conditions, the groups of questionVisible say what Shown says.
LEMMA VisibleIsShown ==
  ASSUME NEW q, WellFormed(q), LogicSupported(q)
  PROVE  questionVisible(q) <=> Shown(q)
<1>1. \A c \in q.conditions : c.source > 0 /\ c.mode \in Modes
  BY DEF WellFormed, LogicSupported
<1>2. {c \in q.conditions : c.source > 0} = q.conditions
  BY <1>1
<1>3. CASE q.conditions = {}
  BY <1>2, <1>3 DEF questionVisible, Shown
<1>4. CASE q.conditions # {}
  <2> DEFINE holds(d) ==
        /\ Answered(d.source)
        /\ LET hit == Selected(answers[d.source]) \cap d.options # {}
           IN  IF d.mode = "selected" THEN hit \/ d.options = {}
               ELSE ~hit /\ d.options # {}
  <2>1. ASSUME NEW d \in q.conditions PROVE conditionMet(d) <=> holds(d)
    <3>1. d.source > 0
      BY <1>1
    <3>2. CASE d.options = {}
      BY <3>1, <3>2 DEF conditionMet
    <3>3. CASE d.options # {}
      BY <3>1, <3>3 DEF conditionMet
    <3> QED
      BY <3>2, <3>3
  <2>2. questionVisible(q) <=>
          \A c \in q.conditions : \E d \in q.conditions :
            d.source = c.source /\ d.mode = c.mode /\ conditionMet(d)
    BY <1>2, <1>4 DEF questionVisible
  <2>3. Shown(q) <=>
          \A c \in q.conditions : \E d \in q.conditions :
            d.source = c.source /\ d.mode = c.mode /\ holds(d)
    BY <1>4 DEF Shown, Answered
  <2> HIDE DEF holds
  <2> QED
    BY <2>1, <2>2, <2>3
<1> QED
  BY <1>3, <1>4

-----------------------------------------------------------------------------
(* What a step leaves alone                                                *)

LEMMA SurveyFrame ==
  ASSUME survey' = survey
  PROVE  /\ Numbered' = Numbered /\ maxQuestionNum' = maxQuestionNum
         /\ PagesInOrder' <=> PagesInOrder
         /\ \A n : Question(n)' = Question(n)
         /\ \A q : LogicSupported(q)' <=> LogicSupported(q)
<1>1. maxQuestionNum' = maxQuestionNum
  BY DEF maxQuestionNum
<1>2. \A q : LogicSupported(q)' <=> LogicSupported(q)
  BY <1>1 DEF LogicSupported
<1> QED
  BY <1>1, <1>2 DEF Numbered, PagesInOrder, Question

LEMMA AnswersFrame ==
  ASSUME UNCHANGED <<survey, answers>>
  PROVE  /\ \A q : Answered(q.num)' <=> Answered(q.num)
         /\ \A q : Shown(q)' <=> Shown(q)
         /\ \A q : JumpedOver(q)' <=> JumpedOver(q)
         /\ \A q, answer : Obeys(q, answer)' <=> Obeys(q, answer)
<1>1. \A q : Shown(q)' <=> Shown(q)
  BY DEF Shown
<1>2. \A q : JumpedOver(q)' <=> JumpedOver(q)
  BY SurveyFrame DEF JumpedOver
<1>3. ASSUME NEW q PROVE Allowed(q)' = Allowed(q)
  <2>1. \A r : ruleTriggered(r)' <=> ruleTriggered(r)
    BY DEF ruleTriggered, Answered
  <2>2. Triggered(q, None)' = Triggered(q, None)
    BY <2>1 DEF Triggered
  <2> QED
    BY <2>2 DEF Allowed, latestTriggeredRule
<1> QED
  BY <1>1, <1>2, <1>3 DEF Answered, Obeys

\* Nothing that is passed or left has an answer unless it is a passed question.
LEMMA LeftUnanswered ==
  ASSUME Typed, AnswersSound, NEW q \in left
  PROVE  ~Answered(q.num)
BY NumsDiffer DEF Typed, AnswersSound, Answered, Passed

\* The answer of the current question, and what it leaves of the state.
LEMMA AnswerAdds ==
  ASSUME Typed, AnswersSound, NEW q \in left, NEW answer, Gives(q, answer)
  PROVE  /\ survey' = survey /\ left' = left \ {q} /\ q = current
         /\ phase = "building" /\ q.role = "question" /\ q.num >= jumpTarget
         /\ DOMAIN answers' = DOMAIN answers \cup {q.num}
         /\ answers'[q.num] = answer
         /\ \A n \in DOMAIN answers : n # q.num /\ answers'[n] = answers[n]
         /\ jumpTarget' = resolveJumpTarget(q, answer).target
         /\ phase' = IF /\ jumpTarget' > 0
                        /\ \/ resolveJumpTarget(q, answer).ends
                           \/ jumpTarget' > maxQuestionNum
                     THEN "built" ELSE "building"
         /\ Question(q.num) = q /\ WellFormed(q)
<1>1. ~Answered(q.num)
  BY LeftUnanswered
<1>2. answers' = Put(answers, q.num, answer)
  BY DEF Gives, Answer
<1>3. /\ DOMAIN answers' = DOMAIN answers \cup {q.num} /\ answers'[q.num] = answer
      /\ \A n \in DOMAIN answers : n # q.num /\ answers'[n] = answers[n]
  BY <1>1, <1>2 DEF Put, Answered
<1>4. Question(q.num) = q /\ WellFormed(q)
  BY QuestionIs DEF Typed, Numbered
<1>5. /\ survey' = survey /\ left' = left \ {q}
      /\ jumpTarget' = resolveJumpTarget(q, answer).target
      /\ phase' = IF /\ jumpTarget' > 0
                     /\ \/ resolveJumpTarget(q, answer).ends
                        \/ jumpTarget' > maxQuestionNum
                  THEN "built" ELSE "building"
  BY DEF Gives, Answer
<1> QED
  BY <1>3, <1>4, <1>5 DEF Gives, Reached

\* An answer is the last to say anything of the questions before it: with pages
\* in question order, it changes neither what is shown nor what is jumped over nor
\* what the rules say up to its question.
LEMMA AnswerLeavesBefore ==
  ASSUME Typed, AnswersSound, NEW q \in left, NEW answer, Gives(q, answer),
         NEW p \in Numbered, p.num <= q.num
  PROVE  /\ LogicSupported(p) => (Shown(p)' <=> Shown(p))
         /\ JumpedOver(p)' <=> JumpedOver(p)
         /\ \A a : Obeys(p, a)' <=> Obeys(p, a)
<1>1. /\ survey' = survey /\ DOMAIN answers' = DOMAIN answers \cup {q.num}
      /\ \A n \in DOMAIN answers : n # q.num /\ answers'[n] = answers[n]
  BY AnswerAdds
<1>2. /\ q \in Numbered /\ p.num \in Nat /\ q.num \in Nat /\ WellFormed(p)
      /\ ~(q.num < p.num)
  BY NumsDiffer, QuestionIs DEF Typed, Numbered
<1>3. ASSUME NEW n, n < p.num, n \in Int
      PROVE  /\ n \in DOMAIN answers' <=> n \in DOMAIN answers
             /\ n \in DOMAIN answers => answers'[n] = answers[n]
  BY <1>1, <1>2, <1>3
<1>4. ASSUME LogicSupported(p) PROVE Shown(p)' <=> Shown(p)
  <2>1. \A c \in p.conditions : c.source \in Int /\ c.source < p.num
    BY <1>2, <1>4 DEF WellFormed, LogicSupported
  <2>2. \A c \in p.conditions :
          /\ c.source \in DOMAIN answers' <=> c.source \in DOMAIN answers
          /\ c.source \in DOMAIN answers => answers'[c.source] = answers[c.source]
    BY <1>3, <2>1
  <2> DEFINE holds(d, a) ==
        LET hit == Selected(a) \cap d.options # {}
        IN  IF d.mode = "selected" THEN hit \/ d.options = {} ELSE ~hit /\ d.options # {}
  <2>3. Shown(p) <=>
          /\ p.hasCondition => p.conditions # {}
          /\ \A c \in p.conditions : c.source \in DOMAIN answers /\ \E d \in p.conditions :
               d.source = c.source /\ d.mode = c.mode /\ holds(d, answers[d.source])
    BY DEF Shown
  <2>4. Shown(p)' <=>
          /\ p.hasCondition => p.conditions # {}
          /\ \A c \in p.conditions : c.source \in DOMAIN answers' /\ \E d \in p.conditions :
               d.source = c.source /\ d.mode = c.mode /\ holds(d, answers'[d.source])
    BY DEF Shown
  <2> HIDE DEF holds
  <2> QED
    BY <2>2, <2>3, <2>4
<1>5. JumpedOver(p)' <=> JumpedOver(p)
  <2> DEFINE over(n, a) ==
        LET jump == resolveJumpTarget(Question(n), a)
        IN  n < p.num /\ jump.target > 0
              /\ (jump.ends \/ jump.target > maxQuestionNum \/ p.num < jump.target)
  <2>1. JumpedOver(p) <=> \E n \in DOMAIN answers : over(n, answers[n])
    BY DEF JumpedOver
  <2>2. JumpedOver(p)' <=> \E n \in DOMAIN answers' : over(n, answers'[n])
    BY <1>1, SurveyFrame DEF JumpedOver
  <2>3. \A a : ~over(q.num, a)
    BY <1>2
  <2> HIDE DEF over
  <2> QED
    BY <1>1, <2>1, <2>2, <2>3
<1>6. Allowed(p)' = Allowed(p)
  <2>1. ASSUME NEW i \in DOMAIN survey.rules, survey.rules[i].target = p.num
        PROVE  ruleTriggered(survey.rules[i])' <=> ruleTriggered(survey.rules[i])
    <3> DEFINE r == survey.rules[i]
    <3>1. r.condition \in Int /\ r.target \in Int
      BY SurveysAssumption DEF Typed
    <3>2. CASE r.condition < r.target
      <4>1. /\ r.condition \in DOMAIN answers' <=> r.condition \in DOMAIN answers
            /\ r.condition \in DOMAIN answers => answers'[r.condition] = answers[r.condition]
        BY <1>3, <2>1, <3>1, <3>2
      <4> QED
        BY <1>1, <4>1 DEF ruleTriggered, Answered
    <3>3. CASE ~(r.condition < r.target)
      BY <1>1, <3>3 DEF ruleTriggered
    <3> QED
      BY <3>2, <3>3
  <2>2. Triggered(p, None)' = Triggered(p, None)
    BY <1>1, <2>1 DEF Triggered
  <2> QED
    BY <1>1, <2>2 DEF Allowed, latestTriggeredRule
<1>7. \A a : Obeys(p, a)' <=> Obeys(p, a)
  BY <1>6 DEF Obeys
<1> QED
  BY <1>4, <1>5, <1>7

-----------------------------------------------------------------------------
(* The invariant is kept                                                   *)

LEMMA InitInv == Init => PlanInv
<1> SUFFICES ASSUME Init PROVE PlanInv
  OBVIOUS
<1>1. /\ survey \in Surveys /\ phase = "validating" /\ left = Numbered /\ jumpTarget = 0
      /\ DOMAIN answers = {} /\ DOMAIN bases = {} /\ pending = {} /\ Passed = {}
  BY DEF Init, Numbered, Passed
<1>2. Typed
  BY <1>1 DEF Typed
<1>3. AnswersSound /\ InOrder /\ PendingMatches /\ RulesObeyed
  BY <1>1 DEF AnswersSound, InOrder, PendingMatches, RulesObeyed
<1>4. \A q \in left : ~JumpedOver(q) /\ ~(q.num < jumpTarget)
  BY <1>1, <1>2, NumsDiffer DEF JumpedOver
<1>5. Journey
  BY <1>1, <1>4 DEF Journey
<1> QED
  BY <1>2, <1>3, <1>5 DEF PlanInv

\* Validation and the ends of the plan change the phase alone.
LEMMA PhaseStep ==
  ASSUME PlanInv, Validate \/ Finish \/ \E q \in left : Reject(q)
  PROVE  PlanInv'
<1>1. UNCHANGED <<survey, left, jumpTarget, answers, bases, pending>>
  BY DEF Validate, Finish, Reject
<1>2. /\ phase' \in {"building", "built", "rejected"}
      /\ phase' = "built" => phase = "building" /\ left = {}
      /\ phase' = "building" =>
           phase = "validating" /\ \A q \in left : LogicSupported(q)
      /\ phase \in {"validating", "building"}
  BY DEF Validate, Finish, Reject, Reached, Asked
<1>3. Typed'
  BY <1>1, <1>2 DEF PlanInv, Typed, Numbered
<1>4. Passed' = Passed /\ Numbered' = Numbered
  BY <1>1 DEF Passed, Numbered
<1>5. AnswersSound'
  BY <1>1, <1>4 DEF PlanInv, AnswersSound
<1>6. InOrder'
  BY <1>1, <1>4 DEF PlanInv, InOrder
<1>7. PendingMatches'
  BY <1>1, SurveyFrame DEF PlanInv, PendingMatches
<1>8. RulesObeyed'
  BY <1>1, <1>4, SurveyFrame, AnswersFrame DEF PlanInv, RulesObeyed, Answered
<1>9. Journey'
  <2> SUFFICES ASSUME PagesInOrder
               PROVE  /\ phase' \in {"building", "built"} =>
                           \A q \in Numbered : LogicSupported(q)
                      /\ phase' \in {"building", "built"} =>
                           \A q \in Passed : q.role = "question" =>
                             (Answered(q.num) <=> Shown(q) /\ ~JumpedOver(q))
                      /\ \A q \in left :
                           JumpedOver(q) <=> (phase' = "built" \/ q.num < jumpTarget)
    BY <1>1, <1>4, SurveyFrame, AnswersFrame DEF Journey, Answered
  <2>1. phase' = "building" => left = Numbered /\ Passed = {}
    BY <1>2 DEF PlanInv, Typed, Passed
  <2>2. phase' = "built" => left = {} /\ phase = "building"
    BY <1>2
  <2>3. \A q \in left : JumpedOver(q) <=> (phase = "built" \/ q.num < jumpTarget)
    BY DEF PlanInv, Journey
  <2> QED
    BY <1>2, <2>1, <2>2, <2>3 DEF PlanInv, Journey
<1> QED
  BY <1>3, <1>5, <1>6, <1>7, <1>8, <1>9 DEF PlanInv

\* What a question that goes behind does to the sets of questions.
LEMMA PassingOn ==
  ASSUME Typed, InOrder, NEW q \in left, q = current,
         survey' = survey, left' = left \ {q}
  PROVE  /\ q \in Numbered /\ Numbered' = Numbered /\ Passed' = Passed \cup {q}
         /\ InOrder'
<1>1. q \in Numbered /\ Numbered' = Numbered /\ Passed' = Passed \cup {q}
  BY DEF Typed, Numbered, Passed
<1>2. \A r \in left : Before(q, r)
  BY CurrentIsFirst
<1>3. InOrder'
  BY <1>1, <1>2 DEF InOrder
<1> QED
  BY <1>1, <1>3

\* A question is passed over because it is none, because a jump leads behind it
\* or because its conditions do not hold.
LEMMA SkipStep ==
  ASSUME PlanInv, NEW q \in left, Skip(q)
  PROVE  PlanInv'
<1>1. /\ UNCHANGED <<survey, phase, answers, bases, pending>>
      /\ phase = "building" /\ q = current /\ left' = left \ {q}
  BY DEF Skip
<1>2. /\ q \in Numbered /\ Numbered' = Numbered /\ Passed' = Passed \cup {q}
      /\ InOrder' /\ Passed \subseteq Numbered
  BY <1>1, PassingOn DEF PlanInv, Passed
<1>3. \/ /\ q.role = "description" \/ q.num < jumpTarget
         /\ jumpTarget' = jumpTarget
      \/ /\ q.num >= jumpTarget /\ ~questionVisible(q)
         /\ jumpTarget' = 0
  BY DEF Skip, Reached
<1>4. jumpTarget \in Nat /\ q.num \in Nat /\ ~Answered(q.num)
  BY <1>2, NumsDiffer, LeftUnanswered DEF PlanInv, Typed
<1>5. Typed'
  BY <1>1, <1>2, <1>3, <1>4 DEF PlanInv, Typed
<1>6. AnswersSound'
  BY <1>1, <1>2 DEF PlanInv, AnswersSound
<1>7. PendingMatches'
  BY <1>1, SurveyFrame DEF PlanInv, PendingMatches
<1>8. RulesObeyed'
  BY <1>1, <1>2, <1>4, SurveyFrame, AnswersFrame DEF PlanInv, RulesObeyed, Answered
<1>9. Journey'
  <2> SUFFICES ASSUME PagesInOrder
               PROVE  /\ \A p \in Numbered : LogicSupported(p)
                      /\ \A p \in Passed \cup {q} : p.role = "question" =>
                           (Answered(p.num) <=> Shown(p) /\ ~JumpedOver(p))
                      /\ \A p \in left \ {q} : JumpedOver(p) <=> p.num < jumpTarget'
    BY <1>1, <1>2, SurveyFrame, AnswersFrame DEF Journey, Answered
  <2>1. /\ \A p \in Numbered : LogicSupported(p)
        /\ \A p \in Passed : p.role = "question" =>
             (Answered(p.num) <=> Shown(p) /\ ~JumpedOver(p))
        /\ \A p \in left : JumpedOver(p) <=> p.num < jumpTarget
    BY <1>1 DEF PlanInv, Journey
  <2>2. q.role = "question" => ~(Shown(q) /\ ~JumpedOver(q))
    <3>1. q.role = "question" => q.num < jumpTarget \/ ~questionVisible(q)
      BY <1>3
    <3>2. questionVisible(q) <=> Shown(q)
      BY <1>2, <2>1, QuestionIs, VisibleIsShown DEF PlanInv, Typed, Numbered
    <3> QED
      BY <2>1, <3>1, <3>2
  <2>3. ASSUME NEW p \in left \ {q} PROVE JumpedOver(p) <=> p.num < jumpTarget'
    <3>1. q.num < p.num /\ p.num \in Nat
      BY <1>1, <1>2, CurrentIsFirst, BeforeIsBelow, NumsDiffer DEF PlanInv, Typed
    <3> QED
      BY <1>3, <1>4, <2>1, <3>1
  <2> QED
    BY <1>4, <2>1, <2>2, <2>3
<1> QED
  BY <1>2, <1>5, <1>6, <1>7, <1>8, <1>9 DEF PlanInv

\* A question is answered: the only step that adds to answers, to reservations
\* and to what is jumped over.
LEMMA AnswerStep ==
  ASSUME PlanInv, NEW q \in left, NEW answer, Gives(q, answer)
  PROVE  PlanInv'
<1> DEFINE jump == resolveJumpTarget(q, answer)
<1>1. /\ survey' = survey /\ left' = left \ {q} /\ q = current
      /\ phase = "building" /\ q.role = "question" /\ q.num >= jumpTarget
      /\ DOMAIN answers' = DOMAIN answers \cup {q.num}
      /\ answers'[q.num] = answer
      /\ \A n \in DOMAIN answers : n # q.num /\ answers'[n] = answers[n]
      /\ jumpTarget' = jump.target
      /\ phase' = IF jumpTarget' > 0 /\ (jump.ends \/ jumpTarget' > maxQuestionNum)
                  THEN "built" ELSE "building"
      /\ Question(q.num) = q /\ WellFormed(q)
  BY AnswerAdds DEF PlanInv
<1>2. /\ Sound(q, answer) /\ Obeys(q, answer) /\ questionVisible(q)
      /\ pending' = pending \cup Reserved(q, answer)
      /\ \A d \in DOMAIN bases' : IsRatio(bases'[d])
  BY DEF Gives
<1>3. /\ q \in Numbered /\ Numbered' = Numbered /\ Passed' = Passed \cup {q}
      /\ InOrder' /\ Passed \subseteq Numbered
  BY <1>1, PassingOn DEF PlanInv, Passed
<1>4. jumpTarget \in Nat /\ q.num \in Nat /\ jump.target \in Nat
  BY <1>1, <1>3, NumsDiffer, JumpIsTyped DEF PlanInv, Typed
<1> HIDE DEF jump
<1>5. Typed'
  <2>1. phase' \in {"building", "built"}
    BY <1>1
  <2> QED
    BY <1>1, <1>2, <1>3, <1>4, <2>1 DEF PlanInv, Typed
<1>6. AnswersSound'
  <2> SUFFICES ASSUME NEW n \in DOMAIN answers'
               PROVE  \E p \in Passed' : p.num = n /\ p.role = "question" /\ Sound(p, answers'[n])
    BY DEF AnswersSound
  <2>1. CASE n = q.num
    BY <1>1, <1>2, <1>3, <2>1
  <2>2. CASE n \in DOMAIN answers
    BY <1>1, <1>3, <2>2 DEF PlanInv, AnswersSound
  <2> QED
    BY <1>1, <2>1, <2>2
<1>7. PendingMatches'
  <2> DEFINE R(n, a) == Reserved(Question(n), a)
  <2>1. pending = UNION {R(n, answers[n]) : n \in DOMAIN answers}
    BY DEF PlanInv, PendingMatches
  <2>2. R(q.num, answer) = Reserved(q, answer)
    BY <1>1
  <2>3. PendingMatches' <=> pending' = UNION {R(n, answers'[n]) : n \in DOMAIN answers'}
    BY <1>1, SurveyFrame DEF PendingMatches
  <2> HIDE DEF R
  <2>4. UNION {R(n, answers'[n]) : n \in DOMAIN answers'}
          = (UNION {R(n, answers[n]) : n \in DOMAIN answers}) \cup R(q.num, answer)
    BY <1>1
  <2> QED
    BY <1>2, <2>1, <2>2, <2>3, <2>4
<1>8. ASSUME PagesInOrder, NEW p \in Passed \cup {q}
      PROVE  /\ p \in Numbered /\ p.num \in Nat /\ p.num <= q.num
             /\ p # q => p.num < q.num /\ (Answered(p.num)' <=> Answered(p.num))
  <2>1. p \in Numbered /\ p.num \in Nat
    BY <1>3, NumsDiffer DEF PlanInv
  <2>2. p # q => p.num < q.num
    BY <1>3, <1>8, BeforeIsBelow DEF PlanInv, InOrder
  <2> QED
    BY <1>1, <1>4, <2>1, <2>2 DEF Answered
<1>9. RulesObeyed'
  <2> SUFFICES ASSUME PagesInOrder, NEW p \in Passed \cup {q}, Answered(p.num)',
                      NEW a, a = answers'[p.num]
               PROVE  Obeys(p, a)'
    BY <1>1, <1>3, SurveyFrame DEF RulesObeyed
  <2>1. Obeys(p, a)' <=> Obeys(p, a)
    BY <1>8, AnswerLeavesBefore DEF PlanInv
  <2>2. CASE p = q
    BY <1>1, <1>2, <2>1, <2>2
  <2>3. CASE p # q
    <3>1. Answered(p.num) /\ a = answers[p.num] /\ p \in Passed
      BY <1>1, <1>8, <2>3 DEF Answered
    <3> QED
      BY <2>1, <3>1 DEF PlanInv, RulesObeyed
  <2> QED
    BY <2>2, <2>3
<1>10. Journey'
  <2> SUFFICES ASSUME PagesInOrder
               PROVE  /\ \A p \in Numbered : LogicSupported(p)
                      /\ \A p \in Passed \cup {q} : p.role = "question" =>
                           (Answered(p.num)' <=> Shown(p)' /\ ~JumpedOver(p)')
                      /\ \A p \in left \ {q} :
                           JumpedOver(p)' <=> (phase' = "built" \/ p.num < jumpTarget')
    BY <1>1, <1>3, SurveyFrame DEF Journey, Answered
  <2>1. /\ \A p \in Numbered : LogicSupported(p)
        /\ \A p \in Passed : p.role = "question" =>
             (Answered(p.num) <=> Shown(p) /\ ~JumpedOver(p))
        /\ \A p \in left : JumpedOver(p) <=> p.num < jumpTarget
    BY <1>1 DEF PlanInv, Journey
  <2>2. ASSUME NEW p \in Passed \cup {q}, p.role = "question"
        PROVE  Answered(p.num)' <=> Shown(p)' /\ ~JumpedOver(p)'
    <3>1. (Shown(p)' <=> Shown(p)) /\ (JumpedOver(p)' <=> JumpedOver(p))
      BY <1>8, <2>1, AnswerLeavesBefore DEF PlanInv
    <3>2. CASE p = q
      <4>1. Answered(q.num)'
        BY <1>1 DEF Answered
      <4>2. Shown(q)
        BY <1>1, <1>2, <1>3, <2>1, VisibleIsShown
      <4>3. ~JumpedOver(q)
        BY <1>1, <1>4, <2>1
      <4> QED
        BY <3>1, <3>2, <4>1, <4>2, <4>3
    <3>3. CASE p # q
      BY <1>8, <2>1, <2>2, <3>1, <3>3
    <3> QED
      BY <3>2, <3>3
  <2>3. ASSUME NEW p \in left \ {q}
        PROVE  JumpedOver(p)' <=> (phase' = "built" \/ p.num < jumpTarget')
    <3>1. q.num < p.num /\ p.num \in Nat /\ p.num > 0
      BY <1>1, <1>3, CurrentIsFirst, BeforeIsBelow, NumsDiffer DEF PlanInv, Typed
    <3>2. ~JumpedOver(p)
      BY <1>1, <1>4, <2>1, <3>1
    <3> DEFINE over(n, a) ==
          LET taken == resolveJumpTarget(Question(n), a)
          IN  n < p.num /\ taken.target > 0
                /\ (taken.ends \/ taken.target > maxQuestionNum \/ p.num < taken.target)
    <3>3. JumpedOver(p) <=> \E n \in DOMAIN answers : over(n, answers[n])
      BY DEF JumpedOver
    <3>4. JumpedOver(p)' <=> \E n \in DOMAIN answers' : over(n, answers'[n])
      BY <1>1, SurveyFrame DEF JumpedOver
    <3>5. over(q.num, answer) <=>
            /\ jump.target > 0
            /\ jump.ends \/ jump.target > maxQuestionNum \/ p.num < jump.target
      BY <1>1, <3>1 DEF jump
    <3> HIDE DEF over
    <3>6. JumpedOver(p)' <=> over(q.num, answer)
      BY <1>1, <3>2, <3>3, <3>4
    <3> QED
      BY <1>1, <1>4, <3>1, <3>5, <3>6
  <2> QED
    BY <2>1, <2>2, <2>3
<1> QED
  BY <1>3, <1>5, <1>6, <1>7, <1>9, <1>10 DEF PlanInv

LEMMA StepInv == PlanInv /\ [Next]_vars => PlanInv'
<1> SUFFICES ASSUME PlanInv, [Next]_vars PROVE PlanInv'
  OBVIOUS
<1>1. CASE Next
  <2>1. Ready
    BY DEF PlanInv, Typed, Numbered, Ready
  <2> QED
    BY <1>1, <2>1, StepDoes, PhaseStep, SkipStep, AnswerStep
<1>2. CASE UNCHANGED vars
  <2>1. UNCHANGED <<survey, phase, left, jumpTarget, answers, bases, pending>>
    BY <1>2 DEF vars
  <2>2. Numbered' = Numbered /\ Passed' = Passed
    BY <2>1 DEF Numbered, Passed
  <2>3. Typed' /\ AnswersSound' /\ InOrder'
    BY <2>1, <2>2 DEF PlanInv, Typed, AnswersSound, InOrder
  <2>4. PendingMatches'
    BY <2>1, SurveyFrame DEF PlanInv, PendingMatches
  <2>5. RulesObeyed' /\ Journey'
    BY <2>1, <2>2, SurveyFrame, AnswersFrame DEF PlanInv, RulesObeyed, Journey, Answered
  <2> QED
    BY <2>3, <2>4, <2>5 DEF PlanInv
<1> QED
  BY <1>1, <1>2

LEMMA PlanInvariant == Spec => []PlanInv
BY InitInv, StepInv, PTL DEF Spec

-----------------------------------------------------------------------------
(* Theorems                                                                *)

\* An answered question is one of the survey, has been passed and is answered
\* with its own options; ratios and reservations stay within theirs.
THEOREM PlanTypeCorrect == Spec => []TypeOK
<1>1. PlanInv => TypeOK
  <2> SUFFICES ASSUME PlanInv PROVE TypeOK
    OBVIOUS
  <2>1. \A n \in DOMAIN answers : \E q \in Passed : q.num = n /\ Sound(q, answers[n])
    BY DEF PlanInv, AnswersSound
  <2>2. Passed \subseteq survey.questions \ left
    BY DEF Passed, Numbered
  <2>3. ASSUME NEW r \in pending PROVE r.option \in 0..(r.count - 1)
    <3>1. PICK n \in DOMAIN answers : r \in Reserved(Question(n), answers[n])
      BY DEF PlanInv, PendingMatches
    <3>2. PICK q \in Passed : q.num = n /\ Sound(q, answers[n])
      BY <2>1
    <3>3. Question(n) = q /\ WellFormed(q)
      BY <2>2, <3>2, QuestionIs DEF PlanInv, Typed
    <3>4. \E row, i : i \in Options(q) /\ r = Reservation(q, row, i)
      <4>1. /\ answers[n].picks \subseteq Options(q)
            /\ \A i \in DOMAIN answers[n].rows : answers[n].rows[i] \in Options(q)
        BY <3>2 DEF Sound
      <4>2. r \in Reserved(q, answers[n])
        BY <3>1, <3>3
      <4> QED
        BY <4>1, <4>2 DEF Reserved
    <3>5. r.option \in Options(q) /\ r.count = Cardinality(Options(q))
      BY <3>4 DEF Reservation
    <3> QED
      BY <3>3, <3>5, OptionsAre
  <2> QED
    BY <2>1, <2>2, <2>3 DEF PlanInv, Typed, TypeOK, Sound, IsRatio, Numbered
<1> QED
  BY <1>1, PlanInvariant, PTL

\* What is answered is what a respondent would see (logic.go:13-62): in a finished
\* plan exactly the questions that are shown by the final answers and that no
\* answer jumps over, for every survey with its pages in question order.
THEOREM AnswersAreJustified == Spec => []JourneyJustified
<1>1. PlanInv => JourneyJustified
  <2> SUFFICES ASSUME PlanInv, phase = "built", PagesInOrder,
                      NEW q \in survey.questions, q.num > 0, q.role = "question"
               PROVE  q.num \in DOMAIN answers <=> Shown(q) /\ ~JumpedOver(q)
    BY DEF JourneyJustified
  <2>1. CASE q \in left
    BY <2>1, LeftUnanswered DEF PlanInv, Journey, Answered
  <2>2. CASE q \notin left
    BY <2>2 DEF PlanInv, Journey, Answered, Passed, Numbered
  <2> QED
    BY <2>1, <2>2
<1> QED
  BY <1>1, PlanInvariant, PTL

\* A multiple answer keeps the limits of its question, whatever the weights and
\* the triggered rules are (selection.go:52-103).
THEOREM MultipleWithinLimits == Spec => []LimitsKept
<1>1. PlanInv => LimitsKept
  <2> SUFFICES ASSUME PlanInv, NEW n \in DOMAIN answers,
                      Question(n).entry.kind = "multiple"
               PROVE  WithinLimits(Question(n), Cardinality(answers[n].picks))
    BY DEF LimitsKept
  <2>1. PICK q \in Passed : q.num = n /\ Sound(q, answers[n])
    BY DEF PlanInv, AnswersSound
  <2>2. Question(n) = q
    BY <2>1, QuestionIs DEF PlanInv, Typed, Passed, Numbered
  <2> QED
    BY <2>1, <2>2 DEF Sound
<1> QED
  BY <1>1, PlanInvariant, PTL

\* The latest triggered rule decides a choice that is neither forced nor leans to
\* a dimension, and no later answer triggers another rule for it
\* (consistency.go:58-71, 134-186).
THEOREM RulesDecide == Spec => []RuleObeyed
<1>1. PlanInv => RuleObeyed
  <2> SUFFICES ASSUME PlanInv, PagesInOrder, NEW n \in DOMAIN answers
               PROVE  Obeys(Question(n), answers[n])
    BY DEF RuleObeyed, Obeys
  <2>1. PICK q \in Passed : q.num = n
    BY DEF PlanInv, AnswersSound
  <2>2. Question(n) = q
    BY <2>1, QuestionIs DEF PlanInv, Typed, Passed, Numbered
  <2> QED
    BY <2>1, <2>2 DEF PlanInv, RulesObeyed, Answered
<1> QED
  BY <1>1, PlanInvariant, PTL

\* The reservations are those of the answers that are submitted, none more and
\* none less (plan.go:76, distribution_runtime.go:166).
THEOREM ReservationsAreAnswers == Spec => []PendingMatches
<1>1. PlanInv => PendingMatches
  BY DEF PlanInv
<1> QED
  BY <1>1, PlanInvariant, PTL

=============================================================================
