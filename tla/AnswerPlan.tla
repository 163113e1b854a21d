----------------------------- MODULE AnswerPlan -----------------------------
(***************************************************************************)
(* How the answers of one submission are made: BuildActionsWithLogic with  *)
(* display conditions, jumps, consistency rules, the choice of options and *)
(* the reservations for the distribution (internal/answerplan).            *)
(*                                                                         *)
(* The questions of one survey are gone through in page order; each answer *)
(* may hide, skip or restrict the ones after it.  Weights matter only by   *)
(* which options have one (positive) and which are certain to be drawn     *)
(* (sure): persona boosts, distribution targets and rank orders multiply   *)
(* positive weights by positive factors.  Options are numbered from 0.     *)
(*                                                                         *)
(* A question is a record [num, page, role, options, rows, forced, min,    *)
(* max, conditions, hasCondition, controls, jumps, hasLogic, parsed,       *)
(* entry]; its strategy entry is [kind, positive, sure, strict, custom,    *)
(* dimension]; controls are the questions it says it shows or hides.       *)
(* forced, min and max are None where the code has nil; kind is "missing"  *)
(* without a strategy and "unknown" for none of the ten kinds; custom says *)
(* that the weights are custom_weights, strict that the mode is "custom".  *)
(***************************************************************************)
EXTENDS Integers, Sequences, FiniteSets, FiniteSetsExt

CONSTANT Surveys   \* records [questions : set, rules : Seq(rule)]

None == -1

\* Weights lie within the options.  The parsers set the flags that make a
\* question one with logic whenever they find a display condition
\* (wjx/metadata.go:154-165, tencent/logic.go:84-92).
WellFormed(q) ==
  /\ q.num \in Int /\ q.page \in Int /\ q.options \in Nat /\ q.rows \in Nat
  /\ q.forced \in Int /\ q.min \in Int /\ q.max \in Int
  /\ q.role \in {"question", "description", "unsupported"}
  /\ \A c \in q.conditions : c.source \in Int
  /\ \A c \in q.controls : c.target \in Int
  /\ q.conditions # {} => q.hasLogic
  /\ q.jumps \in Seq([option : Int, target : Int, ends : BOOLEAN])
  /\ q.entry.positive \subseteq 0..(q.options - 1)
  /\ q.entry.sure \subseteq q.entry.positive
  /\ q.entry.custom => q.entry.strict /\ q.entry.positive # {}

ASSUME SurveysAssumption ==
  \A s \in Surveys :
    /\ \A q, r \in s.questions : q # r => q.num # r.num
    /\ \A q \in s.questions : WellFormed(q)
    /\ \A i \in DOMAIN s.rules :
         s.rules[i].condition \in Int /\ s.rules[i].target \in Int

VARIABLES
  survey,      \* the survey, its strategies and its rules
  phase,       \* "validating", "building", "built" or "rejected"
  left,        \* questions not reached yet
  jumpTarget,
  answers,     \* actions so far: question number -> answer
  bases,       \* options.DimensionBases: dimension -> <<index, steps>>
  pending      \* reservations: [num, row, option, count]

vars == <<survey, phase, left, jumpTarget, answers, bases, pending>>

ChoiceKinds == {"single", "dropdown", "scale", "score"}

Init ==
  /\ survey \in Surveys
  /\ phase = "validating"
  /\ left = {q \in survey.questions : q.num > 0}
  /\ jumpTarget = 0 /\ answers = <<>> /\ bases = <<>> /\ pending = {}

-----------------------------------------------------------------------------
(* Validation (httpLogicFallbackReason)                                    *)

maxQuestionNum == Max({0} \cup {q.num : q \in survey.questions})

Modes == {"selected", "not_selected"}

LogicSupported(q) ==
  q.hasLogic =>
    /\ q.parsed
    /\ \A c \in q.conditions : c.source > 0 /\ c.source < q.num /\ c.mode \in Modes
    /\ \A c \in q.controls : c.target > q.num /\ c.mode \in Modes
    /\ \A i \in DOMAIN q.jumps :
         q.jumps[i].ends \/ (q.jumps[i].target > q.num
                               /\ q.jumps[i].target <= maxQuestionNum + 1)

Validate ==
  /\ phase = "validating"
  /\ phase' = IF \A q \in left : LogicSupported(q) THEN "building" ELSE "rejected"
  /\ UNCHANGED <<survey, left, jumpTarget, answers, bases, pending>>

-----------------------------------------------------------------------------
(* Display conditions and jumps                                            *)

Answered(n) == n \in DOMAIN answers

\* actionSelectedIndices: a matrix counts with the options of its rows.
Selected(answer) ==
  IF answer.rows # <<>> THEN {answer.rows[i] : i \in DOMAIN answer.rows}
  ELSE answer.picks

conditionMet(c) ==
  /\ c.source > 0 /\ Answered(c.source)
  /\ IF c.options = {} THEN c.mode = "selected"
     ELSE LET overlap == Selected(answers[c.source]) \cap c.options # {}
          IN  overlap = (c.mode = "selected")

\* Conditions on one question with one mode are alternatives; all such groups
\* must be met.
questionVisible(q) ==
  LET conditions == {c \in q.conditions : c.source > 0}
  IN  IF conditions = {} THEN ~q.hasCondition
      ELSE \A c \in conditions : \E d \in conditions :
             d.source = c.source /\ d.mode = c.mode /\ conditionMet(d)

\* The rule of a selected option comes first, else the first unconditional one.
resolveJumpTarget(q, answer) ==
  LET chosen == {i \in DOMAIN q.jumps :
                   q.jumps[i].target > 0 /\ q.jumps[i].option \in Selected(answer)}
      always == {i \in DOMAIN q.jumps : q.jumps[i].target > 0 /\ q.jumps[i].option < 0}
  IN  IF chosen # {} THEN q.jumps[Min(chosen)]
      ELSE IF always # {} THEN q.jumps[Min(always)]
      ELSE [option |-> None, target |-> 0, ends |-> FALSE]

-----------------------------------------------------------------------------
(* Consistency rules                                                       *)

\* parseRule, but for the texts.
Valid(r) ==
  /\ r.condition > 0 /\ r.target > 0 /\ r.options # {} /\ r.targets # {}
  /\ r.mode \in Modes /\ r.action \in {"must_select", "must_not_select"}

ruleTriggered(r) ==
  /\ r.condition < r.target /\ Answered(r.condition)
  /\ LET answer == answers[r.condition]
         selected == IF r.conditionRow = None THEN answer.picks
                     ELSE IF r.conditionRow + 1 \in DOMAIN answer.rows
                     THEN {answer.rows[r.conditionRow + 1]} ELSE {}
     IN  /\ selected # {}
         /\ (selected \cap r.options # {}) = (r.mode = "selected")

Triggered(q, row) ==
  {i \in DOMAIN survey.rules :
     LET r == survey.rules[i]
     IN  Valid(r) /\ r.target = q.num /\ r.targetRow = row /\ ruleTriggered(r)}

latestTriggeredRule(q, row) == survey.rules[Max(Triggered(q, row))]

\* A slip: the rule is applied as if it said the opposite.
RuledNegated(S, r) ==
  LET rest == IF r.action = "must_not_select" THEN S \cap r.targets ELSE S \ r.targets
  IN  IF rest = {} THEN S ELSE rest

\* applyRuleToProbabilities: a rule that leaves nothing is not applied.
Ruled(S, r) ==
  LET rest == IF r.action = "must_select" THEN S \cap r.targets ELSE S \ r.targets
  IN  IF rest = {} THEN S ELSE rest

Options(q) == 0..(Max({1, q.options}) - 1)

\* fitProbabilityCount: without a positive weight all options get one.
Fit(S, q) == IF S \cap Options(q) = {} THEN Options(q) ELSE S \cap Options(q)

\* consistency.apply for one choice: a question's weights are ruled as they
\* are, a matrix row's after they have been fitted.
SingleSupport(q) ==
  Fit(IF Triggered(q, None) = {} THEN q.entry.positive
      ELSE Ruled(q.entry.positive, latestTriggeredRule(q, None)), q)

RowSupport(q, row) ==
  LET fitted == Fit(q.entry.positive, q)
  IN  IF Triggered(q, row) = {} THEN fitted
      ELSE Ruled(fitted, latestTriggeredRule(q, row))

\* applyRuleToMultipleProbabilities: a must_select option is sure to be drawn.
RuledMultiple(w, targets, r) ==
  LET ruled == IF r.action = "must_select"
               THEN [positive |-> w.positive \cup targets, sure |-> w.sure \cup targets]
               ELSE [positive |-> w.positive \ targets, sure |-> w.sure \ targets]
  IN  IF targets = {} \/ ruled.positive = {} THEN w ELSE ruled

MultipleWeights(q) ==
  LET raw == [positive |-> q.entry.positive, sure |-> q.entry.sure]
      rule == latestTriggeredRule(q, None)
      weights == IF Triggered(q, None) = {} THEN raw
                 ELSE RuledMultiple(raw, rule.targets \cap Options(q), rule)
  IN  [weights EXCEPT !.positive = Fit(@, q)]

-----------------------------------------------------------------------------
(* Answers of one question                                                 *)

NoRatio == <<>>

\* applyDimensionTendency, generateBaseRatio: the first answer of a dimension
\* sets the ratio its other answers lean to.
Ratios(q, support) ==
  IF q.entry.dimension = "" THEN {NoRatio}
  ELSE IF q.entry.dimension \in DOMAIN bases THEN {bases[q.entry.dimension]}
  ELSE {<<i, Max({1, Max(Options(q))})>> : i \in support}

\* The ratio's option among this question's, rounded half up.
Base(q, ratio) ==
  LET scaled == 2 * ratio[1] * Max({1, Max(Options(q))}) + ratio[2]
  IN  Min({Max(Options(q)), scaled \div (2 * ratio[2])})

\* With up to three options the tendency leaves one, with more it only
\* changes the weights.
Narrowed(q, support, ratio) ==
  IF ratio = NoRatio \/ q.options > 3 THEN support ELSE {Base(q, ratio)}

\* SelectedIndex: custom weights that no rule has replaced come before the
\* weights selectionEntry computed.
Offered(q, support, ratio, replaced) ==
  IF q.entry.custom /\ ~replaced THEN q.entry.positive ELSE Narrowed(q, support, ratio)

Replaced(q, row, weights) ==
  /\ Triggered(q, row) # {}
  /\ LET rule == latestTriggeredRule(q, row)
     IN  IF rule.action = "must_select" THEN weights \cap rule.targets # {}
         ELSE weights \ rule.targets # {} /\ rule.targets \cap Options(q) # {}

Forced(q) == Min({Max({0, q.forced}), Max({0, q.options - 1})})

\* A slip: no upper limit.
MultipleUnlimited(q) ==
  LET w == MultipleWeights(q)
  IN  {S \in SUBSET w.positive : w.sure \subseteq S /\ S # {}}

\* SelectedIndices: every option may be drawn by its own weight; the draw is
\* cut to the upper limit and filled up to the lower one, first with options
\* that have a weight.
Multiple(q) ==
  LET w == MultipleWeights(q)
      n == Cardinality(Options(q))
      hi == IF q.max <= 0 \/ q.max > n THEN n ELSE q.max
      lo == Min({hi, IF q.min <= 0 THEN 1 ELSE q.min})
      drawn == {S \in SUBSET w.positive : w.sure \subseteq S /\ S # {}}
      cut == UNION {IF Cardinality(S) <= hi THEN {S} ELSE kSubset(hi, S) : S \in drawn}
      filled(S) ==
        IF Cardinality(S) >= lo THEN {S}
        ELSE IF Cardinality(w.positive) >= lo
        THEN {T \in kSubset(lo, w.positive) : S \subseteq T}
        ELSE {T \in kSubset(lo, Options(q)) : w.positive \subseteq T}
  IN  UNION {filled(S) : S \in cut}

-----------------------------------------------------------------------------
(* BuildActionsWithLogic                                                   *)

pageOf(q) == Max({1, q.page})

Before(q, r) ==
  pageOf(q) < pageOf(r) \/ (pageOf(q) = pageOf(r) /\ q.num <= r.num)

current == CHOOSE q \in left : \A r \in left : Before(q, r)

Reached(q) ==
  /\ phase = "building" /\ q \in left /\ q = current
  /\ q.role = "question" /\ q.num >= jumpTarget

\* A slip: the target of a jump is skipped as well.
SkipTarget(q) ==
  /\ phase = "building" /\ q \in left /\ q = current /\ q.role # "unsupported"
  /\ left' = left \ {q}
  /\ \/ /\ q.role = "description" \/ q.num <= jumpTarget
        /\ UNCHANGED jumpTarget
     \/ /\ q.role = "question" /\ q.num > jumpTarget /\ ~questionVisible(q)
        /\ jumpTarget' = 0
  /\ UNCHANGED <<survey, phase, answers, bases, pending>>

Skip(q) ==
  /\ phase = "building" /\ q \in left /\ q = current /\ q.role # "unsupported"
  /\ left' = left \ {q}
  /\ \/ /\ q.role = "description" \/ q.num < jumpTarget
        /\ UNCHANGED jumpTarget
     \/ /\ Reached(q) /\ ~questionVisible(q)
        /\ jumpTarget' = 0
  /\ UNCHANGED <<survey, phase, answers, bases, pending>>

Reject(q) ==
  /\ phase = "building" /\ q \in left /\ q = current
  /\ \/ q.role = "unsupported"
     \/ Reached(q) /\ questionVisible(q)
          /\ q.entry.kind \in {"missing", "unknown"}
  /\ phase' = "rejected"
  /\ UNCHANGED <<survey, left, jumpTarget, answers, bases, pending>>

Asked(q, kinds) ==
  /\ Reached(q) /\ questionVisible(q) /\ q.entry.kind \in kinds

Put(f, key, value) ==
  [k \in DOMAIN f \cup {key} |-> IF k = key THEN value ELSE f[k]]

\* The action is kept, and its jump taken.
Answer(q, picks, rows) ==
  LET answer == [picks |-> picks, rows |-> rows]
      jump == resolveJumpTarget(q, answer)
  IN  /\ answers' = Put(answers, q.num, answer)
      /\ left' = left \ {q}
      /\ jumpTarget' = jump.target
      /\ phase' = IF jump.target > 0 /\ (jump.ends \/ jump.target > maxQuestionNum)
                  THEN "built" ELSE "building"
      /\ UNCHANGED survey

Keep(q, ratio) ==
  bases' = IF ratio = NoRatio THEN bases ELSE Put(bases, q.entry.dimension, ratio)

\* selectionEntry's trackDistribution.
Tracked(q) == q.entry.strict \/ q.entry.dimension # ""

Reserve(choices) == pending' = pending \cup choices

Reservation(q, row, i) ==
  [num |-> q.num, row |-> row, option |-> i, count |-> Cardinality(Options(q))]

\* A slip: forced answers are reserved too.
AnswerSingleTracked(q) ==
  /\ Asked(q, ChoiceKinds)
  /\ LET support == SingleSupport(q)
         replaced == Replaced(q, None, q.entry.positive)
     IN  \E ratio \in Ratios(q, support) : \E i \in Offered(q, support, ratio, replaced) :
           LET pick == IF q.forced = None THEN i ELSE Forced(q)
           IN  /\ Answer(q, {pick}, <<>>)
               /\ Keep(q, ratio)
               /\ Reserve(IF Tracked(q) THEN {Reservation(q, None, pick)} ELSE {})

AnswerSingle(q) ==
  /\ Asked(q, ChoiceKinds)
  /\ LET support == SingleSupport(q)
         replaced == Replaced(q, None, q.entry.positive)
     IN  \E ratio \in Ratios(q, support) : \E i \in Offered(q, support, ratio, replaced) :
           /\ Answer(q, {IF q.forced = None THEN i ELSE Forced(q)}, <<>>)
           /\ Keep(q, ratio)
           /\ Reserve(IF Tracked(q) /\ q.forced = None
                      THEN {Reservation(q, None, i)} ELSE {})

\* Rows are numbered from 0; the first one sets the ratio.
AnswerMatrix(q) ==
  /\ Asked(q, {"matrix"})
  /\ LET rows == 0..(Max({1, q.rows}) - 1)
         weights == Fit(q.entry.positive, q)
         replaced == \E row \in rows : Replaced(q, row, weights)
     IN  \E ratio \in Ratios(q, RowSupport(q, 0)) :
         \E chosen \in [1..Cardinality(rows) -> Options(q)] :
           /\ \A row \in rows :
                chosen[row + 1] \in Offered(q, RowSupport(q, row), ratio, replaced)
           /\ Answer(q, {}, chosen)
           /\ Keep(q, ratio)
           /\ Reserve(IF Tracked(q)
                      THEN {Reservation(q, row, chosen[row + 1]) : row \in rows} ELSE {})

AnswerMultiple(q) ==
  /\ Asked(q, {"multiple"})
  /\ \E picks \in Multiple(q) : Answer(q, picks, <<>>)
  /\ UNCHANGED <<bases, pending>>

\* An order question lists all its options; a slider or a text has none.
AnswerOther(q) ==
  /\ Asked(q, {"order", "slider", "text"})
  /\ Answer(q, IF q.entry.kind = "order" THEN Options(q) ELSE {}, <<>>)
  /\ UNCHANGED <<bases, pending>>

Finish ==
  /\ phase = "building" /\ left = {}
  /\ phase' = "built"
  /\ UNCHANGED <<survey, left, jumpTarget, answers, bases, pending>>

Next ==
  \/ Validate
  \/ \E q \in left : \/ Skip(q) \/ Reject(q)
                      \/ AnswerSingle(q) \/ AnswerMatrix(q)
                      \/ AnswerMultiple(q) \/ AnswerOther(q)
  \/ Finish

Spec == Init /\ [][Next]_vars

-----------------------------------------------------------------------------
(* Properties                                                              *)

Question(n) == CHOOSE q \in survey.questions : q.num = n

\* Every variable of the planning stays in its type; an answered question is
\* one of the survey and answered with its own options.
TypeOK ==
  /\ survey \in Surveys
  /\ phase \in {"validating", "building", "built", "rejected"}
  /\ left \subseteq survey.questions
  /\ jumpTarget \in Nat
  /\ \A n \in DOMAIN answers : \E q \in survey.questions \ left :
       /\ q.num = n
       /\ answers[n].picks \subseteq Options(q)
       /\ \A i \in DOMAIN answers[n].rows : answers[n].rows[i] \in Options(q)
  /\ \A d \in DOMAIN bases :
       bases[d] \in Nat \X (Nat \ {0}) /\ bases[d][1] <= bases[d][2]
  /\ \A r \in pending : r.option \in 0..(r.count - 1)

\* The display conditions of q by the answers given: for each source question
\* and mode, one of the conditions with them holds.
Shown(q) ==
  /\ q.hasCondition => q.conditions # {}
  /\ \A c \in q.conditions : c.source \in DOMAIN answers /\ \E d \in q.conditions :
       /\ d.source = c.source /\ d.mode = c.mode
       /\ LET hit == Selected(answers[d.source]) \cap d.options # {}
          IN  IF d.mode = "selected" THEN hit \/ d.options = {}
              ELSE ~hit /\ d.options # {}

\* q lies behind a jump that an answer has taken.
JumpedOver(q) ==
  \E n \in DOMAIN answers :
    LET jump == resolveJumpTarget(Question(n), answers[n])
    IN  n < q.num /\ jump.target > 0
          /\ (jump.ends \/ jump.target > maxQuestionNum \/ q.num < jump.target)

PagesInOrder ==
  \A q, r \in survey.questions : q.num < r.num => pageOf(q) <= pageOf(r)

\* What is answered is what a respondent would see: with pages in question
\* order, a finished plan has an answer for exactly the questions whose display
\* conditions hold by the final answers and that no answer jumps over.
JourneyJustified ==
  phase = "built" /\ PagesInOrder =>
    \A q \in survey.questions : q.num > 0 /\ q.role = "question" =>
      (q.num \in DOMAIN answers <=> Shown(q) /\ ~JumpedOver(q))

\* The limits of a question, as far as its options allow them.
WithinLimits(q, size) ==
  /\ size >= 1
  /\ q.max >= 1 => size <= q.max
  /\ q.min <= q.options /\ (q.max >= 1 => q.min <= q.max) => size >= q.min

\* A multiple answer keeps the limits of its question, whatever the weights and
\* rules are.
LimitsKept ==
  \A n \in DOMAIN answers :
    Question(n).entry.kind = "multiple" =>
      WithinLimits(Question(n), Cardinality(answers[n].picks))

\* What the latest triggered rule allows of q's options; all of them without.
Allowed(q) ==
  IF Triggered(q, None) = {} THEN Options(q)
  ELSE LET rule == latestTriggeredRule(q, None)
       IN  IF rule.action = "must_select" THEN rule.targets ELSE Options(q) \ rule.targets

\* The latest triggered rule decides a single choice that is neither forced nor
\* leans to a dimension, if some allowed option has a weight.  Pages are in
\* question order: a rule whose condition comes on a later page is too late.
RuleObeyed ==
  PagesInOrder => \A n \in DOMAIN answers :
    LET q == Question(n)
    IN  q.entry.kind \in ChoiceKinds /\ q.forced = None /\ q.entry.dimension = ""
          /\ q.entry.positive \cap Allowed(q) # {}
        => answers[n].picks \subseteq Allowed(q)

\* The reservations that belong to an answer.
Reserved(q, answer) ==
  IF ~(q.entry.strict \/ q.entry.dimension # "") THEN {}
  ELSE IF q.entry.kind \in ChoiceKinds /\ q.forced = None
  THEN {Reservation(q, None, i) : i \in answer.picks}
  ELSE {Reservation(q, i - 1, answer.rows[i]) : i \in DOMAIN answer.rows}

\* The reservations are the answers of the tracked questions, each once and
\* with the option that is submitted.
PendingMatches ==
  pending = UNION {Reserved(Question(n), answers[n]) : n \in DOMAIN answers}

\* distribution.go:35: the caller selects from the weights that selectionEntry
\* leaves.  Where a dimension leaves one option, that is the answer.
TendencyKept ==
  \A n \in DOMAIN answers :
    LET q == Question(n)
    IN  q.entry.kind \in ChoiceKinds /\ q.forced = None /\ q.options \in 1..3
          /\ q.entry.dimension # ""
        => answers[n].picks = {Base(q, bases[q.entry.dimension])}

=============================================================================
