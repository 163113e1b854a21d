---------------------------- MODULE MCAnswerPlan ----------------------------
(***************************************************************************)
(* Surveys that bring each mechanism of AnswerPlan.tla to meet the others. *)
(***************************************************************************)
EXTENDS AnswerPlan

Entry(kind, positive) ==
  [kind |-> kind, positive |-> positive, sure |-> {}, strict |-> FALSE,
   custom |-> FALSE, dimension |-> ""]

Plain(num, kind, options, positive) ==
  [num |-> num, page |-> 1, role |-> "question", options |-> options, rows |-> 0,
   forced |-> None, min |-> None, max |-> None, conditions |-> {}, controls |-> {},
   hasCondition |-> FALSE, jumps |-> <<>>, hasLogic |-> FALSE, parsed |-> TRUE,
   entry |-> Entry(kind, positive)]

When(source, mode, options) == [source |-> source, mode |-> mode, options |-> options]

Showing(q, conditions) ==
  [q EXCEPT !.conditions = conditions, !.hasCondition = TRUE, !.hasLogic = TRUE]

\* q shows the targets, as the parsers note on the sources of conditions.
Controlling(q, targets) ==
  [q EXCEPT !.controls = {[target |-> n, mode |-> "selected"] : n \in targets},
            !.hasLogic = TRUE]

Jump(option, target, ends) == [option |-> option, target |-> target, ends |-> ends]

Jumping(q, jumps) == [q EXCEPT !.jumps = jumps, !.hasLogic = TRUE]

Rule(condition, mode, options, target, action, targets) ==
  [condition |-> condition, conditionRow |-> None, mode |-> mode, options |-> options,
   target |-> target, targetRow |-> None, action |-> action, targets |-> targets]

Survey(questions, rules) == [questions |-> questions, rules |-> rules]

\* Conditions on single, multiple and matrix answers, over two pages, among
\* jumps by option, always, to the last question and to the end.
LogicSurvey == Survey({
  Jumping(Controlling(Plain(1, "single", 4, {0, 1, 2, 3}), {2}),
          <<Jump(0, 4, FALSE), Jump(None, 3, FALSE), Jump(1, 2, FALSE), Jump(2, 9, TRUE)>>),
  Showing(Plain(2, "multiple", 3, {0, 1, 2}), {When(1, "selected", {1})}),
  [Showing(Plain(3, "matrix", 2, {0, 1}),
           {When(1, "not_selected", {0}), When(1, "not_selected", {3})})
     EXCEPT !.rows = 2, !.page = 2],
  [Showing(Jumping(Plain(4, "scale", 2, {0, 1}), <<Jump(1, 6, FALSE)>>),
           {When(2, "selected", {0}), When(2, "selected", {2}), When(1, "not_selected", {2})})
     EXCEPT !.page = 2],
  [Showing(Plain(5, "text", 0, {}), {When(3, "selected", {1})}) EXCEPT !.page = 2],
  [Plain(6, "order", 2, {}) EXCEPT !.page = 2],
  [Jumping(Plain(7, "slider", 0, {}), <<Jump(None, 9, FALSE)>>) EXCEPT !.page = 3],
  [Plain(8, "text", 0, {}) EXCEPT !.page = 3, !.role = "description"]}, <<>>)

\* Rules between multiple, single and matrix questions; the later rule wins.
RuleSurvey == Survey({
  [Plain(1, "multiple", 4, {0, 1, 2}) EXCEPT !.min = 2, !.max = 3, !.entry.sure = {0}],
  Plain(2, "single", 3, {0, 1}),
  [Plain(3, "multiple", 3, {0}) EXCEPT !.min = 3, !.max = 2],
  [Plain(4, "matrix", 3, {}) EXCEPT !.rows = 2],
  Plain(5, "dropdown", 3, {0, 1, 2})},
  <<Rule(1, "selected", {1}, 2, "must_not_select", {0}),
    Rule(1, "selected", {2}, 2, "must_select", {0, 2}),
    Rule(1, "not_selected", {2}, 3, "must_select", {1}),
    Rule(2, "selected", {0}, 3, "must_not_select", {0}),
    [Rule(2, "selected", {1}, 4, "must_select", {2}) EXCEPT !.targetRow = 1],
    [Rule(4, "selected", {2}, 5, "must_not_select", {0, 2}) EXCEPT !.conditionRow = 1],
    Rule(5, "selected", {0}, 1, "must_select", {3})>>)

Leaning(q, dimension) == [q EXCEPT !.entry.dimension = dimension]

Custom(q) == [q EXCEPT !.entry.strict = TRUE, !.entry.custom = TRUE]

\* Dimensions over scales of different lengths, forced and custom answers.
DimensionSurvey == Survey({
  Leaning([Plain(1, "scale", 3, {0, 1, 2}) EXCEPT !.forced = 7], "d"),
  Leaning([Plain(2, "matrix", 2, {0, 1}) EXCEPT !.rows = 2], "d"),
  Leaning(Plain(3, "score", 5, {1, 3, 4}), "d"),
  Custom(Plain(4, "single", 3, {0, 2})),
  Custom([Plain(5, "dropdown", 2, {0, 1}) EXCEPT !.forced = 1]),
  Leaning([Plain(6, "single", 2, {0, 1}) EXCEPT !.entry.strict = TRUE], "e")}, <<>>)

\* Plans that end in an error: before the first question or at a later one.
RejectedSurveys == {
  Survey({Plain(1, "single", 2, {0}), Showing(Plain(2, "text", 0, {}), {When(3, "selected", {0})}),
          Plain(3, "single", 2, {0})}, <<>>),
  Survey({Plain(1, "single", 2, {0}), Jumping(Plain(2, "single", 2, {1}), <<Jump(1, 2, FALSE)>>)}, <<>>),
  Survey({Plain(1, "single", 2, {0}), Controlling(Plain(2, "single", 2, {1}), {1})}, <<>>),
  Survey({Custom(Plain(1, "single", 2, {0, 1})), Plain(2, "missing", 2, {})}, <<>>),
  Survey({Plain(1, "single", 2, {0, 1}), Showing(Plain(2, "unknown", 2, {}), {When(1, "selected", {0})})}, <<>>),
  Survey({Jumping(Plain(1, "single", 2, {0, 1}), <<Jump(0, 3, FALSE)>>),
          [Plain(2, "text", 0, {}) EXCEPT !.role = "unsupported"]}, <<>>)}

MCSurveys == {LogicSurvey, RuleSurvey, DimensionSurvey} \cup RejectedSurveys

\* The strategy defaults.go gives a score question, put into a dimension.
MCCustomDimension ==
  {Survey({Leaning(Custom(Plain(1, "score", 3, {0, 1, 2})), "d"),
           Leaning(Custom(Plain(2, "score", 3, {0, 1, 2})), "d"),
           Plain(3, "text", 0, {})}, <<>>)}

=============================================================================
