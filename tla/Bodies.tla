------------------------------- MODULE Bodies -------------------------------
(***************************************************************************)
(* How the planned answers of one submission become a request body:        *)
(* wjx/answer.go (one string whose separators may also occur in a text),   *)
(* tencent/submit_body.go and credamo/answer.go (nested JSON).             *)
(*                                                                         *)
(* A question of a platform is [num, id, kind, options, rows, page, sort,  *)
(* description]; a plan maps the numbers of the answered questions to      *)
(* actions [id, kind, picks, matrix, texts, fills]: option indexes from 0  *)
(* in the order chosen, one index per matrix row, one text per blank, and  *)
(* fills maps picked options to the text typed beside them.  A text is a   *)
(* sequence of characters; the wjx string is a sequence of tokens.  An     *)
(* error is the body Refused.                                              *)
(***************************************************************************)
EXTENDS Integers, Sequences, FiniteSets, FiniteSetsExt, SequencesExt, TLC

Refused == <<>>

AtLeastOne(n) == IF n < 1 THEN 1 ELSE n

ChoiceKinds == {"single", "multiple"}

Joined(parts, separator) ==
  IF parts = <<>> THEN <<>>
  ELSE Tail(FlattenSeq([i \in DOMAIN parts |-> <<separator>> \o parts[i]]))

Repeated(n, part) == [i \in 1..n |-> part]

Fill(a, pick) == IF pick \in DOMAIN a.fills THEN a.fills[pick] ELSE <<>>

-----------------------------------------------------------------------------
(* wjx                                                                     *)

Separators == {"$", "}", "^", "|", "!", "<"}

\* A plausible slip: the separator between blanks is left alone.
EscapeBar(text) ==
  [i \in DOMAIN text |-> IF text[i] \in Separators \ {"^"} THEN "wide " \o text[i] ELSE text[i]]

escapeWJXSubmitText(text) ==
  [i \in DOMAIN text |-> IF text[i] \in Separators THEN "wide " \o text[i] ELSE text[i]]

PickAnswer(a, pick) ==
  <<ToString(pick + 1)>> \o
  (IF Fill(a, pick) = <<>> THEN <<>> ELSE <<"^">> \o escapeWJXSubmitText(Fill(a, pick)))

actionAnswer(a) ==
  CASE a.kind \in ChoiceKinds ->
         Joined([i \in DOMAIN a.picks |-> PickAnswer(a, a.picks[i])], "|")
    [] a.kind = "matrix" ->
         Joined([r \in DOMAIN a.matrix |-> <<ToString(r), "!", ToString(a.matrix[r] + 1)>>], ",")
    [] a.kind = "text" ->
         Joined([i \in DOMAIN a.texts |-> escapeWJXSubmitText(a.texts[i])], "^")
    [] a.kind = "slider" -> a.texts[1]
    [] a.kind = "order" -> Joined([i \in DOMAIN a.picks |-> <<ToString(a.picks[i] + 1)>>], ",")
    [] OTHER -> Refused

\* A question the logic skipped still has its place in the string.
skippedSubmitDataAnswer(q) ==
  CASE q.kind \in ChoiceKinds -> <<"-3">>
    [] q.kind = "order"   -> Joined(Repeated(AtLeastOne(q.options), <<"-3">>), ",")
    [] q.kind = "matrix"  ->
         Joined([r \in 1..AtLeastOne(q.rows) |-> <<ToString(r), "!", "-3">>], ",")
    [] q.kind \in {"text", "slider"} -> <<"(skipped)">>
    [] OTHER -> Refused

Narrow(text) == ReplaceAll(text, "wide ,", ",")

buildSubmitData(questions, plan) ==
  LET descriptions == {q.num : q \in {r \in questions : r.description}}
      asked        == {q \in questions : ~q.description /\ q.num > 0}
      Question(n)  == CHOOSE q \in asked : q.num = n
      Answer(n)    == IF n \in DOMAIN plan THEN actionAnswer(plan[n])
                      ELSE skippedSubmitDataAnswer(Question(n))
      nums == {q.num : q \in asked} \cup (DOMAIN plan \ descriptions)
      ordered == SetToSortSeq(nums, <)
  IN  IF \E n \in nums : Answer(n) = Refused THEN Refused
      ELSE Narrow(Joined([i \in DOMAIN ordered |->
                            <<ToString(ordered[i]), "$">> \o Answer(ordered[i])], "}"))

-----------------------------------------------------------------------------
(* tencent                                                                 *)

tencentKinds == {"single", "multiple", "text", "matrix"}

tencentMatrix(q, a) ==
  LET Index(r) == IF r \in DOMAIN a.matrix THEN a.matrix[r] ELSE 0
  IN  IF q.rows = 0 \/ q.options = 0 \/ (\E r \in 1..q.rows : Index(r) \notin 0..(q.options - 1))
      THEN Refused
      ELSE [r \in 1..q.rows |-> [id |-> <<q.id, r, Index(r)>>]]

\* An index beyond the options of the platform checks nothing.
tencentChoice(q, a) ==
  IF q.options = 0 THEN Refused
  ELSE <<[id |-> q.id,
          checked |-> [i \in 0..(q.options - 1) |-> i \in Range(a.picks)],
          blanks  |-> [i \in {j \in 0..(q.options - 1) :
                                j \in Range(a.picks) /\ Fill(a, j) # <<>>} |-> Fill(a, i)]]>>

questionAnswer(q, a) ==
  CASE q.kind = "text"   -> <<[id |-> q.id, text |-> Joined(a.texts, "newline")]>>
    [] q.kind = "matrix" -> tencentMatrix(q, a)
    [] OTHER             -> tencentChoice(q, a)

\* raw: the questions as the platform lists them; pages in order of appearance.
buildSubmitBody(raw, plan) ==
  LET Planned(q) == {n \in DOMAIN plan : plan[n].id = q.id}
      answered   == SelectSeq(raw, LAMBDA q : Planned(q) # {})
      Answer(q)  == questionAnswer(q, plan[Max(Planned(q))])
      OnPage(p)  == SelectSeq(answered, LAMBDA q : q.page = p)
      Opens(i)   == \A j \in 1..(i - 1) : answered[j].page # answered[i].page
      openers    == SetToSortSeq({i \in DOMAIN answered : Opens(i)}, <)
      Page(p)    == [id |-> p,
                     questions |-> FlattenSeq([k \in DOMAIN OnPage(p) |-> Answer(OnPage(p)[k])])]
  IN  IF \/ \E q \in Range(raw) : ~q.description /\ q.kind \notin tencentKinds
         \/ \E q \in Range(answered) : q.page = 0 \/ Answer(q) = Refused
      THEN Refused
      ELSE [i \in DOMAIN openers |-> Page(answered[openers[i]].page)]

-----------------------------------------------------------------------------
(* credamo                                                                 *)

credamoChoice(q, a) ==
  LET first == IF a.picks = <<>> THEN 0 ELSE a.picks[1]
      used  == IF q.kind = "multiple" \/ a.kind = "multiple" THEN a.picks ELSE <<first>>
  IN  IF q.options = 0 \/ (\E i \in Range(used) : i \notin 0..(q.options - 1)) THEN Refused
      ELSE IF q.kind = "multiple" \/ a.kind = "multiple" THEN <<[list |-> used]>>
      ELSE <<[choice |-> first, fill |-> Fill(a, first)]>>

credamoText(a) ==
  <<[content |-> IF a.texts = <<>> \/ a.texts[1] = <<>> THEN <<"none">> ELSE a.texts[1]]>>

credamoMatrix(q, a) ==
  IF \/ q.rows = 0 \/ q.options = 0
     \/ \E r \in 1..q.rows : r \notin DOMAIN a.matrix \/ a.matrix[r] \notin 0..(q.options - 1)
  THEN Refused
  ELSE <<[rows |-> SubSeq(a.matrix, 1, q.rows)]>>

\* Without picks the options keep their order.
credamoOrder(q, a) ==
  LET ranked == IF a.picks = <<>> THEN [i \in 1..q.options |-> i - 1] ELSE a.picks
  IN  IF q.options = 0 \/ (\E i \in Range(ranked) : i \notin 0..(q.options - 1)) THEN Refused
      ELSE <<[ranked |-> ranked]>>

buildAnswerItem(q, a) ==
  CASE q.kind = "text"    -> credamoText(a)
    [] q.kind \in ChoiceKinds -> credamoChoice(q, a)
    [] q.kind = "matrix"  -> credamoMatrix(q, a)
    [] q.kind = "order"   -> credamoOrder(q, a)
    [] OTHER              -> Refused

\* Every answerable question needs an action, a hidden one too.
buildAnswerItems(raw, plan) ==
  LET asked == SelectSeq(raw, LAMBDA q : ~q.description)
      ById(q) == {n \in DOMAIN plan : plan[n].id = q.id}
      Found(q) == IF ById(q) # {} THEN ById(q) ELSE {q.num} \cap DOMAIN plan
      Item(q) == buildAnswerItem(q, plan[Max(Found(q))])
      Sooner(i, j) == \/ asked[i].sort < asked[j].sort
                      \/ asked[i].sort = asked[j].sort /\ i < j
      ordered == SetToSortSeq(DOMAIN asked, Sooner)
  IN  IF \E q \in Range(asked) : Found(q) = {} \/ Item(q) = Refused THEN Refused
      ELSE [i \in DOMAIN ordered |-> <<asked[ordered[i]].id>> \o Item(asked[ordered[i]])]

=============================================================================
