------------------------------- MODULE MCData -------------------------------
(***************************************************************************)
(* Four parts without actors of their own, each explored from its own      *)
(* initial states: quota reports applied to a session, the weights of a    *)
(* question while answers are counted, the request bodies of one survey,   *)
(* and the configuration file.                                             *)
(***************************************************************************)
EXTENDS QuotaLaws, ConfigStore, Correction

VARIABLES
  subject,    \* which of the four this behaviour is about
  plan        \* answers of one submission

B == INSTANCE Bodies

-----------------------------------------------------------------------------
(* The strategies: even, skewed, excluding and negative weights, once as a *)
(* ratio to be kept and once as weights alone; a persona; a dimension's    *)
(* base.                                                                   *)

Entry(mode, custom, rows) ==
  [kind |-> "single", mode |-> mode, options |-> custom, rows |-> rows,
   custom |-> custom, customRows |-> <<>>]

MCCases ==
  [e : {Entry(mode, w, rows) : mode \in {"custom", "random"},
          w \in {<<1, 1, 1, 1>>, <<5, 3, 1, 1>>, <<0, 2, 1>>, <<-1, 2, 1, 1>>},
          rows \in {<<>>, <<<<>>, <<1, 0, 0, 2>>>>}},
   row : {0, 2}, named : {{}, {2}}, base : {0, 3}]

-----------------------------------------------------------------------------
(* One survey and the plans for it: texts may hold every character that a  *)
(* platform's body gives a meaning to or is given one for, as typed on a   *)
(* keyboard or in its wide form, and the words that stand for no answer.   *)

Questions ==
  {[num |-> n, id |-> n, kind |-> <<"single", "multiple", "text", "matrix">>[n],
    options |-> 2, rows |-> IF n = 4 THEN 2 ELSE 0, page |-> 1 + n \div 3, sort |-> 5 - n,
    description |-> FALSE] : n \in 1..4}

Raw == [n \in 1..4 |-> CHOOSE q \in Questions : q.num = n]

Widened == B!Separators \cup {","}

Wide(c) == "wide " \o c

Skipped == <<"(skipped)">>

Texts == {<<"x">>, Skipped} \cup
         {<<"x", c, "x">> : c \in Widened \cup {Wide(c) : c \in Widened} \cup {"newline"}}

Action(n, picks, matrix, texts, fills) ==
  [id |-> n, kind |-> <<"single", "multiple", "text", "matrix">>[n], picks |-> picks,
   matrix |-> matrix, texts |-> texts, fills |-> fills]

Singles ==
  {Action(1, <<0>>, <<>>, <<>>, [i \in {0} |-> t]) : t \in Texts \cup {<<>>}}
  \cup {Action(1, <<1>>, <<>>, <<>>, <<>>)}

Multiples ==
  UNION {{Action(2, picks, <<>>, <<>>, fills) :
            fills \in {<<>>} \cup UNION {[{i} -> Texts] : i \in Range(picks)}} :
         picks \in {<<0>>, <<1>>, <<0, 1>>}}

\* One blank, or two of which the second is plain or holds what may join blanks.
Blanks ==
  {Action(3, <<>>, <<>>, <<t>>, <<>>) : t \in Texts} \cup
  {Action(3, <<>>, <<>>, <<t, u>>, <<>>) :
     t \in Texts, u \in {<<"x">>, <<"x", "^", "x">>, <<"x", "newline", "x">>}}

Matrices == {Action(4, <<>>, m, <<>>, <<>>) : m \in {<<0, 0>>, <<0, 1>>, <<1, 0>>}}

Base == [n \in 1..4 |->
           CASE n = 1 -> Action(1, <<1>>, <<>>, <<>>, <<>>)
             [] n = 2 -> Action(2, <<0>>, <<>>, <<>>, <<>>)
             [] n = 3 -> Action(3, <<>>, <<>>, <<<<"x">>>>, <<>>)
             [] OTHER -> Action(4, <<>>, <<0, 1>>, <<>>, <<>>)]

\* Plans that differ from Base in one question, or leave one out.
Plans ==
  {[Base EXCEPT ![a.id] = a] : a \in Singles \cup Multiples \cup Blanks \cup Matrices}
  \cup {[m \in (1..4) \ {n} |-> Base[m]] : n \in 1..4}

\* A text in which wide and narrow forms are not told apart.
OneWidth(text) ==
  [i \in DOMAIN text |-> IF \E c \in Widened : text[i] = Wide(c)
                         THEN CHOOSE c \in Widened : text[i] = Wide(c) ELSE text[i]]

\* The texts beside the options picked.
Beside(a) == [i \in {k \in Range(a.picks) : B!Fill(a, k) # <<>>} |-> B!Fill(a, i)]

\* What can be told to a platform of a plan.  To wjx: all of it, but for the width
\* of its separators and commas, and its words for a skipped question are no text.
ToldWjx(p) ==
  LET answered == {n \in DOMAIN p : p[n].texts # <<Skipped>>}
  IN  [n \in answered |->
         <<p[n].picks, p[n].matrix, [i \in DOMAIN p[n].texts |-> OneWidth(p[n].texts[i])],
           [i \in DOMAIN Beside(p[n]) |-> OneWidth(Beside(p[n])[i])]>>]

\* To tencent: all of it, but for where in a text one blank ends.
ToldTencent(p) ==
  [n \in DOMAIN p |->
     <<Range(p[n].picks), p[n].matrix, B!Joined(p[n].texts, "newline"), Beside(p[n])>>]

\* To credamo: the text of the first blank, and of what is beside the options only
\* that of a single choice.
ToldCredamo(p) ==
  [n \in DOMAIN p |->
     <<p[n].picks, p[n].matrix, IF p[n].texts = <<>> THEN <<>> ELSE Head(p[n].texts),
       IF p[n].kind = "single" THEN Beside(p[n]) ELSE <<>>>>]

Carried(platform, p) ==
  CASE platform = "wjx" -> ToldWjx(p) [] platform = "tencent" -> ToldTencent(p) [] OTHER -> ToldCredamo(p)

Body(platform, p) ==
  CASE platform = "wjx"     -> B!buildSubmitData(Questions, p)
    [] platform = "tencent" -> B!buildSubmitBody(Raw, p)
    [] OTHER                -> B!buildAnswerItems(Raw, p)

Look(platform, p) == [body |-> Body(platform, p), carried |-> Carried(platform, p)]

-----------------------------------------------------------------------------
(* The configuration file.                                                 *)

Weighted(options) == [options |-> options, rows |-> <<>>]

Strategy(options) ==
  [kind |-> "single", mode |-> "custom", probabilities |-> Weighted(<<>>), custom |-> Weighted(options)]

Request(target) ==
  [provider |-> "", definitionProvider |-> "qq", execution |-> [target |-> target],
   reverseFill |-> [enabled |-> FALSE], psychometrics |-> [enabled |-> FALSE],
   dimensions |-> <<>>, answers |-> {Strategy(<<1, target>>)}]

Document(target) == ConfigDocumentFromRunRequest(Request(target))

MCDocuments == [s \in Savers |-> Document(Cardinality(Savers) + (IF s = CHOOSE x \in Savers : TRUE THEN 1 ELSE 2))]

OldWeights ==
  List(<<[kind |-> "single", mode |-> "random", probabilities |-> List(<<0, 0>>),
            custom |-> Table(Weighted(<<>>))]>>)

Legacy(fields) == [is |-> "legacy", value |-> fields]

Old ==
  [name \in {"url", "target", "answer_duration", "random_ua_ratios", "dimension_groups"} |->
     CASE name = "url" -> Word("credamo")
       [] name = "target" -> Numeral(0)
       [] name = "answer_duration" -> List(<<Number(2000), Number(100)>>)
       [] name = "random_ua_ratios" ->
            Table([a \in Agents |-> Number(IF a = "pc" THEN 100 ELSE 0)])
       [] OTHER -> List(<<Word("d"), Word(""), Word("d"), Word("e")>>)]

MCBefore ==
  {[is |-> k] : k \in {"absent", "blank", "torn"}}
  \cup {Legacy(Old), Legacy([f \in {"random_proxy_api"} |-> Word("old")]),
        Legacy([f \in {"question_entries"} |-> OldWeights])}
  \cup {[is |-> "v2", value |-> d] :
          d \in {Document(0), [Document(0) EXCEPT !.unknownFields = TRUE],
                 [Document(0) EXCEPT !.version = 3]}}

-----------------------------------------------------------------------------
NoEntry == [e |-> Entry("random", <<>>, <<>>), row |-> 0, named |-> {}, base |-> 0]

MCInit ==
  /\ subject \in {"quota", "weights", "bodies", "config"}
  /\ QuotaInit /\ (subject # "quota" => balance.user = 0)
  /\ entry \in IF subject = "weights" THEN Cases ELSE {NoEntry}
  /\ counts = NoCounts
  /\ plan \in IF subject = "bodies" THEN Plans ELSE {Base}
  /\ Init /\ (subject # "config" => before = Absent)

MCNext ==
  \/ subject = "quota" /\ QuotaNext /\ UNCHANGED <<subject, question, plan, vars>>
  \/ subject = "weights" /\ Draw /\ UNCHANGED <<subject, quotaVars, plan, vars>>
  \/ subject = "config" /\ Next /\ UNCHANGED <<subject, question, plan, quotaVars>>

MCSpec == MCInit /\ [][MCNext]_<<subject, quotaVars, question, plan, vars>>

-----------------------------------------------------------------------------
(* Properties                                                              *)

\* The request bodies (wjx/answer.go:43, submit_body.go:12, credamo/answer.go:11):
\* two plans for one survey look the same to a platform exactly when they agree
\* in everything it is told, whatever the texts hold; wjx and tencent refuse no
\* plan.  ToldWjx, ToldTencent and ToldCredamo say what is told: all but the width
\* of some signs, a newline between blanks and the fill texts credamo drops.
BodyFaithful ==
  subject = "bodies" =>
    \A platform \in {"wjx", "tencent", "credamo"} :
      LET look == Look(platform, plan)
      IN  /\ platform # "credamo" => look.body # B!Refused
          /\ look.body # B!Refused =>
               \A other \in Plans :
                 Body(platform, other) = look.body <=> Carried(platform, other) = look.carried

=============================================================================
