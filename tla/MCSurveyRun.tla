---------------------------- MODULE MCSurveyRun -----------------------------
(***************************************************************************)
(* The requests of SurveyRun's model checking: each meets one stage of the *)
(* preparation and what the others do with it.  expected lists, job by     *)
(* job, the answers a person allows who reads the worksheet, the model's   *)
(* replies or weights that leave one option; it is written out by hand.    *)
(***************************************************************************)
EXTENDS SurveyRun, TLC

MCWorkers == 1..2

\* Questions.  Keys of texts: the whole text first.
A == <<"A">>
B == <<"B">>
C == <<"C">>

Ask(num, kind, n) ==
  [num |-> num, kind |-> kind, options |-> n, rows |-> 0, blanks |-> 1,
   scores |-> <<>>, texts |-> SubSeq(<<A, B, C>>, 1, n), labels |-> <<>>, fillable |-> {}]

Pick   == Ask(1, "single", 2)
Remark == Ask(2, "text", 0)
Grid   == [Ask(3, "matrix", 2) EXCEPT !.rows = 2, !.labels = <<<<"look">>, <<"use">>>>]
Scale(num) == Ask(num, "scale", 3)
Order(num) == [Ask(num, "single", 3) EXCEPT !.scores = <<0, 1, 2>>]

\* Strategies.
Weighted(kind, weights) ==
  [kind |-> kind, mode |-> "random", options |-> weights, rows |-> <<>>, custom |-> NoWeights,
   customRows |-> <<>>, dimension |-> "", bias |-> "custom", texts |-> <<>>, ai |-> FALSE,
   flags |-> <<>>, fills |-> <<>>]
Strict(kind, weights) == [Weighted(kind, weights) EXCEPT !.mode = "custom", !.custom = weights]
Text(candidates) == [Weighted("text", <<1>>) EXCEPT !.texts = candidates]

\* Worksheet cells.
Cell(keys, number) == [keys |-> keys, number |-> number, composite |-> FALSE]
Blank == Cell(<<>>, 0)
Header(num, suffix) == [num |-> num, suffix |-> suffix]
Columns123 == <<Header(1, <<>>), Header(2, <<>>), Header(3, <<"use">>), Header(3, <<"look">>)>>
Sheet(rows) == [headers |-> Columns123, rows |-> rows]

\* Row 1: option B, a remark, use = second, look = first.  Row 2 is blank.
\* Row 3: option A by its text, no remark, use = first, look = second.
Row1 == <<Cell(B, 0), Cell(<<"hello">>, 0), Cell(<<"2">>, 2), Cell(A, 0)>>
Row2 == <<Blank, Blank, Blank, Blank>>
Row3 == <<Cell(A, 0), Blank, Cell(<<"1">>, 1), Cell(B, 0)>>
BadRow == <<Cell(<<"D">>, 4), Blank, Blank, Blank>>

NoSheet == [enabled |-> FALSE, path |-> FALSE, format |-> "auto", startRow |-> 1, threads |-> 0,
            sheet |-> Sheet(<<>>)]
Filled(rows) == [NoSheet EXCEPT !.enabled = TRUE, !.path = TRUE, !.threads = 2,
                                !.sheet = Sheet(rows)]

\* The one answer allowed.
Chosen(i) == {[kind |-> "choice", index |-> i]}
Written(text) == {[kind |-> "text", texts |-> <<text>>]}
Gridded(i, k) == {[kind |-> "matrix", indexes |-> <<i, k>>]}

\* The model: who is asked and what the endpoints reply.
Profile(mode, base, protocol) ==
  [mode |-> mode, provider |-> "", key |-> "", base |-> base, protocol |-> protocol, model |-> ""]
NoClient == [key |-> "", base |-> "", model |-> "", known |-> FALSE]
Failing == [status |-> "error"]
Strange == [status |-> "mismatch"]
Chat(choices) == [status |-> "ok", choices |-> choices]
Responses(output, items) == [status |-> "ok", output |-> output, items |-> items]
Texts(texts) == [status |-> "ok", texts |-> texts]

\* Replies that come to one text; the further ones do not count.
Blankly == <<BlankText>>
Saying(text) == <<BlankText, <<text>>>>
ChatSays(text) == Chat(<<Saying(text), Saying("else")>>)
ItemSays(text) == Responses(BlankText, <<Blankly, Saying(text), Saying("else")>>)
FreeSays(text) == Texts(<<BlankText, <<text>>, <<"else">>>>)
Service(chat, responses, free) ==
  [e \in {"chat_completions", "responses", "free"} |->
     CASE e = "chat_completions" -> chat [] e = "responses" -> responses [] OTHER -> free]
Silent == Service(Failing, Failing, Failing)

Plain ==
  [provider |-> "wjx", definition |-> {Pick, Remark, Grid}, platform |-> {Pick, Remark, Grid},
   strategies |-> (1 :> Weighted("single", <<1, 0>>)) @@ (2 :> Text(<<<<"base">>>>))
                    @@ (3 :> Weighted("matrix", <<1, 1>>)),
   target |-> 2, optionTarget |-> 2, threads |-> 1, retries |-> 1, reverse |-> NoSheet,
   psychometric |-> FALSE, window |-> [start |-> Unset, end |-> Unset], duration |-> 0,
   profile |-> Profile("free", "", ""), client |-> NoClient, services |-> {Silent},
   expected |-> <<<<>>, <<>>, <<>>>>]

Expected(first, second) == <<first, second, <<>>>>

FillExpected ==
  Expected((1 :> Chosen(1)) @@ (2 :> Written("hello")) @@ (3 :> Gridded(0, 1)),
           (1 :> Chosen(0)) @@ (2 :> Written("base")) @@ (3 :> Gridded(1, 0)))

\* A blank row is passed over; a blank cell leaves the caller's strategy.
Fill == [Plain EXCEPT !.reverse = Filled(<<Row1, Row2, Row3>>), !.expected = FillExpected]
\* Without a definition the survey is parsed and the strategies are the defaults.
FillParsed == [Fill EXCEPT !.definition = {}, !.strategies = <<>>, !.optionTarget = 0,
                           !.expected = Expected(FillExpected[1], 1 :> Chosen(0))]
FillTooFew == [Fill EXCEPT !.reverse = Filled(<<Row1, Row2>>)]
FillBad    == [Fill EXCEPT !.reverse = Filled(<<Row1, BadRow>>)]
FillOther  == [Fill EXCEPT !.provider = "credamo"]
\* Enabled without a worksheet: nothing is filled, and no scale is planned.
FillNoPath == [Plain EXCEPT !.reverse = [Filled(<<>>) EXCEPT !.path = FALSE],
                            !.psychometric = TRUE]
\* Row 1 answers a question without a strategy.
FillNoStrategy == [Fill EXCEPT !.strategies = (1 :> Weighted("single", <<1, 0>>))]

Scales ==
  [Plain EXCEPT !.provider = "qq", !.psychometric = TRUE, !.threads = 2, !.target = 3,
     !.optionTarget = 3,
     !.strategies = (1 :> Strict("scale", <<1, 1, 1>>)) @@ (2 :> Weighted("single", <<1, 1, 0>>)),
     !.definition = {Scale(1), Order(2)}]
GridScale ==
  [Scales EXCEPT !.definition = {}, !.platform = {Grid}, !.strategies = <<>>, !.target = 2,
                 !.optionTarget = 2]
\* More jobs than samples.
Surplus == [GridScale EXCEPT !.target = 1]

\* An open question is left to a model that may know one protocol only, be
\* silent, or answer with a blank.
Opinion ==
  [Plain EXCEPT !.provider = "credamo", !.threads = 2, !.definition = {Pick, Remark},
     !.strategies = (1 :> Strict("single", <<1, 1>>)) @@ (2 :> [Text(<<>>) EXCEPT !.ai = TRUE]),
     !.window = [start |-> 10, end |-> 20], !.duration = 10,
     !.profile = Profile("provider", "", ""), !.client = [NoClient EXCEPT !.key = "key"],
     !.services = {Service(Strange, ItemSays("first"), Failing),
                   Service(ChatSays("first"), Failing, Failing),
                   Service(Failing, ItemSays("other"), FreeSays("other")),
                   Service(Chat(<<Blankly, Saying("other")>>), Failing, Failing),
                   Service(Chat(<<>>), Failing, Failing)},
     !.expected = Expected(2 :> Written("first"), 2 :> Written("first"))]
\* A named protocol is not left for the other one.
Fixed == [Opinion EXCEPT !.profile = Profile("provider", "plain", "chat_completions"),
                         !.services = {Service(Strange, ItemSays("other"), Failing),
                                       Service(ChatSays("first"), Failing, Failing)}]
Named == [Fixed EXCEPT !.profile = Profile("provider", "chat_completions", "")]
Newer == [Opinion EXCEPT !.profile = Profile("provider", "plain", "responses"),
                         !.services = {Service(ChatSays("other"), ItemSays("first"), Failing),
                                       Service(ChatSays("other"),
                                               Responses(<<"first">>, <<Saying("other")>>), Failing)}]
\* The parts of one choice or item are one text, one part below the other.
InParts == <<<<"one">>, BlankText, <<"two">>>>
Parted == [Opinion EXCEPT !.services = {Service(Chat(<<InParts>>), Failing, Failing),
                                        Service(Strange, Responses(BlankText, <<InParts>>), Failing)},
                          !.expected = Expected(2 :> Written("one\ntwo"), 2 :> Written("one\ntwo"))]
\* The free service needs the official session; a blank flagged by itself
\* leaves the question to the model as well.
Free  == [Opinion EXCEPT !.profile = Profile("", "", ""), !.client.known = TRUE,
            !.strategies = (1 :> Strict("single", <<1, 1>>))
                             @@ (2 :> [Text(<<>>) EXCEPT !.kind = "multi_text", !.flags = <<TRUE>>]),
            !.services = {Service(Failing, Failing, FreeSays("first"))}]
\* The text beside an option is left to the model, or to the default where the
\* page asks for one; a worksheet takes the place of the model.
Beside(text) == {[kind |-> "choice", index |-> 0, fill |-> text]}
Comment == [Free EXCEPT !.definition = {[Pick EXCEPT !.fillable = {0, 1}]},
              !.strategies = 1 :> [Weighted("single", <<1, 0>>) EXCEPT !.fills = <<AIFill, BlankText>>],
              !.expected = Expected(1 :> Beside(<<"first">>), 1 :> Beside(<<"first">>))]
NoComment == [Comment EXCEPT !.reverse = [Filled(<<>>) EXCEPT !.path = FALSE],
                !.expected = Expected(1 :> Beside(FillText), 1 :> Beside(FillText))]
Stranger == [Free EXCEPT !.client = NoClient]
\* Two blanks are asked for: one text for both is refused, and a separator may
\* stand between two parts.  Of two texts one is drawn, for both blanks.
Both(text) == [kind |-> "text", texts |-> <<text, text>>]
RemarkTwice == [Remark EXCEPT !.blanks = 2]
TwoAsked == [Opinion EXCEPT !.definition = {Pick, RemarkTwice},
               !.services = {Service(ChatSays("first"), Failing, Failing),
                             Service(Chat(<<<<<<"one", "", "two">>>>>>), Failing, Failing),
                             Service(Chat(<<<<<<"one", "">>, <<"two">>>>>>), Failing, Failing)},
               !.expected = Expected(2 :> {Both("one"), Both("two")}, 2 :> {Both("one"), Both("two")})]
\* Two columns for the two blanks, of which the second row leaves one empty.
TwoFilled ==
  [Fill EXCEPT !.definition = {RemarkTwice}, !.strategies = 2 :> Text(<<<<"base">>>>),
     !.reverse = [Filled(<<>>) EXCEPT !.sheet =
       [headers |-> <<Header(2, <<>>), Header(2, <<>>)>>,
        rows |-> <<<<Cell(<<"here">>, 0), Cell(<<"there">>, 0)>>, <<Blank, Cell(<<"there">>, 0)>>>>]],
     !.expected = Expected(2 :> {Both("here"), Both("there")}, 2 :> {Both("there")})]
Narrow   == [Opinion EXCEPT !.duration = 11]
HalfSet  == [Opinion EXCEPT !.window.end = Unset]
Tally    == [Opinion EXCEPT !.target = 3, !.optionTarget = 3, !.definition = {Pick},
                            !.strategies = (1 :> Strict("single", <<1, 1>>)),
                            !.expected = <<<<>>, <<>>, <<>>>>]
Foreign  == [Plain EXCEPT !.provider = "other"]
Unfit    == [Plain EXCEPT !.definition = {[Pick EXCEPT !.kind = "unknown"]}]
Missing  == [Plain EXCEPT !.definition = {}, !.strategies = <<>>]

MCRequests ==
  {Plain, Fill, FillParsed, FillTooFew, FillBad, FillOther, FillNoPath, FillNoStrategy, Scales,
   GridScale, Surplus, Opinion, Fixed, Named, Newer, Parted, Free, Comment, NoComment, Stranger,
   TwoAsked, TwoFilled, Narrow, HalfSet, Tally, Foreign, Unfit, Missing}

\* All of them are requests whose plan can be followed.
ASSUME RequestsAreGraded == RequestsGraded

\* What they expect is what their worksheet, model or strategies leave.
ASSUME RequestsAreMeant == RequestsMeant

=============================================================================
