----------------------------- MODULE SurveyRun ------------------------------
(***************************************************************************)
(* One call of RunWithExecutionOptions (pkg/surveycore/runtime/run.go):    *)
(* the request is prepared stage by stage, every stage adding a hook that  *)
(* changes the strategies of a job before its answers are drawn; then the  *)
(* workers of the engine take the jobs, configure, build, submit and       *)
(* settle them.                                                            *)
(*                                                                         *)
(* The engine itself (leases, pauses, fail-stop) is in Engine, display and *)
(* jump logic, rules and dimensions in AnswerPlan: here no strategy has a  *)
(* dimension and every question is shown.  A question is [num, kind,       *)
(* options, rows, blanks, scores, texts, labels, fillable], a strategy the *)
(* entry of Distribution with kind, texts (candidates, each the sequence   *)
(* of its parts between "||"), fills, ai and flags.  Answers are the       *)
(* records of ReverseFill; a choice may have a fill, the text beside it.   *)
(***************************************************************************)
EXTENDS Psychometrics, AIText

R == INSTANCE ReverseFill

CONSTANTS
  Requests,   \* records, see MCSurveyRun
  Workers,    \* 1..n
  MaxFaults   \* bound: failed submissions per run

\* Options and blanks are counted, scores are numbers, and an entry has every
\* table of weights, empty where the caller gave none.
SoundQuestion(q) == q.options \in Nat /\ q.blanks \in Nat /\ q.scores \in Seq(Int)

SoundEntry(e) ==
  /\ {"mode", "options", "rows", "custom", "customRows", "texts", "fills"} \subseteq DOMAIN e
  /\ e.options \in Seq(Int) /\ e.custom \in Seq(Int)

\* So do the tables of the rows of a matrix.
SoundRows(e) == {e.rows, e.customRows} \subseteq Seq(Seq(Int))

ASSUME RequestsAssumption ==
  \A r \in Requests :
    /\ \A q \in r.definition \cup r.platform : SoundQuestion(q)
    /\ \A num \in DOMAIN r.strategies :
         SoundEntry(r.strategies[num]) /\ SoundRows(r.strategies[num])
    /\ r.target \in Nat /\ r.optionTarget \in Nat

VARIABLES
  request,
  stage,      \* of the preparation, then "running", "done" or "failed"
  cfg,        \* [definition, strategies, target]: the clone of the request
  options,    \* [target, threads]: the execution options
  hooks,      \* what options.ConfigureJob does, in order
  samples,    \* rows of the worksheet, for the reverse-fill hook
  plan,       \* joint plan of the scale items, for the psychometric hook
  outcome,    \* "" or the kind of the first error
  cancelled,  \* the context of the workers
  next,       \* next job index
  workers,    \* [phase, job, attempt, entries, answers] of each worker
  pending,    \* reservations of each worker's current owner
  stats,      \* <<question, row, option>> -> committed answers
  recorded,   \* job -> answers the platform took
  faults

prepared == <<cfg, options, hooks, samples, plan>>
working == <<next, workers, pending, stats, recorded, faults>>
vars == <<request, stage, outcome, cancelled, prepared, working>>

Unset == 0

Idle == [phase |-> "idle", job |-> -1, attempt |-> 0, entries |-> <<>>, answers |-> <<>>]

Init ==
  /\ request \in Requests
  /\ stage = "reverse_fill" /\ outcome = "" /\ cancelled = FALSE
  /\ cfg = [definition |-> request.definition, strategies |-> request.strategies,
            target |-> request.target]
  /\ options = [target |-> request.optionTarget, threads |-> request.threads]
  /\ hooks = <<>> /\ samples = <<>> /\ plan = <<>>
  /\ next = 0 /\ workers = [w \in Workers |-> Idle]
  /\ pending = [w \in Workers |-> {}]
  /\ stats = <<>> /\ recorded = <<>> /\ faults = 0

-----------------------------------------------------------------------------
(* The stages of the preparation.                                          *)

Abort(kind) ==
  /\ stage' = "failed" /\ outcome' = kind
  /\ UNCHANGED <<request, cancelled, prepared, working>>

FirstPositive(a, b) == IF a > 0 THEN a ELSE IF b > 0 THEN b ELSE 1

scoreMiddleWeight(i, n) == n - Abs(2 * i - n - 1)

defaultWeights(q) ==
  [i \in 1..AtLeast(1, q.options) |->
     IF q.kind = "score" THEN scoreMiddleWeight(i, AtLeast(1, q.options)) ELSE 1]

DefaultEntry(q) ==
  [kind |-> q.kind, mode |-> IF q.kind = "score" THEN "custom" ELSE "random",
   options |-> defaultWeights(q), rows |-> <<>>,
   custom |-> IF q.kind = "score" THEN defaultWeights(q) ELSE NoWeights,
   customRows |-> <<>>, dimension |-> "", bias |-> "custom", texts |-> <<>>, ai |-> FALSE,
   flags |-> <<>>, fills |-> <<>>]

Question(definition, num) == CHOOSE q \in definition : q.num = num

buildDefaultQuestionStrategies(definition) ==
  [num \in {q.num : q \in definition} |-> DefaultEntry(Question(definition, num))]

\* Parse and populateConfigSurveyDefinition: the strategies are replaced too.
Defined ==
  IF cfg.definition # {} THEN cfg
  ELSE [cfg EXCEPT !.definition = request.platform,
                   !.strategies = buildDefaultQuestionStrategies(request.platform)]

ReverseUsed == request.reverse.enabled /\ request.reverse.path

AIUsed ==
  /\ ~request.reverse.enabled
  /\ \E num \in DOMAIN cfg.strategies :
       entryAIEnabled(cfg.strategies[num]) \/ entryHasAIOptionFill(cfg.strategies[num])

PsychometricsUsed == ~request.reverse.enabled /\ request.psychometric

ParseFails ==
  /\ cfg.definition = {}
  /\ \/ stage = "reverse_fill" /\ ReverseUsed /\ request.provider = "wjx"
     \/ stage = "ai" /\ AIUsed
     \/ stage = "psychometrics" /\ PsychometricsUsed
  /\ Abort("parse_failed")

SkipReverseFill ==
  /\ stage = "reverse_fill" /\ ~ReverseUsed
  /\ stage' = "window"
  /\ UNCHANGED <<request, outcome, cancelled, prepared, working>>

RefuseReverseFill ==
  /\ stage = "reverse_fill" /\ ReverseUsed /\ request.provider # "wjx"
  /\ Abort("unsupported")

Target == FirstPositive(options.target, cfg.target)

\* What PreviewExcel looks at of a question.
Columns(definition) ==
  {[num |-> q.num, kind |-> q.kind, options |-> q.texts, labels |-> q.labels] : q \in definition}

Preview ==
  R!PreviewExcel(request.reverse.sheet, Columns(Defined.definition),
                 request.reverse.format, request.reverse.startRow, Target)

\* A plausible slip: the rows are counted before the blank ones are left out.
EnoughRows(preview) == preview.total > 0 /\ Target <= preview.total /\ ~preview.failed

Sufficient(preview) == EnoughRows(preview) /\ Len(preview.samples) >= Target

PrepareReverseFill ==
  /\ stage = "reverse_fill" /\ ReverseUsed /\ request.provider = "wjx"
  /\ IF ~Sufficient(Preview) THEN Abort("prepare_config")
     ELSE /\ stage' = "window"
          /\ cfg' = [Defined EXCEPT !.target = Target]
          /\ options' = [target |-> Target,
                         threads |-> IF request.reverse.threads > 0
                                     THEN request.reverse.threads ELSE options.threads]
          /\ samples' = Preview.samples
          /\ hooks' = Append(hooks, "reverse_fill")
          /\ UNCHANGED <<request, outcome, cancelled, plan, working>>

\* Times: Unset, -1 for an unreadable one, which the normalisation unsets,
\* else seconds.
WindowSound(window, duration) ==
  \/ window.start <= Unset /\ window.end <= Unset
  \/ /\ window.start > 0 /\ window.end > window.start
     /\ window.end - window.start >= duration

\* The window, and the persona and the counters every job gets.
PrepareRuntime ==
  /\ stage = "window"
  /\ IF request.provider = "credamo" /\ ~WindowSound(request.window, request.duration)
     THEN Abort("prepare_config")
     ELSE /\ stage' = "ai"
          /\ hooks' = Append(hooks, "persona")
          /\ UNCHANGED <<request, outcome, cancelled, cfg, options, samples, plan, working>>

PrepareAI ==
  /\ stage = "ai"
  /\ stage' = "psychometrics"
  /\ cfg' = IF AIUsed THEN Defined ELSE cfg
  /\ hooks' = IF AIUsed THEN Append(hooks, "ai") ELSE hooks
  /\ UNCHANGED <<request, outcome, cancelled, options, samples, plan, working>>

sampleCount == AtLeast(1, cfg.target)

PreparePsychometrics ==
  LET c     == IF PsychometricsUsed THEN Defined ELSE cfg
      items == IF PsychometricsUsed THEN PlannedItems(c.definition, c.strategies) ELSE {}
  IN  /\ stage = "psychometrics"
      /\ stage' = "prepare"
      /\ cfg' = c
      /\ IF items = {} THEN UNCHANGED <<plan, hooks>>
         ELSE /\ plan' \in JointPlans(items, sampleCount)
              /\ hooks' = Append(hooks, "psychometrics")
      /\ UNCHANGED <<request, outcome, cancelled, options, samples, working>>

\* The runner fetches the survey; the strategies stay as they are.
Prepare ==
  /\ stage = "prepare" /\ request.provider \in {"wjx", "qq", "credamo"}
  /\ stage' = "running"
  /\ cfg' = [cfg EXCEPT !.definition = IF @ = {} THEN request.platform ELSE @]
  /\ UNCHANGED <<request, outcome, cancelled, options, hooks, samples, plan, working>>

PrepareFails ==
  /\ stage = "prepare"
  /\ \/ request.provider \in {"wjx", "qq", "credamo"} /\ Abort("run_failed")
     \/ request.provider \notin {"wjx", "qq", "credamo"} /\ Abort("unsupported")

-----------------------------------------------------------------------------
(* The hooks of one job.                                                   *)

Job(w) == workers[w].job

\* A plausible slip: the row of the job handed out last.
SampleOfNext(w) == samples[next].answers

Sample(w) == samples[Job(w) + 1].answers

SampleCells(w, num) == Sample(w)[num]

\* optionCountForReverseFill
FillOptions(q, e) ==
  IF q.options > 0 THEN q.options ELSE AtLeast(1, Len(e.options))

FillRows(q, answer) == IF q.rows > 0 THEN q.rows ELSE AtLeast(1, Len(answer.indexes))

Fits(q, e, answer) ==
  CASE answer.kind = "choice" -> answer.index < FillOptions(q, e)
    [] answer.kind = "matrix" -> /\ Len(answer.indexes) = FillRows(q, answer)
                                 /\ \A i \in Range(answer.indexes) : i < FillOptions(q, e)
    [] OTHER                  -> TRUE

\* Every cell of a row of blanks becomes a candidate text of its own, a blank
\* cell a blank one.
TextCandidates(answer) ==
  [i \in DOMAIN answer.texts |->
     IF answer.texts[i] = <<>> THEN BlankText ELSE <<Head(answer.texts[i])>>]

applyReverseFillAnswer(q, e, answer) ==
  LET n      == FillOptions(q, e)
      filled == [e EXCEPT !.mode = "reverse_fill"]
  IN  CASE answer.kind = "choice" ->
             [filled EXCEPT !.options = oneHot(n, answer.index), !.rows = <<>>]
        [] answer.kind = "matrix" ->
             [filled EXCEPT !.options = <<>>,
                            !.rows = [r \in DOMAIN answer.indexes |-> oneHot(n, answer.indexes[r])]]
        [] OTHER -> [filled EXCEPT !.options = <<1>>, !.rows = <<>>,
                                   !.texts = TextCandidates(answer)]

Asked(num) == \E q \in cfg.definition : q.num = num

\* resolveAIQuestion: a strategy may be for a question the survey has not.
BlanksAsked(num, e) ==
  IF Asked(num) THEN textBlankCount(Question(cfg.definition, num).blanks, e)
  ELSE AtLeast(1, Len(e.texts))

AIAnswers(blanks, service) ==
  resolveAIText(request.profile, request.client, blanks, service)

\* The model answers every question and option left to it, or the job is refused.
AIReady(entries, service) ==
  \A num \in DOMAIN entries :
    LET e == entries[num]
    IN  /\ entryAIEnabled(e) => AIAnswers(BlanksAsked(num, e), service) # NoAnswer
        /\ entryHasAIOptionFill(e) => AIAnswers(1, service) # NoAnswer

applyAITextAnswers(num, e, service) ==
  LET filled == IF entryHasAIOptionFill(e)
                THEN applyAIOptionFillTexts(e, AIAnswers(1, service)[1]) ELSE e
  IN  IF entryAIEnabled(e)
      THEN applyAITextAnswer(filled, AIAnswers(BlanksAsked(num, e), service)) ELSE filled

Applicable(hook, w, service) ==
  CASE hook = "reverse_fill" ->
         /\ Job(w) < Len(samples)
         /\ \A num \in {q.num : q \in cfg.definition} \cap DOMAIN Sample(w) :
              /\ num \in DOMAIN cfg.strategies
              /\ Fits(Question(cfg.definition, num), cfg.strategies[num], SampleCells(w, num))
    [] hook = "psychometrics" -> Job(w) < sampleCount
    [] hook = "ai" -> AIReady(cfg.strategies, service)
    [] OTHER -> TRUE

Applied(hook, entries, w, service) ==
  CASE hook = "reverse_fill" ->
         [num \in DOMAIN entries |->
            IF Asked(num) /\ num \in DOMAIN Sample(w)
            THEN applyReverseFillAnswer(Question(cfg.definition, num), entries[num],
                                        SampleCells(w, num))
            ELSE entries[num]]
    [] hook = "ai" ->
         [num \in DOMAIN entries |-> applyAITextAnswers(num, entries[num], service)]
    [] hook = "psychometrics" -> ApplySample(cfg.definition, entries, plan, Job(w))
    [] OTHER -> entries

Configured(w, service) ==
  LET after[k \in 0..Len(hooks)] ==
        IF k = 0 THEN cfg.strategies ELSE Applied(hooks[k], after[k - 1], w, service)
  IN  after[Len(hooks)]

-----------------------------------------------------------------------------
(* Answers of one job.                                                     *)

\* SnapshotDistributionStats: the counters as they are when it is called.
Snapshot(num, row, n) ==
  [i \in 1..n |-> IF <<num, row, i - 1>> \in DOMAIN stats THEN stats[<<num, row, i - 1>>] ELSE 0]

DrawnWeights(e, num, row, n) ==
  LET counts == Snapshot(num, row, n)
  IN  effectiveSelectionValues(e, selectionEntry(e, row, n, {}, 0, counts, positiveTotal(counts)))

ChoicesOf(q, e, row) ==
  LET n == AtLeast(1, q.options)
  IN  {i - 1 : i \in SelectedIndex(DrawnWeights(e, q.num, row, n), n)}

defaultFillText == "none"

FillText == <<defaultFillText>>

\* One candidate for all blanks, its last part repeated, no blank left empty.
Blanks(candidate, n) ==
  LET Part(i) == IF i <= Len(candidate) THEN candidate[i] ELSE Last(candidate)
  IN  [i \in 1..AtLeast(1, n) |-> IF Part(i) = "" THEN defaultFillText ELSE Part(i)]

\* What is written beside an option: its own text, or the default where the
\* page asks for one or the model was not asked.
OptionFillText(q, e, index) ==
  LET given == IF index + 1 \in DOMAIN e.fills THEN e.fills[index + 1] ELSE BlankText
  IN  IF given = AIFill \/ (given = BlankText /\ index \in q.fillable) THEN FillText ELSE given

Picked(q, e, index) ==
  IF OptionFillText(q, e, index) = BlankText THEN R!Choice(index)
  ELSE [kind |-> "choice", index |-> index, fill |-> OptionFillText(q, e, index)]

ChoiceAnswers(q, e) == {Picked(q, e, i) : i \in ChoicesOf(q, e, NoRow)}

MatrixAnswers(q, e) ==
  LET rows   == 1..AtLeast(1, q.rows)
      chosen == {f \in [rows -> 0..(AtLeast(1, q.options) - 1)] :
                   \A r \in rows : f[r] \in ChoicesOf(q, e, r)}
  IN  {[kind |-> "matrix", indexes |-> f] : f \in chosen}

TextAnswers(q, e) ==
  LET given == Range(e.texts) \ {BlankText}
  IN  {[kind |-> "text", texts |-> Blanks(c, q.blanks)] :
         c \in IF given = {} THEN {FillText} ELSE given}

ChoiceKinds == {"single", "dropdown", "scale", "score"}

AnswersOf(q, e) ==
  CASE q.kind \in ChoiceKinds -> ChoiceAnswers(q, e)
    [] q.kind = "matrix"      -> MatrixAnswers(q, e)
    [] OTHER                  -> TextAnswers(q, e)

Buildable(entries) ==
  \A q \in cfg.definition : q.num \in DOMAIN entries /\ q.kind # "unknown"

Submissions(entries) ==
  LET Of(num) == AnswersOf(Question(cfg.definition, num), entries[num])
      nums    == {q.num : q \in cfg.definition}
  IN  {f \in [nums -> UNION {Of(num) : num \in nums}] : \A num \in nums : f[num] \in Of(num)}

\* recordPendingDistribution: the choices of strict strategies, row by row.
Reserved(entries, answers) ==
  LET strict == {num \in DOMAIN answers : isStrictRatioEntry(entries[num])}
  IN  {<<num, NoRow, answers[num].index>> : num \in {s \in strict : answers[s].kind = "choice"}}
      \cup UNION {{<<num, r, answers[num].indexes[r]>> : r \in DOMAIN answers[num].indexes} :
                    num \in {s \in strict : answers[s].kind = "matrix"}}

-----------------------------------------------------------------------------
(* The workers.                                                            *)

NoRetry == {"prepare_config", "unsupported"}

\* A fresh job request from the strategies of the run.
Attempt(w, job, attempt) ==
  workers' = [workers EXCEPT ![w] = [Idle EXCEPT !.phase = "configure", !.job = job,
                                                 !.attempt = attempt]]

TakeJob(w) ==
  /\ stage = "running" /\ ~cancelled /\ next < Target
  /\ w <= FirstPositive(options.threads, request.threads)
  /\ workers[w].phase = "idle"
  /\ Attempt(w, next, 1)
  /\ next' = next + 1
  /\ UNCHANGED <<request, stage, outcome, cancelled, prepared, pending, stats, recorded, faults>>

\* The first error decides the outcome of the run; an error no retry can help
\* ends the run.
Lost(w, kind) ==
  /\ outcome' = IF outcome = "" THEN kind ELSE outcome
  /\ cancelled' = (cancelled \/ kind \in NoRetry)
  /\ workers' = [workers EXCEPT ![w] = Idle]
  /\ pending' = [pending EXCEPT ![w] = {}]

\* A service of the request answers the questions left to the model.
Configure(w) ==
  /\ workers[w].phase = "configure"
  /\ \E service \in request.services :
       /\ \A hook \in Range(hooks) : Applicable(hook, w, service)
       /\ workers' = [workers EXCEPT ![w].phase = "build", ![w].entries = Configured(w, service)]
  /\ pending' = [pending EXCEPT ![w] = {}]
  /\ UNCHANGED <<request, stage, outcome, cancelled, prepared, next, stats, recorded, faults>>

\* A hook refuses the job, or the model does not answer.
ConfigureFails(w) ==
  /\ workers[w].phase = "configure"
  /\ \E service \in request.services : \E hook \in Range(hooks) : ~Applicable(hook, w, service)
  /\ Lost(w, "prepare_config")
  /\ UNCHANGED <<request, stage, prepared, next, stats, recorded, faults>>

Build(w) ==
  /\ workers[w].phase = "build" /\ Buildable(workers[w].entries)
  /\ \E answers \in Submissions(workers[w].entries) :
       /\ workers' = [workers EXCEPT ![w].phase = "submit", ![w].answers = answers]
       /\ pending' = [pending EXCEPT ![w] = Reserved(workers[w].entries, answers)]
  /\ UNCHANGED <<request, stage, outcome, cancelled, prepared, next, stats, recorded, faults>>

BuildFails(w) ==
  /\ workers[w].phase = "build" /\ ~Buildable(workers[w].entries)
  /\ Lost(w, IF \E q \in cfg.definition : q.kind = "unknown" THEN "unsupported" ELSE "run_failed")
  /\ UNCHANGED <<request, stage, prepared, next, stats, recorded, faults>>

Submit(w) ==
  /\ workers[w].phase = "submit"
  /\ recorded' = [j \in DOMAIN recorded \cup {Job(w)} |->
                    IF j = Job(w) THEN workers[w].answers ELSE recorded[j]]
  /\ workers' = [workers EXCEPT ![w].phase = "settle"]
  /\ UNCHANGED <<request, stage, outcome, cancelled, prepared, next, pending, stats, faults>>

\* The pending choices are forgotten; a retry configures the job anew.
SubmitFails(w) ==
  /\ workers[w].phase = "submit" /\ faults < MaxFaults
  /\ faults' = faults + 1
  /\ IF workers[w].attempt <= request.retries /\ ~cancelled
     THEN /\ Attempt(w, Job(w), workers[w].attempt + 1)
          /\ pending' = [pending EXCEPT ![w] = {}]
          /\ UNCHANGED <<outcome, cancelled>>
     ELSE Lost(w, "run_failed")
  /\ UNCHANGED <<request, stage, prepared, next, stats, recorded>>

\* A plausible slip: the owner is not asked for, everything pending is taken.
CommitAll(w) == UNION {pending[v] : v \in Workers}

CommitPendingDistribution(w) == pending[w]

Settle(w) ==
  LET taken == CommitPendingDistribution(w)
      Old(k) == IF k \in DOMAIN stats THEN stats[k] ELSE 0
  IN  /\ workers[w].phase = "settle"
      /\ stats' = [k \in DOMAIN stats \cup taken |-> Old(k) + (IF k \in taken THEN 1 ELSE 0)]
      /\ pending' = [pending EXCEPT ![w] = {}]
      /\ workers' = [workers EXCEPT ![w] = Idle]
      /\ UNCHANGED <<request, stage, outcome, cancelled, prepared, next, recorded, faults>>

Return ==
  /\ stage = "running"
  /\ next = Target \/ cancelled
  /\ \A w \in Workers : workers[w].phase = "idle"
  /\ stage' = "done"
  /\ UNCHANGED <<request, outcome, cancelled, prepared, working>>

Prepares ==
  \/ SkipReverseFill \/ RefuseReverseFill \/ PrepareReverseFill \/ ParseFails
  \/ PrepareRuntime \/ PrepareAI \/ PreparePsychometrics \/ Prepare \/ PrepareFails

WorkerStep(w) ==
  \/ TakeJob(w) \/ Configure(w) \/ ConfigureFails(w) \/ Build(w) \/ BuildFails(w)
  \/ Submit(w) \/ SubmitFails(w) \/ Settle(w)

Next == Prepares \/ Return \/ \E w \in Workers : WorkerStep(w)

Spec == Init /\ [][Next]_vars

-----------------------------------------------------------------------------
(* What the author of a request may expect: of a job's strategies, in any  *)
(* order of jobs, with nothing counted and nothing that fails.             *)

\* Given or parsed; what is parsed late keeps the caller's strategies.
Configurations(r) ==
  IF r.definition # {} THEN {[definition |-> r.definition, strategies |-> r.strategies]}
  ELSE {[definition |-> r.platform, strategies |-> s] :
          s \in {r.strategies, buildDefaultQuestionStrategies(r.platform)}}

JobsOf(r) == FirstPositive(r.optionTarget, r.target)

RowsRead(r, definition) ==
  R!PreviewExcel(r.reverse.sheet, Columns(definition), r.reverse.format, r.reverse.startRow,
                 JobsOf(r)).samples

Tables(e, row) ==
  {e.options, e.custom} \cup {t[row] : t \in {u \in {e.rows, e.customRows} : row \in DOMAIN u}}

\* Options some table of the strategy gives a weight, whichever is read first;
\* all of them where a table has none, or none among the first n.
MayDraw(e, row, n) ==
  LET weighted == {t \in Tables(e, row) : Positive(t) # {}}
  IN  IF weighted # {} /\ \A t \in weighted : \E i \in Positive(t) : i <= n
      THEN {i \in 0..(n - 1) : \E t \in weighted : i + 1 \in Positive(t)}
      ELSE 0..(n - 1)

\* Strategy e leaves answers to question q among X only.
Leaves(q, e, X) ==
  CASE q.kind \in ChoiceKinds -> \A i \in MayDraw(e, NoRow, q.options) : Picked(q, e, i) \in X
    [] q.kind = "matrix" ->
         \A f \in [1..AtLeast(1, q.rows) -> 0..(q.options - 1)] :
           (\A row \in DOMAIN f : f[row] \in MayDraw(e, row, q.options)) =>
             [kind |-> "matrix", indexes |-> f] \in X
    [] OTHER -> TextAnswers(q, e) \subseteq X

\* The same text in all blanks of question q.
Everywhere(q, text) == [kind |-> "text", texts |-> [b \in 1..AtLeast(1, q.blanks) |-> text]]

\* The worksheet says one of X of question q; beside an option the strategy may
\* write, and of several texts in a row any one may be taken, for all blanks.
Says(q, e, said, X) ==
  CASE q.kind \in ChoiceKinds ->
         /\ said.kind = "choice" /\ said.index \in 0..(q.options - 1)
         /\ Picked(q, e, said.index) \in X
    [] q.kind = "matrix" ->
         /\ said.kind = "matrix"
         /\ said.indexes \in [1..AtLeast(1, q.rows) -> 0..(q.options - 1)]
         /\ [kind |-> "matrix", indexes |-> said.indexes] \in X
    [] OTHER ->
         LET texts == {Head(cell) : cell \in Range(said.texts) \ {<<>>}} \ {""}
         IN  /\ said.kind = "text" /\ texts # {}
             /\ \A text \in texts : Everywhere(q, text) \in X

\* Each service answers with texts of X, or leaves a gap, which no job survives.
Writes(r, q, e, X) ==
  \A service \in r.services :
    LET Told(blanks) == resolveAIText(r.profile, r.client, blanks, service)
        asked  == textBlankCount(q.blanks, e)
        beside == IF entryHasAIOptionFill(e) THEN applyAIOptionFillTexts(e, Told(1)[1]) ELSE e
    IN  \/ entryHasAIOptionFill(e) /\ Told(1) = NoAnswer
        \/ entryAIEnabled(e) /\ Told(asked) = NoAnswer
        \/ IF entryAIEnabled(e)
           THEN /\ q.kind \notin ChoiceKinds \cup {"matrix"}
                /\ Range(Told(asked)) \ {BlankText} # {}
                /\ \A text \in Range(Told(asked)) \ {BlankText} :
                     [kind |-> "text", texts |-> Blanks(text, q.blanks)] \in X
           ELSE Leaves(q, beside, X)

\* Nothing is expected where a joint plan decides, nor of a job without a row.
Meant(r, c, j, num, X) ==
  LET q    == Question(c.definition, num)
      e    == c.strategies[num]
      rows == RowsRead(r, c.definition)
  IN  IF ~r.reverse.enabled
      THEN (r.psychometric => blueprintItems(q, e) = {}) /\ Writes(r, q, e, X)
      ELSE IF r.reverse.path
      THEN j < Len(rows) =>
             IF num \in DOMAIN rows[j + 1].answers THEN Says(q, e, rows[j + 1].answers[num], X)
             ELSE Leaves(q, e, X)
      ELSE Leaves(q, e, X)

RequestsMeant ==
  \A r \in Requests : \A c \in Configurations(r) : \A j \in 0..(JobsOf(r) - 1) :
    \A num \in DOMAIN r.expected[j + 1] :
      /\ \E q \in c.definition : q.num = num
      /\ num \in DOMAIN c.strategies => Meant(r, c, j, num, r.expected[j + 1][num])

-----------------------------------------------------------------------------
(* Properties                                                              *)

\* run_reversefill.go:63, run_ai.go:43, ai_provider.go:48: whatever the order of
\* workers and retries, job j submits row j of the worksheet where that row has
\* an answer, the model's answer where it was asked, by whichever of its two
\* protocols it spoke, and the caller's strategy elsewhere.
\* request.expected lists, per job and question, the answers a person allows who
\* reads the sheet, the model's reply and the weights.
OverridesSubmitted ==
  \A j \in DOMAIN recorded :
    \A num \in DOMAIN request.expected[j + 1] :
      recorded[j][num] \in request.expected[j + 1][num]

\* Where a plan can be followed: a number names one question, a question on a
\* scale has options to choose from, and its scores, if any, follow them.
Graded(definition) ==
  /\ \A p, q \in definition : p.num = q.num => p = q
  /\ \A q \in definition :
       /\ q.kind \in ChoiceKinds \cup {"matrix"} => q.options >= 2
       /\ \A c \in DOMAIN q.scores : q.scores[c] = c - 1

RequestsGraded == \A r \in Requests : Graded(r.definition) /\ Graded(r.platform)

OptionOf(answer, row) == IF row = NoRow THEN answer.index ELSE answer.indexes[row]

\* internal/psychometrics/sampling.go:86: once every sample is submitted, each
\* option of a planned item was taken as often as its weight asks, less than
\* one answer off, although each job was answered, failed and retried alone.
QuotasRealised ==
  "psychometrics" \in Range(hooks) /\ DOMAIN recorded = 0..(sampleCount - 1) =>
    \A item \in PlannedItems(cfg.definition, cfg.strategies) :
      \A i \in DOMAIN item.weights :
        LET taken == Cardinality({j \in DOMAIN recorded :
                                    OptionOf(recorded[j][item.num], item.row) = i - 1})
            whole == positiveTotal(item.weights)
        IN  Abs(taken * whole - item.weights[i] * sampleCount) < whole

\* Jobs whose answers the platform took and whose attempt is over.
Settled ==
  DOMAIN recorded \ {Job(w) : w \in {v \in Workers : workers[v].phase = "settle"}}

\* What a counter is kept for: the options of a choice, of a matrix row by row.
Places(q) ==
  {q.num} \X (IF q.kind = "matrix" THEN 1..AtLeast(1, q.rows) ELSE {NoRow})
          \X (0..(q.options - 1))

Counted(num) ==
  num \in DOMAIN cfg.strategies /\ isStrictRatioEntry(cfg.strategies[num])

Taken(k) == Cardinality({j \in Settled : OptionOf(recorded[j][k[1]], k[2]) = k[3]})

\* run_answer_runtime.go:67: the counters the next answers are corrected by
\* hold the answers of submitted jobs, each once, and nothing of failed or
\* unfinished attempts, however the workers' snapshots and commits interleave.
StatsAreRecorded ==
  stage \in {"running", "done"} /\ samples = <<>> =>
    \A num \in {q.num : q \in cfg.definition} :
      LET q == Question(cfg.definition, num)
      IN  Counted(num) /\ q.kind \in ChoiceKinds \cup {"matrix"} =>
            \A k \in Places(q) : Taken(k) = (IF k \in DOMAIN stats THEN stats[k] ELSE 0)

=============================================================================
