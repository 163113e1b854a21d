# SurveyCore: a TLA+ verification project

SurveyCore is a Go service and library that parses online questionnaires (WJX,
Tencent, Credamo), plans answers to them and submits many answers with a pool
of workers, optionally through leased proxies. This directory holds TLA+
modules translated from that code, TLC configurations that model-check them on
small instances, and TLAPS proofs of theorems about them.

Paths below are relative to the repository; `surveycore/` stands for
`pkg/surveycore/`.

## 1. Inventory

### Components that keep state and run concurrently

| component | code | state | operations |
|---|---|---|---|
| Submission engine | `surveycore/runtime/engine*.go` | job channel, run context, counters under `executionState.mu`, first error, per-worker lease, attempt, reservation | `RunExecution`, `runExecutionWorker`, `runOneJob`, pauses, cancellation |
| Answer runtime | `surveycore/runtime/run_answer_runtime.go`, `internal/answerplan/distribution*.go` | distribution counters, pending reservations of each owner | `Snapshot`, `Append`, `Commit`, `Reset`, weight correction |
| Proxy pool | `surveycore/proxy/pool.go`, `lease.go` | `available`, `inUse`, `cooldowns`, `successes`, `mu`, `fetchMu` | `Acquire`, `Release`, `MarkSuccess`, `MarkCooldown`, `Add` |
| Official proxy session | `surveycore/proxy/official_*.go`, `quota.go` | device id, user id, quota, `loaded`; the row `v1_proxy_session` | `EnsureLoaded`, `SetSession`, `ApplyQuotaPayload`, `Clear`, the API calls of the client |
| Task service | `internal/service/manager.go` | `tasks`, `runtimes` with their cancel functions, WaitGroup | `Load`, `Create`, `run`, `Stop`, `StopAll`, `Close` |
| Store | `internal/service/store.go` | SQLite rows of tasks, logs, session; `db` pointer | `SaveTask`, `AppendLog`, `LoadTasks`, `LoadLogs`, session rows, `Close` |
| REST server and process | `pkg/restapi/server.go`, `cmd/surveycore/main.go` | request contexts, signal, shutdown deadline | handlers, `Shutdown`, `Server.Close` |
| Platform runners | `internal/providers/{wjx,tencent,credamo}` run files | prepared survey, cookies, seed session, answer session | `Prepare`, `RunPrepared`, confirmation polls, gate retries |
| Configuration store | `surveycore/config/store.go` | the file and its temporary sibling | `LoadDocument`, `SaveDocument` |
| Reverse fill | `runtime/run_reversefill.go`, `config/reversefill` | the sample rows, one per job index | prepare, take the sample of a job |

### Components that are functions of their input

Answer plan (`internal/answerplan`: selection bounds, jump and display logic,
consistency rules, free text), psychometrics (`internal/psychometrics`: the
joint plan of the scale questions), configuration normalisation and migration
of legacy files, quota arithmetic, run-error wrapping, request bodies, platform
parsers, the AI client, proxy fetchers and health checks, model values.

### How they interact

```
REST handler --Create/Stop--> Manager --SaveTask/AppendLog--> Store (SQLite)
                                 |  one goroutine per task
                                 v
                     RunWithExecutionOptions --hooks--> answer runtime, reverse
                                 |                      fill, AI, psychometrics
                                 v
                     RunExecution: feeder -> N workers
                        worker: Acquire --> proxy.Pool --Fetch--> official API
                                Submit  --> platform runner --HTTP--> platform
                                Commit / Reset --> answer runtime
                                addSuccess / addFail --> counters, events
                                                      --> Manager.appendLog
```

Cancellation flows down (a Stop, the end of the request context or a shutdown
cancel `runCtx` of the task, the parent of the engine's context); counts,
errors and log rows flow up.

### What is hard, and what makes each component correct

- **Engine.** Workers, feeder, pauses and cancellation race. Correct: each job
  is counted once; a nil error means the target was reached; fail-stop
  overshoots by a known amount; nothing is submitted long after a
  cancellation; leases and reservations are settled on every path; the run
  returns.
- **Proxy pool.** Two locks, one of them polled, a fetch outside the state
  lock. Correct: an address has one user; a used-up address never returns; what
  waits in the pool is fit for use; one fetch at a time; nobody hangs.
- **Task service.** Each task is in memory and on disk, written by four kinds
  of goroutine without a common order; the process may be shut down or killed.
  Correct: a stop decides the outcome; active tasks have a goroutine; what a
  client saw is stored; a restart only interrupts; the store outlives its users.
- **Official session.** API calls read the session, wait for the network and
  write it back. Correct: one device id per process and afterwards; memory and
  row agree; quota state is normalised and belongs to the user it came with.
- **Answer runtime.** Jobs plan from counters that other jobs change. Correct:
  counters only contain submitted answers, no reservation leaks to the next job.
- **Run pipeline.** Stages add hooks that change the strategies of each job;
  jobs run in any order and are retried. Correct: every job submits the row,
  the model's text or the scale sample that belongs to it.
- **Configuration store.** Correct: after a kill or a power failure at any step
  the path holds the old or one whole new document.
- **Platform runners.** Correct: a success is an answer the platform has kept; a
  kept answer is submitted again only when the runner could not know of it.
- **Request bodies.** Correct: plans look the same to a platform exactly when
  they agree in everything its format has room for.

`PROJECT.json` lists every hazard at its line with the properties that cover it.

## 2. Plan

Order: what loses or duplicates users' work first. Everything listed is done.

1. `SubmissionRun` (abstract), `Engine`, `Engine_proofs`: the heart of every run.
2. `TaskManager`, `TaskManager_proofs`: tasks, rows, shutdown and restart.
3. `ProxyPool`, `ProxyPool_proofs`.
4. `Quota`, `QuotaLaws`, `OfficialSession` and their proofs.
5. `AnswerPlan`, `AnswerPlan_proofs`: selection bounds, jump and display logic,
   consistency rules, dimensions and reservations.
6. `Platforms`, `Platforms_proofs`: prepared state, exchanges and confirmation
   on the three platforms.
7. `Distribution`, `Psychometrics`, `ReverseFill`, `AIText` as modules of
   operators, `SurveyRun`, which composes them into one call of
   `RunWithExecutionOptions` (preparation, jobs, counters), `Correction`, one
   question over its whole run, and `SurveyRun_proofs` about both.
8. `ConfigDocument`, `ConfigStore`, `ConfigStore_proofs`: what a configuration
   file means, and how it is replaced.
9. `Bodies`: the request bodies of the three platforms.

Left: a composition of the engine's lease protocol with the pool in one module
(each is proved against what it assumes of the other: the engine takes any
answer of the pool, the pool any owner who releases what it holds), proofs of
the three properties named at the end of section 7, and the parsers (section 8).

## 3. Modules

### `Engine.tla` (with `SubmissionRun.tla`)

`feeder` is where `RunExecution`'s own goroutine is; `wpc[w]` is where worker
`w` is, with one location per point at which another goroutine can be seen:
the receive, the two pause checks and the waits behind them, the attempts of a
job (`attempt`, `acquire`, `configure`, `build`, `submit`, `settle`, `count`)
and the error handling after it (`report`, `decide`, `next`). `runErr` is the
error of the run context, `ctxErr` that of the caller's context, `firstErr`
the error `recordError` kept; `success`, `fail`, `consecutive` are
`executionState`'s counters and `seen[w]` is the consecutive count that
`addFail` handed to `w`. `lease`, `pending` and `committed` stand for the
worker's lease, its owner's reservation in the answer runtime, and the
statistics. What collaborators answer (lease manager, hooks, platform) is any
member of `Causes`, which `ClassifyRunError` sorts as the code does.

`FeedJob` is the hand-off over the unbuffered channel and needs a worker at the
receive. An interval sleep or a retry delay is no step of its own. Events,
messages and timestamps are left out.

`SubmissionRun.tla` is what a caller may rely on: counts grow by one and never
past the target, a run finishes `ok` only when everything succeeded, and a
stopped run finishes.

### `TaskManager.tla`

One process at a time over a database that survives it. `main` follows the
process through `restapi.New`, serving, `StopAll`, `Wait`, `Store.Close` and
the end. `run[t]` follows the Create handler of task `t` up to its
registration and the goroutine of `Manager.run` afterwards; every
`Store.SaveTask` outside the lock is a separate step with the snapshot it was
given (`snapshot[t]`, `stopSaves[t]`). A store write may fail (`failures`), in
which case the caller goes on where the code ignores the error; `unsaved` holds
the tasks whose last write failed. `canceled` holds the tasks whose `runCtx` is
over, be it by a Stop or because the request that created the task was answered
(`EndRequest`; `server.go` passes `r.Context()`). `Crash` ends the process
anywhere; `Panic` is `store.database()` on a closed store in a goroutine that
nobody recovers, `HandlerPanic` the same in a handler, which `net/http` recovers.
`LateHandlers` lets handlers outlive the ten seconds of `httpServer.Shutdown`.

### `ProxyPool.tla`

`available`, `inUse`, `cooldowns` and `successes` are the fields of `Pool`,
`fetchLock` the owner of `fetchMu`. `Acquire` has one location per critical
section: first pop, lock polling, second pop, fetch, merge, third pop. A fetch
answers any member of `Fetches`: failures, unusable, duplicate and expiring
leases. `MarkCooldown` reads the clock in a step before it takes `mu`, as the
code does. An owner may release without marking, mark a success or a cooldown
first, as `releaseExecutionLease` does. `Tick` advances the clock.

### `OfficialSession.tla` (with `Quota.tla`)

`loaded` and `session` are `OfficialSessionManager`'s, `row` is the record of
`v1_proxy_session`. The manager holds its mutex over the store call, so each
of its methods is one step, failing store included. A client call (`pc[c]`,
`kind[c]`) is several: `Begin` reads the session, `Serve` is the service acting
on its `account`, `SetParsed` (trial, sync) or `ReadForQuota` and `ApplyQuota`
(extract, bonus, card) write the answer back; `seen[c]` is the session the call
goes on with. `PostFails` loses an answer before or after the service acted.
The handlers of the REST server call one client concurrently. `Clear` has no
caller inside the repository; it is part of the exported manager and therefore
modelled with the rest, with its peculiarity that it deletes a stored device id
when it comes before the first load (`cleared = "early"`).

`Quota.tla` holds the arithmetic of `quota.go` on integers, with `NoValue` for
everything `optionalNonNegativeFloat` rejects. `QuotaLaws.tla` applies all
payloads of small values, contradictory ones included, in any order.

### `AnswerPlan.tla`

The loop of `BuildActionsWithLogic` over one survey: `left` are the questions
not reached, `jumpTarget` is the variable of that name, `answers` the actions
kept so far (`answered` and the records of the consistency plan alike),
`bases` is `options.DimensionBases` and `pending` the reservations made for the
submission. Weights appear as the set of options that have one and the set of
those that are certain to be drawn in a multiple choice: persona boosts and the
correction towards a distribution multiply positive weights by positive
factors and do not change these sets. All rows of a matrix share one set. What
an attempt draws is any member of those sets (`SelectedIndex`, `Multiple`);
the base of a dimension is kept as the fraction it is. Texts are left out.
The questions of a survey are `WellFormed` and have distinct numbers: weights
belong to options the question has, an option certain to be drawn has one, and a
question with conditions is marked as having them (`hasLogic`), as the parsers do.

### `Platforms.tla`

`provider` picks one of the three platforms, `preparing` follows `Prepare`
through its fetches, and `pc[j]` a job through `RunPrepared`: `opening` an
answer session, `building`, `submitting`, `sending`, `confirming`, `settled`.
A submission is three steps: it leaves (`sent`), the service decides
(`accepted`, which on Tencent becomes `recorded` later or never), and the runner
is told (`reply[j]`) or not. The service may refuse, answer without the proof
the runner looks for, answer late; `faults` bounds exchanges that break or time
out. `seed` is the session `Prepare` opened, taken by one job only. `Retry` and
`End` are what the engine does with the kind of error (`Wrap`,
`ClassifyRunError`): a timeout is classified as a cancellation and ends the
run. Cookies, headers, signatures and the gates' pages are classes of replies.

### `SurveyRun.tla` (with `Distribution`, `Correction`, `Psychometrics`, `ReverseFill`, `AIText`)

`stage` follows `RunWithExecutionOptions` through its preparations, each of
which clones `cfg`, changes `options` and appends to `hooks`. A worker takes a
job, applies the hooks to its copy of the strategies (`Configure`), draws the
answers (`Build`), submits and settles. `stats` are the counters of the answer
runtime, `pending[w]` the reservations of the worker's owner, `recorded` what
the platform took per job. Every stage and every step of a job may fail where
the code returns an error. The hooks of a job are applied by a recursive
function over their sequence, as the chained closures of `run_options.go` are.
The requests are sound in that options are counted and scores and weights are
numbers, those of matrix rows included; an entry has every table of weights,
empty where the caller gave none. `Graded` names the surveys whose scale plan can
be followed: a number names one question, a question to choose from has two
options at least, and scores, where it has any, ascend with the options.
`MCSurveyRun` checks that all its requests are of that kind.
`request.expected` lists what a person reads from the request for each job;
It is a set of answers per question, with several members where a text
question has several blanks or a strategy leaves a choice. `RequestsMeant`,
checked there as well, says what makes that a reading of the request: taken
alone, without other jobs, counters or failures, row `j` of the worksheet says
one of them (`Says`), every service writes one of them or fails (`Writes`), or
the strategy leaves no other answer (`Leaves`). `Leaves` and `Says` read tables
and rows in terms of their own; the reading does share with the run how a
worksheet is opened (`RowsRead`), what counts as a reply of the model
(`resolveAIText`), the text beside an option (`Picked`) and how a candidate
fills blanks (`Blanks`, `TextAnswers`). These four are checked by the lists of
`MCSurveyRun`, which are written out by hand.
`StatsAreRecorded` compares the counters of choices and matrix rows with the
answers the platform took.

- `Distribution.tla`: which table of a strategy is read, the boost of a
  persona, the tendency of a dimension, the correction from the counters, the
  rank order for strict ratios. Vectors are integers, since only ratios matter
  and nothing refuses a negative weight; `exp` is a rational function with the
  same order on the clamped arguments.
- `Correction.tla`: one choice question or matrix row over a whole run. Its
  `counts` are the answers counted so far, a draw adds one of the options the
  code may draw, and `CorrectionSound` relates the weights of the next draw to
  the target. `SurveyRun` has the same operators but few requests with a ratio;
  here every table, persona, dimension base and history of draws comes up.
- `Psychometrics.tla`: which questions take part, how many samples choose each
  option (`integerQuotas`), and every arrangement of those choices. The code
  picks one by random scores tuned towards Cronbach's alpha. Weights keep a
  common factor as in `Distribution`, negative ones count as zero
  (`normalizeProbabilityList`), and the powers of a bias are products.
- `ReverseFill.tla`: headers to questions, cells to answers, rows to samples.
  A text is the sequence of keys `labelVariants` compares it by.
- `AIText.tla`: the service asked, the protocols and the fallback between
  them, which text of a reply is taken (the first choice with its parts joined,
  or the output text or first item that is not blank), what counts as an answer
  for a question with blanks.

`SurveyRun` has strategies without forced options and dimensions and shows
every question; jumps, rules and dimensions are in `AnswerPlan`, leases,
pauses and fail-stop in `Engine`.

### `Bodies.tla`

The body each platform gets for a plan: the string of WJX as a sequence of
tokens, in which a separator may also come from a text and is replaced by
`escapeWJXSubmitText`; the nested records of Tencent and Credamo; the errors
that refuse a plan.

### `ConfigDocument.tla` and `ConfigStore.tla`

`ConfigDocument` are the operators: JSON values with their types, the tolerant
readers of `values.go`, migration and normalisation of legacy objects,
validation of weights, `Load` and the way back. `ConfigStore` is the
file: each saver goes through `serialize`, `create`, `write`, `sync`, `replace`
with a temporary file of its own; `file` is what readers find, `disk` what a
power failure leaves (`WriteBack` is the disk catching up with a rename,
unflushed data may be lost). `Kill` ends a saver anywhere, `Read` is `Load`.

### MC modules

`MCTaskManager` adds the symmetry of task ids (used only without liveness
properties), `MCProxyPool` the fetch answers, `MCAnswerPlan` the surveys,
`MCSurveyRun` the requests with the answers a person expects of them, `MCData`
the inputs of four parts that have no actors in common (`QuotaLaws`,
`Correction`, `Bodies`, `ConfigStore`): each is explored from its own initial
states.

## 4. Runs

| run | question | bounds |
|---|---|---|
| `engine_safety` | are jobs, errors, leases and reservations accounted for on every path, how far do two workers overshoot the fail-stop threshold, does the run return, and is it a `SubmissionRun`? | 2 workers (`PlanThreads`), target 3, threshold 1 (one failure stops, a late second is possible), one retry, one pause, a cancellation |
| `task_safety` | are outcome, runtime, row and log of a task consistent in one life of the process? | 2 tasks, late handlers, 1 event, 1 failing write |
| `task_restart` | what do crashes and restarts do, and do stops and shutdowns end? | 2 tasks, 2 lives, no late handlers |
| `task_request_scoped`, `task_use_after_close` | the disagreements of section 6 | 1 task |
| `pool_safety` | are leases exclusive, clean and used once, and does every Acquire answer? | 2 owners, 2 addresses, times 0 to 3, 3 Acquire calls: an address can be fetched again while in use, cooling, or after a success |
| `session_safety` | do memory, row, device id, login and quota stay consistent among concurrent calls? | 2 calls at a time, 3 in all, 1 failing access, 1 Clear, 2 lives; answers with all three values or the used one |
| `plan_safety` | is every answer of a plan justified by the others? | 9 surveys: logic over three pages, rules between single, multiple and matrix questions, dimensions over scales of 2 to 5 options with forced and custom answers, and six that end in an error |
| `plan_custom_dimension` | the disagreement of the answer plan in section 6 | 1 survey |
| `submit` | is a success really kept, is a kept answer repeated without need, does every attempt settle? | 2 jobs on each platform, one retried once, 1 fault, an end of the run anywhere |
| `survey_run` | does each job submit what is meant for it, are the scale quotas met, do the counters hold exactly the submitted answers? | 28 requests, up to 3 jobs, 2 workers, 2 failing submissions |
| `laws` | quota arithmetic, weight correction, request bodies, saving of the configuration | quotas 0 to 4 and absent; up to 4 counted answers over 4 options with even, skewed, excluding and negative weights; a survey of four kinds, each answered in all ways, with every character in its texts that a body gives a meaning to, its wide form, a newline and the words for a skipped question; 2 savers over absent, blank, torn, legacy and current files |

Two workers, tasks, owners, jobs or savers are enough for every race in the
code, since all interactions are between pairs (a lock, a channel hand-off, a
shared counter, a shared session, a rename); three jobs let one worker take two
more jobs while the other still has its first. Target 0, threads above the
target and a threshold of 0 exercise the defaults in `RunExecution`.

The surveys of `plan_safety` and the requests of `survey_run` are fixed rather
than enumerated: each combines mechanisms so that they meet (a jump over a
condition's source, a rule on a multiple choice whose limits leave no room, the
first answer of a dimension being forced; a blank row between two rows, a
worksheet with too few rows, an address that knows one protocol only, more jobs
than scale samples), and all choices and interleavings are explored.
`session_safety` takes only answers that report the used quota: an answer with
nothing but `remaining_quota` that is applied late makes the session overstate
what was used, and a report of remaining and used without a total ignores the
remaining (`quota.go:27`); no document promises otherwise. `task_restart` has
no late handlers: a task that a handler registers after `StopAll` has copied the
ids is stopped by nobody, and `Close` waits for it.

`BodyFaithful` compares the bodies of every two plans that differ from a base
plan in one question each, in both directions: they are equal exactly when the
plans agree in all that the platform can be told. `ToldWjx`, `ToldTencent` and
`ToldCredamo` name what is lost, so that nothing else can be lost unnoticed, and
nothing of it kept without the model being wrong (section 6 lists it).

Deadlock checking is off everywhere: each of these systems ends (the run has
returned, the process is down, all calls were made, the plan is finished, the
file is saved).

## 5. Fairness

- `Engine`: weak fairness of the main goroutine and of every worker. Go
  schedules runnable goroutines, and every collaborator answers because the
  HTTP clients have timeouts. No fairness of pausing, resuming, cancelling.
- `TaskManager`: weak fairness of the main goroutine, of a handler in the
  middle of `Create`, and of the run goroutine, except that the engine is only
  certain to return once it is cancelled (`RunMustStep`): this is what
  `Engine!Terminates` gives.
- `Platforms`: weak fairness of `Prepare`, of every runner's step and of the
  service deciding on what it received, since the HTTP client has a timeout of
  30 seconds. Nothing makes the service keep what it accepted.
- `ProxyPool`: weak fairness of every owner's step inside a call. Nobody has to
  start a call and time need not pass. `AcquireAnswers` holds since calls are
  finitely many (`MaxCalls`), as those of an engine run are; without a bound on
  the calls of the others, the polled `TryLock` could starve.

## 6. Where documents and code disagree

Three runs end in a counterexample on purpose.

1. **Request context** (`task_request_scoped`): `POST /api/v1/tasks` is
   documented as creating an asynchronous task, but the run's context is a child
   of the request's, which ends when the handler returns.
2. **Use after close** (`task_use_after_close`): the detached saves of
   `StopAll` are not waited for, so one can meet the closed store and panic.
3. **Custom weights** (`plan_custom_dimension`): `selectionEntry` stores the
   weights it narrowed in `Probabilities` only, and `SelectedIndex` prefers
   `CustomWeights` when the mode is `custom`, which is how score questions are
   set up by default. Dimension and distribution correction then have no effect,
   unless a consistency rule happened to clear `CustomWeights` before.

More peculiarities are in the models as the code has them and limit what the
properties say.

- A Stop between the registration of a task and the first update of its
  goroutine is answered `stopped`, after which the task shows as `running`
  until the engine sees the cancelled context; `AcceptedStopWins` shows that
  the outcome is still right. The detached save of a Stop may come after the
  final one, and the row loses the result; `DurableStatus` shows that the status
  itself is not lost.
- With up to three options a dimension leaves the option of its base, even one
  that a triggered rule excludes; `RuleObeyed` leaves such questions out. It
  overrides a worksheet's or a scale sample's single option in the same way.
- A question on a later page may have a smaller number. A rule or a condition
  that reads it then comes too late, since the plan goes by pages; the properties
  of `AnswerPlan` are about surveys whose pages follow the numbers
  (`PagesInOrder`).
- For a text question with several blanks the model is asked for one answer
  per blank (`ai_prompt.go:24`), and a worksheet row may bring one per blank;
  both become candidates, of which `text_values.go:39` draws one for all blanks.
  What is expected of such a question in `OverridesSubmitted` is therefore any
  one of them, in all blanks, and nothing else; a candidate that itself has
  parts between `||` fills the blanks part by part (`text_values.go:41`).
- Of a chat completions reply only the first choice counts: when it is blank the
  job is refused, whatever the other choices hold; the parts of a choice become
  one text of several lines (`ai_provider.go:80`). Of a responses reply the first
  item that is not blank counts.
- The string of WJX does not keep apart a separator and its wide form (a plain one
  is replaced by the wide one), nor the two commas (the wide one is narrowed,
  `wjx/answer.go:98`), and an only text that reads `(跳过)` looks like a question
  that was not shown. Tencent gets the blanks of a question joined by newlines
  (`submit_body.go:106`), so a newline in a text may stand for a border of blanks.
- `integerQuotas` counts from the first option; for questions with descending
  scores the plan mirrors the choices, so their quotas are mirrored too
  (`sampling.go:48`). The requests of `survey_run` have ascending scores, and
  `QuotasAreRealised` assumes them.
- `plan.SampleCount` is the request's target: an `options.Target` above it makes
  the first surplus job fail for good and ends the run (`Surplus`).
- Any error whose text mentions `404` or `not found` counts as a wrong address
  of the AI service and is tried with the other protocol (`ai_http.go:191`).
- A reply of Credamo without its success flag is taken as success
  (`client.go:69`); `SuccessRecorded` says so. A hidden question of Credamo has
  no answer, and a plan without it is refused as a whole (`answer.go:31`); a
  multiple answer loses its fill-ins there, and only the first text is sent.
- A timeout of an HTTP exchange is classified as a cancellation
  (`runerror/error.go:40`) and ends the run.
- `SaveDocument` validates nothing, so `Load` may refuse a saved file; the
  directory is not flushed, so a power failure may undo an acknowledged save,
  but never tear the file; a killed saver leaves its temporary file.

## 7. Proofs

`ProxyPool_proofs.tla` proves for every set of owners and addresses, every set
of fetch answers and all bounds:

- `PoolTypeCorrect`: the type invariant;
- `LeaseExclusivity`, `SuccessesNotReused`, `FreeLeasesAreClean`:
  the safety properties of `pool_safety`;
- `FetchExclusivity`: one fetch at a time.

The argument is one inductive invariant, `PoolInv`. None of the properties is
inductive alone. Exclusivity of the leases in use needs the free list to be
disjoint from them, which `Merge` and `Pop` keep by consulting
`blockedAddressesLocked`; that successes are not reused needs that no free
lease has succeeded and that owners still hold what they mark; that free leases
are not cooling down needs that the clock never runs backwards between
`ReadClock` and `MarkCooldown`; the single flight needs the lock owner to be
exactly the owner at one of three locations. Lemmas about `OnePerAddress`,
`Merge`, `Pop` and `Purged` (what they keep, drop and bound) are proved first
and cited by the steps. The assumptions are those of `ProxyPool.tla`.

`Engine_proofs.tla` proves for every set of workers, target, retry limit,
threshold and set of causes:

- `EngineTypeCorrect`, `LeasesFollowJobs`, `FewLateSubmissions`,
  `JobsAreCounted`, `NilMeansComplete`, `FailStopOvershoot` and
  `StatisticsFollowSuccesses`: the invariants of `engine_safety`;
- `EngineIsSubmissionRun`: the safety half of `ImplementsSubmissionRun`. The
  initial state and every step of the engine are those of the abstract run, or
  a stutter.

Each group of locations carries what is known there. `LeaseInv` ties a lease to
the locations between acquire and settle; `LateInv` says that a worker past a
cancellation is on its way out or has begun nothing late; the counting lemmas
express jobs handed out as success, failure, cancelled and the set of workers
that still owe a count (`Uncounted`), so that one step moves a worker out of a
set whose cardinality is known; `ErrorInv` says where an error can be that is
not in `firstErr` yet, which makes a nil answer complete; `FailStopInv` bounds
consecutive failures by the threshold and the number of `Doomed` workers, those
that have seen it reached and will take no further job. The refinement uses the
counting invariant (the target is never passed) and `ErrorInv` (an `ok` finish has everything succeeded).

`TaskManager_proofs.tla` proves for every set of tasks, with and without late
handlers, and for any number of events, failing writes and starts of the process:

- `TaskTypeCorrect`, `ActiveTasksAreRun`, `StopDecides`, `VisibleIsStored` and
  `EndedRowsAgree`;
- the action properties `FinishedStaysFinal` and `RestartIsGentle`.

Tasks do not touch each other, so the invariant `TaskInv(u)` is about one task
and the process, and a step has to be examined only for the task it is about
(`OneTaskSuffices`); one lemma per action says what the step does to that task.
`LifeInv` ties the manager's maps to the location of the run goroutine and says
that nothing of a former life is left while the service loads. `StopInv` says
that an accepted Stop has cancelled the context of a run that has not ended,
which is why the start of the run may write `running` over `stopped` and the
end still comes out right; it holds for rows and snapshots too, since any of
them may be loaded by the next process. `StoredInv` needs the row from the
first save of `Create` on. `DurableInv` relates every write still to come for an
ended task to the status in memory, and with it the row whose last write
succeeded.

`AnswerPlan_proofs.tla` proves for every set of well-formed surveys and every draw:

- `AnswersAreJustified`, `MultipleWithinLimits`, `RulesDecide` and
  `ReservationsAreAnswers`: the safety properties of `plan_safety`;
- `PlanTypeCorrect`: the type invariant, which no run repeats.

Each kind of question has an action of its own, but all have one shape, `Gives`:
a sound answer to the current question that the rules allow, its reservations
and a jump target. `StepDoes` shows that every step gives such an answer or
passes the question over, so the invariant `PlanInv` has two steps to survive.
The properties are about a finished plan; the invariant says the same of the
questions behind, and of those ahead what the jump target means: an answer jumps
over exactly those before the target. It is inductive since a condition, a rule
and a jump read questions of smaller number only, which are all behind when
the pages are in order, and an answer once given does not change.

`SurveyRun_proofs.tla` proves, for any workers, jobs, failures and sound requests:

- `CountersAreExact`: the property `StatsAreRecorded` of `survey_run`. Settling
  adds what was reserved when the answers were drawn, so the invariant `RunInv`
  follows a job from its configuration on: the configuration stays sound
  (`Prepared`); a job has one worker and is recorded exactly once it is submitted
  (`Placed`); a question kept to a ratio is still kept to it after every hook, so
  that its answers are reserved, and the reservations are the answers
  (`Answering`). That the recursion over the hooks keeps what each hook keeps is
  shown by counting up to the last hook (`HooksKeep`). `Counts` then follows by
  adding one submission at a time to a finite set;
- `QuotasAreRealised`: the property `QuotasRealised`, for requests whose plans
  can be followed (`RequestsGraded`). It has two halves. The quotas are fair
  (`QuotasAreFair`), for any weights and number of samples: a share is a number of
  wholes and a rest (`QuotientAndRest`), what rounding down leaves is less than one
  sample for every share with a rest (`RestIsSmall`, by counting up to the last
  option), so the largest remainders among them take it all and a whole share
  gets none of it. And a plan is followed, which `PlanInv` adds to `RunInv`: the
  plan is made of the questions and entries the run keeps (`PlanSound`) and its
  hook is the last one, so whatever the others did, the entries of a job leave one
  option a weight (`SampleSteers`); then neither the choice among the tables, the
  counters nor the order of a ratio can draw another (`SteeredIsDrawn`), and
  a retry, which configures anew, gets the same (`Follows`). Surplus jobs are
  refused, so what is recorded follows the plan job by job. Shares are exact
  fractions here; the code's are floating point, where a whole share may come
  out a little below itself and its sample among the largest remainders;
- `OverridesAreSubmitted`: the property `OverridesSubmitted`, for requests whose
  expectations are a reading of the request (`RequestsMeant`), text questions
  with several blanks included. That reading knows one job, nothing counted and
  nothing failed; the theorem says that the run keeps to it with any number of
  workers, in any order, after any failures and retries. It says nothing of the
  operators the reading shares with the run (section 3). Three things have to
  hold. Which hooks there are follows from the request, stage by stage
  (`RunSound`): each at most once, the worksheet's never beside the model's or
  the plan's, the model's wherever a strategy leaves something to it, and the
  worksheet is read for the very survey the run ends up with, parsed or given.
  Then a question of which something is expected is
  changed by one hook at most, so that the order of the hooks does not matter
  (`OneHookCounts`), and its entry leaves the expected answer (`SheetLeaves`,
  `WritesLeaves`, `ConfiguredLeaves`). Last, an entry that leaves one answer gets
  it whatever the counters hold (`AloneIsDrawn`, `LeftIsAnswered`): the correction
  draws no option that could not be drawn without it. `OverrideInv` carries that
  per worker to what is recorded;

and, for any number of options, all tables of integer weights, any persona,
dimension base and history of draws,

- `CorrectionNeverOverrules`: the property `CorrectionSound` of `laws`. The
  argument goes through the stages: each keeps a weight per option
  (`EffectiveIsWeighted`, `TendedIsWeighted`, `TargetIsWeighted`); the rounded
  exponent and with it the factor grow with the gap and stay positive
  (`DivisionGrows`, `ExponentGrows`, `FactorGrows`), so a target's zero stays
  zero, nothing else becomes zero, and of equally wanted options the less
  submitted one weighs no less (`ResolvedIsSound`); enforcing the order keeps
  both and lets no less wanted option overtake (`RankedIsSound`). The total of
  the weights is a recursive function, unfolded by counting up to the last option
  (`PrefixSums`, `TotalIsNatural`). The theorem rests on `exp` being replaced by a function of
  the same order, and on weights in integers rather than floating point.

`OfficialSession_proofs.tla` begins with lemmas about the quota arithmetic.
`NormalizeQuotaState` balances anything (`NormalizedIsBalanced`), leaves a
balanced quota alone (`BalancedIsNormal`), so that `normalizeSession` keeps what
`resolveQuotaFromPayload` answered (`ResolvedIsBalanced`). Its first theorems are
about `QuotaLaws`, for quotas of any size: `QuotaIsBalanced`, whatever is
reported, remaining and used add up to the total, and nothing empty is known; and
`ReportsAreIdempotent`, a report that comes twice changes nothing the second time.

It then proves for any calls, failures, clears and restarts, and accounts of any
size:

- `MemoryRow`, `UserHasDevice` and the action properties `DeviceKept` and
  `OnlyClearLogsOut`: the properties of `session_safety`;
- `QuotaNotOverstated`, from `UsedReported`: every answer of the service has
  the used quota. The set of `session_safety` satisfies it, and without it the
  property is false;
- `TypeCorrect`: the type invariant, which no run repeats.

The invariant says what the calls under way know. A call past its beginning
holds the device id of the session (`CallsKnowDevice`): hence a late write
brings back an old user or quota at worst, never an old device. Unless somebody
cleared the session, a call that needed a user still has one, and so has the
session (`LoggedIn`). `RowsDevice` ties the stored device id to the one in
memory, and every session anywhere is normal (`AllNormal`), so that storing and
loading it again is the identity, which `MemoryIsRow` needs across a restart.
For the quota a second invariant, `AllUnder`, bounds what every session and
every answer on its way claims by the account.

`Platforms_proofs.tla` proves for any jobs, attempts and faults, on all three
platforms, `SuccessIsRecorded`, `KeptIsRetriedUnproven` and `TypeCorrect`. The
invariant follows a submission: it is sent, accepted or recorded, never in two
places (`Placed`); it belongs to the attempt that made it (`OwnAttempt`); its
answer session belongs to no other job (`OwnSession`), also while nobody has
taken the seed (`SeedFresh`), so a poll that shows an answer shows this one; and
what the sender was told says where it is (`ToldOf`, `EndedOf`).

`ConfigStore_proofs.tla` proves `SavingIsAtomic` for any savers, documents and
initial contents: what a reader finds is the old file or one whole saved
document, kills and power failures included. `SaveAtomic` is strengthened by
what a saver knows of its temporary file (whole once written, flushed once it
may be renamed) and by the same for the disk. `LegacyIsRunnable` proves that
whatever numbers a legacy file holds, the migrated request has a positive
target and thread counts, ordered intervals, a bounded answer duration and an
alpha within its range.

Model-checked only:

- everything under fairness (`Terminates`, `AcceptedStopEnds`, `ShutdownEnds`,
  `AcquireAnswers`, `Settles`, the fairness half of `ImplementsSubmissionRun`),
  which is beyond the proof system;
- `BodyFaithful`: the bodies fold texts into sequences of any length, and that
  two of them differ needs an induction over those sequences.

## 8. Not modelled

`PROJECT.json` lists each part with its reason; the modules stand for about 37 %
of the implementation's lines.

- **Platform parsers.** HTML and JSON turned into a survey definition: tens of
  text heuristics without state, for which no document gives a reference to
  check against. The models take the definition as given.
- **Proxy fetchers and health, HTTP helpers.** One exchange each, without
  state; `ProxyPool` takes every list of leases, `Platforms` and `AIText` every
  class of reply.
- **Session-less reads.** `LoadLogs` (an empty page answers the cursor 0, and no
  document says how a client goes on), `List`, `Get`, usage and area list.
- **Floating point.** The scores that order the scale samples and Cronbach's
  alpha; every arrangement with the right counts is allowed instead.
- **Model values, command line, default tables.** Records, clones and I/O.
- **Data races.** That of `Create`'s clone (`manager.go:74`) only reaches the
  body of one answer.

The type invariants of `OfficialSession`, `Platforms` and `AnswerPlan` are proved
rather than run.
