------------------------------- MODULE Engine -------------------------------
(***************************************************************************)
(* The concurrent submission engine: RunExecution, its worker goroutines   *)
(* and the jobs they run (pkg/surveycore/runtime/engine*.go).              *)
(*                                                                         *)
(* The feeding goroutine hands job indexes over an unbuffered channel to   *)
(* the workers.  A worker waits out pauses, then runs the job in up to     *)
(* Attempts attempts: check the context, take a proxy lease, configure the *)
(* job and build its answers, submit, give the lease back, settle the      *)
(* answer-runtime reservation, count.  The counters, the first error and   *)
(* the run context are shared; everything else belongs to one worker.      *)
(*                                                                         *)
(* What the platform, the lease manager and the configuration hooks answer *)
(* is chosen from Causes.  Messages, progress text and timestamps are left *)
(* out: nothing in the engine reads them back.                             *)
(***************************************************************************)
EXTENDS Integers, FiniteSets

CONSTANTS
  OptionTarget, PlanTarget,     \* options.Target, cfg.ExecutionPlan.Target
  OptionThreads, PlanThreads,   \* options.Threads, cfg.ExecutionPlan.Threads
  MaxRetries,                   \* options.MaxRetries
  FailStop, FailStopThreshold,  \* options.FailStop, options.FailStopThreshold
  UseRandomIP,                  \* a LeaseManager is in use
  Causes,                       \* errors the collaborators may answer
  Endings,                      \* how the caller's context may end
  MaxPauses                     \* bound: times the user pauses the run

AllCauses == {"canceled", "deadline", "unsupported", "invalid_config",
              "prepare_failed", "parse_failed", "kind_parse", "kind_config",
              "kind_unsupported", "kind_run", "plain"}

ASSUME EngineAssumption ==
  /\ OptionTarget \in Int /\ PlanTarget \in Int
  /\ OptionThreads \in Int /\ PlanThreads \in Int
  /\ MaxRetries \in Int /\ FailStopThreshold \in Int
  /\ FailStop \in BOOLEAN /\ UseRandomIP \in BOOLEAN
  /\ Causes \subseteq AllCauses
  /\ Endings \subseteq {"canceled", "deadline"}
  /\ MaxPauses \in Nat

FirstPositive(a, b) == IF a > 0 THEN a ELSE IF b > 0 THEN b ELSE 1

Target == FirstPositive(OptionTarget, PlanTarget)

Threads ==
  LET wanted == FirstPositive(OptionThreads, PlanThreads)
  IN  IF wanted > Target THEN Target ELSE wanted

Workers == 1..Threads

Attempts == IF MaxRetries + 1 <= 0 THEN 1 ELSE MaxRetries + 1

Threshold == IF FailStopThreshold > 0 THEN FailStopThreshold ELSE 5

ClassifyRunError(cause) ==
  CASE cause \in {"canceled", "deadline"}                           -> "canceled"
    [] cause \in {"unsupported", "kind_unsupported"}                -> "unsupported"
    [] cause \in {"invalid_config", "prepare_failed", "kind_config"} -> "config"
    [] cause \in {"parse_failed", "kind_parse"}                     -> "parse"
    [] OTHER                                                        -> "run"

IsRetryable(cause) == ClassifyRunError(cause) = "run"

VARIABLES
  feeder,     \* RunExecution's own goroutine: "feeding", "closed", "returned"
  next,       \* job indexes handed over so far
  ctxErr,     \* Err() of the caller's context
  runErr,     \* Err() of runCtx
  firstErr,   \* the first error recorded
  success, fail, consecutive,   \* executionState, under its mutex
  result,     \* what RunExecution returned
  paused,     \* PauseController.IsPaused()
  pauses,     \* pauses so far (bound)
  wpc,        \* where each worker is
  attempt,    \* the attempt each worker is in
  err,        \* the error its job carries
  seen,       \* the consecutive-failure count addFail returned to it
  lease,      \* it holds a proxy lease
  pending,    \* its owner has reserved answer choices
  committed,  \* reservations moved into the distribution statistics
  late        \* history: submissions a worker began after cancellation

shared   == <<feeder, next, ctxErr, runErr, firstErr, success, fail,
              consecutive, result, paused, pauses, committed>>
perwork  == <<wpc, attempt, err, seen, lease, pending, late>>
counters == <<success, fail, consecutive>>
main     == <<feeder, next, result>>
context  == <<ctxErr, runErr, firstErr>>
pausing  == <<paused, pauses>>
vars     == <<shared, perwork>>

Canceled == runErr # "none"

InJob == {"attempt", "acquire", "configure", "build", "submit", "settle", "count"}

NoResult == [success |-> 0, fail |-> 0, stopped |-> FALSE, err |-> "none"]

Init ==
  /\ feeder = "feeding" /\ next = 0
  /\ ctxErr = "none" /\ runErr = "none" /\ firstErr = "none"
  /\ success = 0 /\ fail = 0 /\ consecutive = 0
  /\ result = NoResult
  /\ paused = FALSE /\ pauses = 0
  /\ committed = 0
  /\ wpc = [w \in Workers |-> "recv"]
  /\ attempt = [w \in Workers |-> 1]
  /\ err = [w \in Workers |-> "none"]
  /\ seen = [w \in Workers |-> 0]
  /\ lease = [w \in Workers |-> FALSE]
  /\ pending = [w \in Workers |-> FALSE]
  /\ late = [w \in Workers |-> 0]

Goto(w, from, to) == wpc[w] = from /\ wpc' = [wpc EXCEPT ![w] = to]

-----------------------------------------------------------------------------
(* The feeding goroutine.  Its select may hand a job over or leave the     *)
(* loop when both are possible.                                            *)

FeedJob(w) ==
  /\ feeder = "feeding" /\ next < Target
  /\ Goto(w, "recv", "pause1")
  /\ next' = next + 1
  /\ attempt' = [attempt EXCEPT ![w] = 1]
  /\ err' = [err EXCEPT ![w] = "none"]
  /\ UNCHANGED <<feeder, result, context, counters, pausing, committed,
                 seen, lease, pending, late>>

CloseJobs ==
  /\ feeder = "feeding"
  /\ next = Target \/ Canceled
  /\ feeder' = "closed"
  /\ UNCHANGED <<next, result, context, counters, pausing, committed, perwork>>

\* A slip: ctx.Err() is not looked at after the workers are gone.
ReturnFirstErr ==
  /\ feeder = "closed"
  /\ \A w \in Workers : wpc[w] = "exit"
  /\ result' = [success |-> success, fail |-> fail, err |-> firstErr,
                stopped |-> firstErr \in {"canceled", "deadline"}]
  /\ feeder' = "returned"
  /\ runErr' = IF Canceled THEN runErr ELSE "canceled"
  /\ UNCHANGED <<next, ctxErr, firstErr, counters, pausing, committed, perwork>>

\* workers.Wait() has returned; the deferred cancel() ends runCtx.
Return ==
  /\ feeder = "closed"
  /\ \A w \in Workers : wpc[w] = "exit"
  /\ LET final == IF firstErr = "none" THEN ctxErr ELSE firstErr
     IN  /\ firstErr' = final
         /\ result' = [success |-> success, fail |-> fail, err |-> final,
                       stopped |-> final \in {"canceled", "deadline"}]
  /\ feeder' = "returned"
  /\ runErr' = IF Canceled THEN runErr ELSE "canceled"
  /\ UNCHANGED <<next, ctxErr, counters, pausing, committed, perwork>>

-----------------------------------------------------------------------------
(* The environment: the caller's context ends, the user pauses.            *)

EndContext(cause) ==
  /\ ctxErr = "none" /\ feeder # "returned"
  /\ ctxErr' = cause
  /\ runErr' = IF Canceled THEN runErr ELSE cause
  /\ UNCHANGED <<main, firstErr, counters, pausing, committed, perwork>>

Pause ==
  /\ ~paused /\ pauses < MaxPauses /\ feeder # "returned"
  /\ paused' = TRUE /\ pauses' = pauses + 1
  /\ UNCHANGED <<main, context, counters, committed, perwork>>

Resume ==
  /\ paused
  /\ paused' = FALSE
  /\ UNCHANGED <<pauses, main, context, counters, committed, perwork>>

-----------------------------------------------------------------------------
(* runExecutionWorker                                                      *)

\* The channel is closed and drained: the range loop ends.
JobsDrained(w) ==
  /\ feeder # "feeding"
  /\ Goto(w, "recv", "exit")
  /\ UNCHANGED <<shared, attempt, err, seen, lease, pending, late>>

\* The first waitIfExecutionPaused, and the submit interval after it.
FirstPauseCheck(w) ==
  /\ \/ paused /\ Goto(w, "pause1", "paused1")
     \/ ~paused /\ Goto(w, "pause1", "pause2")
  /\ UNCHANGED <<shared, attempt, err, seen, lease, pending, late>>

\* A slip: a paused worker waits for the resume only.
WaitForResume(w) ==
  /\ \/ ~paused /\ Goto(w, "paused1", "pause2")
     \/ ~paused /\ Goto(w, "paused2", "checked")
  /\ UNCHANGED <<shared, attempt, err, seen, lease, pending, late>>

\* WaitIfPaused(ctx) ends when the run is resumed or its context is over.
WaitIfPaused(w) ==
  /\ \/ ~paused /\ Goto(w, "paused1", "pause2")
     \/ ~paused /\ Goto(w, "paused2", "checked")
     \/ Canceled /\ (Goto(w, "paused1", "exit") \/ Goto(w, "paused2", "exit"))
  /\ UNCHANGED <<shared, attempt, err, seen, lease, pending, late>>

SecondPauseCheck(w) ==
  /\ \/ paused /\ Goto(w, "pause2", "paused2")
     \/ ~paused /\ Goto(w, "pause2", "checked")
  /\ UNCHANGED <<shared, attempt, err, seen, lease, pending, late>>

\* The ctx.Err() half of the second check.
StartJob(w) ==
  /\ \/ Canceled /\ Goto(w, "checked", "exit")
     \/ ~Canceled /\ Goto(w, "checked", "attempt")
  /\ UNCHANGED <<shared, attempt, err, seen, lease, pending, late>>

\* A slip: only the errors that cancel the run are recorded.
RecordFatalError(w) ==
  /\ \/ err[w] = "none" /\ Goto(w, "report", "next")
     \/ err[w] # "none" /\ Goto(w, "report", "decide")
  /\ firstErr' = IF firstErr = "none" /\ ~IsRetryable(err[w]) /\ err[w] # "none"
                 THEN err[w] ELSE firstErr
  /\ UNCHANGED <<main, ctxErr, runErr, counters, pausing, committed,
                 attempt, err, seen, lease, pending, late>>

\* recordError keeps the first error only.
RecordError(w) ==
  /\ \/ err[w] = "none" /\ Goto(w, "report", "next")
     \/ err[w] # "none" /\ Goto(w, "report", "decide")
  /\ firstErr' = IF firstErr = "none" THEN err[w] ELSE firstErr
  /\ UNCHANGED <<main, ctxErr, runErr, counters, pausing, committed,
                 attempt, err, seen, lease, pending, late>>

\* A slip: the run is cancelled one failure too late.
MustCancelLate(w) ==
  \/ ~IsRetryable(err[w])
  \/ FailStop /\ seen[w] > Threshold

MustCancel(w) ==
  \/ ~IsRetryable(err[w])
  \/ FailStop /\ seen[w] >= Threshold

DecideCancel(w) ==
  /\ Goto(w, "decide", "next")
  /\ runErr' = IF MustCancel(w) /\ ~Canceled THEN "canceled" ELSE runErr
  /\ UNCHANGED <<main, ctxErr, firstErr, counters, pausing, committed,
                 attempt, err, seen, lease, pending, late>>

NextJob(w) ==
  /\ \/ Canceled /\ Goto(w, "next", "exit")
     \/ ~Canceled /\ Goto(w, "next", "recv")
  /\ UNCHANGED <<shared, attempt, err, seen, lease, pending, late>>

-----------------------------------------------------------------------------
(* runOneJob                                                               *)

ShouldRetry(w, cause) == attempt[w] < Attempts /\ IsRetryable(cause)

\* A slip: every failed attempt is counted, not every failed job.
CountThenRetry(w, cause) ==
  /\ err' = [err EXCEPT ![w] = cause]
  /\ fail' = fail + 1
  /\ consecutive' = consecutive + 1
  /\ seen' = [seen EXCEPT ![w] = consecutive']
  /\ UNCHANGED success
  /\ IF ShouldRetry(w, cause)
     THEN /\ attempt' = [attempt EXCEPT ![w] = @ + 1]
          /\ wpc' = [wpc EXCEPT ![w] = "attempt"]
     ELSE /\ wpc' = [wpc EXCEPT ![w] = "report"]
          /\ UNCHANGED attempt

\* An attempt ends with an error: sleep and try again, or count the failure.
RetryOrFail(w, cause) ==
  /\ err' = [err EXCEPT ![w] = cause]
  /\ IF ShouldRetry(w, cause)
     THEN /\ attempt' = [attempt EXCEPT ![w] = @ + 1]
          /\ wpc' = [wpc EXCEPT ![w] = "attempt"]
          /\ UNCHANGED <<counters, seen>>
     ELSE /\ fail' = fail + 1
          /\ consecutive' = consecutive + 1
          /\ seen' = [seen EXCEPT ![w] = consecutive']
          /\ wpc' = [wpc EXCEPT ![w] = "report"]
          /\ UNCHANGED <<success, attempt>>

\* A slip: the context is not checked before a retry.
BeginUnchecked(w) ==
  /\ wpc[w] = "attempt"
  /\ wpc' = [wpc EXCEPT ![w] = IF UseRandomIP THEN "acquire" ELSE "configure"]
  /\ UNCHANGED <<shared, attempt, err, seen, lease, pending, late>>

\* A cancelled run returns (0, ctx.Err()) without counting a failure.
BeginAttempt(w) ==
  /\ wpc[w] = "attempt"
  /\ \/ /\ Canceled
        /\ wpc' = [wpc EXCEPT ![w] = "report"]
        /\ err' = [err EXCEPT ![w] = runErr]
        /\ seen' = [seen EXCEPT ![w] = 0]
     \/ /\ ~Canceled
        /\ wpc' = [wpc EXCEPT ![w] = IF UseRandomIP THEN "acquire" ELSE "configure"]
        /\ UNCHANGED <<err, seen>>
  /\ UNCHANGED <<shared, attempt, lease, pending, late>>

AcquireLease(w) ==
  /\ Goto(w, "acquire", "configure")
  /\ lease' = [lease EXCEPT ![w] = TRUE]
  /\ UNCHANGED <<shared, attempt, err, seen, pending, late>>

AcquireFails(w, cause) ==
  /\ wpc[w] = "acquire"
  /\ RetryOrFail(w, cause)
  /\ UNCHANGED <<main, context, pausing, committed, lease, pending, late>>

\* The owner's leftovers are reset, then ConfigureJob runs.
ConfigureJob(w) ==
  /\ Goto(w, "configure", "build")
  /\ pending' = [pending EXCEPT ![w] = FALSE]
  /\ UNCHANGED <<shared, attempt, err, seen, lease, late>>

\* BuildActionsWithLogic may reserve choices for this owner.
BuildActions(w, reserves) ==
  /\ Goto(w, "build", "submit")
  /\ pending' = [pending EXCEPT ![w] = reserves]
  /\ late' = [late EXCEPT ![w] = IF Canceled THEN @ + 1 ELSE @]
  /\ UNCHANGED <<shared, attempt, err, seen, lease>>

\* A slip: an early return forgets the lease.
PrepareFailsLeaking(w, cause) ==
  /\ wpc[w] \in {"configure", "build"}
  /\ wpc' = [wpc EXCEPT ![w] = "report"]
  /\ err' = [err EXCEPT ![w] = cause]
  /\ pending' = [pending EXCEPT ![w] = FALSE]
  /\ fail' = fail + 1
  /\ consecutive' = consecutive + 1
  /\ seen' = [seen EXCEPT ![w] = consecutive']
  /\ UNCHANGED <<main, context, success, pausing, committed, attempt, lease, late>>

\* ConfigureJob or the answer builder fails: no retry.
PrepareFails(w, cause) ==
  /\ wpc[w] \in {"configure", "build"}
  /\ wpc' = [wpc EXCEPT ![w] = "report"]
  /\ err' = [err EXCEPT ![w] = cause]
  /\ lease' = [lease EXCEPT ![w] = FALSE]
  /\ pending' = [pending EXCEPT ![w] = FALSE]
  /\ fail' = fail + 1
  /\ consecutive' = consecutive + 1
  /\ seen' = [seen EXCEPT ![w] = consecutive']
  /\ UNCHANGED <<main, context, success, pausing, committed, attempt, late>>

SubmitReturns(w, cause) ==
  /\ Goto(w, "submit", "settle")
  /\ err' = [err EXCEPT ![w] = cause]
  /\ UNCHANGED <<shared, attempt, seen, lease, pending, late>>

\* A slip: reservations are committed whatever the submission answered.
SettleAlways(w) ==
  /\ Goto(w, "settle", "count")
  /\ lease' = [lease EXCEPT ![w] = FALSE]
  /\ committed' = IF pending[w] THEN committed + 1 ELSE committed
  /\ pending' = [pending EXCEPT ![w] = FALSE]
  /\ UNCHANGED <<main, context, counters, pausing, attempt, err, seen, late>>

\* releaseExecutionLease and finalizeAnswerRuntime.
Settle(w) ==
  /\ Goto(w, "settle", "count")
  /\ lease' = [lease EXCEPT ![w] = FALSE]
  /\ committed' = IF err[w] = "none" /\ pending[w] THEN committed + 1 ELSE committed
  /\ pending' = [pending EXCEPT ![w] = FALSE]
  /\ UNCHANGED <<main, context, counters, pausing, attempt, err, seen, late>>

CountSuccess(w) ==
  /\ err[w] = "none"
  /\ Goto(w, "count", "report")
  /\ success' = success + 1
  /\ consecutive' = 0
  /\ seen' = [seen EXCEPT ![w] = 0]
  /\ UNCHANGED <<main, context, fail, pausing, committed, attempt, err,
                 lease, pending, late>>

CountFailure(w) ==
  /\ wpc[w] = "count" /\ err[w] # "none"
  /\ RetryOrFail(w, err[w])
  /\ UNCHANGED <<main, context, pausing, committed, lease, pending, late>>

-----------------------------------------------------------------------------

WorkerStep(w) ==
  \/ JobsDrained(w) \/ FirstPauseCheck(w) \/ WaitIfPaused(w)
  \/ SecondPauseCheck(w) \/ StartJob(w)
  \/ RecordError(w) \/ DecideCancel(w) \/ NextJob(w)
  \/ BeginAttempt(w) \/ AcquireLease(w) \/ ConfigureJob(w)
  \/ \E reserves \in BOOLEAN : BuildActions(w, reserves)
  \/ \E cause \in Causes : AcquireFails(w, cause) \/ PrepareFails(w, cause)
  \/ \E cause \in Causes \cup {"none"} : SubmitReturns(w, cause)
  \/ Settle(w) \/ CountSuccess(w) \/ CountFailure(w)

MainStep == (\E w \in Workers : FeedJob(w)) \/ CloseJobs \/ Return

Next ==
  \/ MainStep
  \/ \E w \in Workers : WorkerStep(w)
  \/ \E cause \in Endings : EndContext(cause)
  \/ Pause \/ Resume

\* Goroutines are scheduled and every collaborator answers (the HTTP clients
\* have timeouts); nobody has to pause, resume or cancel.
Fairness ==
  /\ WF_vars(MainStep)
  /\ \A w \in Workers : WF_vars(WorkerStep(w))

Spec == Init /\ [][Next]_vars /\ Fairness

-----------------------------------------------------------------------------
(* Properties                                                              *)

Locations == {"recv", "pause1", "paused1", "pause2", "paused2", "checked",
              "report", "decide", "next", "exit"} \cup InJob

Errors == AllCauses \cup {"none"}

\* Every variable of the engine stays in its type.
TypeOK ==
  /\ feeder \in {"feeding", "closed", "returned"}
  /\ next \in 0..Target
  /\ ctxErr \in {"none", "canceled", "deadline"}
  /\ runErr \in {"none", "canceled", "deadline"}
  /\ firstErr \in Errors
  /\ success \in Nat /\ fail \in Nat /\ consecutive \in Nat
  /\ result \in [success : Nat, fail : Nat, stopped : BOOLEAN, err : Errors]
  /\ paused \in BOOLEAN /\ pauses \in 0..MaxPauses
  /\ committed \in Nat
  /\ wpc \in [Workers -> Locations]
  /\ attempt \in [Workers -> 1..Attempts]
  /\ err \in [Workers -> Errors]
  /\ seen \in [Workers -> Nat]
  /\ lease \in [Workers -> BOOLEAN]
  /\ pending \in [Workers -> BOOLEAN]
  /\ late \in [Workers -> Nat]

\* Workers that took a job they have not counted yet.
Uncounted ==
  {w \in Workers : wpc[w] \in InJob \cup {"pause1", "paused1", "pause2",
                                          "paused2", "checked"}}

\* No job is counted twice or lost: the successes, the failures and the jobs
\* still in a worker's hands never exceed the indexes fed, and while the run
\* is not cancelled they are exactly those (a worker that leaves its loop or
\* retries must not drop or recount its job).
NoJobLost ==
  /\ success + fail + Cardinality(Uncounted) <= next
  /\ ~Canceled => success + fail + Cardinality(Uncounted) = next

\* RunExecution returns a nil error only when the whole target succeeded:
\* no failure, cancellation or early exit of a worker is swallowed.
NilErrorMeansComplete ==
  feeder = "returned" /\ result.err = "none" =>
    result.success = Target /\ result.fail = 0

\* With fail-stop on, the run overshoots the threshold by at most the jobs the
\* other workers already had in hand, however success and failure interleave.
FailStopBound ==
  FailStop => consecutive <= Threshold + Threads - 1

\* After cancellation a worker begins at most one more submission, the one it
\* was already preparing: retries and queued jobs do not slip through.
LateSubmitBound == \A w \in Workers : late[w] <= 1

\* A worker holds a lease exactly from a successful Acquire to the end of the
\* attempt: no error path leaks one, none is given back while submitting.
LeaseExactlyWhileUsed ==
  \A w \in Workers :
    lease[w] <=> UseRandomIP /\ wpc[w] \in {"configure", "build", "submit", "settle"}

\* The distribution statistics only ever count reservations of submissions
\* that succeeded, and no attempt leaves a reservation behind.
StatsFollowSuccess ==
  /\ committed <= success + Cardinality({w \in Workers : wpc[w] = "count"
                                                           /\ err[w] = "none"})
  /\ \A w \in Workers : pending[w] => wpc[w] \in {"submit", "settle"}

\* The run returns once it is cancelled, even while paused, and also whenever
\* it does not stay paused: no worker and no channel hand-off blocks for ever.
Terminates ==
  (<>[]~paused \/ <>Canceled) => <>(feeder = "returned")

\* The engine implements the abstract run.
Run == INSTANCE SubmissionRun WITH
  phase   <- IF feeder = "returned" THEN "finished"
             ELSE IF Canceled THEN "stopping" ELSE "running",
  ok      <- success,
  bad     <- fail,
  verdict <- IF feeder # "returned" THEN "none"
             ELSE IF result.err = "none" THEN "ok" ELSE "error"

\* Seen from its caller, RunExecution is a SubmissionRun: what it counts, when
\* it may finish and with which verdict, and that a stopped run does finish.
ImplementsSubmissionRun == Run!RunSpec

=============================================================================
