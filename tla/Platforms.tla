----------------------------- MODULE Platforms ------------------------------
(***************************************************************************)
(* The platform runners (internal/providers: tencent, wjx, credamo):       *)
(* Prepare, once per run, and RunPrepared, once per attempt of a job, over *)
(* HTTP to a service that may refuse, answer late, lose an answer or break *)
(* the connection.  The jobs of one run share the prepared survey and the  *)
(* context of the run; the engine retries or cancels by the kind of error. *)
(*                                                                         *)
(* A submission is three steps: the request leaves, the service decides,   *)
(* the runner learns of it or not.  The reads before and after it are one  *)
(* step each.  Bodies, headers, signatures and texts are left out: a reply *)
(* is one of the classes the code tells apart.                             *)
(***************************************************************************)
EXTENDS Integers, FiniteSets

CONSTANTS
  Jobs,            \* jobs of the run, each held by a worker
  MaxAttempts,     \* ExecutionOptions.MaxRetries + 1
  MaxRetried,      \* bound: jobs attempted more than once
  MaxFaults        \* bound: broken or timed-out exchanges

ASSUME MaxAttemptsAssumption == MaxAttempts \in Nat \ {0}
ASSUME BoundsAssumption == MaxRetried \in Nat /\ MaxFaults \in Nat

VARIABLES
  provider,        \* the platform of the survey
  given,           \* the request brings the questions (only wjx looks)
  opens,           \* service: it answers with an answer_session_id (tencent)
  ended,           \* the run's context has ended
  preparing,       \* "session", "questions", "page", "detail", "ready" or a kind
  tries,           \* locales or pages asked for
  seed,            \* the session Prepare was given
  seedUsed,        \* PreparedSurvey.seedUsed
  pc,              \* where each job is
  attempt,
  session,         \* the answer session of each attempt, 0 for none
  reply,           \* the answer to the submission, or why there is none
  polls,
  outcome,         \* "none", "success" or the kind of the error
  sessions,        \* service: answer sessions it has opened
  sent,            \* submissions on their way: [job, attempt, session]
  accepted,        \* service: accepted and not yet kept
  recorded,        \* service: answers it has kept
  faults

surveyVars == <<provider, given, opens>>
prepareVars == <<preparing, tries, seed>>
jobVars == <<pc, attempt, session, reply, polls, outcome>>
serviceVars == <<sent, accepted, recorded>>
vars == <<surveyVars, ended, prepareVars, seedUsed, jobVars, sessions, serviceVars, faults>>

Providers == {"qq", "wjx", "credamo"}
Kinds == {"canceled", "parse", "config", "unsupported", "run"}

NoSession == 0             \* an empty answer_session_id

Locales == 4               \* locales
maxHTMLFetchAttempts == 3
Confirmations == 3         \* confirmSubmit's polls

Init ==
  /\ provider \in Providers /\ given \in BOOLEAN /\ (given => provider = "wjx")
  /\ opens \in BOOLEAN /\ (opens => provider = "qq")
  /\ ended = FALSE
  /\ preparing = CASE provider = "qq" -> "session"
                   [] provider = "wjx" -> "page"
                   [] provider = "credamo" -> "detail"
  /\ tries = 0 /\ seed = NoSession /\ seedUsed = FALSE
  /\ pc = [j \in Jobs |-> "waiting"] /\ attempt = [j \in Jobs |-> 0]
  /\ session = [j \in Jobs |-> NoSession] /\ reply = [j \in Jobs |-> "none"]
  /\ polls = [j \in Jobs |-> 0] /\ outcome = [j \in Jobs |-> "none"]
  /\ sessions = 0 /\ sent = {} /\ accepted = {} /\ recorded = {} /\ faults = 0

-----------------------------------------------------------------------------
(* Errors                                                                  *)

\* A slip: an error of the context is given a kind as every other one.
WrapAll(kind, cause) == kind

\* runerror.Wrap and ClassifyRunError: the end of the context, and a client's
\* timeout, which counts as context.DeadlineExceeded, stay what they are.
Wrap(kind, cause) == IF cause \in {"context", "timeout"} THEN "canceled" ELSE kind

\* How an exchange may fail.  With an ended context none leaves.
Broken(cause) ==
  \/ /\ ended /\ cause = "context" /\ UNCHANGED faults
  \/ /\ ~ended /\ cause \in {"timeout", "connection"}
     /\ faults < MaxFaults /\ faults' = faults + 1

\* An answer with an error code, without data or no JSON is an error as well.
Refused(cause) == ~ended /\ cause = "refused" /\ UNCHANGED faults

Fails(cause) == Broken(cause) \/ Refused(cause)

Answers == ~ended /\ UNCHANGED faults

\* The service opens a session of its own for every caller, if it opens any.
Opened(s) ==
  /\ s = IF opens THEN sessions + 1 ELSE NoSession
  /\ sessions' = IF opens THEN s ELSE sessions

-----------------------------------------------------------------------------
(* Prepare                                                                 *)

PrepareFails(step, cause) ==
  /\ preparing = step /\ Fails(cause)
  /\ preparing' = Wrap("parse", cause) /\ tries' = 0
  /\ UNCHANGED <<surveyVars, ended, seed, seedUsed, jobVars, sessions, serviceVars>>

\* tencent: the session of Prepare is kept for one job.
PrepareSession ==
  /\ preparing = "session" /\ Answers
  /\ \E s \in {NoSession, sessions + 1} : seed' = s /\ Opened(s)
  /\ preparing' = "questions"
  /\ UNCHANGED <<surveyVars, ended, tries, seedUsed, jobVars, serviceVars>>

\* tencent: locales are asked one after the other until one has questions.
QuestionsMissing(cause) ==
  /\ preparing = "questions"
  /\ \/ Fails(cause)
     \/ Answers /\ cause = "empty"
  /\ IF tries + 1 < Locales THEN tries' = tries + 1 /\ UNCHANGED preparing
     ELSE tries' = 0 /\ preparing' = Wrap("parse", cause)
  /\ UNCHANGED <<surveyVars, ended, seed, seedUsed, jobVars, sessions, serviceVars>>

\* Questions the parser rejects (buildDefinition) end the preparation.
QuestionsAnswered ==
  /\ preparing = "questions" /\ Answers
  /\ preparing' \in {"ready", "parse"}
  /\ tries' = 0
  /\ UNCHANGED <<surveyVars, ended, seed, seedUsed, jobVars, sessions, serviceVars>>

\* wjx, getHTML: a page that wants WeChat is asked for again.  It counts as the
\* survey when the request brings the questions itself.
PageGated ==
  /\ preparing = "page" /\ Answers
  /\ IF tries + 1 < maxHTMLFetchAttempts THEN tries' = tries + 1 /\ UNCHANGED preparing
     ELSE tries' = 0 /\ preparing' = IF given THEN "ready" ELSE "parse"
  /\ UNCHANGED <<surveyVars, ended, seed, seedUsed, jobVars, sessions, serviceVars>>

\* A page is parsed only for its questions; a paused, stopped, expired or empty
\* survey is an error then.
PageAnswered ==
  /\ preparing = "page" /\ Answers
  /\ preparing' \in IF given THEN {"ready"} ELSE {"ready", "parse"}
  /\ tries' = 0
  /\ UNCHANGED <<surveyVars, ended, seed, seedUsed, jobVars, sessions, serviceVars>>

\* credamo: the survey must have raw questions.
DetailAnswered ==
  /\ preparing = "detail" /\ Answers
  /\ preparing' \in {"ready", "parse"}
  /\ tries' = 0
  /\ UNCHANGED <<surveyVars, ended, seed, seedUsed, jobVars, sessions, serviceVars>>

Prepare ==
  \/ \E cause \in {"context", "timeout", "connection", "refused"} :
       PrepareFails("session", cause) \/ PrepareFails("page", cause)
         \/ PrepareFails("detail", cause) \/ QuestionsMissing(cause)
  \/ PrepareSession \/ QuestionsMissing("empty") \/ QuestionsAnswered
  \/ PageGated \/ PageAnswered \/ DetailAnswered

-----------------------------------------------------------------------------
(* RunPrepared                                                             *)

Goto(j, to) == pc' = [pc EXCEPT ![j] = to]

Finish(j, result) ==
  /\ outcome' = [outcome EXCEPT ![j] = result]
  /\ Goto(j, "settled")

\* The engine hands the job over; the runner looks at the context first.
Start(j) ==
  /\ preparing = "ready" /\ pc[j] = "waiting"
  /\ attempt' = [attempt EXCEPT ![j] = @ + 1]
  /\ session' = [session EXCEPT ![j] = NoSession]
  /\ reply' = [reply EXCEPT ![j] = "none"]
  /\ polls' = [polls EXCEPT ![j] = 0]
  /\ IF ended THEN Finish(j, "canceled")
     ELSE /\ Goto(j, IF provider = "wjx" THEN "building" ELSE "opening")
          /\ UNCHANGED outcome
  /\ UNCHANGED <<surveyVars, ended, prepareVars, seedUsed, sessions, serviceVars, faults>>

Fail(j, step, kinds) ==
  /\ pc[j] = step
  /\ \E kind \in kinds : Finish(j, kind)
  /\ UNCHANGED <<surveyVars, ended, prepareVars, seedUsed, attempt, session, reply, polls,
                 sessions, serviceVars>>

\* A slip: the session stays for the next job.
TakeAgain(j) ==
  /\ provider = "qq" /\ pc[j] = "opening" /\ ~seedUsed
  /\ session' = [session EXCEPT ![j] = seed]
  /\ Goto(j, "building")
  /\ UNCHANGED <<surveyVars, ended, prepareVars, seedUsed, attempt, reply, polls, outcome,
                 sessions, serviceVars, faults>>

takeSeedSession(j) ==
  /\ provider = "qq" /\ pc[j] = "opening" /\ ~seedUsed
  /\ seedUsed' = TRUE
  /\ session' = [session EXCEPT ![j] = seed]
  /\ Goto(j, "building")
  /\ UNCHANGED <<surveyVars, ended, prepareVars, attempt, reply, polls, outcome, sessions,
                 serviceVars, faults>>

\* tencent opens a session, credamo an answer with a token of its own.
Open(j) ==
  /\ pc[j] = "opening" /\ Answers
  /\ IF provider = "qq"
     THEN /\ seedUsed
          /\ \E s \in {NoSession, sessions + 1} :
               session' = [session EXCEPT ![j] = s] /\ Opened(s)
     ELSE UNCHANGED <<session, sessions>>
  /\ Goto(j, "building")
  /\ UNCHANGED <<surveyVars, ended, prepareVars, seedUsed, attempt, reply, polls, outcome,
                 serviceVars>>

OpenFails(j, cause) ==
  /\ provider = "qq" => seedUsed
  /\ Fails(cause) /\ Fail(j, "opening", {Wrap("run", cause)})

\* The body is built from the actions; a question of a kind the runner does not
\* submit keeps its kind of error.
Build(j) ==
  \/ /\ pc[j] = "building" /\ Goto(j, "submitting")
     /\ UNCHANGED <<surveyVars, ended, prepareVars, seedUsed, attempt, session, reply, polls,
                    outcome, sessions, serviceVars, faults>>
  \/ Fail(j, "building", {"unsupported", "config"}) /\ UNCHANGED faults

Submission(j) == [job |-> j, attempt |-> attempt[j], session |-> session[j]]

Send(j) ==
  /\ pc[j] = "submitting" /\ ~ended
  /\ sent' = sent \cup {Submission(j)}
  /\ Goto(j, "sending")
  /\ UNCHANGED <<surveyVars, ended, prepareVars, seedUsed, attempt, session, reply, polls,
                 outcome, sessions, accepted, recorded, faults>>

\* The proxy or the context fails before the request leaves, or the connection,
\* the client's patience or the context while the runner waits: a reply under way
\* is not read.
SendFails(j, cause) ==
  /\ pc[j] \in {"submitting", "sending"} /\ Broken(cause)
  /\ Finish(j, Wrap("run", cause))
  /\ reply' = [reply EXCEPT ![j] = cause]
  /\ UNCHANGED <<surveyVars, ended, prepareVars, seedUsed, attempt, session, polls, sessions,
                 serviceVars>>

\* What a reply tells the runner: a mark of success (wjx), an OK code with the
\* answer's hash (tencent), success not false (credamo, where it may be missing).
Convincing(r) == r = "accepted" \/ (provider = "credamo" /\ r = "flagless")

\* tencent goes on to confirm the answer if it has a session to ask.
Confirmable(j) == provider = "qq" /\ session[j] # NoSession

Receive(j) ==
  /\ pc[j] = "sending" /\ ~ended /\ reply[j] # "none"
  /\ IF ~Convincing(reply[j]) THEN Finish(j, "run")
     ELSE IF Confirmable(j) THEN Goto(j, "confirming") /\ UNCHANGED outcome
     ELSE Finish(j, "success")
  /\ UNCHANGED <<surveyVars, ended, prepareVars, seedUsed, attempt, session, reply, polls,
                 sessions, serviceVars, faults>>

\* answerSessionState: the session was opened for this answer and showed none
\* before.
Shown(s) == \E r \in recorded : r.session = s

\* A slip: the polls start over.
PollAgain(j) ==
  /\ pc[j] = "confirming" /\ Answers
  /\ IF Shown(session[j]) THEN Finish(j, "success") /\ polls' = [polls EXCEPT ![j] = 0]
     ELSE polls' = [polls EXCEPT ![j] = (@ + 1) % Confirmations] /\ UNCHANGED <<pc, outcome>>
  /\ UNCHANGED <<surveyVars, ended, prepareVars, seedUsed, attempt, session, reply, sessions,
                 serviceVars>>

\* confirmSubmit
Poll(j) ==
  /\ pc[j] = "confirming" /\ Answers
  /\ IF Shown(session[j]) THEN Finish(j, "success") /\ polls' = [polls EXCEPT ![j] = 0]
     ELSE IF polls[j] + 1 < Confirmations
     THEN polls' = [polls EXCEPT ![j] = @ + 1] /\ UNCHANGED <<pc, outcome>>
     ELSE Finish(j, "run") /\ polls' = [polls EXCEPT ![j] = 0]
  /\ UNCHANGED <<surveyVars, ended, prepareVars, seedUsed, attempt, session, reply, sessions,
                 serviceVars>>

PollFails(j, cause) ==
  Fails(cause) /\ Fail(j, "confirming", {Wrap("run", cause)})

MayRetry(j) ==
  /\ pc[j] = "settled" /\ attempt[j] < MaxAttempts
  /\ Cardinality({j} \cup {i \in Jobs : attempt[i] > 1}) <= MaxRetried

\* A slip: whatever failed is tried again.
RetryAll(j) ==
  /\ MayRetry(j) /\ outcome[j] # "success"
  /\ Goto(j, "waiting") /\ outcome' = [outcome EXCEPT ![j] = "none"]
  /\ UNCHANGED <<surveyVars, ended, prepareVars, seedUsed, attempt, session, reply, polls,
                 sessions, serviceVars, faults>>

\* runOneJob's retry
Retry(j) ==
  /\ MayRetry(j) /\ outcome[j] = "run"
  /\ Goto(j, "waiting") /\ outcome' = [outcome EXCEPT ![j] = "none"]
  /\ UNCHANGED <<surveyVars, ended, prepareVars, seedUsed, attempt, session, reply, polls,
                 sessions, serviceVars, faults>>

\* A worker cancels the run for an error that is not retryable; the caller may
\* end it at any time.
End ==
  /\ ~ended /\ ended' = TRUE
  /\ UNCHANGED <<surveyVars, prepareVars, seedUsed, jobVars, sessions, serviceVars, faults>>

RunnerStep(j) ==
  \/ Start(j) \/ takeSeedSession(j) \/ Open(j) \/ Build(j) \/ Send(j) \/ Receive(j)
  \/ Poll(j) \/ Retry(j)
  \/ \E cause \in {"context", "timeout", "connection", "refused"} :
       OpenFails(j, cause) \/ SendFails(j, cause) \/ PollFails(j, cause)

-----------------------------------------------------------------------------
(* The service                                                             *)

Tell(r, answer) ==
  reply' = IF pc[r.job] = "sending" /\ attempt[r.job] = r.attempt
           THEN [reply EXCEPT ![r.job] = answer] ELSE reply

\* A submission is accepted or not, whether its sender still waits or not.
\* tencent keeps an accepted answer later or never; a reply may miss the proof
\* ("unmarked") or, from credamo, the flag.
Serve(r) ==
  /\ r \in sent /\ sent' = sent \ {r}
  /\ \/ /\ \E answer \in {"accepted", "unmarked"} : Tell(r, answer)
        /\ IF provider = "qq"
           THEN accepted' = accepted \cup {r} /\ UNCHANGED recorded
           ELSE recorded' = recorded \cup {r} /\ UNCHANGED accepted
     \/ /\ provider = "credamo" /\ Tell(r, "flagless")
        /\ recorded' \in {recorded, recorded \cup {r}} /\ UNCHANGED accepted
     \/ Tell(r, "refused") /\ UNCHANGED <<accepted, recorded>>
  /\ UNCHANGED <<surveyVars, ended, prepareVars, seedUsed, pc, attempt, session, polls, outcome,
                 sessions, faults>>

Keep(r) ==
  /\ r \in accepted /\ accepted' = accepted \ {r}
  /\ recorded' = recorded \cup {r}
  /\ UNCHANGED <<surveyVars, ended, prepareVars, seedUsed, jobVars, sessions, sent, faults>>

Next ==
  \/ Prepare \/ End
  \/ \E j \in Jobs : RunnerStep(j)
  \/ \E r \in sent : Serve(r)
  \/ \E r \in accepted : Keep(r)

\* Every exchange ends: the client has a timeout of 30 seconds.  Nothing makes
\* the service keep what it has accepted.
Fairness ==
  /\ WF_vars(Prepare)
  /\ \A j \in Jobs : WF_vars(RunnerStep(j))
  /\ WF_vars(\E r \in sent : Serve(r))

Spec == Init /\ [][Next]_vars /\ Fairness

-----------------------------------------------------------------------------
(* Properties                                                              *)

\* The jobs' places fit what they hold: a job is at work only with a prepared
\* survey, confirms only an answer that was accepted under a session of its
\* own, and no two attempts share a session.
TypeOK ==
  /\ preparing \in {"session", "questions", "page", "detail", "ready"} \cup Kinds
  /\ \A j \in Jobs :
       /\ pc[j] \in {"waiting", "opening", "building", "submitting", "sending", "confirming",
                     "settled"}
       /\ outcome[j] \in {"none", "success"} \cup Kinds
       /\ outcome[j] # "none" <=> pc[j] = "settled"
       /\ attempt[j] \in 0..MaxAttempts
       /\ attempt[j] > 0 => preparing = "ready"
       /\ pc[j] = "confirming" => session[j] # NoSession /\ polls[j] < Confirmations

\* A submission the runner calls a success is one the platform has kept, as far
\* as it gave the runner anything to see it by: tencent without a session and
\* credamo without a flag leave it no choice.  In particular an answer another
\* job left in the session never confirms this one.
SuccessRecorded ==
  \A j \in Jobs : outcome[j] = "success" =>
    \/ Submission(j) \in recorded
    \/ provider = "qq" /\ session[j] = NoSession
    \/ provider = "credamo" /\ reply[j] = "flagless"

\* A job whose answer the platform has kept is submitted once more only when the
\* runner could not know: the connection broke, the reply had no proof, or three
\* polls did not show the answer.  A submission that timed out, or whose run has
\* ended, is never followed by another attempt.
RetriedOnlyUnproven ==
  [][\A j \in Jobs :
       attempt'[j] > attempt[j] =>
         /\ reply[j] \notin {"timeout", "context"}
         /\ Submission(j) \in recorded =>
              \/ reply[j] \in {"connection", "unmarked"}
              \/ provider = "qq" /\ session[j] # NoSession]_vars

\* No exchange, page, locale or poll keeps a job: the survey gets prepared or the
\* run fails, and then every attempt that has begun settles.
Settles ==
  <>(\/ preparing \in Kinds
     \/ \A j \in Jobs : pc[j] = "settled")

=============================================================================
