--------------------------- MODULE Engine_proofs ----------------------------
(***************************************************************************)
(* The safety of the submission engine, for every target, number of        *)
(* threads, retry limit, threshold, and every way collaborators and the    *)
(* caller's context may fail.                                              *)
(***************************************************************************)
EXTENDS Engine, FiniteSetTheorems, TLAPS

LEMMA ConstantTypes ==
  /\ Target \in Nat \ {0}
  /\ Threads \in Nat \ {0} /\ Threads <= Target
  /\ Attempts \in Nat \ {0}
  /\ Threshold \in Nat \ {0}
<1>1. Target \in Nat \ {0}
  BY EngineAssumption DEF Target, FirstPositive
<1>2. Threads \in Nat \ {0} /\ Threads <= Target
  BY <1>1, EngineAssumption DEF Threads, FirstPositive
<1>3. Attempts \in Nat \ {0} /\ Threshold \in Nat \ {0}
  BY EngineAssumption DEF Attempts, Threshold
<1> QED
  BY <1>1, <1>2, <1>3

LEMMA CauseTypes ==
  /\ Causes \subseteq Errors \ {"none"}
  /\ Endings \subseteq {"canceled", "deadline"}
  /\ {"none", "canceled", "deadline"} \subseteq Errors
BY EngineAssumption DEF Errors, AllCauses

-----------------------------------------------------------------------------
(* Types                                                                   *)

\* An attempt that ends with an error: retried, or counted as a failure.
LEMMA RetryOrFailTypes ==
  ASSUME TypeOK, NEW w \in Workers, NEW cause \in Errors, RetryOrFail(w, cause)
  PROVE  /\ wpc' \in [Workers -> Locations]
         /\ attempt' \in [Workers -> 1..Attempts]
         /\ err' \in [Workers -> Errors]
         /\ seen' \in [Workers -> Nat]
         /\ success' \in Nat /\ fail' \in Nat /\ consecutive' \in Nat
<1>1. CASE ShouldRetry(w, cause)
  <2>1. attempt[w] + 1 \in 1..Attempts
    BY <1>1, ConstantTypes DEF ShouldRetry, TypeOK
  <2> QED
      BY <1>1, <2>1 DEF RetryOrFail, TypeOK, Locations, InJob, counters
<1>2. CASE ~ShouldRetry(w, cause)
  BY <1>2 DEF RetryOrFail, TypeOK, Locations, counters
<1> QED
  BY <1>1, <1>2

LEMMA InitTypeOK == Init => TypeOK
<1> SUFFICES ASSUME Init PROVE TypeOK
  OBVIOUS
<1>1. /\ feeder \in {"feeding", "closed", "returned"} /\ next \in 0..Target
      /\ success \in Nat /\ fail \in Nat /\ consecutive \in Nat /\ committed \in Nat
  BY ConstantTypes DEF Init
<1>2. /\ ctxErr \in {"none", "canceled", "deadline"}
      /\ runErr \in {"none", "canceled", "deadline"}
      /\ firstErr \in Errors
      /\ result \in [success : Nat, fail : Nat, stopped : BOOLEAN, err : Errors]
  BY CauseTypes DEF Init, NoResult
<1>3. /\ wpc \in [Workers -> Locations] /\ attempt \in [Workers -> 1..Attempts]
      /\ err \in [Workers -> Errors] /\ seen \in [Workers -> Nat]
      /\ lease \in [Workers -> BOOLEAN] /\ pending \in [Workers -> BOOLEAN]
      /\ late \in [Workers -> Nat]
  BY ConstantTypes, CauseTypes DEF Init, Locations
<1>4. paused \in BOOLEAN
  BY DEF Init
<1>5. pauses \in 0..MaxPauses
  BY EngineAssumption DEF Init
<1> QED
  BY <1>1, <1>2, <1>3, <1>4, <1>5 DEF TypeOK

LEMMA StepTypeOK == TypeOK /\ [Next]_vars => TypeOK'
<1> SUFFICES ASSUME TypeOK, [Next]_vars PROVE TypeOK'
  OBVIOUS
<1> USE DEF TypeOK, main, context, counters, pausing, shared, perwork
<1>1. ASSUME NEW w \in Workers, FeedJob(w) PROVE TypeOK'
  BY <1>1, ConstantTypes, CauseTypes DEF FeedJob, Goto, Locations
<1>2. CASE CloseJobs \/ Pause \/ Resume
  <2>1. CASE CloseJobs
    BY <2>1 DEF CloseJobs
  <2>2. CASE Pause
    <3>1. pauses + 1 \in 0..MaxPauses
      BY <2>2, EngineAssumption DEF Pause
    <3> QED
      BY <2>2, <3>1 DEF Pause
  <2>3. CASE Resume
    BY <2>3 DEF Resume
  <2> QED
    BY <1>2, <2>1, <2>2, <2>3
<1>3. CASE Return
  BY <1>3, CauseTypes DEF Return, Canceled
<1>4. ASSUME NEW cause \in Endings, EndContext(cause) PROVE TypeOK'
  BY <1>4, CauseTypes DEF EndContext, Canceled
<1>5. ASSUME NEW w \in Workers,
             JobsDrained(w) \/ FirstPauseCheck(w) \/ WaitIfPaused(w)
               \/ SecondPauseCheck(w) \/ StartJob(w) \/ NextJob(w)
      PROVE  TypeOK'
  BY <1>5 DEF JobsDrained, FirstPauseCheck, WaitIfPaused, SecondPauseCheck,
              StartJob, NextJob, Goto, Locations, InJob
<1>6. ASSUME NEW w \in Workers, RecordError(w) \/ DecideCancel(w) PROVE TypeOK'
  BY <1>6 DEF RecordError, DecideCancel, Goto, Locations
<1>7. ASSUME NEW w \in Workers, BeginAttempt(w) PROVE TypeOK'
  BY <1>7, CauseTypes DEF BeginAttempt, Locations, InJob
<1>8. ASSUME NEW w \in Workers, AcquireLease(w) \/ ConfigureJob(w) PROVE TypeOK'
  BY <1>8 DEF AcquireLease, ConfigureJob, Goto, Locations, InJob
<1>9. ASSUME NEW w \in Workers, NEW reserves \in BOOLEAN, BuildActions(w, reserves)
      PROVE  TypeOK'
  BY <1>9 DEF BuildActions, Goto, Locations, InJob
<1>10. ASSUME NEW w \in Workers, NEW cause \in Causes, AcquireFails(w, cause)
       PROVE  TypeOK'
  BY <1>10, RetryOrFailTypes, CauseTypes DEF AcquireFails
<1>11. ASSUME NEW w \in Workers, NEW cause \in Causes, PrepareFails(w, cause)
       PROVE  TypeOK'
  BY <1>11, CauseTypes DEF PrepareFails, Locations
<1>12. ASSUME NEW w \in Workers, NEW cause \in Causes \cup {"none"}, SubmitReturns(w, cause)
       PROVE  TypeOK'
  BY <1>12, CauseTypes DEF SubmitReturns, Goto, Locations, InJob
<1>13. ASSUME NEW w \in Workers, Settle(w) PROVE TypeOK'
  BY <1>13 DEF Settle, Goto, Locations, InJob
<1>14. ASSUME NEW w \in Workers, CountSuccess(w) PROVE TypeOK'
  BY <1>14 DEF CountSuccess, Goto, Locations
<1>15. ASSUME NEW w \in Workers, CountFailure(w) PROVE TypeOK'
  <2>1. err[w] \in Errors /\ RetryOrFail(w, err[w])
    BY <1>15 DEF CountFailure
  <2> QED
    BY <1>15, <2>1, RetryOrFailTypes DEF CountFailure
<1>16. CASE UNCHANGED vars
  BY <1>16 DEF vars
<1> QED
  BY <1>1, <1>2, <1>3, <1>4, <1>5, <1>6, <1>7, <1>8, <1>9, <1>10, <1>11, <1>12,
     <1>13, <1>14, <1>15, <1>16 DEF Next, MainStep, WorkerStep

\* The engine keeps its types: attempts stay within the retry limit, job
\* indexes within the target.
THEOREM EngineTypeCorrect == Spec => []TypeOK
BY InitTypeOK, StepTypeOK, PTL DEF Spec

-----------------------------------------------------------------------------
(* Leases                                                                  *)

\* A lease is only asked for when a lease manager is in use.
LeaseInv ==
  /\ LeaseExactlyWhileUsed
  /\ \A w \in Workers : wpc[w] = "acquire" => UseRandomIP

LEMMA StepLease == TypeOK /\ LeaseInv /\ [Next]_vars => LeaseInv'
<1> SUFFICES ASSUME TypeOK, LeaseInv, [Next]_vars
             PROVE  LeaseInv'
  OBVIOUS
<1> USE DEF TypeOK, LeaseInv, LeaseExactlyWhileUsed
<1>1. CASE UNCHANGED <<wpc, lease>>
  BY <1>1
\* A worker moves outside the stretch in which it holds a lease.
<1>2. ASSUME NEW w \in Workers, UNCHANGED lease,
             NEW to \in Locations \ {"acquire", "configure", "build", "submit", "settle"},
             wpc[w] \notin {"configure", "build", "submit", "settle"},
             wpc' = [wpc EXCEPT ![w] = to]
      PROVE  LeaseInv'
  BY <1>2
<1>3. CASE CloseJobs \/ Return \/ Pause \/ Resume \/ (\E cause \in Endings : EndContext(cause))
  BY <1>1, <1>3 DEF CloseJobs, Return, Pause, Resume, EndContext, perwork
<1>4. ASSUME NEW w \in Workers,
             FeedJob(w) \/ JobsDrained(w) \/ FirstPauseCheck(w) \/ WaitIfPaused(w)
               \/ SecondPauseCheck(w) \/ StartJob(w) \/ NextJob(w)
               \/ RecordError(w) \/ DecideCancel(w)
      PROVE  LeaseInv'
  <2>1. UNCHANGED lease /\ wpc[w] \notin {"configure", "build", "submit", "settle"}
    BY <1>4 DEF FeedJob, JobsDrained, FirstPauseCheck, WaitIfPaused, SecondPauseCheck,
                StartJob, NextJob, RecordError, DecideCancel, Goto
  <2>2. \E to \in Locations \ {"acquire", "configure", "build", "submit", "settle"} :
          wpc' = [wpc EXCEPT ![w] = to]
    BY <1>4 DEF FeedJob, JobsDrained, FirstPauseCheck, WaitIfPaused, SecondPauseCheck,
                StartJob, NextJob, RecordError, DecideCancel, Goto, Locations, InJob
  <2> QED
    BY <1>2, <2>1, <2>2
<1>5. ASSUME NEW w \in Workers, BeginAttempt(w) PROVE LeaseInv'
  BY <1>5, EngineAssumption DEF BeginAttempt
<1>6. ASSUME NEW w \in Workers, AcquireLease(w) PROVE LeaseInv'
  BY <1>6 DEF AcquireLease, Goto
<1>7. ASSUME NEW w \in Workers, NEW cause, RetryOrFail(w, cause), UNCHANGED lease,
             wpc[w] \in {"acquire", "count"}
      PROVE  LeaseInv'
  <2>1. \E to \in {"attempt", "report"} : wpc' = [wpc EXCEPT ![w] = to]
    BY <1>7 DEF RetryOrFail
  <2> QED
    BY <1>2, <1>7, <2>1 DEF Locations, InJob
<1>8. ASSUME NEW w \in Workers, NEW cause \in Causes, AcquireFails(w, cause)
      PROVE  LeaseInv'
  BY <1>7, <1>8 DEF AcquireFails
<1>9. ASSUME NEW w \in Workers,
             ConfigureJob(w) \/ (\E reserves \in BOOLEAN : BuildActions(w, reserves))
               \/ (\E cause \in Causes \cup {"none"} : SubmitReturns(w, cause))
      PROVE  LeaseInv'
  BY <1>9 DEF ConfigureJob, BuildActions, SubmitReturns, Goto
<1>10. ASSUME NEW w \in Workers, NEW cause \in Causes, PrepareFails(w, cause)
       PROVE  LeaseInv'
  BY <1>10 DEF PrepareFails
<1>11. ASSUME NEW w \in Workers, Settle(w) PROVE LeaseInv'
  BY <1>11 DEF Settle, Goto
<1>12. ASSUME NEW w \in Workers, CountSuccess(w) \/ CountFailure(w)
       PROVE  LeaseInv'
  BY <1>2, <1>7, <1>12 DEF CountSuccess, CountFailure, Goto, Locations
<1> QED
  BY <1>1, <1>3, <1>4, <1>5, <1>6, <1>8, <1>9, <1>10, <1>11, <1>12
     DEF Next, MainStep, WorkerStep, vars, perwork

\* No error path of a job leaks its proxy lease, and no lease is given back
\* while the job may still submit.
THEOREM LeasesFollowJobs == Spec => []LeaseExactlyWhileUsed
<1>1. Init => LeaseInv
  BY DEF Init, LeaseInv, LeaseExactlyWhileUsed
<1>2. LeaseInv => LeaseExactlyWhileUsed
  BY DEF LeaseInv
<1> QED
  BY <1>1, <1>2, StepLease, EngineTypeCorrect, PTL DEF Spec

-----------------------------------------------------------------------------
(* Submissions after cancellation                                          *)

\* A worker that began a submission after the cancellation is on its way out.
LateInv ==
  \A w \in Workers :
    \/ late[w] = 0
    \/ /\ late[w] = 1 /\ Canceled
       /\ wpc[w] \in {"submit", "settle", "count", "attempt", "report", "decide", "next", "exit"}

LEMMA CanceledForGood == TypeOK /\ [Next]_vars /\ Canceled => Canceled'
BY DEF TypeOK, Canceled, Next, MainStep, FeedJob, CloseJobs, Return, EndContext, Pause,
       Resume, WorkerStep, JobsDrained, FirstPauseCheck, WaitIfPaused, SecondPauseCheck,
       StartJob, RecordError, DecideCancel, NextJob, BeginAttempt, AcquireLease,
       AcquireFails, ConfigureJob, BuildActions, PrepareFails, SubmitReturns, Settle,
       CountSuccess, CountFailure, main, context, counters, pausing, shared, perwork, vars

LEMMA StepLate == TypeOK /\ LateInv /\ [Next]_vars => LateInv'
<1> SUFFICES ASSUME TypeOK, LateInv, [Next]_vars PROVE LateInv'
  OBVIOUS
<1> USE DEF TypeOK, LateInv
<1>1. Canceled => Canceled'
  BY CanceledForGood
<1>2. CASE UNCHANGED <<wpc, late>>
  BY <1>1, <1>2
\* A worker moves within the way out, or has begun nothing late.
<1>3. ASSUME NEW w \in Workers, UNCHANGED late, NEW to \in Locations,
             wpc' = [wpc EXCEPT ![w] = to],
             \/ to \in {"settle", "count", "attempt", "report", "decide", "next", "exit"}
             \/ wpc[w] \notin {"submit", "settle", "count", "attempt", "report", "decide",
                               "next", "exit"}
             \/ ~Canceled
      PROVE  LateInv'
  BY <1>1, <1>3
<1>4. CASE CloseJobs \/ Return \/ Pause \/ Resume \/ (\E cause \in Endings : EndContext(cause))
  BY <1>2, <1>4 DEF CloseJobs, Return, Pause, Resume, EndContext, perwork
<1>5. ASSUME NEW w \in Workers,
             FeedJob(w) \/ JobsDrained(w) \/ FirstPauseCheck(w) \/ WaitIfPaused(w)
               \/ SecondPauseCheck(w) \/ StartJob(w) \/ NextJob(w)
               \/ RecordError(w) \/ DecideCancel(w)
      PROVE  LateInv'
  <2>1. PICK to \in Locations : wpc' = [wpc EXCEPT ![w] = to]
    BY <1>5 DEF FeedJob, JobsDrained, FirstPauseCheck, WaitIfPaused, SecondPauseCheck,
                StartJob, NextJob, RecordError, DecideCancel, Goto, Locations, InJob
  <2>2. wpc'[w] = to /\ UNCHANGED late
    BY <1>5, <2>1 DEF FeedJob, JobsDrained, FirstPauseCheck, WaitIfPaused, SecondPauseCheck,
                StartJob, NextJob, RecordError, DecideCancel, Goto
  <2>3. \/ to \in {"report", "decide", "next", "exit"}
        \/ wpc[w] \in {"recv", "pause1", "paused1", "pause2", "paused2", "checked"}
        \/ ~Canceled
    BY <1>5, <2>2 DEF FeedJob, JobsDrained, FirstPauseCheck, WaitIfPaused, SecondPauseCheck,
                StartJob, NextJob, RecordError, DecideCancel, Goto
  <2> QED
    BY <1>3, <2>1, <2>2, <2>3
<1>6. ASSUME NEW w \in Workers, BeginAttempt(w) PROVE LateInv'
  BY <1>1, <1>6 DEF BeginAttempt
<1>7. ASSUME NEW w \in Workers, AcquireLease(w) \/ ConfigureJob(w) PROVE LateInv'
  BY <1>1, <1>7 DEF AcquireLease, ConfigureJob, Goto
<1>8. ASSUME NEW w \in Workers, NEW reserves \in BOOLEAN, BuildActions(w, reserves)
      PROVE  LateInv'
  BY <1>1, <1>8 DEF BuildActions, Goto
<1>9. ASSUME NEW w \in Workers, NEW cause, RetryOrFail(w, cause), UNCHANGED late
      PROVE  LateInv'
  <2>1. \E to \in {"attempt", "report"} : wpc' = [wpc EXCEPT ![w] = to]
    BY <1>9 DEF RetryOrFail
  <2> QED
    BY <1>3, <1>9, <2>1 DEF Locations, InJob
<1>10. ASSUME NEW w \in Workers, NEW cause \in Causes,
              AcquireFails(w, cause) \/ PrepareFails(w, cause)
       PROVE  LateInv'
  BY <1>3, <1>9, <1>10 DEF AcquireFails, PrepareFails, Locations
<1>11. ASSUME NEW w \in Workers, NEW cause \in Causes \cup {"none"}, SubmitReturns(w, cause)
       PROVE  LateInv'
  BY <1>3, <1>11 DEF SubmitReturns, Goto, Locations, InJob
<1>12. ASSUME NEW w \in Workers, Settle(w) \/ CountSuccess(w) \/ CountFailure(w)
       PROVE  LateInv'
  BY <1>3, <1>9, <1>12 DEF Settle, CountSuccess, CountFailure, Goto, Locations, InJob
<1> QED
  BY <1>2, <1>4, <1>5, <1>6, <1>7, <1>8, <1>10, <1>11, <1>12
     DEF Next, MainStep, WorkerStep, vars, perwork

\* After cancellation a worker begins at most the submission it was preparing.
THEOREM FewLateSubmissions == Spec => []LateSubmitBound
<1>1. Init => LateInv
  BY DEF Init, LateInv
<1>2. LateInv => LateSubmitBound
  BY DEF LateInv, LateSubmitBound
<1> QED
  BY <1>1, <1>2, StepLate, EngineTypeCorrect, PTL DEF Spec
-----------------------------------------------------------------------------
(* Counting                                                                *)

\* Where a worker has a job it has not counted.
Counting == InJob \cup {"pause1", "paused1", "pause2", "paused2", "checked"}

LEMMA FiniteWorkers ==
  /\ IsFiniteSet(Workers) /\ Cardinality(Workers) = Threads
  /\ \A S \in SUBSET Workers : /\ IsFiniteSet(S) /\ Cardinality(S) \in Nat
                               /\ Cardinality(S) <= Threads
<1>1. IsFiniteSet(Workers) /\ Cardinality(Workers) = Threads
  BY ConstantTypes, FS_Interval DEF Workers
<1> QED
  BY <1>1, FS_Subset, FS_CardinalityType

\* How the number of uncounted jobs changes when one worker moves.
LEMMA UncountedMoves ==
  ASSUME TypeOK, NEW w \in Workers, NEW to \in Locations, wpc' = [wpc EXCEPT ![w] = to]
  PROVE  /\ Cardinality(Uncounted) \in Nat /\ Cardinality(Uncounted') \in Nat
         /\ (wpc[w] \in Counting <=> to \in Counting) => Uncounted' = Uncounted
         /\ wpc[w] \in Counting /\ to \notin Counting =>
              Cardinality(Uncounted') = Cardinality(Uncounted) - 1
         /\ wpc[w] \notin Counting /\ to \in Counting =>
              Cardinality(Uncounted') = Cardinality(Uncounted) + 1
<1> USE DEF TypeOK
<1>1. Uncounted = {v \in Workers : wpc[v] \in Counting}
      /\ Uncounted' = {v \in Workers : wpc'[v] \in Counting}
  BY DEF Uncounted, Counting
<1>2. IsFiniteSet(Uncounted)
      /\ Cardinality(Uncounted) \in Nat /\ Cardinality(Uncounted') \in Nat
  BY <1>1, FiniteWorkers
<1>3. (wpc[w] \in Counting <=> to \in Counting) => Uncounted' = Uncounted
  BY <1>1
<1>4. ASSUME wpc[w] \in Counting, to \notin Counting
      PROVE  Cardinality(Uncounted') = Cardinality(Uncounted) - 1
  <2>1. Uncounted' = Uncounted \ {w} /\ w \in Uncounted
    BY <1>1, <1>4
  <2> QED
    BY <1>2, <2>1, FS_RemoveElement
<1>5. ASSUME wpc[w] \notin Counting, to \in Counting
      PROVE  Cardinality(Uncounted') = Cardinality(Uncounted) + 1
  <2>1. Uncounted' = Uncounted \cup {w} /\ w \notin Uncounted
    BY <1>1, <1>5
  <2> QED
    BY <1>2, <2>1, FS_AddElement
<1> QED
  BY <1>2, <1>3, <1>4, <1>5

LEMMA StepNoJobLost == TypeOK /\ NoJobLost /\ [Next]_vars => NoJobLost'
<1> SUFFICES ASSUME TypeOK, NoJobLost, [Next]_vars PROVE NoJobLost'
  OBVIOUS
<1>1. Canceled => Canceled'
  BY CanceledForGood
<1>2. success \in Nat /\ fail \in Nat /\ next \in Nat /\ Cardinality(Uncounted) \in Nat
  BY FiniteWorkers, ConstantTypes DEF TypeOK, Uncounted
<1>3. CASE UNCHANGED <<wpc, success, fail, next>>
  BY <1>1, <1>3 DEF NoJobLost, Uncounted
\* A worker moves with its job, or without one.
<1>4. ASSUME NEW w \in Workers, NEW to \in Locations, wpc' = [wpc EXCEPT ![w] = to],
             wpc[w] \in Counting <=> to \in Counting, UNCHANGED <<success, fail, next>>
      PROVE  NoJobLost'
  BY <1>1, <1>4, UncountedMoves DEF NoJobLost
\* A cancelled worker drops its job.
<1>5. ASSUME NEW w \in Workers, NEW to \in Locations \ Counting,
             wpc' = [wpc EXCEPT ![w] = to],
             wpc[w] \in Counting, Canceled, UNCHANGED <<success, fail, next>>
      PROVE  NoJobLost'
  <2>1. Cardinality(Uncounted') = Cardinality(Uncounted) - 1
    BY <1>5, UncountedMoves
  <2> QED
    BY <1>1, <1>2, <1>5, <2>1 DEF NoJobLost
\* A worker counts its job.
<1>6. ASSUME NEW w \in Workers, wpc[w] \in Counting, wpc' = [wpc EXCEPT ![w] = "report"],
             \/ success' = success + 1 /\ fail' = fail
             \/ success' = success /\ fail' = fail + 1,
             next' = next
      PROVE  NoJobLost'
  <2>1. Cardinality(Uncounted') = Cardinality(Uncounted) - 1
    <3>1. "report" \in Locations \ Counting
      BY DEF Locations, Counting, InJob
    <3> QED
      BY <1>6, <3>1, UncountedMoves
  <2> QED
    BY <1>1, <1>2, <1>6, <2>1 DEF NoJobLost
<1>7. ASSUME NEW w \in Workers, FeedJob(w) PROVE NoJobLost'
  <2>1. Cardinality(Uncounted') = Cardinality(Uncounted) + 1
    BY <1>7, UncountedMoves DEF FeedJob, Goto, Locations, Counting, InJob
  <2> QED
    BY <1>1, <1>2, <1>7, <2>1 DEF FeedJob, NoJobLost, counters
<1>8. CASE CloseJobs \/ Return \/ Pause \/ Resume \/ (\E cause \in Endings : EndContext(cause))
  BY <1>3, <1>8 DEF CloseJobs, Return, Pause, Resume, EndContext, perwork, counters, main
<1>9. ASSUME NEW w \in Workers,
             JobsDrained(w) \/ FirstPauseCheck(w) \/ WaitIfPaused(w) \/ SecondPauseCheck(w)
               \/ StartJob(w) \/ NextJob(w) \/ RecordError(w) \/ DecideCancel(w)
      PROVE  NoJobLost'
  <2>1. PICK to \in Locations : wpc' = [wpc EXCEPT ![w] = to]
    BY <1>9 DEF JobsDrained, FirstPauseCheck, WaitIfPaused, SecondPauseCheck,
                StartJob, NextJob, RecordError, DecideCancel, Goto, Locations, InJob
  <2>2. wpc'[w] = to /\ UNCHANGED <<success, fail, next>>
    BY <1>9, <2>1 DEF JobsDrained, FirstPauseCheck, WaitIfPaused, SecondPauseCheck,
                StartJob, NextJob, RecordError, DecideCancel, Goto, TypeOK, shared, main, counters
  <2>3. \/ wpc[w] \in Counting <=> to \in Counting
        \/ wpc[w] \in Counting /\ to \notin Counting /\ Canceled
    BY <1>9, <2>2 DEF JobsDrained, FirstPauseCheck, WaitIfPaused, SecondPauseCheck,
                StartJob, NextJob, RecordError, DecideCancel, Goto, TypeOK, Counting, InJob
  <2> QED
    BY <1>4, <1>5, <2>1, <2>2, <2>3
<1>10. ASSUME NEW w \in Workers, BeginAttempt(w) PROVE NoJobLost'
  <2>1. wpc[w] \in Counting /\ UNCHANGED <<success, fail, next>>
    BY <1>10 DEF BeginAttempt, shared, Counting, InJob
  <2>2. CASE Canceled
    BY <1>5, <1>10, <2>1, <2>2 DEF BeginAttempt, Locations, Counting, InJob
  <2>3. CASE ~Canceled
    <3>1. PICK to \in {"acquire", "configure"} : wpc' = [wpc EXCEPT ![w] = to]
      BY <1>10, <2>3 DEF BeginAttempt
    <3> QED
      BY <1>4, <2>1, <3>1 DEF Locations, Counting, InJob
  <2> QED
    BY <2>2, <2>3
<1>11. ASSUME NEW w \in Workers, NEW cause, RetryOrFail(w, cause), next' = next,
              wpc[w] \in Counting
       PROVE  NoJobLost'
  <2>1. CASE ShouldRetry(w, cause)
    BY <1>4, <1>11, <2>1 DEF RetryOrFail, counters, Locations, Counting, InJob
  <2>2. CASE ~ShouldRetry(w, cause)
    BY <1>6, <1>11, <2>2 DEF RetryOrFail
  <2> QED
    BY <2>1, <2>2
<1>12. ASSUME NEW w \in Workers, NEW cause \in Causes, AcquireFails(w, cause)
       PROVE  NoJobLost'
  BY <1>11, <1>12 DEF AcquireFails, main, Counting, InJob
<1>13. ASSUME NEW w \in Workers, NEW cause \in Causes, PrepareFails(w, cause)
       PROVE  NoJobLost'
  BY <1>6, <1>13 DEF PrepareFails, main, Counting, InJob
<1>14. ASSUME NEW w \in Workers,
              AcquireLease(w) \/ ConfigureJob(w) \/ Settle(w)
                \/ (\E reserves \in BOOLEAN : BuildActions(w, reserves))
                \/ (\E cause \in Causes \cup {"none"} : SubmitReturns(w, cause))
       PROVE  NoJobLost'
  <2>1. /\ \E to \in Locations \cap Counting : wpc' = [wpc EXCEPT ![w] = to]
        /\ wpc[w] \in Counting /\ UNCHANGED <<success, fail, next>>
    BY <1>14 DEF AcquireLease, ConfigureJob, Settle, BuildActions, SubmitReturns, Goto,
                 Locations, Counting, InJob, shared, main, counters
  <2> QED
    BY <1>4, <2>1
<1>15. ASSUME NEW w \in Workers, CountSuccess(w) \/ CountFailure(w) PROVE NoJobLost'
  BY <1>6, <1>11, <1>15 DEF CountSuccess, CountFailure, Goto, main, Counting, InJob
<1> QED
  BY <1>3, <1>7, <1>8, <1>9, <1>10, <1>12, <1>13, <1>14, <1>15
     DEF Next, MainStep, WorkerStep, vars, shared, perwork

\* Every job index handed out is counted once, whatever its attempts do.
THEOREM JobsAreCounted == Spec => []NoJobLost
<1>1. Init => NoJobLost
  <2> SUFFICES ASSUME Init PROVE NoJobLost
    OBVIOUS
  <2>1. Uncounted = {}
    BY DEF Init, Uncounted, InJob
  <2> QED
    BY <2>1, FS_EmptySet DEF Init, NoJobLost
<1> QED
  BY <1>1, StepNoJobLost, EngineTypeCorrect, PTL DEF Spec
-----------------------------------------------------------------------------
(* The error a run returns                                                 *)

\* Where an error can be between the attempt that met it and the result: a
\* counted failure is in its worker's hands until it is recorded, and only
\* a recorded error or the caller's context cancels the run.
ErrorInv ==
  /\ firstErr = "none" /\ fail > 0 => \E w \in Workers : wpc[w] = "report" /\ err[w] # "none"
  /\ \A w \in Workers :
       /\ wpc[w] = "decide" => firstErr # "none"
       /\ wpc[w] = "report" /\ err[w] # "none" => Canceled \/ fail > 0
  /\ firstErr # "none" => Canceled \/ fail > 0
  /\ ctxErr # "none" => Canceled
  /\ feeder # "returned" /\ Canceled /\ ctxErr = "none" => firstErr # "none"
  /\ feeder # "feeding" /\ ~Canceled => next = Target
  /\ feeder = "returned" => \A w \in Workers : wpc[w] = "exit"

LEMMA StepErrorInv == TypeOK /\ ErrorInv /\ [Next]_vars => ErrorInv'
<1> SUFFICES ASSUME TypeOK, ErrorInv, [Next]_vars PROVE ErrorInv'
  OBVIOUS
<1>1. Canceled => Canceled'
  BY CanceledForGood
<1> USE DEF TypeOK, ErrorInv
<1>2. CASE UNCHANGED vars
  BY <1>2 DEF vars, shared, perwork, Canceled
\* A worker moves and touches no error, no count and no context.
<1>3. ASSUME NEW w \in Workers, NEW to \in Locations, wpc' = [wpc EXCEPT ![w] = to],
             wpc[w] \notin {"report", "exit"}, to \notin {"report", "decide"},
             UNCHANGED <<feeder, next, ctxErr, runErr, firstErr, fail>>,
             \A v \in Workers \ {w} : err'[v] = err[v]
      PROVE  ErrorInv'
  BY <1>3 DEF Canceled
\* A worker counts a failure.
<1>4. ASSUME NEW w \in Workers, wpc[w] \notin {"report", "exit"},
             wpc' = [wpc EXCEPT ![w] = "report"], fail' = fail + 1,
             NEW cause \in Errors \ {"none"}, err' = [err EXCEPT ![w] = cause],
             UNCHANGED <<feeder, next, ctxErr, runErr, firstErr>>
      PROVE  ErrorInv'
  <2>1. wpc'[w] = "report" /\ err'[w] # "none" /\ fail' > 0
    BY <1>4
  <2> QED
    BY <1>4, <2>1 DEF Canceled
<1>5. ASSUME NEW w \in Workers, FeedJob(w) PROVE ErrorInv'
  BY <1>5 DEF FeedJob, Goto, context, counters, Canceled
<1>6. CASE CloseJobs
  BY <1>6 DEF CloseJobs, context, counters, perwork, Canceled
<1>7. CASE Return
  BY <1>7, ConstantTypes DEF Return, counters, perwork, Canceled
<1>8. ASSUME NEW cause \in Endings, EndContext(cause) PROVE ErrorInv'
  BY <1>8, CauseTypes DEF EndContext, main, counters, perwork, Canceled
<1>9. CASE Pause \/ Resume
  BY <1>9 DEF Pause, Resume, main, context, counters, perwork, Canceled
<1>10. ASSUME NEW w \in Workers,
              JobsDrained(w) \/ FirstPauseCheck(w) \/ WaitIfPaused(w) \/ SecondPauseCheck(w)
                \/ StartJob(w) \/ NextJob(w) \/ AcquireLease(w) \/ ConfigureJob(w)
                \/ (\E reserves \in BOOLEAN : BuildActions(w, reserves))
       PROVE  ErrorInv'
  <2>1. /\ \E to \in Locations \ {"report", "decide"} : wpc' = [wpc EXCEPT ![w] = to]
        /\ wpc[w] \notin {"report", "exit"}
        /\ UNCHANGED <<feeder, next, ctxErr, runErr, firstErr, fail, err>>
    BY <1>10 DEF JobsDrained, FirstPauseCheck, WaitIfPaused, SecondPauseCheck, StartJob,
                 NextJob, AcquireLease, ConfigureJob, BuildActions, Goto, Locations, InJob,
                 shared
  <2> QED
    BY <1>3, <2>1
<1>11. ASSUME NEW w \in Workers, RecordError(w) PROVE ErrorInv'
  <2>1. /\ wpc[w] = "report" /\ err' = err
        /\ UNCHANGED <<feeder, next, ctxErr, runErr, fail>>
    BY <1>11 DEF RecordError, Goto, main, counters
  <2>2. CASE err[w] = "none"
    BY <1>11, <2>1, <2>2 DEF RecordError, Goto, Canceled
  <2>3. CASE err[w] # "none"
    BY <1>11, <2>1, <2>3 DEF RecordError, Goto, Canceled
  <2> QED
    BY <2>2, <2>3
<1>12. ASSUME NEW w \in Workers, DecideCancel(w) PROVE ErrorInv'
  <2>1. /\ wpc[w] = "decide" /\ wpc' = [wpc EXCEPT ![w] = "next"]
        /\ UNCHANGED <<feeder, next, ctxErr, firstErr, fail, err>>
    BY <1>12 DEF DecideCancel, Goto, main, counters
  <2> QED
    BY <1>1, <2>1
<1>13. ASSUME NEW w \in Workers, BeginAttempt(w) PROVE ErrorInv'
  BY <1>13 DEF BeginAttempt, shared, Canceled
<1>14. ASSUME NEW w \in Workers, NEW cause \in Errors \ {"none"}, RetryOrFail(w, cause),
              wpc[w] \notin {"report", "exit"},
              UNCHANGED <<feeder, next, ctxErr, runErr, firstErr>>
       PROVE  ErrorInv'
  <2>1. CASE ShouldRetry(w, cause)
    BY <1>3, <1>14, <2>1 DEF RetryOrFail, counters, Locations, InJob
  <2>2. CASE ~ShouldRetry(w, cause)
    BY <1>4, <1>14, <2>2 DEF RetryOrFail
  <2> QED
    BY <2>1, <2>2
<1>15. ASSUME NEW w \in Workers, NEW cause \in Causes, AcquireFails(w, cause)
       PROVE  ErrorInv'
  BY <1>14, <1>15, CauseTypes DEF AcquireFails, main, context
<1>16. ASSUME NEW w \in Workers, NEW cause \in Causes, PrepareFails(w, cause)
       PROVE  ErrorInv'
  BY <1>4, <1>16, CauseTypes DEF PrepareFails, main, context
<1>17. ASSUME NEW w \in Workers, NEW cause \in Causes \cup {"none"}, SubmitReturns(w, cause)
       PROVE  ErrorInv'
  BY <1>3, <1>17 DEF SubmitReturns, Goto, Locations, InJob, shared
<1>18. ASSUME NEW w \in Workers, Settle(w) PROVE ErrorInv'
  <2>1. /\ wpc[w] = "settle" /\ wpc' = [wpc EXCEPT ![w] = "count"]
        /\ UNCHANGED <<feeder, next, ctxErr, runErr, firstErr, fail, err>>
    BY <1>18 DEF Settle, Goto, main, context, counters
  <2>2. "count" \in Locations
    BY DEF Locations, InJob
  <2> HIDE DEF TypeOK, ErrorInv
  <2> QED
    BY <1>3, <2>1, <2>2
<1>19. ASSUME NEW w \in Workers, CountSuccess(w) PROVE ErrorInv'
  <2>1. /\ wpc[w] = "count" /\ err[w] = "none" /\ wpc' = [wpc EXCEPT ![w] = "report"]
        /\ UNCHANGED <<feeder, next, ctxErr, runErr, firstErr, fail, err>>
    BY <1>19 DEF CountSuccess, Goto, main, context
  <2> QED
    BY <2>1 DEF Canceled
<1>20. ASSUME NEW w \in Workers, CountFailure(w) PROVE ErrorInv'
  BY <1>14, <1>20 DEF CountFailure, main, context
<1> QED
  BY <1>2, <1>5, <1>6, <1>7, <1>8, <1>9, <1>10, <1>11, <1>12, <1>13, <1>15, <1>16,
     <1>17, <1>18, <1>19, <1>20 DEF Next, MainStep, WorkerStep

LEMMA ErrorInvHolds == Spec => []ErrorInv
<1>1. Init => ErrorInv
  BY DEF Init, ErrorInv, Canceled
<1> QED
  BY <1>1, StepErrorInv, EngineTypeCorrect, PTL DEF Spec

\* What the counts are when the workers are gone and nothing was reported.
LEMMA CountsAtReturn ==
  ASSUME TypeOK, NoJobLost, ErrorInv, feeder = "closed", \A w \in Workers : wpc[w] = "exit"
  PROVE  /\ ~Canceled => success + fail = Target
         /\ firstErr = "none" /\ ctxErr = "none" => success = Target /\ fail = 0
<1>1. Uncounted = {}
  BY DEF Uncounted, InJob
<1>2. ~Canceled => success + fail = Target
  BY <1>1, FS_EmptySet, ConstantTypes DEF NoJobLost, ErrorInv, TypeOK
<1>3. ASSUME firstErr = "none", ctxErr = "none" PROVE success = Target /\ fail = 0
  <2>1. ~Canceled /\ fail = 0
    BY <1>3 DEF ErrorInv, TypeOK
  <2> QED
    BY <1>2, <2>1, ConstantTypes DEF TypeOK
<1> QED
  BY <1>2, <1>3

\* RunExecution answers nil only when the whole target succeeded.
THEOREM NilMeansComplete == Spec => []NilErrorMeansComplete
<1>1. Init => NilErrorMeansComplete
  BY DEF Init, NilErrorMeansComplete
<1>2. TypeOK /\ NoJobLost /\ ErrorInv /\ NilErrorMeansComplete /\ [Next]_vars
        => NilErrorMeansComplete'
  <2> SUFFICES ASSUME TypeOK, NoJobLost, ErrorInv, NilErrorMeansComplete, [Next]_vars
               PROVE  NilErrorMeansComplete'
    OBVIOUS
  <2>1. CASE Return
    <3>1. /\ feeder = "closed" /\ \A w \in Workers : wpc[w] = "exit"
          /\ result'.success = success /\ result'.fail = fail
          /\ result'.err = "none" => firstErr = "none" /\ ctxErr = "none"
      BY <2>1 DEF Return
    <3> QED
      BY <3>1, CountsAtReturn DEF NilErrorMeansComplete
  <2>2. CASE UNCHANGED <<feeder, result>>
    BY <2>2 DEF NilErrorMeansComplete
  <2>3. CASE CloseJobs
    BY <2>3 DEF CloseJobs, NilErrorMeansComplete
  <2>4. ASSUME NEW w \in Workers, FeedJob(w) \/ WorkerStep(w) PROVE UNCHANGED <<feeder, result>>
    BY <2>4 DEF FeedJob, WorkerStep, JobsDrained, FirstPauseCheck, WaitIfPaused,
                SecondPauseCheck, StartJob, RecordError, DecideCancel, NextJob, BeginAttempt,
                AcquireLease, AcquireFails, ConfigureJob, BuildActions, PrepareFails,
                SubmitReturns, Settle, CountSuccess, CountFailure, main, shared
  <2>5. CASE Pause \/ Resume \/ (\E cause \in Endings : EndContext(cause))
    BY <2>2, <2>5 DEF Pause, Resume, EndContext, main
  <2> QED
    BY <2>1, <2>2, <2>3, <2>4, <2>5 DEF Next, MainStep, vars, shared
<1> QED
  BY <1>1, <1>2, EngineTypeCorrect, JobsAreCounted, ErrorInvHolds, PTL DEF Spec
-----------------------------------------------------------------------------
(* Fail-stop                                                               *)

\* Workers that take no further job: they saw the threshold reached and have
\* not cancelled the run yet, or have found it cancelled.
Doomed ==
  {w \in Workers : \/ wpc[w] \in {"report", "decide"} /\ err[w] # "none" /\ seen[w] >= Threshold
                   \/ wpc[w] \in {"next", "exit"} /\ Canceled}

\* Each failure past the threshold dooms one more worker.
FailStopInv == FailStop => consecutive <= Threshold - 1 + Cardinality(Doomed)

LEMMA DoomedStays ==
  ASSUME TypeOK, FailStop, [Next]_vars
  PROVE  Doomed \subseteq Doomed'
<1>1. Canceled => Canceled'
  BY CanceledForGood
<1>2. CASE UNCHANGED <<wpc, err, seen>>
  BY <1>1, <1>2 DEF Doomed
\* Only the step of a doomed worker itself could save it.
<1>3. ASSUME NEW w \in Workers, w \in Doomed => w \in Doomed',
             \A v \in Workers \ {w} : wpc'[v] = wpc[v] /\ err'[v] = err[v] /\ seen'[v] = seen[v]
      PROVE  Doomed \subseteq Doomed'
  BY <1>1, <1>3 DEF Doomed
<1>4. ASSUME NEW w \in Workers, NEW to \in Locations, wpc' = [wpc EXCEPT ![w] = to],
             wpc[w] \notin {"report", "decide", "next", "exit"},
             \A v \in Workers \ {w} : err'[v] = err[v] /\ seen'[v] = seen[v]
      PROVE  Doomed \subseteq Doomed'
  BY <1>3, <1>4 DEF Doomed, TypeOK
<1>5. CASE CloseJobs \/ Return \/ Pause \/ Resume \/ (\E cause \in Endings : EndContext(cause))
  BY <1>2, <1>5 DEF CloseJobs, Return, Pause, Resume, EndContext, perwork
<1>6. ASSUME NEW w \in Workers,
             FeedJob(w) \/ JobsDrained(w) \/ FirstPauseCheck(w) \/ WaitIfPaused(w)
               \/ SecondPauseCheck(w) \/ StartJob(w) \/ BeginAttempt(w)
               \/ AcquireLease(w) \/ ConfigureJob(w)
               \/ (\E reserves \in BOOLEAN : BuildActions(w, reserves))
               \/ (\E cause \in Causes \cup {"none"} : SubmitReturns(w, cause))
               \/ Settle(w) \/ CountSuccess(w)
      PROVE  Doomed \subseteq Doomed'
  <2>1. \E to \in Locations : wpc' = [wpc EXCEPT ![w] = to]
    BY <1>6 DEF FeedJob, JobsDrained, FirstPauseCheck, WaitIfPaused, SecondPauseCheck,
                StartJob, BeginAttempt, AcquireLease, ConfigureJob, BuildActions,
                SubmitReturns, Settle, CountSuccess, Goto, Locations, InJob
  <2>2. wpc[w] \notin {"report", "decide", "next", "exit"}
    BY <1>6 DEF FeedJob, JobsDrained, FirstPauseCheck, WaitIfPaused, SecondPauseCheck,
                StartJob, BeginAttempt, AcquireLease, ConfigureJob, BuildActions,
                SubmitReturns, Settle, CountSuccess, Goto
  <2>3. \A v \in Workers \ {w} : err'[v] = err[v] /\ seen'[v] = seen[v]
    BY <1>6 DEF FeedJob, JobsDrained, FirstPauseCheck, WaitIfPaused, SecondPauseCheck,
                StartJob, BeginAttempt, AcquireLease, ConfigureJob, BuildActions,
                SubmitReturns, Settle, CountSuccess, TypeOK
  <2> QED
    BY <1>4, <2>1, <2>2, <2>3
<1>7. ASSUME NEW w \in Workers, RecordError(w) PROVE Doomed \subseteq Doomed'
  BY <1>1, <1>7 DEF RecordError, Goto, Doomed, TypeOK
<1>8. ASSUME NEW w \in Workers, DecideCancel(w) PROVE Doomed \subseteq Doomed'
  <2>1. w \in Doomed => Canceled'
    BY <1>1, <1>8 DEF DecideCancel, MustCancel, Goto, Doomed, Canceled
  <2> QED
    BY <1>3, <1>8, <2>1 DEF DecideCancel, Goto, Doomed, TypeOK
<1>9. ASSUME NEW w \in Workers, NextJob(w) PROVE Doomed \subseteq Doomed'
  BY <1>1, <1>9 DEF NextJob, Goto, Doomed, TypeOK
<1>10. ASSUME NEW w \in Workers, NEW cause, RetryOrFail(w, cause),
              wpc[w] \notin {"report", "decide", "next", "exit"}
       PROVE  Doomed \subseteq Doomed'
  <2>1. \E to \in Locations : wpc' = [wpc EXCEPT ![w] = to]
    BY <1>10 DEF RetryOrFail, Locations, InJob
  <2>2. \A v \in Workers \ {w} : err'[v] = err[v] /\ seen'[v] = seen[v]
    BY <1>10 DEF RetryOrFail, TypeOK
  <2> QED
    BY <1>4, <1>10, <2>1, <2>2
<1>11. ASSUME NEW w \in Workers, NEW cause \in Causes,
              AcquireFails(w, cause) \/ PrepareFails(w, cause)
       PROVE  Doomed \subseteq Doomed'
  BY <1>4, <1>10, <1>11 DEF AcquireFails, PrepareFails, Locations, TypeOK
<1>12. ASSUME NEW w \in Workers, CountFailure(w) PROVE Doomed \subseteq Doomed'
  BY <1>10, <1>12 DEF CountFailure
<1> QED
  BY <1>2, <1>5, <1>6, <1>7, <1>8, <1>9, <1>11, <1>12
     DEF Next, MainStep, WorkerStep, vars, perwork

LEMMA StepFailStop == TypeOK /\ FailStopInv /\ [Next]_vars => FailStopInv'
<1> SUFFICES ASSUME TypeOK, FailStopInv, [Next]_vars, FailStop
             PROVE  consecutive' <= Threshold - 1 + Cardinality(Doomed')
  BY DEF FailStopInv
<1>1. /\ Doomed \subseteq Doomed' /\ IsFiniteSet(Doomed')
      /\ Cardinality(Doomed) \in Nat /\ Cardinality(Doomed') \in Nat
      /\ Cardinality(Doomed) <= Cardinality(Doomed')
  <2>1. Doomed \in SUBSET Workers /\ Doomed' \in SUBSET Workers
    BY DEF Doomed
  <2> QED
    BY <2>1, DoomedStays, FiniteWorkers, FS_Subset
<1>2. consecutive <= Threshold - 1 + Cardinality(Doomed)
  BY DEF FailStopInv
<1>3. consecutive \in Nat /\ Threshold \in Nat \ {0}
  BY ConstantTypes DEF TypeOK
<1>4. CASE consecutive' = 0 \/ consecutive' = consecutive
  BY <1>1, <1>2, <1>3, <1>4
\* A failure is counted.
<1>5. ASSUME NEW w \in Workers, NEW cause \in Errors \ {"none"},
             wpc[w] \notin {"report", "decide", "next", "exit"},
             wpc' = [wpc EXCEPT ![w] = "report"], err' = [err EXCEPT ![w] = cause],
             consecutive' = consecutive + 1, seen' = [seen EXCEPT ![w] = consecutive']
      PROVE  consecutive' <= Threshold - 1 + Cardinality(Doomed')
  <2>1. CASE consecutive' < Threshold
    BY <1>1, <1>3, <1>5, <2>1
  <2>2. CASE consecutive' >= Threshold
    <3>1. w \in Doomed' /\ w \notin Doomed
      BY <1>5, <2>2 DEF Doomed, TypeOK
    <3>2. Doomed \subseteq Doomed' \ {w}
      BY <1>1, <3>1
    <3>3. /\ IsFiniteSet(Doomed' \ {w})
          /\ Cardinality(Doomed' \ {w}) = Cardinality(Doomed') - 1
      BY <1>1, <3>1, FS_RemoveElement
    <3>4. Cardinality(Doomed) <= Cardinality(Doomed') - 1
      BY <3>2, <3>3, FS_Subset
    <3> QED
      BY <1>1, <1>2, <1>3, <1>5, <3>4
  <2> QED
    BY <1>3, <1>5, <2>1, <2>2
<1>6. ASSUME NEW w \in Workers, NEW cause \in Errors \ {"none"}, RetryOrFail(w, cause),
             wpc[w] \notin {"report", "decide", "next", "exit"}
      PROVE  consecutive' <= Threshold - 1 + Cardinality(Doomed')
  <2>1. CASE ShouldRetry(w, cause)
    BY <1>4, <1>6, <2>1 DEF RetryOrFail, counters
  <2>2. CASE ~ShouldRetry(w, cause)
    BY <1>5, <1>6, <2>2 DEF RetryOrFail
  <2> QED
    BY <2>1, <2>2
<1>7. ASSUME NEW w \in Workers, NEW cause \in Causes,
             AcquireFails(w, cause) \/ PrepareFails(w, cause)
      PROVE  consecutive' <= Threshold - 1 + Cardinality(Doomed')
  BY <1>5, <1>6, <1>7, CauseTypes DEF AcquireFails, PrepareFails
<1>8. ASSUME NEW w \in Workers, CountFailure(w)
      PROVE  consecutive' <= Threshold - 1 + Cardinality(Doomed')
  BY <1>6, <1>8 DEF CountFailure, TypeOK
<1>9. CASE MainStep \/ Pause \/ Resume \/ (\E cause \in Endings : EndContext(cause))
  BY <1>4, <1>9 DEF MainStep, FeedJob, CloseJobs, Return, Pause, Resume, EndContext, counters
<1>10. ASSUME NEW w \in Workers,
              JobsDrained(w) \/ FirstPauseCheck(w) \/ WaitIfPaused(w) \/ SecondPauseCheck(w)
                \/ StartJob(w) \/ RecordError(w) \/ DecideCancel(w) \/ NextJob(w)
                \/ BeginAttempt(w) \/ AcquireLease(w) \/ ConfigureJob(w)
                \/ (\E reserves \in BOOLEAN : BuildActions(w, reserves))
                \/ (\E cause \in Causes \cup {"none"} : SubmitReturns(w, cause))
                \/ Settle(w) \/ CountSuccess(w)
       PROVE  consecutive' = 0 \/ consecutive' = consecutive
  BY <1>10 DEF JobsDrained, FirstPauseCheck, WaitIfPaused, SecondPauseCheck, StartJob,
               RecordError, DecideCancel, NextJob, BeginAttempt, AcquireLease, ConfigureJob,
               BuildActions, SubmitReturns, Settle, CountSuccess, shared, counters
<1>11. CASE UNCHANGED vars
  BY <1>4, <1>11 DEF vars, shared
<1> QED
  BY <1>4, <1>7, <1>8, <1>9, <1>10, <1>11 DEF Next, WorkerStep

\* With fail-stop on, the threshold is overshot by at most the other workers.
THEOREM FailStopOvershoot == Spec => []FailStopBound
<1>1. Init => FailStopInv
  <2> SUFFICES ASSUME Init PROVE FailStopInv
    OBVIOUS
  <2>1. Doomed \in SUBSET Workers
    BY DEF Doomed
  <2> QED
    BY <2>1, FiniteWorkers, ConstantTypes DEF Init, FailStopInv
<1>2. TypeOK /\ FailStopInv => FailStopBound
  <2>1. Doomed \in SUBSET Workers
    BY DEF Doomed
  <2> QED
    BY <2>1, FiniteWorkers, ConstantTypes DEF TypeOK, FailStopInv, FailStopBound
<1> QED
  BY <1>1, <1>2, StepFailStop, EngineTypeCorrect, PTL DEF Spec
-----------------------------------------------------------------------------
(* Reservations                                                            *)

\* Workers about to count a success.
Ready == {w \in Workers : wpc[w] = "count" /\ err[w] = "none"}

LEMMA ReadyMoves ==
  ASSUME TypeOK, NEW w \in Workers,
         \A v \in Workers \ {w} : wpc'[v] = wpc[v] /\ err'[v] = err[v]
  PROVE  /\ Cardinality(Ready) \in Nat /\ Cardinality(Ready') \in Nat
         /\ (w \in Ready <=> w \in Ready') => Ready' = Ready
         /\ w \notin Ready => Cardinality(Ready) <= Cardinality(Ready')
         /\ w \notin Ready /\ w \in Ready' => Cardinality(Ready') = Cardinality(Ready) + 1
         /\ w \in Ready /\ w \notin Ready' => Cardinality(Ready') = Cardinality(Ready) - 1
<1>1. Ready \in SUBSET Workers /\ Ready' \in SUBSET Workers
  BY DEF Ready
<1>2. /\ IsFiniteSet(Ready) /\ IsFiniteSet(Ready')
      /\ Cardinality(Ready) \in Nat /\ Cardinality(Ready') \in Nat
  BY <1>1, FiniteWorkers
<1>3. \A v \in Workers \ {w} : v \in Ready <=> v \in Ready'
  BY DEF Ready
<1>4. (w \in Ready <=> w \in Ready') => Ready' = Ready
  BY <1>1, <1>3
<1>5. ASSUME w \notin Ready, w \in Ready' PROVE Cardinality(Ready') = Cardinality(Ready) + 1
  <2>1. Ready' = Ready \cup {w}
    BY <1>1, <1>3, <1>5
  <2> QED
    BY <1>2, <1>5, <2>1, FS_AddElement
<1>6. ASSUME w \in Ready, w \notin Ready' PROVE Cardinality(Ready') = Cardinality(Ready) - 1
  <2>1. Ready' = Ready \ {w}
    BY <1>1, <1>3, <1>6
  <2> QED
    BY <1>2, <1>6, <2>1, FS_RemoveElement
<1> QED
  BY <1>2, <1>4, <1>5, <1>6

LEMMA StepStats == TypeOK /\ StatsFollowSuccess /\ [Next]_vars => StatsFollowSuccess'
<1> SUFFICES ASSUME TypeOK, StatsFollowSuccess, [Next]_vars PROVE StatsFollowSuccess'
  OBVIOUS
<1>1. /\ committed <= success + Cardinality(Ready)
      /\ committed \in Nat /\ success \in Nat /\ Cardinality(Ready) \in Nat
      /\ \A w \in Workers : pending[w] => wpc[w] \in {"submit", "settle"}
  <2>1. Ready \in SUBSET Workers
    BY DEF Ready
  <2> QED
    BY <2>1, FiniteWorkers DEF StatsFollowSuccess, Ready, TypeOK
<1>2. SUFFICES /\ committed' <= success' + Cardinality(Ready')
               /\ \A w \in Workers : pending'[w] => wpc'[w] \in {"submit", "settle"}
  BY DEF StatsFollowSuccess, Ready
<1>3. CASE UNCHANGED <<committed, success, wpc, err, pending>>
  BY <1>1, <1>3 DEF Ready
\* A worker moves without counting or settling.
<1>4. ASSUME NEW w \in Workers, NEW to \in Locations \ {"count"}, wpc' = [wpc EXCEPT ![w] = to],
             w \notin Ready, UNCHANGED <<committed, success>>,
             \A v \in Workers \ {w} : err'[v] = err[v] /\ pending'[v] = pending[v],
             pending'[w] => to \in {"submit", "settle"}
      PROVE  /\ committed' <= success' + Cardinality(Ready')
             /\ \A v \in Workers : pending'[v] => wpc'[v] \in {"submit", "settle"}
  <2>1. \A v \in Workers \ {w} : wpc'[v] = wpc[v]
    BY <1>4 DEF TypeOK
  <2>2. w \notin Ready'
    BY <1>4 DEF Ready, TypeOK
  <2>3. Ready' = Ready
    BY <1>4, <2>1, <2>2, ReadyMoves
  <2>4. wpc'[w] = to
    BY <1>4 DEF TypeOK
  <2> QED
    BY <1>1, <1>4, <2>1, <2>3, <2>4
<1>5. CASE CloseJobs \/ Return \/ Pause \/ Resume \/ (\E cause \in Endings : EndContext(cause))
  BY <1>3, <1>5 DEF CloseJobs, Return, Pause, Resume, EndContext, perwork, counters
<1>6. ASSUME NEW w \in Workers,
             FeedJob(w) \/ JobsDrained(w) \/ FirstPauseCheck(w) \/ WaitIfPaused(w)
               \/ SecondPauseCheck(w) \/ StartJob(w) \/ RecordError(w) \/ DecideCancel(w)
               \/ NextJob(w) \/ BeginAttempt(w) \/ AcquireLease(w) \/ ConfigureJob(w)
      PROVE  /\ committed' <= success' + Cardinality(Ready')
             /\ \A v \in Workers : pending'[v] => wpc'[v] \in {"submit", "settle"}
  <2>1. \E to \in Locations \ {"count"} : wpc' = [wpc EXCEPT ![w] = to]
    BY <1>6 DEF FeedJob, JobsDrained, FirstPauseCheck, WaitIfPaused, SecondPauseCheck,
                StartJob, RecordError, DecideCancel, NextJob, BeginAttempt, AcquireLease,
                ConfigureJob, Goto, Locations, InJob
  <2>2. wpc[w] \notin {"submit", "settle", "count"} /\ UNCHANGED <<committed, success>>
    BY <1>6 DEF FeedJob, JobsDrained, FirstPauseCheck, WaitIfPaused, SecondPauseCheck,
                StartJob, RecordError, DecideCancel, NextJob, BeginAttempt, AcquireLease,
                ConfigureJob, Goto, shared, counters
  <2>3. \A v \in Workers \ {w} : err'[v] = err[v] /\ pending'[v] = pending[v]
    BY <1>6 DEF FeedJob, JobsDrained, FirstPauseCheck, WaitIfPaused, SecondPauseCheck,
                StartJob, RecordError, DecideCancel, NextJob, BeginAttempt, AcquireLease,
                ConfigureJob, TypeOK
  <2>4. pending'[w] => pending[w]
    BY <1>6 DEF FeedJob, JobsDrained, FirstPauseCheck, WaitIfPaused, SecondPauseCheck,
                StartJob, RecordError, DecideCancel, NextJob, BeginAttempt, AcquireLease,
                ConfigureJob, TypeOK
  <2> QED
    BY <1>1, <1>4, <2>1, <2>2, <2>3, <2>4 DEF Ready
<1>7. ASSUME NEW w \in Workers, NEW reserves \in BOOLEAN, BuildActions(w, reserves)
      PROVE  /\ committed' <= success' + Cardinality(Ready')
             /\ \A v \in Workers : pending'[v] => wpc'[v] \in {"submit", "settle"}
  <2>1. wpc[w] = "build" /\ wpc' = [wpc EXCEPT ![w] = "submit"]
    BY <1>7 DEF BuildActions, Goto
  <2>2. \A v \in Workers \ {w} : err'[v] = err[v] /\ pending'[v] = pending[v]
    BY <1>7 DEF BuildActions, TypeOK
  <2> QED
    BY <1>4, <1>7, <2>1, <2>2 DEF BuildActions, Ready, Locations, InJob, shared
<1>8. ASSUME NEW w \in Workers, NEW cause \in Causes \cup {"none"}, SubmitReturns(w, cause)
      PROVE  /\ committed' <= success' + Cardinality(Ready')
             /\ \A v \in Workers : pending'[v] => wpc'[v] \in {"submit", "settle"}
  <2>1. wpc[w] = "submit" /\ wpc' = [wpc EXCEPT ![w] = "settle"]
    BY <1>8 DEF SubmitReturns, Goto
  <2>2. \A v \in Workers \ {w} : err'[v] = err[v] /\ pending'[v] = pending[v]
    BY <1>8 DEF SubmitReturns, TypeOK
  <2> QED
    BY <1>4, <1>8, <2>1, <2>2 DEF SubmitReturns, Ready, Locations, InJob, shared
<1>9. ASSUME NEW w \in Workers, Settle(w)
      PROVE  /\ committed' <= success' + Cardinality(Ready')
             /\ \A v \in Workers : pending'[v] => wpc'[v] \in {"submit", "settle"}
  <2>1. /\ wpc[w] = "settle" /\ wpc' = [wpc EXCEPT ![w] = "count"] /\ err' = err
        /\ pending' = [pending EXCEPT ![w] = FALSE] /\ success' = success
    BY <1>9 DEF Settle, Goto, counters
  <2>2. w \notin Ready /\ \A v \in Workers \ {w} : wpc'[v] = wpc[v] /\ err'[v] = err[v]
    BY <2>1 DEF Ready, TypeOK
  <2>3. /\ Cardinality(Ready') \in Nat /\ Cardinality(Ready) <= Cardinality(Ready')
        /\ err[w] = "none" => Cardinality(Ready') = Cardinality(Ready) + 1
    BY <2>1, <2>2, ReadyMoves DEF Ready, TypeOK
  <2>4. committed' = IF err[w] = "none" /\ pending[w] THEN committed + 1 ELSE committed
    BY <1>9 DEF Settle
  <2>5. committed' <= success' + Cardinality(Ready')
    BY <1>1, <2>1, <2>3, <2>4
  <2>6. \A v \in Workers : pending'[v] => wpc'[v] \in {"submit", "settle"}
    BY <1>1, <2>1 DEF TypeOK
  <2> QED
    BY <2>5, <2>6
<1>10. ASSUME NEW w \in Workers, CountSuccess(w)
       PROVE  /\ committed' <= success' + Cardinality(Ready')
              /\ \A v \in Workers : pending'[v] => wpc'[v] \in {"submit", "settle"}
  <2>1. /\ wpc[w] = "count" /\ wpc' = [wpc EXCEPT ![w] = "report"] /\ err[w] = "none"
        /\ success' = success + 1 /\ UNCHANGED <<committed, err, pending>>
    BY <1>10 DEF CountSuccess, Goto
  <2>2. w \in Ready /\ w \notin Ready'
        /\ \A v \in Workers \ {w} : wpc'[v] = wpc[v] /\ err'[v] = err[v]
    BY <2>1 DEF Ready, TypeOK
  <2>3. Cardinality(Ready') = Cardinality(Ready) - 1
    BY <2>2, ReadyMoves
  <2>4. ~pending[w]
    BY <1>1, <2>1
  <2> QED
    BY <1>1, <2>1, <2>2, <2>3, <2>4
<1>11. ASSUME NEW w \in Workers, NEW cause, RetryOrFail(w, cause), w \notin Ready, ~pending[w],
              UNCHANGED <<committed, pending>>
       PROVE  /\ committed' <= success' + Cardinality(Ready')
              /\ \A v \in Workers : pending'[v] => wpc'[v] \in {"submit", "settle"}
  <2>1. \E to \in Locations \ {"count"} : wpc' = [wpc EXCEPT ![w] = to]
    BY <1>11 DEF RetryOrFail, Locations, InJob
  <2>2. success' = success /\ \A v \in Workers \ {w} : err'[v] = err[v]
    BY <1>11 DEF RetryOrFail, counters, TypeOK
  <2> QED
    BY <1>4, <1>11, <2>1, <2>2
<1>12. ASSUME NEW w \in Workers, NEW cause \in Causes, AcquireFails(w, cause)
       PROVE  /\ committed' <= success' + Cardinality(Ready')
              /\ \A v \in Workers : pending'[v] => wpc'[v] \in {"submit", "settle"}
  BY <1>1, <1>11, <1>12 DEF AcquireFails, Ready
<1>13. ASSUME NEW w \in Workers, NEW cause \in Causes, PrepareFails(w, cause)
       PROVE  /\ committed' <= success' + Cardinality(Ready')
              /\ \A v \in Workers : pending'[v] => wpc'[v] \in {"submit", "settle"}
  <2>1. /\ \A v \in Workers \ {w} : err'[v] = err[v] /\ pending'[v] = pending[v]
        /\ ~pending'[w]
    BY <1>13 DEF PrepareFails, TypeOK
  <2> QED
    BY <1>4, <1>13, <2>1 DEF PrepareFails, Ready, Locations
<1>14. ASSUME NEW w \in Workers, CountFailure(w)
       PROVE  /\ committed' <= success' + Cardinality(Ready')
              /\ \A v \in Workers : pending'[v] => wpc'[v] \in {"submit", "settle"}
  BY <1>1, <1>11, <1>14 DEF CountFailure, Ready
<1> QED
  BY <1>3, <1>5, <1>6, <1>7, <1>8, <1>9, <1>10, <1>12, <1>13, <1>14
     DEF Next, MainStep, WorkerStep, vars, shared, perwork

\* The statistics never count more answers than were submitted successfully,
\* and an attempt leaves no reservation behind.
THEOREM StatisticsFollowSuccesses == Spec => []StatsFollowSuccess
<1>1. Init => StatsFollowSuccess
  <2> SUFFICES ASSUME Init PROVE StatsFollowSuccess
    OBVIOUS
  <2>1. {w \in Workers : wpc[w] = "count" /\ err[w] = "none"} = {}
    BY DEF Init
  <2> QED
    BY <2>1, FS_EmptySet DEF Init, StatsFollowSuccess
<1> QED
  BY <1>1, StepStats, EngineTypeCorrect, PTL DEF Spec
-----------------------------------------------------------------------------
(* The engine implements SubmissionRun                                     *)

\* A worker counts while an index is open for it.
LEMMA RoomToCount ==
  ASSUME TypeOK, NoJobLost, NEW w \in Workers, wpc[w] \in InJob
  PROVE  success + fail < Target
<1>1. Uncounted \in SUBSET Workers /\ w \in Uncounted
  BY DEF Uncounted
<1>2. Cardinality(Uncounted) \in Nat \ {0}
  BY <1>1, FiniteWorkers, FS_EmptySet
<1> QED
  BY <1>2, ConstantTypes DEF NoJobLost, TypeOK

LEMMA StepRefines ==
  TypeOK /\ NoJobLost /\ ErrorInv /\ [Next]_vars => [Run!RunNext]_(Run!run)
<1> SUFFICES ASSUME TypeOK, NoJobLost, ErrorInv, [Next]_vars
             PROVE  Run!RunNext \/ UNCHANGED Run!run
  OBVIOUS
<1>1. Canceled => Canceled'
  BY CanceledForGood
\* Nothing the caller counts changes; the run may be told to stop.
<1>2. CASE UNCHANGED <<feeder, success, fail, result>>
  BY <1>1, <1>2 DEF Run!RunNext, Run!Stop, Run!run
<1>3. ASSUME NEW w \in Workers, wpc[w] \in InJob, UNCHANGED <<feeder, runErr, result>>,
             \/ success' = success + 1 /\ fail' = fail
             \/ success' = success /\ fail' = fail + 1
      PROVE  Run!RunNext
  <2>1. feeder # "returned" /\ success + fail < Target
    BY <1>3, RoomToCount DEF ErrorInv, InJob
  <2>2. Canceled' <=> Canceled
    BY <1>3 DEF Canceled
  <2> QED
    BY <1>3, <2>1, <2>2 DEF Run!RunNext, Run!Succeed, Run!FailOne, Run!Open
<1>4. CASE CloseJobs
  BY <1>4 DEF CloseJobs, context, counters, Canceled, Run!run
<1>5. CASE Return
  <2>1. /\ feeder = "closed" /\ feeder' = "returned" /\ \A w \in Workers : wpc[w] = "exit"
        /\ UNCHANGED <<success, fail>>
        /\ result'.err = "none" <=> firstErr = "none" /\ ctxErr = "none"
    BY <1>5 DEF Return, counters
  <2>2. /\ ~Canceled => success + fail = Target
        /\ firstErr = "none" /\ ctxErr = "none" => success = Target /\ fail = 0
    BY <2>1, CountsAtReturn
  <2>3. result'.err = "none" <=> ~Canceled /\ success = Target
    <3>1. firstErr = "none" /\ ctxErr = "none" => ~Canceled /\ success = Target
      BY <2>1, <2>2 DEF ErrorInv
    <3>2. ASSUME ~Canceled, success = Target PROVE firstErr = "none" /\ ctxErr = "none"
      <4>1. fail = 0
        BY <2>2, <3>2, ConstantTypes DEF TypeOK
      <4> QED
        BY <3>2, <4>1 DEF ErrorInv
    <3> QED
      BY <2>1, <3>1, <3>2
  <2> QED
    BY <2>1, <2>2, <2>3 DEF Run!RunNext, Run!Finish
<1>6. CASE Pause \/ Resume \/ (\E cause \in Endings : EndContext(cause))
           \/ (\E w \in Workers : FeedJob(w))
  BY <1>2, <1>6 DEF Pause, Resume, EndContext, FeedJob, main, counters
<1>7. ASSUME NEW w \in Workers,
             JobsDrained(w) \/ FirstPauseCheck(w) \/ WaitIfPaused(w) \/ SecondPauseCheck(w)
               \/ StartJob(w) \/ RecordError(w) \/ DecideCancel(w) \/ NextJob(w)
               \/ BeginAttempt(w) \/ AcquireLease(w) \/ ConfigureJob(w)
               \/ (\E reserves \in BOOLEAN : BuildActions(w, reserves))
               \/ (\E cause \in Causes \cup {"none"} : SubmitReturns(w, cause))
               \/ Settle(w)
      PROVE  UNCHANGED <<feeder, success, fail, result>>
  BY <1>7 DEF JobsDrained, FirstPauseCheck, WaitIfPaused, SecondPauseCheck, StartJob,
              RecordError, DecideCancel, NextJob, BeginAttempt, AcquireLease, ConfigureJob,
              BuildActions, SubmitReturns, Settle, shared, main, counters
<1>8. ASSUME NEW w \in Workers, NEW cause, RetryOrFail(w, cause), wpc[w] \in InJob,
             UNCHANGED <<feeder, runErr, result>>
      PROVE  Run!RunNext \/ UNCHANGED Run!run
  <2>1. CASE ShouldRetry(w, cause)
    BY <1>2, <1>8, <2>1 DEF RetryOrFail, counters
  <2>2. CASE ~ShouldRetry(w, cause)
    BY <1>3, <1>8, <2>2 DEF RetryOrFail
  <2> QED
    BY <2>1, <2>2
<1>9. ASSUME NEW w \in Workers, NEW cause \in Causes, AcquireFails(w, cause)
      PROVE  Run!RunNext \/ UNCHANGED Run!run
  BY <1>8, <1>9 DEF AcquireFails, main, context, InJob
<1>10. ASSUME NEW w \in Workers, NEW cause \in Causes, PrepareFails(w, cause)
       PROVE  Run!RunNext
  BY <1>3, <1>10 DEF PrepareFails, main, context, InJob
<1>11. ASSUME NEW w \in Workers, CountSuccess(w) PROVE Run!RunNext
  BY <1>3, <1>11 DEF CountSuccess, Goto, main, context, InJob
<1>12. ASSUME NEW w \in Workers, CountFailure(w) PROVE Run!RunNext \/ UNCHANGED Run!run
  BY <1>8, <1>12 DEF CountFailure, main, context, InJob
<1>13. CASE UNCHANGED vars
  BY <1>2, <1>13 DEF vars, shared
<1> QED
  BY <1>2, <1>4, <1>5, <1>6, <1>7, <1>9, <1>10, <1>11, <1>12, <1>13
     DEF Next, MainStep, WorkerStep

\* Seen from its caller the engine counts, stops and finishes as a
\* SubmissionRun does: the safety half of ImplementsSubmissionRun.
THEOREM EngineIsSubmissionRun == Spec => Run!Safety
<1>1. Init => Run!Start
  BY DEF Init, Canceled, Run!Start
<1> QED
  BY <1>1, StepRefines, EngineTypeCorrect, JobsAreCounted, ErrorInvHolds, PTL DEF Spec, Run!Safety

=============================================================================
