-------------------------- MODULE Platforms_proofs --------------------------
(***************************************************************************)
(* Proofs about the platform runners, for any number of jobs, attempts and *)
(* failing exchanges, on every platform.                                   *)
(*                                                                         *)
(* The invariant follows a submission: it is with its sender, on its way,  *)
(* accepted or kept, never in two places; its answer session belongs to it *)
(* alone; and what the sender was told says where it is.                   *)
(***************************************************************************)
EXTENDS Platforms, TLAPS

Messages == sent \cup accepted \cup recorded

Places == {"waiting", "opening", "building", "submitting", "sending", "confirming", "settled"}

Tellings == {"none", "accepted", "refused", "flagless", "unmarked",
              "connection", "timeout", "context"}

Results == {"none", "success", "canceled", "parse", "config", "unsupported", "run"}

Typed ==
  /\ sessions \in Nat /\ seed \in 0..sessions
  /\ pc \in [Jobs -> Places]
  /\ attempt \in [Jobs -> Nat]
  /\ session \in [Jobs -> 0..sessions]
  /\ reply \in [Jobs -> Tellings] /\ outcome \in [Jobs -> Results]
  /\ \A r \in Messages : r \in [job : Jobs, attempt : Nat, session : 0..sessions]

\* A submission is in one place only.
Placed == sent \cap accepted = {} /\ sent \cap recorded = {} /\ accepted \cap recorded = {}

\* The submission of an attempt is the only one of that attempt or a later one.
OwnAttempt ==
  \A r \in Messages :
    /\ r.attempt <= attempt[r.job]
    /\ r.attempt = attempt[r.job] => r.session = session[r.job]

\* Nobody else has the answer session of a job.
OwnSession ==
  \A j \in Jobs : session[j] # NoSession =>
    /\ \A i \in Jobs : session[i] = session[j] => i = j
    /\ \A r \in Messages : r.session = session[j] => r = Submission(j)

\* Nobody has the session of Prepare before a job takes it.
SeedFresh ==
  ~seedUsed /\ seed # NoSession =>
    (\A j \in Jobs : session[j] # seed) /\ (\A r \in Messages : r.session # seed)

\* What a job was told says where its submission is.
ToldOf(j) ==
  /\ pc[j] \in {"opening", "building", "submitting"} => reply[j] = "none"
  /\ reply[j] = "none" /\ pc[j] # "sending" => Submission(j) \notin Messages
  /\ reply[j] = "accepted" =>
       Submission(j) \in IF provider = "qq" THEN accepted \cup recorded ELSE recorded
  /\ reply[j] = "refused" => Submission(j) \notin Messages
  /\ reply[j] = "flagless" => provider = "credamo"
  /\ pc[j] = "sending" => reply[j] \notin {"connection", "timeout", "context"}

\* How a job that was told so ended, and whether it is tried again.
EndedOf(j) ==
  /\ pc[j] = "settled" <=> outcome[j] # "none"
  /\ pc[j] = "confirming" =>
       provider = "qq" /\ session[j] # NoSession /\ reply[j] = "accepted"
  /\ outcome[j] = "run" \/ pc[j] = "waiting" =>
       /\ reply[j] \notin {"timeout", "context"}
       /\ Submission(j) \in Messages =>
            \/ reply[j] \in {"connection", "unmarked"}
            \/ provider = "qq" /\ session[j] # NoSession

SuccessOf(j) ==
  outcome[j] = "success" =>
    \/ Submission(j) \in recorded
    \/ provider = "qq" /\ session[j] = NoSession
    \/ provider = "credamo" /\ reply[j] = "flagless"

JobOf(j) == ToldOf(j) /\ EndedOf(j) /\ SuccessOf(j)

Inv ==
  /\ Typed /\ Placed /\ OwnAttempt /\ OwnSession /\ SeedFresh
  /\ \A j \in Jobs : JobOf(j)

OnlyUnproven ==
  \A j \in Jobs :
    attempt'[j] > attempt[j] =>
      /\ reply[j] \notin {"timeout", "context"}
      /\ Submission(j) \in recorded =>
           \/ reply[j] \in {"connection", "unmarked"}
           \/ provider = "qq" /\ session[j] # NoSession

-----------------------------------------------------------------------------
(* Frames                                                                  *)

LEMMA InitInv == ASSUME Init PROVE Inv
<1> USE DEF Init
<1>1. Messages = {}
  BY DEF Messages
<1>2. Typed
  <2>1. sessions \in Nat /\ seed \in 0..sessions /\ session \in [Jobs -> 0..sessions]
    BY DEF NoSession
  <2>2. pc \in [Jobs -> Places] /\ attempt \in [Jobs -> Nat]
    <3>1. "waiting" \in Places
      BY DEF Places
    <3> QED
      BY <3>1
  <2>3. reply \in [Jobs -> Tellings] /\ outcome \in [Jobs -> Results]
    BY DEF Tellings, Results
  <2> QED
    BY <1>1, <2>1, <2>2, <2>3 DEF Typed
<1>3. Placed
  BY DEF Placed
<1>4. OwnAttempt /\ OwnSession /\ SeedFresh
  BY <1>1 DEF OwnAttempt, OwnSession, SeedFresh
<1>5. ASSUME NEW j \in Jobs PROVE JobOf(j)
  BY <1>1 DEF JobOf, ToldOf, EndedOf, SuccessOf
<1> QED
  BY <1>2, <1>3, <1>4, <1>5 DEF Inv

\* What holds of a job goes on holding while nothing of it changes and its
\* submission only moves on from accepted to kept.
LEMMA JobKept ==
  ASSUME NEW i \in Jobs, JobOf(i), provider' = provider,
         pc'[i] = pc[i], attempt'[i] = attempt[i], session'[i] = session[i],
         reply'[i] = reply[i], outcome'[i] = outcome[i],
         Submission(i) \in Messages' => Submission(i) \in Messages,
         Submission(i) \in recorded => Submission(i) \in recorded',
         Submission(i) \in accepted => Submission(i) \in accepted' \cup recorded'
  PROVE  JobOf(i)'
<1>1. Submission(i)' = Submission(i)
  BY DEF Submission
<1>2. ToldOf(i)'
  BY <1>1 DEF JobOf, ToldOf
<1>3. EndedOf(i)'
  BY <1>1 DEF JobOf, EndedOf
<1>4. SuccessOf(i)'
  BY <1>1 DEF JobOf, SuccessOf
<1> QED
  BY <1>2, <1>3, <1>4 DEF JobOf

LEMMA NoneRetried ==
  ASSUME Inv, attempt' = attempt PROVE OnlyUnproven
BY DEF Inv, Typed, OnlyUnproven

\* Steps that leave the jobs and the service alone.
LEMMA Untouched ==
  ASSUME Inv, UNCHANGED <<provider, seed, seedUsed, jobVars, sessions, serviceVars>>
  PROVE  Inv' /\ OnlyUnproven
<1> USE DEF jobVars, serviceVars, Messages
<1>1. Typed' /\ Placed'
  BY DEF Inv, Typed, Placed
<1>2. OwnAttempt' /\ SeedFresh'
  BY DEF Inv, OwnAttempt, SeedFresh
<1>3. OwnSession'
  BY DEF Inv, OwnSession, Submission
<1>4. ASSUME NEW j \in Jobs PROVE JobOf(j)'
  BY JobKept DEF Inv
<1> QED
  BY <1>1, <1>2, <1>3, <1>4, NoneRetried DEF Inv

\* Steps of one job that change neither its attempt nor its session.
LEMMA JobMoved ==
  ASSUME Inv, NEW j \in Jobs,
         NEW at \in Places, pc' = [pc EXCEPT ![j] = at],
         NEW told \in Tellings, reply' = [reply EXCEPT ![j] = told],
         NEW result \in Results, outcome' = [outcome EXCEPT ![j] = result],
         UNCHANGED <<provider, seed, seedUsed, attempt, session, sessions, serviceVars>>,
         JobOf(j)'
  PROVE  Inv' /\ OnlyUnproven
<1> USE DEF serviceVars, Messages
<1>1. Typed' /\ Placed'
  BY DEF Inv, Typed, Placed
<1>2. OwnAttempt' /\ SeedFresh'
  BY DEF Inv, OwnAttempt, SeedFresh
<1>3. OwnSession'
  BY DEF Inv, OwnSession, Submission
<1>4. ASSUME NEW i \in Jobs, i # j PROVE JobOf(i)'
  BY <1>4, JobKept DEF Inv, Typed
<1> QED
  BY <1>1, <1>2, <1>3, <1>4, NoneRetried DEF Inv

\* A job that was told nothing has sent nothing in this attempt.
LEMMA Unsent ==
  ASSUME Inv, NEW j \in Jobs, reply[j] = "none", pc[j] # "sending"
  PROVE  \A r \in Messages : r.job = j => r.attempt < attempt[j]
<1> SUFFICES ASSUME NEW r \in Messages, r.job = j, ~(r.attempt < attempt[j])
             PROVE  FALSE
  OBVIOUS
<1>1. /\ r \in [job : Jobs, attempt : Nat, session : 0..sessions]
      /\ attempt[j] \in Nat /\ r.attempt <= attempt[r.job]
  BY DEF Inv, Typed, OwnAttempt
<1>2. r.attempt = attempt[j] /\ r.session = session[j]
  BY <1>1 DEF Inv, OwnAttempt
<1>3. r = Submission(j)
  BY <1>1, <1>2 DEF Submission
<1> QED
  BY <1>3 DEF Inv, JobOf, ToldOf

-----------------------------------------------------------------------------
(* Prepare                                                                 *)

\* The session of Prepare is a new one, if it is one.
LEMMA PrepareSessionStep ==
  ASSUME Inv, PrepareSession PROVE Inv' /\ OnlyUnproven
<1>1. /\ UNCHANGED <<provider, seedUsed, jobVars, serviceVars>>
      /\ sessions' \in {sessions, sessions + 1}
      /\ seed' = NoSession \/ (seed' = sessions + 1 /\ sessions' = seed')
  BY DEF PrepareSession, Opened, surveyVars, NoSession, Inv, Typed
<1> USE DEF jobVars, serviceVars, Messages
<1>2. sessions \in Nat /\ sessions' \in Nat /\ sessions <= sessions' /\ seed' \in 0..sessions'
  BY <1>1 DEF Inv, Typed, NoSession
<1>3. Typed'
  <2>1. 0..sessions \subseteq 0..sessions'
    BY <1>2
  <2>2. session' \in [Jobs -> 0..sessions']
    BY <1>1, <2>1 DEF Inv, Typed
  <2>3. \A r \in Messages : r \in [job : Jobs, attempt : Nat, session : 0..sessions']
    BY <2>1 DEF Inv, Typed
  <2> QED
    BY <1>1, <1>2, <2>2, <2>3 DEF Inv, Typed
<1>4. Placed' /\ OwnAttempt'
  BY <1>1 DEF Inv, Placed, OwnAttempt
<1>5. OwnSession'
  BY <1>1 DEF Inv, OwnSession, Submission
<1>6. SeedFresh'
  <2>1. /\ \A j \in Jobs : session[j] \in 0..sessions
        /\ \A r \in Messages : r.session \in 0..sessions
    BY DEF Inv, Typed
  <2>2. sessions + 1 \notin 0..sessions
    BY <1>2
  <2> QED
    BY <1>1, <2>1, <2>2 DEF SeedFresh
<1>7. ASSUME NEW j \in Jobs PROVE JobOf(j)'
  BY <1>1, JobKept DEF Inv
<1> QED
  BY <1>1, <1>3, <1>4, <1>5, <1>6, <1>7, NoneRetried DEF Inv

LEMMA PrepareStep ==
  ASSUME Inv, Prepare PROVE Inv' /\ OnlyUnproven
<1>1. CASE PrepareSession
  BY <1>1, PrepareSessionStep
<1>2. CASE ~PrepareSession
  <2>1. UNCHANGED <<provider, seed, seedUsed, jobVars, sessions, serviceVars>>
    BY <1>2 DEF Prepare, PrepareFails, QuestionsMissing, QuestionsAnswered, PageGated,
                PageAnswered, DetailAnswered, surveyVars
  <2> QED
    BY <2>1, Untouched
<1> QED
  BY <1>1, <1>2

-----------------------------------------------------------------------------
(* RunPrepared                                                             *)

\* An attempt has a session of its own, or none: nobody had it before.
LEMMA SessionGiven ==
  ASSUME Inv, NEW j \in Jobs,
         NEW s, s = NoSession \/ (s = seed /\ ~seedUsed) \/ s = sessions + 1,
         session' = [session EXCEPT ![j] = s],
         sessions' = IF s = sessions + 1 THEN s ELSE sessions,
         ~seedUsed' => ~seedUsed /\ s = NoSession, seed' = seed,
         attempt' \in [Jobs -> Nat], \A i \in Jobs \ {j} : attempt'[i] = attempt[i],
         \A r \in Messages : r.job = j => r.attempt < attempt'[j],
         pc' \in [Jobs -> Places],
         reply' \in [Jobs -> Tellings], outcome' \in [Jobs -> Results],
         UNCHANGED serviceVars
  PROVE  Typed' /\ Placed' /\ OwnAttempt' /\ OwnSession' /\ SeedFresh'
<1> USE DEF serviceVars, Messages
<1>1. /\ sessions \in Nat /\ seed \in 0..sessions
      /\ \A i \in Jobs : session[i] \in 0..sessions /\ attempt[i] \in Nat
      /\ \A r \in Messages : r \in [job : Jobs, attempt : Nat, session : 0..sessions]
  BY DEF Inv, Typed
<1>2. sessions' \in Nat /\ sessions <= sessions' /\ s \in 0..sessions'
  BY <1>1 DEF NoSession
<1>3. s # NoSession => /\ \A i \in Jobs : session[i] # s
                       /\ \A r \in Messages : r.session # s
  <2>1. CASE s = sessions + 1
    BY <1>1, <2>1
  <2>2. CASE s = seed /\ ~seedUsed
    BY <2>2 DEF Inv, SeedFresh
  <2> QED
    BY <2>1, <2>2
<1>4. \A i \in Jobs : session'[i] = IF i = j THEN s ELSE session[i]
  BY DEF Inv, Typed
<1>5. Typed'
  <2>1. 0..sessions \subseteq 0..sessions'
    BY <1>1, <1>2
  <2>2. session' \in [Jobs -> 0..sessions']
    BY <1>2, <2>1 DEF Inv, Typed
  <2>3. \A r \in Messages : r \in [job : Jobs, attempt : Nat, session : 0..sessions']
    BY <1>1, <2>1
  <2>4. seed' \in 0..sessions'
    BY <1>1, <2>1
  <2> QED
    BY <1>2, <2>2, <2>3, <2>4 DEF Typed
<1>6. Placed'
  BY DEF Inv, Placed
<1>7. OwnAttempt'
  <2> SUFFICES ASSUME NEW r \in Messages
               PROVE  /\ r.attempt <= attempt'[r.job]
                      /\ r.attempt = attempt'[r.job] => r.session = session'[r.job]
    BY DEF OwnAttempt
  <2>1. r.job \in Jobs /\ r.attempt \in Nat
    BY <1>1
  <2>2. CASE r.job = j
    BY <1>1, <2>1, <2>2
  <2>3. CASE r.job # j
    BY <1>4, <2>1, <2>3 DEF Inv, OwnAttempt
  <2> QED
    BY <2>2, <2>3
<1>8. OwnSession'
  <2> SUFFICES ASSUME NEW i \in Jobs, session'[i] # NoSession
               PROVE  /\ \A k \in Jobs : session'[k] = session'[i] => k = i
                      /\ \A r \in Messages : r.session = session'[i] => r = Submission(i)'
    BY DEF OwnSession
  <2>1. CASE i = j
    BY <1>3, <1>4, <2>1
  <2>2. CASE i # j
    <3>1. session'[i] = session[i] /\ Submission(i)' = Submission(i)
      BY <1>4, <2>2 DEF Submission
    <3> QED
      BY <1>3, <1>4, <2>2, <3>1 DEF Inv, OwnSession
  <2> QED
    BY <2>1, <2>2
<1>9. SeedFresh'
  BY <1>4 DEF Inv, SeedFresh
<1> QED
  BY <1>5, <1>6, <1>7, <1>8, <1>9

\* A job at work that was told nothing and has sent nothing is in order.
LEMMA JobBegun ==
  ASSUME NEW j \in Jobs, pc[j] \in {"opening", "building", "submitting"},
         reply[j] = "none", outcome[j] = "none", Submission(j) \notin Messages
  PROVE  JobOf(j)
BY DEF JobOf, ToldOf, EndedOf, SuccessOf

LEMMA StartStep ==
  ASSUME Inv, NEW j \in Jobs, Start(j) PROVE Inv' /\ OnlyUnproven
<1>1. /\ pc[j] = "waiting"
      /\ attempt' = [attempt EXCEPT ![j] = @ + 1]
      /\ session' = [session EXCEPT ![j] = NoSession]
      /\ reply' = [reply EXCEPT ![j] = "none"]
      /\ UNCHANGED <<provider, seed, seedUsed, sessions, serviceVars>>
  BY DEF Start, surveyVars, prepareVars
<1>2. \/ /\ pc' = [pc EXCEPT ![j] = "settled"]
         /\ outcome' = [outcome EXCEPT ![j] = "canceled"]
      \/ /\ outcome' = outcome
         /\ pc' = [pc EXCEPT ![j] = "building"] \/ pc' = [pc EXCEPT ![j] = "opening"]
  BY DEF Start, Finish, Goto
<1> USE DEF serviceVars, Messages
<1>3. \A r \in Messages : r.job = j => r.attempt < attempt'[j]
  BY <1>1 DEF Inv, Typed, OwnAttempt
<1>4. Typed' /\ Placed' /\ OwnAttempt' /\ OwnSession' /\ SeedFresh'
  <2>1. attempt' \in [Jobs -> Nat] /\ \A i \in Jobs \ {j} : attempt'[i] = attempt[i]
    BY <1>1 DEF Inv, Typed
  <2>2. /\ pc' \in [Jobs -> Places] /\ reply' \in [Jobs -> Tellings]
        /\ outcome' \in [Jobs -> Results]
    <3>1. {"settled", "building", "opening"} \subseteq Places
      BY DEF Places
    <3>2. pc' \in [Jobs -> Places]
      BY <1>2, <3>1 DEF Inv, Typed
    <3>3. outcome' \in [Jobs -> Results]
      BY <1>2 DEF Inv, Typed, Results
    <3>4. reply' \in [Jobs -> Tellings]
      BY <1>1 DEF Inv, Typed, Tellings
    <3> QED
      BY <3>2, <3>3, <3>4
  <2>3. sessions' = IF NoSession = sessions + 1 THEN NoSession ELSE sessions
    BY <1>1 DEF Inv, Typed, NoSession
  <2>4. ~seedUsed' => ~seedUsed /\ NoSession = NoSession
    BY <1>1
  <2> QED
    BY <1>1, <1>3, <2>1, <2>2, <2>3, <2>4, SessionGiven
<1>5. JobOf(j)'
  <2>1. Submission(j)' \notin Messages
    <3>1. Submission(j)'.job = j /\ Submission(j)'.attempt = attempt'[j] /\ attempt'[j] \in Nat
      BY <1>1 DEF Submission, Inv, Typed
    <3> QED
      BY <1>3, <3>1
  <2>2. reply'[j] = "none" /\ outcome[j] = "none"
    BY <1>1 DEF Inv, Typed, JobOf, EndedOf
  <2>3. CASE outcome' = outcome
    <3>1. pc'[j] \in {"opening", "building", "submitting"}
      BY <1>2, <2>2, <2>3 DEF Inv, Typed
    <3> QED
      BY <1>1, <2>1, <2>2, <2>3, <3>1 DEF JobOf, ToldOf, EndedOf, SuccessOf
  <2>4. CASE outcome' = [outcome EXCEPT ![j] = "canceled"] /\ pc' = [pc EXCEPT ![j] = "settled"]
    <3>1. outcome'[j] = "canceled" /\ pc'[j] = "settled"
      BY <2>4 DEF Inv, Typed
    <3> QED
      BY <1>1, <2>1, <2>2, <3>1 DEF JobOf, ToldOf, EndedOf, SuccessOf
  <2> QED
    BY <1>2, <2>3, <2>4
<1>6. ASSUME NEW i \in Jobs, i # j PROVE JobOf(i)'
  BY <1>1, <1>2, <1>6, JobKept DEF Inv, Typed
<1>7. OnlyUnproven
  <2> SUFFICES ASSUME NEW i \in Jobs, attempt'[i] > attempt[i]
               PROVE  /\ reply[i] \notin {"timeout", "context"}
                      /\ Submission(i) \in recorded =>
                           \/ reply[i] \in {"connection", "unmarked"}
                           \/ provider = "qq" /\ session[i] # NoSession
    BY DEF OnlyUnproven
  <2>1. i = j
    BY <1>1 DEF Inv, Typed
  <2> QED
    BY <1>1, <2>1 DEF Inv, JobOf, EndedOf
<1> QED
  BY <1>4, <1>5, <1>6, <1>7 DEF Inv

\* A job that is opening goes on with a session of its own, or none.
LEMMA SessionTaken ==
  ASSUME Inv, NEW j \in Jobs, pc[j] = "opening", pc' = [pc EXCEPT ![j] = "building"],
         NEW s, s = NoSession \/ (s = seed /\ ~seedUsed) \/ s = sessions + 1,
         session' = [session EXCEPT ![j] = s],
         sessions' = IF s = sessions + 1 THEN s ELSE sessions,
         seedUsed' = TRUE,
         UNCHANGED <<provider, seed, attempt, reply, outcome, serviceVars>>
  PROVE  Inv' /\ OnlyUnproven
<1> USE DEF serviceVars, Messages
<1>1. reply[j] = "none" /\ outcome[j] = "none"
  BY DEF Inv, JobOf, ToldOf, EndedOf
<1>2. \A r \in Messages : r.job = j => r.attempt < attempt'[j]
  BY <1>1, Unsent
<1>3. Typed' /\ Placed' /\ OwnAttempt' /\ OwnSession' /\ SeedFresh'
  <2>1. /\ attempt' \in [Jobs -> Nat] /\ \A i \in Jobs \ {j} : attempt'[i] = attempt[i]
        /\ reply' \in [Jobs -> Tellings] /\ outcome' \in [Jobs -> Results]
    BY DEF Inv, Typed
  <2>2. pc' \in [Jobs -> Places]
    BY DEF Inv, Typed, Places
  <2> QED
    BY <1>2, <2>1, <2>2, SessionGiven
<1>4. JobOf(j)'
  <2>1. Submission(j)' \notin Messages
    <3>1. /\ Submission(j)'.job = j /\ Submission(j)'.attempt = attempt'[j]
          /\ attempt'[j] \in Nat
      BY DEF Submission, Inv, Typed
    <3> QED
      BY <1>2, <3>1
  <2>2. pc'[j] = "building"
    BY DEF Inv, Typed
  <2> QED
    BY <1>1, <2>1, <2>2 DEF JobOf, ToldOf, EndedOf, SuccessOf
<1>5. ASSUME NEW i \in Jobs, i # j PROVE JobOf(i)'
  BY <1>5, JobKept DEF Inv, Typed
<1> QED
  BY <1>3, <1>4, <1>5, NoneRetried DEF Inv

LEMMA TakeSeedStep ==
  ASSUME Inv, NEW j \in Jobs, takeSeedSession(j) PROVE Inv' /\ OnlyUnproven
<1>1. /\ pc[j] = "opening" /\ ~seedUsed /\ seedUsed' = TRUE
      /\ session' = [session EXCEPT ![j] = seed]
      /\ pc' = [pc EXCEPT ![j] = "building"]
      /\ sessions' = IF seed = sessions + 1 THEN seed ELSE sessions
      /\ UNCHANGED <<provider, seed, attempt, reply, outcome, serviceVars>>
  <2>1. seed # sessions + 1
    BY DEF Inv, Typed
  <2> QED
    BY <2>1 DEF takeSeedSession, Goto, surveyVars, prepareVars
<1> QED
  BY <1>1, SessionTaken

\* Steps of one job that end its attempt, with its reply as it was.
LEMMA Settled ==
  ASSUME Inv, NEW j \in Jobs, pc' = [pc EXCEPT ![j] = "settled"], reply' = reply,
         NEW result \in Results \ {"none"}, outcome' = [outcome EXCEPT ![j] = result],
         UNCHANGED <<provider, seed, seedUsed, attempt, session, sessions, serviceVars>>,
         pc[j] # "sending" \/ reply[j] # "none",
         result = "run" =>
           /\ reply[j] \notin {"timeout", "context"}
           /\ Submission(j) \in Messages =>
                \/ reply[j] \in {"connection", "unmarked"}
                \/ provider = "qq" /\ session[j] # NoSession,
         result = "success" =>
           \/ Submission(j) \in recorded
           \/ provider = "qq" /\ session[j] = NoSession
           \/ provider = "credamo" /\ reply[j] = "flagless"
  PROVE  Inv' /\ OnlyUnproven
<1> USE DEF serviceVars, Messages
<1>1. pc'[j] = "settled" /\ outcome'[j] = result /\ Submission(j)' = Submission(j)
  BY DEF Inv, Typed, Submission
<1>2. ToldOf(j) /\ EndedOf(j)
  BY DEF Inv, JobOf
<1>3. ToldOf(j)'
  BY <1>1, <1>2 DEF ToldOf
<1>4. EndedOf(j)'
  BY <1>1, <1>2 DEF EndedOf
<1>5. SuccessOf(j)'
  BY <1>1 DEF SuccessOf
<1>6. /\ "settled" \in Places /\ reply[j] \in Tellings
      /\ reply' = [reply EXCEPT ![j] = reply[j]]
  BY DEF Places, Inv, Typed
<1> QED
  BY <1>3, <1>4, <1>5, <1>6, JobMoved DEF JobOf

LEMMA OpenStep ==
  ASSUME Inv, NEW j \in Jobs, Open(j) PROVE Inv' /\ OnlyUnproven
<1>1. /\ pc[j] = "opening" /\ pc' = [pc EXCEPT ![j] = "building"]
      /\ UNCHANGED <<provider, seed, seedUsed, attempt, reply, outcome, serviceVars>>
  BY DEF Open, Goto, surveyVars, prepareVars
<1>2. CASE provider = "qq"
  <2>1. PICK s \in {NoSession, sessions + 1} :
          session' = [session EXCEPT ![j] = s] /\ Opened(s)
    BY <1>2 DEF Open
  <2>2. sessions' = IF s = sessions + 1 THEN s ELSE sessions
    BY <2>1 DEF Opened, NoSession, Inv, Typed
  <2>3. seedUsed' \in {TRUE} /\ seedUsed
    BY <1>1, <1>2 DEF Open
  <2> QED
    BY <1>1, <2>1, <2>2, <2>3, SessionTaken
<1>3. CASE provider # "qq"
  <2>1. UNCHANGED <<session, sessions>>
    BY <1>3 DEF Open
  <2>2. JobOf(j)'
    <3>1. reply[j] = "none" /\ outcome[j] = "none" /\ Submission(j) \notin Messages
      BY <1>1 DEF Inv, JobOf, ToldOf, EndedOf
    <3>2. pc'[j] = "building" /\ Submission(j)' = Submission(j) /\ Messages' = Messages
      BY <1>1, <2>1 DEF Inv, Typed, Submission, Messages, serviceVars
    <3> QED
      BY <1>1, <3>1, <3>2 DEF JobOf, ToldOf, EndedOf, SuccessOf
  <2>3. /\ "building" \in Places /\ reply[j] \in Tellings /\ outcome[j] \in Results
        /\ reply' = [reply EXCEPT ![j] = reply[j]]
        /\ outcome' = [outcome EXCEPT ![j] = outcome[j]]
    BY <1>1 DEF Inv, Typed, Places
  <2> QED
    BY <1>1, <2>1, <2>2, <2>3, JobMoved
<1> QED
  BY <1>2, <1>3

\* A kind of error is never a success, and a broken exchange is retryable only
\* when it was the connection.
LEMMA WrapResult ==
  ASSUME NEW kind \in Results \ {"none"}, NEW cause
  PROVE  /\ Wrap(kind, cause) \in Results \ {"none"}
         /\ kind # "success" => Wrap(kind, cause) # "success"
         /\ Wrap(kind, cause) = "run" => cause \notin {"timeout", "context"}
BY DEF Wrap, Results

LEMMA FailStep ==
  ASSUME Inv, NEW j \in Jobs, NEW step \in {"opening", "building", "confirming"},
         NEW kinds \in SUBSET (Results \ {"none", "success"}),
         Fail(j, step, kinds), step = "building" => "run" \notin kinds
  PROVE  Inv' /\ OnlyUnproven
<1>1. PICK kind \in kinds : Finish(j, kind)
  BY DEF Fail
<1>2. /\ pc[j] = step /\ pc' = [pc EXCEPT ![j] = "settled"] /\ reply' = reply
      /\ outcome' = [outcome EXCEPT ![j] = kind]
      /\ UNCHANGED <<provider, seed, seedUsed, attempt, session, sessions, serviceVars>>
  BY <1>1 DEF Fail, Finish, Goto, surveyVars, prepareVars
<1>3. kind = "run" =>
        /\ reply[j] \notin {"timeout", "context"}
        /\ Submission(j) \in Messages =>
             \/ reply[j] \in {"connection", "unmarked"}
             \/ provider = "qq" /\ session[j] # NoSession
  <2>1. CASE step = "opening"
    BY <1>2, <2>1 DEF Inv, JobOf, ToldOf
  <2>2. CASE step = "confirming"
    BY <1>2, <2>2 DEF Inv, JobOf, ToldOf, EndedOf
  <2> QED
    BY <2>1, <2>2
<1> QED
  BY <1>2, <1>3, Settled

LEMMA BuildStep ==
  ASSUME Inv, NEW j \in Jobs, Build(j) PROVE Inv' /\ OnlyUnproven
<1>1. CASE Fail(j, "building", {"unsupported", "config"})
  <2>1. {"unsupported", "config"} \in SUBSET (Results \ {"none", "success"})
        /\ "run" \notin {"unsupported", "config"}
    BY DEF Results
  <2> QED
    BY <1>1, <2>1, FailStep
<1>2. CASE pc[j] = "building" /\ Goto(j, "submitting")
           /\ UNCHANGED <<surveyVars, ended, prepareVars, seedUsed, attempt, session, reply,
                          polls, outcome, sessions, serviceVars, faults>>
  <2>1. /\ pc' = [pc EXCEPT ![j] = "submitting"]
        /\ UNCHANGED <<provider, seed, seedUsed, attempt, session, reply, outcome, sessions,
                       serviceVars>>
    BY <1>2 DEF Goto, surveyVars, prepareVars
  <2>2. reply[j] = "none" /\ outcome[j] = "none" /\ Submission(j) \notin Messages
    BY <1>2 DEF Inv, JobOf, ToldOf, EndedOf
  <2>3. pc'[j] = "submitting" /\ Submission(j)' = Submission(j) /\ Messages' = Messages
    BY <2>1 DEF Inv, Typed, Submission, Messages, serviceVars
  <2>4. JobOf(j)'
    BY <2>1, <2>2, <2>3 DEF JobOf, ToldOf, EndedOf, SuccessOf
  <2>5. /\ "submitting" \in Places /\ reply[j] \in Tellings /\ outcome[j] \in Results
        /\ reply' = [reply EXCEPT ![j] = reply[j]]
        /\ outcome' = [outcome EXCEPT ![j] = outcome[j]]
    BY <2>1 DEF Inv, Typed, Places
  <2> QED
    BY <2>1, <2>4, <2>5, JobMoved
<1> QED
  BY <1>1, <1>2 DEF Build

\* A submission leaves: no other is of this attempt or has its session.
LEMMA SendStep ==
  ASSUME Inv, NEW j \in Jobs, Send(j) PROVE Inv' /\ OnlyUnproven
<1>1. /\ pc[j] = "submitting" /\ pc' = [pc EXCEPT ![j] = "sending"]
      /\ sent' = sent \cup {Submission(j)}
      /\ UNCHANGED <<provider, seed, seedUsed, attempt, session, reply, outcome, sessions,
                     accepted, recorded>>
  BY DEF Send, Goto, surveyVars, prepareVars
<1>2. reply[j] = "none" /\ outcome[j] = "none" /\ Submission(j) \notin Messages
  BY <1>1 DEF Inv, JobOf, ToldOf, EndedOf
<1>3. Messages' = Messages \cup {Submission(j)}
  BY <1>1 DEF Messages
<1>4. Typed'
  <2>1. Submission(j) \in [job : Jobs, attempt : Nat, session : 0..sessions]
    BY DEF Submission, Inv, Typed
  <2>2. pc' \in [Jobs -> Places]
    BY <1>1 DEF Inv, Typed, Places
  <2> QED
    BY <1>1, <1>3, <2>1, <2>2 DEF Inv, Typed
<1>5. Placed'
  BY <1>1, <1>2 DEF Inv, Placed, Messages
<1>6. OwnAttempt'
  <2>1. /\ Submission(j).job = j /\ Submission(j).attempt = attempt[j]
        /\ Submission(j).session = session[j] /\ attempt[j] \in Nat
    BY DEF Submission, Inv, Typed
  <2> QED
    BY <1>1, <1>3, <2>1 DEF Inv, OwnAttempt
<1>7. OwnSession'
  <2> SUFFICES ASSUME NEW i \in Jobs, session[i] # NoSession,
                      NEW r \in Messages', r.session = session[i]
               PROVE  r = Submission(i)
    BY <1>1 DEF Inv, OwnSession, Submission
  <2>1. CASE r \in Messages
    BY <2>1 DEF Inv, OwnSession
  <2>2. CASE r = Submission(j)
    <3>1. session[i] = session[j]
      BY <2>2 DEF Submission
    <3> QED
      BY <2>2, <3>1 DEF Inv, OwnSession
  <2> QED
    BY <1>3, <2>1, <2>2
<1>8. SeedFresh'
  BY <1>1, <1>3 DEF Inv, SeedFresh, Submission
<1>9. ASSUME NEW i \in Jobs PROVE JobOf(i)'
  <2>1. CASE i = j
    <3>1. pc'[j] = "sending" /\ Submission(j)' = Submission(j)
      BY <1>1 DEF Inv, Typed, Submission
    <3> QED
      BY <1>1, <1>2, <2>1, <3>1 DEF JobOf, ToldOf, EndedOf, SuccessOf
  <2>2. CASE i # j
    <3>1. Submission(i) # Submission(j)
      BY <2>2 DEF Submission
    <3>2. pc'[i] = pc[i]
      BY <1>1, <2>2 DEF Inv, Typed
    <3> QED
      BY <1>1, <1>3, <3>1, <3>2, JobKept DEF Inv
  <2> QED
    BY <2>1, <2>2
<1> QED
  BY <1>1, <1>4, <1>5, <1>6, <1>7, <1>8, <1>9, NoneRetried DEF Inv

LEMMA SendFailsStep ==
  ASSUME Inv, NEW j \in Jobs, NEW cause \in {"context", "timeout", "connection", "refused"},
         SendFails(j, cause)
  PROVE  Inv' /\ OnlyUnproven
<1> DEFINE result == Wrap("run", cause)
<1>1. /\ pc[j] \in {"submitting", "sending"} /\ pc' = [pc EXCEPT ![j] = "settled"]
      /\ outcome' = [outcome EXCEPT ![j] = result]
      /\ reply' = [reply EXCEPT ![j] = cause]
      /\ UNCHANGED <<provider, seed, seedUsed, attempt, session, sessions, serviceVars>>
  BY DEF SendFails, Finish, Goto, surveyVars, prepareVars
<1>2. cause \in {"context", "timeout", "connection"}
  BY DEF SendFails, Broken
<1>3. result \in Results \ {"none", "success"} /\ (result = "run" => cause = "connection")
  BY <1>2 DEF Wrap, Results
<1> HIDE DEF result
<1>4. /\ pc'[j] = "settled" /\ outcome'[j] = result /\ reply'[j] = cause
      /\ Submission(j)' = Submission(j)
  BY <1>1 DEF Inv, Typed, Submission
<1>5. JobOf(j)'
  BY <1>2, <1>3, <1>4 DEF JobOf, ToldOf, EndedOf, SuccessOf
<1>6. "settled" \in Places /\ cause \in Tellings /\ result \in Results
  BY <1>2, <1>3 DEF Places, Tellings
<1> QED
  BY <1>1, <1>5, <1>6, JobMoved

LEMMA ReceiveStep ==
  ASSUME Inv, NEW j \in Jobs, Receive(j) PROVE Inv' /\ OnlyUnproven
<1>1. /\ pc[j] = "sending" /\ reply[j] # "none" /\ reply' = reply
      /\ UNCHANGED <<provider, seed, seedUsed, attempt, session, sessions, serviceVars>>
  BY DEF Receive, surveyVars, prepareVars
<1>2. ToldOf(j) /\ outcome[j] = "none"
  BY <1>1 DEF Inv, JobOf, EndedOf
<1>3. CASE ~Convincing(reply[j])
  <2>1. pc' = [pc EXCEPT ![j] = "settled"] /\ outcome' = [outcome EXCEPT ![j] = "run"]
    BY <1>3 DEF Receive, Finish, Goto
  <2>2. reply[j] \in {"refused", "unmarked"}
    BY <1>1, <1>2, <1>3 DEF Convincing, ToldOf, Inv, Typed, Tellings
  <2>3. "run" \in Results \ {"none"}
    BY DEF Results
  <2>4. Submission(j) \in Messages => reply[j] = "unmarked"
    BY <1>2, <2>2 DEF ToldOf
  <2> QED
    BY <1>1, <2>1, <2>2, <2>3, <2>4, Settled
<1>4. CASE Convincing(reply[j]) /\ Confirmable(j)
  <2>1. /\ pc' = [pc EXCEPT ![j] = "confirming"] /\ outcome' = outcome
        /\ provider = "qq" /\ session[j] # NoSession /\ reply[j] = "accepted"
    BY <1>4 DEF Receive, Goto, Confirmable, Convincing
  <2>2. pc'[j] = "confirming" /\ Submission(j)' = Submission(j) /\ Messages' = Messages
    BY <1>1, <2>1 DEF Inv, Typed, Submission, Messages, serviceVars
  <2>3. JobOf(j)'
    BY <1>1, <1>2, <2>1, <2>2 DEF JobOf, ToldOf, EndedOf, SuccessOf, serviceVars
  <2>4. /\ "confirming" \in Places /\ reply[j] \in Tellings /\ outcome[j] \in Results
        /\ reply' = [reply EXCEPT ![j] = reply[j]]
        /\ outcome' = [outcome EXCEPT ![j] = outcome[j]]
    BY <1>1, <2>1 DEF Inv, Typed, Places
  <2> QED
    BY <1>1, <2>1, <2>3, <2>4, JobMoved
<1>5. CASE Convincing(reply[j]) /\ ~Confirmable(j)
  <2>1. pc' = [pc EXCEPT ![j] = "settled"] /\ outcome' = [outcome EXCEPT ![j] = "success"]
    BY <1>5 DEF Receive, Finish, Goto
  <2>2. \/ Submission(j) \in recorded
        \/ provider = "qq" /\ session[j] = NoSession
        \/ provider = "credamo" /\ reply[j] = "flagless"
    BY <1>2, <1>5 DEF Convincing, Confirmable, ToldOf
  <2>3. "success" \in Results \ {"none"}
    BY DEF Results
  <2> QED
    BY <1>1, <2>1, <2>2, <2>3, Settled
<1> QED
  BY <1>3, <1>4, <1>5

\* An answer shown in a job's own session is the job's.
LEMMA PollStep ==
  ASSUME Inv, NEW j \in Jobs, Poll(j) PROVE Inv' /\ OnlyUnproven
<1>1. /\ pc[j] = "confirming" /\ reply' = reply
      /\ UNCHANGED <<provider, seed, seedUsed, attempt, session, sessions, serviceVars>>
  BY DEF Poll, surveyVars, prepareVars
<1>2. provider = "qq" /\ session[j] # NoSession /\ reply[j] = "accepted"
  BY <1>1 DEF Inv, JobOf, EndedOf
<1>3. CASE Shown(session[j])
  <2>1. pc' = [pc EXCEPT ![j] = "settled"] /\ outcome' = [outcome EXCEPT ![j] = "success"]
    BY <1>3 DEF Poll, Finish, Goto
  <2>2. Submission(j) \in recorded
    <3>1. PICK r \in recorded : r.session = session[j]
      BY <1>3 DEF Shown
    <3>2. r = Submission(j)
      BY <1>2, <3>1 DEF Inv, OwnSession, Messages
    <3> QED
      BY <3>2
  <2>3. "success" \in Results \ {"none"}
    BY DEF Results
  <2> QED
    BY <1>1, <2>1, <2>2, <2>3, Settled
<1>4. CASE ~Shown(session[j]) /\ polls[j] + 1 < Confirmations
  <2>1. UNCHANGED <<pc, outcome>>
    BY <1>4 DEF Poll
  <2>2. Messages' = Messages /\ Submission(j)' = Submission(j)
    BY <1>1 DEF Messages, serviceVars, Submission
  <2>3. JobOf(j)'
    BY <1>1, <2>1, <2>2, JobKept DEF Inv, serviceVars
  <2>4. /\ pc[j] \in Places /\ reply[j] \in Tellings /\ outcome[j] \in Results
        /\ pc' = [pc EXCEPT ![j] = pc[j]]
        /\ reply' = [reply EXCEPT ![j] = reply[j]]
        /\ outcome' = [outcome EXCEPT ![j] = outcome[j]]
    BY <1>1, <2>1 DEF Inv, Typed
  <2> QED
    BY <1>1, <2>3, <2>4, JobMoved
<1>5. CASE ~Shown(session[j]) /\ ~(polls[j] + 1 < Confirmations)
  <2>1. pc' = [pc EXCEPT ![j] = "settled"] /\ outcome' = [outcome EXCEPT ![j] = "run"]
    BY <1>5 DEF Poll, Finish, Goto
  <2>2. "run" \in Results \ {"none"}
    BY DEF Results
  <2> QED
    BY <1>1, <1>2, <2>1, <2>2, Settled
<1> QED
  BY <1>3, <1>4, <1>5

LEMMA RetryStep ==
  ASSUME Inv, NEW j \in Jobs, Retry(j) PROVE Inv' /\ OnlyUnproven
<1>1. /\ pc[j] = "settled" /\ outcome[j] = "run"
      /\ pc' = [pc EXCEPT ![j] = "waiting"] /\ outcome' = [outcome EXCEPT ![j] = "none"]
      /\ UNCHANGED <<provider, seed, seedUsed, attempt, session, reply, sessions, serviceVars>>
  BY DEF Retry, MayRetry, Goto, surveyVars, prepareVars
<1>2. /\ pc'[j] = "waiting" /\ outcome'[j] = "none" /\ Messages' = Messages
      /\ Submission(j)' = Submission(j)
  BY <1>1 DEF Inv, Typed, Messages, serviceVars, Submission
<1>3. ToldOf(j) /\ EndedOf(j)
  BY DEF Inv, JobOf
<1>4. JobOf(j)'
  BY <1>1, <1>2, <1>3 DEF JobOf, ToldOf, EndedOf, SuccessOf, serviceVars
<1>5. /\ "waiting" \in Places /\ reply[j] \in Tellings /\ "none" \in Results
      /\ reply' = [reply EXCEPT ![j] = reply[j]]
  BY <1>1 DEF Inv, Typed, Places, Results
<1> QED
  BY <1>1, <1>4, <1>5, JobMoved

-----------------------------------------------------------------------------
(* The service                                                             *)

\* Only the sender of a submission is told of it, and only of its last attempt.
LEMMA Heard ==
  ASSUME Inv, NEW r \in sent, NEW answer, Tell(r, answer), NEW i \in Jobs
  PROVE  /\ reply'[i] # reply[i] =>
              r = Submission(i) /\ pc[i] = "sending" /\ reply'[i] = answer
         /\ answer \in Tellings => reply' \in [Jobs -> Tellings]
<1>1. r \in Messages /\ r.job \in Jobs
      /\ r = [job |-> r.job, attempt |-> r.attempt, session |-> r.session]
  BY DEF Inv, Typed, Messages
<1>2. reply'[i] # reply[i] =>
        i = r.job /\ pc[i] = "sending" /\ attempt[i] = r.attempt /\ reply'[i] = answer
  BY DEF Tell, Inv, Typed
<1>3. i = r.job /\ attempt[i] = r.attempt => r = Submission(i)
  BY <1>1 DEF Submission, Inv, OwnAttempt
<1>4. answer \in Tellings => reply' \in [Jobs -> Tellings]
  BY DEF Tell, Inv, Typed
<1> QED
  BY <1>2, <1>3, <1>4

LEMMA ServeStep ==
  ASSUME Inv, NEW r \in sent, Serve(r) PROVE Inv' /\ OnlyUnproven
<1>1. /\ sent' = sent \ {r}
      /\ UNCHANGED <<provider, seed, seedUsed, pc, attempt, session, outcome, sessions>>
  BY DEF Serve, surveyVars, prepareVars
<1>2. PICK answer \in {"accepted", "unmarked", "flagless", "refused"} :
        /\ Tell(r, answer)
        /\ answer = "flagless" => provider = "credamo"
        /\ answer = "accepted" =>
             r \in IF provider = "qq" THEN accepted' \cup recorded' ELSE recorded'
        /\ answer = "refused" => UNCHANGED <<accepted, recorded>>
        /\ \/ UNCHANGED <<accepted, recorded>>
           \/ accepted' = accepted \cup {r} /\ recorded' = recorded
           \/ accepted' = accepted /\ recorded' = recorded \cup {r}
  <2>1. CASE /\ \E answer \in {"accepted", "unmarked"} : Tell(r, answer)
             /\ IF provider = "qq"
                THEN accepted' = accepted \cup {r} /\ UNCHANGED recorded
                ELSE recorded' = recorded \cup {r} /\ UNCHANGED accepted
    BY <2>1
  <2>2. CASE /\ provider = "credamo" /\ Tell(r, "flagless")
             /\ recorded' \in {recorded, recorded \cup {r}} /\ UNCHANGED accepted
    BY <2>2
  <2>3. CASE Tell(r, "refused") /\ UNCHANGED <<accepted, recorded>>
    BY <2>3
  <2> QED
    BY <2>1, <2>2, <2>3 DEF Serve
<1>3. /\ Messages' \subseteq Messages
      /\ accepted \subseteq accepted' /\ recorded \subseteq recorded'
      /\ answer = "refused" => r \notin Messages'
  BY <1>1, <1>2 DEF Inv, Placed, Messages
<1>4. Typed'
  <2>1. reply' \in [Jobs -> Tellings]
    <3>1. CASE Jobs = {}
      BY <3>1, <1>2 DEF Tell, Inv, Typed
    <3>2. CASE Jobs # {}
      BY <3>2, <1>2, Heard DEF Tellings
    <3> QED
      BY <3>1, <3>2
  <2> QED
    BY <1>1, <1>3, <2>1 DEF Inv, Typed
<1>5. Placed'
  BY <1>1, <1>2 DEF Inv, Placed
<1>6. OwnAttempt' /\ SeedFresh'
  BY <1>1, <1>3 DEF Inv, OwnAttempt, SeedFresh
<1>7. OwnSession'
  BY <1>1, <1>3 DEF Inv, OwnSession, Submission
<1>8. ASSUME NEW i \in Jobs PROVE JobOf(i)'
  <2>1. CASE reply'[i] = reply[i]
    BY <1>1, <1>3, <2>1, JobKept DEF Inv
  <2>2. CASE reply'[i] # reply[i]
    <3>1. r = Submission(i) /\ pc[i] = "sending" /\ reply'[i] = answer
      BY <1>2, <2>2, Heard
    <3>2. outcome[i] = "none" /\ Submission(i)' = Submission(i)
      BY <1>1, <3>1 DEF Inv, JobOf, EndedOf, Submission
    <3>3. ToldOf(i)'
      BY <1>1, <1>2, <1>3, <3>1, <3>2 DEF ToldOf
    <3>4. EndedOf(i)' /\ SuccessOf(i)'
      BY <1>1, <3>1, <3>2 DEF EndedOf, SuccessOf
    <3> QED
      BY <3>3, <3>4 DEF JobOf
  <2> QED
    BY <2>1, <2>2
<1> QED
  BY <1>1, <1>4, <1>5, <1>6, <1>7, <1>8, NoneRetried DEF Inv

\* An accepted answer is kept: nobody is told.
LEMMA KeepStep ==
  ASSUME Inv, NEW r \in accepted, Keep(r) PROVE Inv' /\ OnlyUnproven
<1>1. /\ accepted' = accepted \ {r} /\ recorded' = recorded \cup {r}
      /\ UNCHANGED <<provider, seed, seedUsed, jobVars, sessions, sent>>
  BY DEF Keep, surveyVars, prepareVars
<1>2. Messages' = Messages
  BY <1>1 DEF Messages
<1> USE DEF jobVars
<1>3. Typed'
  BY <1>1, <1>2 DEF Inv, Typed
<1>4. Placed'
  BY <1>1 DEF Inv, Placed
<1>5. OwnAttempt' /\ SeedFresh'
  BY <1>1, <1>2 DEF Inv, OwnAttempt, SeedFresh
<1>6. OwnSession'
  BY <1>1, <1>2 DEF Inv, OwnSession, Submission
<1>7. ASSUME NEW j \in Jobs PROVE JobOf(j)'
  BY <1>1, <1>2, JobKept DEF Inv
<1> QED
  BY <1>1, <1>3, <1>4, <1>5, <1>6, <1>7, NoneRetried DEF Inv

-----------------------------------------------------------------------------
(* Theorems                                                                *)

LEMMA RunnerStepKeeps ==
  ASSUME Inv, NEW j \in Jobs, RunnerStep(j) PROVE Inv' /\ OnlyUnproven
<1>1. CASE \E cause \in {"context", "timeout", "connection", "refused"} :
             OpenFails(j, cause) \/ SendFails(j, cause) \/ PollFails(j, cause)
  <2>1. PICK cause \in {"context", "timeout", "connection", "refused"} :
          OpenFails(j, cause) \/ SendFails(j, cause) \/ PollFails(j, cause)
    BY <1>1
  <2>2. {Wrap("run", cause)} \in SUBSET (Results \ {"none", "success"})
    BY DEF Wrap, Results
  <2>3. CASE OpenFails(j, cause)
    BY <2>2, <2>3, FailStep DEF OpenFails
  <2>4. CASE PollFails(j, cause)
    BY <2>2, <2>4, FailStep DEF PollFails
  <2> QED
    BY <2>1, <2>3, <2>4, SendFailsStep
<1> QED
  BY <1>1, StartStep, TakeSeedStep, OpenStep, BuildStep, SendStep, ReceiveStep, PollStep,
     RetryStep DEF RunnerStep

LEMMA Step ==
  ASSUME Inv, [Next]_vars PROVE Inv' /\ OnlyUnproven
<1>1. CASE UNCHANGED vars
  <2>1. UNCHANGED <<provider, seed, seedUsed, jobVars, sessions, serviceVars>>
    BY <1>1 DEF vars, surveyVars, prepareVars
  <2> QED
    BY <2>1, Untouched
<1>2. CASE End
  <2>1. UNCHANGED <<provider, seed, seedUsed, jobVars, sessions, serviceVars>>
    BY <1>2 DEF End, surveyVars, prepareVars
  <2> QED
    BY <2>1, Untouched
<1> QED
  BY <1>1, <1>2, PrepareStep, RunnerStepKeeps, ServeStep, KeepStep DEF Next

LEMMA Invariant == Spec => []Inv
<1>1. Init => Inv
  BY InitInv
<1>2. Inv /\ [Next]_vars => Inv'
  BY Step
<1> QED
  BY <1>1, <1>2, PTL DEF Spec

\* For any number of jobs and attempts, a submission the runner calls a success
\* is one the platform has kept, as far as it showed the runner anything.
THEOREM SuccessIsRecorded == Spec => []SuccessRecorded
<1>1. Inv => SuccessRecorded
  BY DEF Inv, JobOf, SuccessOf, SuccessRecorded
<1> QED
  BY <1>1, Invariant, PTL

\* A kept answer is submitted once more only when the runner could not know of
\* it, and never after a timeout or the end of the run.
THEOREM KeptIsRetriedUnproven == Spec => RetriedOnlyUnproven
<1>1. Inv /\ [Next]_vars => [OnlyUnproven]_vars
  BY Step
<1>2. Spec => [][OnlyUnproven]_vars
  BY <1>1, Invariant, PTL DEF Spec
<1> QED
  BY <1>2 DEF RetriedOnlyUnproven, OnlyUnproven

-----------------------------------------------------------------------------
(* Types                                                                   *)

Stages == {"session", "questions", "page", "detail", "ready"} \cup Kinds

\* The bounds of the counters; nothing is attempted before the survey is ready.
Counted ==
  /\ preparing \in Stages
  /\ polls \in [Jobs -> 0..(Confirmations - 1)]
  /\ \A j \in Jobs :
       /\ attempt[j] <= MaxAttempts
       /\ pc[j] = "waiting" => attempt[j] < MaxAttempts
       /\ attempt[j] > 0 => preparing = "ready"

LEMMA InitCounted == ASSUME Init PROVE Counted
<1>1. preparing \in Stages
  BY DEF Init, Providers, Stages
<1>2. polls \in [Jobs -> 0..(Confirmations - 1)]
  BY DEF Init, Confirmations
<1>3. \A j \in Jobs : attempt[j] = 0
  BY DEF Init
<1> QED
  BY <1>1, <1>2, <1>3, MaxAttemptsAssumption DEF Counted

LEMMA PrepareCounted ==
  ASSUME Inv, Counted, Prepare PROVE Counted'
<1>1. UNCHANGED jobVars
  BY DEF Prepare, PrepareFails, PrepareSession, QuestionsMissing, QuestionsAnswered,
         PageGated, PageAnswered, DetailAnswered
<1>2. preparing # "ready"
  BY DEF Prepare, PrepareFails, PrepareSession, QuestionsMissing, QuestionsAnswered,
         PageGated, PageAnswered, DetailAnswered
<1>3. \A cause : Wrap("parse", cause) \in Stages
  BY DEF Wrap, Stages, Kinds
<1>4. preparing' \in Stages
  <2>1. ASSUME NEW step, NEW cause, PrepareFails(step, cause) PROVE preparing' \in Stages
    BY <1>3, <2>1 DEF PrepareFails
  <2>2. ASSUME NEW cause, QuestionsMissing(cause) PROVE preparing' \in Stages
    BY <1>3, <2>2 DEF QuestionsMissing, Counted
  <2>3. PrepareSession \/ QuestionsAnswered \/ PageGated \/ PageAnswered \/ DetailAnswered =>
          preparing' \in Stages
    BY DEF PrepareSession, QuestionsAnswered, PageGated, PageAnswered, DetailAnswered,
           Stages, Kinds, Counted
  <2> QED
    BY <2>1, <2>2, <2>3 DEF Prepare
<1>5. \A j \in Jobs : attempt[j] \in Nat
  BY DEF Inv, Typed
<1> QED
  BY <1>1, <1>2, <1>4, <1>5 DEF Counted, jobVars

\* A step of a job: a new attempt begins only where one is left, and the polls
\* start over before they run out.
LEMMA RunnerCounted ==
  ASSUME Inv, Counted, NEW j \in Jobs, RunnerStep(j) PROVE Counted'
<1>1. preparing' = preparing
  BY DEF RunnerStep, Start, takeSeedSession, Open, Build, Send, Receive, Poll, Retry,
         OpenFails, SendFails, PollFails, Fail, prepareVars
<1>2. polls' \in [Jobs -> 0..(Confirmations - 1)]
  <2>1. polls' = polls \/ \E n \in 0..(Confirmations - 1) : polls' = [polls EXCEPT ![j] = n]
    <3>1. CASE Poll(j)
      <4>1. polls[j] \in Nat /\ 0 \in 0..(Confirmations - 1)
        BY DEF Counted, Confirmations
      <4>2. CASE polls' = [polls EXCEPT ![j] = 0]
        BY <4>1, <4>2
      <4>3. CASE polls[j] + 1 < Confirmations /\ polls' = [polls EXCEPT ![j] = @ + 1]
        <5>1. polls[j] + 1 \in 0..(Confirmations - 1)
          BY <4>1, <4>3 DEF Confirmations
        <5> QED
          BY <4>3, <5>1
      <4> QED
        BY <3>1, <4>2, <4>3 DEF Poll
    <3>2. CASE Start(j)
      BY <3>2 DEF Start, Confirmations
    <3> QED
      BY <3>1, <3>2 DEF RunnerStep, takeSeedSession, Open, Build, Send, Receive, Retry,
                        OpenFails, SendFails, PollFails, Fail
  <2> QED
    BY <2>1 DEF Counted
<1>3. ASSUME NEW i \in Jobs
      PROVE  /\ attempt'[i] <= MaxAttempts
             /\ pc'[i] = "waiting" => attempt'[i] < MaxAttempts
             /\ attempt'[i] > 0 => preparing = "ready"
  <2>1. attempt[i] \in Nat /\ MaxAttempts \in Nat
    BY MaxAttemptsAssumption DEF Inv, Typed
  <2>2. CASE Start(j)
    <3>1. /\ preparing = "ready" /\ attempt[j] < MaxAttempts
          /\ attempt' = [attempt EXCEPT ![j] = @ + 1]
      BY <2>2 DEF Start, Counted
    <3>2. \E at \in {"settled", "building", "opening"} : pc' = [pc EXCEPT ![j] = at]
      BY <2>2 DEF Start, Finish, Goto
    <3> QED
      BY <2>1, <3>1, <3>2 DEF Counted, Inv, Typed
  <2>3. CASE Retry(j)
    <3>1. attempt[j] < MaxAttempts /\ attempt' = attempt /\ pc' = [pc EXCEPT ![j] = "waiting"]
      BY <2>3 DEF Retry, MayRetry, Goto
    <3> QED
      BY <2>1, <3>1 DEF Counted, Inv, Typed
  <2>4. CASE ~Start(j) /\ ~Retry(j)
    <3>1. attempt' = attempt
      BY <2>4 DEF RunnerStep, takeSeedSession, Open, Build, Send, Receive, Poll, OpenFails,
                  SendFails, PollFails, Fail
    <3>2. pc' = pc \/ \E at \in Places \ {"waiting"} : pc' = [pc EXCEPT ![j] = at]
      BY <2>4 DEF RunnerStep, takeSeedSession, Open, Build, Send, Receive, Poll, OpenFails,
                  SendFails, PollFails, Fail, Finish, Goto, Places
    <3> QED
      BY <2>1, <3>1, <3>2 DEF Counted, Inv, Typed
  <2> QED
    BY <2>2, <2>3, <2>4
<1> QED
  BY <1>1, <1>2, <1>3 DEF Counted

LEMMA CountedStep ==
  ASSUME Inv, Counted, [Next]_vars PROVE Counted'
<1>1. CASE Prepare
  BY <1>1, PrepareCounted
<1>2. CASE \E j \in Jobs : RunnerStep(j)
  BY <1>2, RunnerCounted
<1>3. CASE UNCHANGED vars \/ End \/ (\E r \in sent : Serve(r)) \/ (\E r \in accepted : Keep(r))
  <2>1. UNCHANGED <<preparing, polls, attempt, pc>>
    BY <1>3 DEF vars, End, Serve, Keep, prepareVars, jobVars
  <2> QED
    BY <2>1 DEF Counted
<1> QED
  BY <1>1, <1>2, <1>3 DEF Next

\* The jobs' places fit what they hold, for any number of jobs and attempts.
THEOREM TypeCorrect == Spec => []TypeOK
<1>1. Init => Counted
  BY InitCounted
<1>2. Inv /\ Counted /\ [Next]_vars => Counted'
  BY CountedStep
<1>3. Inv /\ Counted => TypeOK
  <2> SUFFICES ASSUME Inv, Counted PROVE TypeOK
    OBVIOUS
  <2>1. preparing \in {"session", "questions", "page", "detail", "ready"} \cup Kinds
    BY DEF Counted, Stages
  <2>2. ASSUME NEW j \in Jobs
        PROVE  /\ pc[j] \in {"waiting", "opening", "building", "submitting", "sending",
                             "confirming", "settled"}
               /\ outcome[j] \in {"none", "success"} \cup Kinds
               /\ outcome[j] # "none" <=> pc[j] = "settled"
               /\ attempt[j] \in 0..MaxAttempts
               /\ attempt[j] > 0 => preparing = "ready"
               /\ pc[j] = "confirming" => session[j] # NoSession /\ polls[j] < Confirmations
    <3>1. pc[j] \in Places /\ outcome[j] \in Results /\ attempt[j] \in Nat
      BY DEF Inv, Typed
    <3>2. /\ outcome[j] # "none" <=> pc[j] = "settled"
          /\ pc[j] = "confirming" => session[j] # NoSession
      BY DEF Inv, JobOf, EndedOf
    <3>3. attempt[j] <= MaxAttempts /\ (attempt[j] > 0 => preparing = "ready")
          /\ polls[j] \in 0..(Confirmations - 1)
      BY DEF Counted
    <3>4. polls[j] < Confirmations /\ attempt[j] \in 0..MaxAttempts
      BY <3>1, <3>3, MaxAttemptsAssumption DEF Confirmations
    <3>5. outcome[j] \in {"none", "success"} \cup Kinds
      BY <3>1 DEF Results, Kinds
    <3> QED
      BY <3>1, <3>2, <3>3, <3>4, <3>5 DEF Places
  <2> QED
    BY <2>1, <2>2 DEF TypeOK
<1> QED
  BY <1>1, <1>2, <1>3, Invariant, PTL DEF Spec

=============================================================================
