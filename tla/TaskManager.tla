---------------------------- MODULE TaskManager -----------------------------
(***************************************************************************)
(* The task service: service.Manager over its SQLite service.Store, driven *)
(* by the REST handlers and by cmd/surveycore's shutdown.                  *)
(*                                                                         *)
(* A task lives twice: in the manager's map, changed under the manager's   *)
(* lock, and as a row of v1_tasks, written outside that lock from          *)
(* snapshots.  Four kinds of goroutine write it: the Create handler, the   *)
(* task's run goroutine, the detached save a Stop starts, and Load at the  *)
(* next start of the process.  run[t] follows the Create handler up to the *)
(* registration of t and its run goroutine from there on.                  *)
(*                                                                         *)
(* A run of the engine is a single answer here (Engine.tla models it);     *)
(* configurations, ids and times are left out.                             *)
(***************************************************************************)
EXTENDS Naturals, FiniteSets

CONSTANTS
  Tasks,         \* task ids, each drawn once by taskID()
  LateHandlers,  \* handlers may outlive httpServer.Shutdown's ten seconds
  MaxEvents,     \* bound: engine events per task
  MaxFailures,   \* bound: store writes that fail
  MaxBoots       \* bound: starts of the process

ASSUME TaskManagerAssumption ==
  /\ IsFiniteSet(Tasks)
  /\ LateHandlers \in BOOLEAN
  /\ MaxEvents \in Nat /\ MaxFailures \in Nat /\ MaxBoots \in Nat

VARIABLES
  main,      \* the process: loading, serving, stopping, waiting, closed, down
  open,      \* store.db # nil
  toLoad,    \* Load: records still to go through
  loadErr,   \* Load: an error was collected
  toStop,    \* StopAll: ids still to stop
  tasks,     \* Manager.tasks
  runtimes,  \* DOMAIN of Manager.runtimes
  canceled,  \* tasks whose runCtx is over
  run,       \* where Create, then the run goroutine, of each task is
  answer,    \* what RunWithEvents answered
  snapshot,  \* the clone the run goroutine is about to save
  stopSaves, \* detached "go m.store.SaveTask(snap)" of Stop, not yet done
  rows,      \* v1_tasks
  logs,      \* v1_task_logs: number of rows of each task
  failures,  \* failed writes so far (bound)
  unsaved,   \* tasks whose last write of the row failed
  boots,     \* starts of the process (bound)
  panicked   \* a goroutine died on store.database()'s panic

process == <<main, open, toLoad, loadErr, toStop, boots, panicked>>
manager == <<tasks, runtimes, canceled>>
goros   == <<run, answer, snapshot, stopSaves>>
disk    == <<rows, logs, failures, unsaved>>
vars    == <<process, manager, goros, disk>>

Absent == [status |-> "absent", started |-> FALSE, finished |-> FALSE,
           result |-> "none", stopMessage |-> "none"]

TaskPending == [Absent EXCEPT !.status = "pending"]

Unfinished == {"pending", "running"}

Known(t) == tasks[t].status # "absent"

\* Store.SaveTask: the upsert succeeds, or fails and the caller goes on.
Save(t, record) ==
  /\ open
  /\ \/ /\ rows' = [rows EXCEPT ![t] = record]
        /\ unsaved' = unsaved \ {t} /\ UNCHANGED failures
     \/ /\ failures < MaxFailures
        /\ failures' = failures + 1 /\ unsaved' = unsaved \cup {t}
        /\ UNCHANGED rows

\* Nothing of the old process survives; the database file does.
Wiped ==
  /\ open' = FALSE /\ toLoad' = {} /\ loadErr' = FALSE /\ toStop' = {}
  /\ tasks' = [t \in Tasks |-> Absent]
  /\ runtimes' = {} /\ canceled' = {}
  /\ run' = [t \in Tasks |-> IF run[t] = "none" THEN "none" ELSE "gone"]
  /\ answer' = [t \in Tasks |-> "none"]
  /\ snapshot' = [t \in Tasks |-> Absent]
  /\ stopSaves' = [t \in Tasks |-> {}]
  /\ UNCHANGED disk

Init ==
  /\ main = "down" /\ open = FALSE /\ boots = 0 /\ panicked = FALSE
  /\ toLoad = {} /\ loadErr = FALSE /\ toStop = {}
  /\ tasks = [t \in Tasks |-> Absent]
  /\ runtimes = {} /\ canceled = {}
  /\ run = [t \in Tasks |-> "none"]
  /\ answer = [t \in Tasks |-> "none"]
  /\ snapshot = [t \in Tasks |-> Absent]
  /\ stopSaves = [t \in Tasks |-> {}]
  /\ rows = [t \in Tasks |-> Absent]
  /\ logs = [t \in Tasks |-> 0]
  /\ failures = 0 /\ unsaved = {}

-----------------------------------------------------------------------------
(* Start: restapi.New opens the store and loads the manager.               *)

Boot ==
  /\ main = "down" /\ boots < MaxBoots
  /\ main' = "loading" /\ open' = TRUE /\ boots' = boots + 1
  /\ toLoad' = {t \in Tasks : rows[t].status # "absent"}
  /\ UNCHANGED <<loadErr, toStop, panicked, manager, goros, disk>>

\* A slip: a task that was still waiting for its start is not interrupted.
LoadRunningOnly(t) ==
  /\ main = "loading" /\ t \in toLoad
  /\ toLoad' = toLoad \ {t}
  /\ IF rows[t].status = "running"
     THEN LET record == [rows[t] EXCEPT !.status = "interrupted", !.finished = TRUE]
          IN  /\ tasks' = [tasks EXCEPT ![t] = record]
              /\ Save(t, record)
              /\ loadErr' = (loadErr \/ failures' # failures)
     ELSE /\ tasks' = [tasks EXCEPT ![t] = rows[t]]
          /\ UNCHANGED <<loadErr, rows, failures, unsaved>>
  /\ UNCHANGED <<main, open, toStop, boots, panicked, runtimes, canceled, goros, logs>>

\* A slip: whatever did not end by itself is interrupted.
LoadStoppedToo(t) ==
  /\ main = "loading" /\ t \in toLoad
  /\ toLoad' = toLoad \ {t}
  /\ IF rows[t].status \notin {"succeeded", "failed"}
     THEN LET record == [rows[t] EXCEPT !.status = "interrupted", !.finished = TRUE]
          IN  /\ tasks' = [tasks EXCEPT ![t] = record]
              /\ Save(t, record)
              /\ loadErr' = (loadErr \/ failures' # failures)
     ELSE /\ tasks' = [tasks EXCEPT ![t] = rows[t]]
          /\ UNCHANGED <<loadErr, rows, failures, unsaved>>
  /\ UNCHANGED <<main, open, toStop, boots, panicked, runtimes, canceled, goros, logs>>

\* One round of Load's loop: an unfinished record becomes interrupted.
LoadTask(t) ==
  /\ main = "loading" /\ t \in toLoad
  /\ toLoad' = toLoad \ {t}
  /\ IF rows[t].status \in Unfinished
     THEN LET record == [rows[t] EXCEPT !.status = "interrupted", !.finished = TRUE]
          IN  /\ tasks' = [tasks EXCEPT ![t] = record]
              /\ Save(t, record)
              /\ loadErr' = (loadErr \/ failures' # failures)
     ELSE /\ tasks' = [tasks EXCEPT ![t] = rows[t]]
          /\ UNCHANGED <<loadErr, rows, failures, unsaved>>
  /\ UNCHANGED <<main, open, toStop, boots, panicked, runtimes, canceled, goros, logs>>

\* An error of Load makes restapi.New fail, and main panics.
Loaded ==
  /\ main = "loading" /\ toLoad = {}
  /\ IF loadErr
     THEN main' = "down" /\ Wiped
     ELSE main' = "serving" /\ UNCHANGED <<open, toLoad, loadErr, toStop, manager, goros, disk>>
  /\ UNCHANGED <<boots, panicked>>

-----------------------------------------------------------------------------
(* Manager.Create                                                          *)

Handling ==
  \/ main = "serving"
  \/ LateHandlers /\ main \in {"stopping", "waiting", "closed"}

\* A slip: the error of the first save is ignored like the later ones.
CreateRowUnchecked(t) ==
  /\ Handling /\ run[t] = "none"
  /\ Save(t, TaskPending)
  /\ run' = [run EXCEPT ![t] = "created"]
  /\ UNCHANGED <<process, manager, answer, snapshot, stopSaves, logs>>

\* SaveTask fails: Create returns the error and registers nothing.
CreateRow(t) ==
  /\ Handling /\ run[t] = "none"
  /\ Save(t, TaskPending)
  /\ run' = [run EXCEPT ![t] = IF failures' = failures THEN "created" ELSE "gone"]
  /\ UNCHANGED <<process, manager, answer, snapshot, stopSaves, logs>>

\* appendLog(id, "任务已创建"); its error is ignored.
CreateLog(t) ==
  /\ Handling /\ open /\ run[t] = "created"
  /\ run' = [run EXCEPT ![t] = "logged"]
  /\ \/ logs' = [logs EXCEPT ![t] = @ + 1] /\ UNCHANGED <<failures, unsaved>>
     \/ /\ failures < MaxFailures /\ failures' = failures + 1
        /\ UNCHANGED <<logs, unsaved>>
  /\ UNCHANGED <<process, manager, answer, snapshot, stopSaves, rows>>

Register(t) ==
  /\ Handling /\ run[t] = "logged"
  /\ tasks' = [tasks EXCEPT ![t] = TaskPending]
  /\ runtimes' = runtimes \cup {t}
  /\ run' = [run EXCEPT ![t] = "start"]
  /\ UNCHANGED <<process, canceled, answer, snapshot, stopSaves, disk>>

\* ServeHTTP returned: net/http cancels r.Context(), which the handler gave to
\* Create as the parent of runCtx.
EndRequest(t) ==
  /\ run[t] \notin {"none", "created", "logged", "gone"}
  /\ t \notin canceled
  /\ canceled' = canceled \cup {t}
  /\ UNCHANGED <<process, tasks, runtimes, goros, disk>>

-----------------------------------------------------------------------------
(* Manager.run                                                             *)

\* update(): the closure and its snapshot, under the lock.
RunStart(t) ==
  /\ run[t] = "start"
  /\ tasks' = [tasks EXCEPT ![t].status = "running", ![t].started = TRUE]
  /\ snapshot' = [snapshot EXCEPT ![t] = tasks'[t]]
  /\ run' = [run EXCEPT ![t] = "saveStart"]
  /\ UNCHANGED <<process, runtimes, canceled, answer, stopSaves, disk>>

\* SaveTask(snap) after the unlock, at the start and at the end of run.
RunSave(t) ==
  /\ \/ run[t] = "saveStart" /\ run' = [run EXCEPT ![t] = "engine"]
     \/ run[t] = "saveFinal" /\ run' = [run EXCEPT ![t] = "done"]
  /\ Save(t, snapshot[t])
  /\ UNCHANGED <<process, manager, answer, snapshot, stopSaves, logs>>

EngineEvent(t) ==
  /\ run[t] = "engine" /\ open /\ logs[t] <= MaxEvents
  /\ logs' = [logs EXCEPT ![t] = @ + 1]
  /\ UNCHANGED <<process, manager, goros, rows, failures, unsaved>>

\* A nil error needs a context that is still alive; an error is always
\* possible.
EngineReturns(t) ==
  /\ run[t] = "engine"
  /\ \E a \in {"ok", "error"} :
       /\ a = "ok" => t \notin canceled
       /\ answer' = [answer EXCEPT ![t] = a]
  /\ run' = [run EXCEPT ![t] = "finish"]
  /\ UNCHANGED <<process, manager, snapshot, stopSaves, disk>>

\* A slip: the context is not asked.
StatusOfRecord(t) ==
  IF tasks[t].status = "stopped" THEN "stopped"
  ELSE IF answer[t] = "error" THEN "failed" ELSE "succeeded"

FinalStatus(t) ==
  IF tasks[t].status = "stopped" \/ t \in canceled THEN "stopped"
  ELSE IF answer[t] = "error" THEN "failed" ELSE "succeeded"

StopMessage(t) ==
  IF FinalStatus(t) = "stopped" /\ tasks[t].stopMessage = "none"
  THEN "default" ELSE tasks[t].stopMessage

\* A slip: the record is cloned before the closure changes it.
RunFinishEarlyClone(t) ==
  /\ run[t] = "finish"
  /\ tasks' = [tasks EXCEPT ![t].result = answer[t], ![t].finished = TRUE,
                            ![t].status = FinalStatus(t),
                            ![t].stopMessage = StopMessage(t)]
  /\ runtimes' = runtimes \ {t}
  /\ snapshot' = [snapshot EXCEPT ![t] = tasks[t]]
  /\ run' = [run EXCEPT ![t] = "saveFinal"]
  /\ UNCHANGED <<process, canceled, answer, stopSaves, disk>>

RunFinish(t) ==
  /\ run[t] = "finish"
  /\ tasks' = [tasks EXCEPT ![t].result = answer[t], ![t].finished = TRUE,
                            ![t].status = FinalStatus(t),
                            ![t].stopMessage = StopMessage(t)]
  /\ runtimes' = runtimes \ {t}
  /\ snapshot' = [snapshot EXCEPT ![t] = tasks'[t]]
  /\ run' = [run EXCEPT ![t] = "saveFinal"]
  /\ UNCHANGED <<process, canceled, answer, stopSaves, disk>>

-----------------------------------------------------------------------------
(* Manager.Stop: the record and the context under the lock, the row in a   *)
(* goroutine nobody waits for.                                             *)

\* Slips: an ended task can be stopped; the context is not cancelled.
StopAnything(t) ==
  /\ Known(t)
  /\ tasks' = [tasks EXCEPT ![t].status = "stopped", ![t].stopMessage = "user"]
  /\ canceled' = canceled \cup {t}
  /\ stopSaves' = [stopSaves EXCEPT ![t] = @ \cup {tasks'[t]}]
  /\ UNCHANGED <<runtimes, run, answer, snapshot, disk>>

StopWithoutCancel(t) ==
  /\ Known(t)
  /\ IF t \notin runtimes \/ tasks[t].status \notin Unfinished
     THEN UNCHANGED <<tasks, stopSaves>>
     ELSE /\ tasks' = [tasks EXCEPT ![t].status = "stopped", ![t].stopMessage = "user"]
          /\ stopSaves' = [stopSaves EXCEPT ![t] = @ \cup {tasks'[t]}]
  /\ UNCHANGED <<canceled, runtimes, run, answer, snapshot, disk>>

Stop(t) ==
  /\ Known(t)
  /\ IF t \notin runtimes \/ tasks[t].status \notin Unfinished
     THEN UNCHANGED <<tasks, canceled, stopSaves>>
     ELSE /\ tasks' = [tasks EXCEPT ![t].status = "stopped", ![t].stopMessage = "user"]
          /\ canceled' = canceled \cup {t}
          /\ stopSaves' = [stopSaves EXCEPT ![t] = @ \cup {tasks'[t]}]
  /\ UNCHANGED <<runtimes, run, answer, snapshot, disk>>

HandleStop(t) == Handling /\ Stop(t) /\ UNCHANGED process

StopSave(t, record) ==
  /\ record \in stopSaves[t]
  /\ stopSaves' = [stopSaves EXCEPT ![t] = @ \ {record}]
  /\ Save(t, record)
  /\ UNCHANGED <<process, manager, run, answer, snapshot, logs>>

-----------------------------------------------------------------------------
(* Shutdown: a signal, httpServer.Shutdown, then server.Close.             *)

\* A slip: only the running tasks are stopped.
StopRunning ==
  /\ main = "serving"
  /\ LateHandlers \/ \A t \in Tasks : run[t] \notin {"created", "logged"}
  /\ main' = "stopping"
  /\ toStop' = {t \in runtimes : tasks[t].status = "running"}
  /\ UNCHANGED <<open, toLoad, loadErr, boots, panicked, manager, goros, disk>>

\* StopAll copies the ids under the read lock.  Shutdown waited for the
\* handlers, unless they took longer than its ten seconds.
StopAll ==
  /\ main = "serving"
  /\ LateHandlers \/ \A t \in Tasks : run[t] \notin {"created", "logged"}
  /\ main' = "stopping" /\ toStop' = runtimes
  /\ UNCHANGED <<open, toLoad, loadErr, boots, panicked, manager, goros, disk>>

StopAllOne(t) ==
  /\ main = "stopping" /\ t \in toStop
  /\ toStop' = toStop \ {t}
  /\ Stop(t)
  /\ UNCHANGED <<main, open, toLoad, loadErr, boots, panicked>>

StopAllDone ==
  /\ main = "stopping" /\ toStop = {}
  /\ main' = "waiting"
  /\ UNCHANGED <<open, toLoad, loadErr, toStop, boots, panicked, manager, goros, disk>>

\* Goroutines counted in the manager's WaitGroup.
Active == {t \in Tasks : run[t] \in {"start", "saveStart", "engine", "finish", "saveFinal"}}

\* wg.Wait() returned: Close the store.
Close ==
  /\ main = "waiting" /\ Active = {}
  /\ main' = "closed" /\ open' = FALSE
  /\ UNCHANGED <<toLoad, loadErr, toStop, boots, panicked, manager, goros, disk>>

Exit ==
  /\ main = "closed"
  /\ main' = "down" /\ Wiped
  /\ UNCHANGED <<boots, panicked>>

\* A store call after Close panics in store.database(); net/http recovers the
\* panic of a handler, that of any other goroutine ends the process.
Panic ==
  /\ main = "closed" /\ ~open
  /\ \E t \in Tasks : run[t] \in {"saveStart", "engine", "saveFinal"} \/ stopSaves[t] # {}
  /\ main' = "down" /\ Wiped
  /\ panicked' = TRUE
  /\ UNCHANGED boots

HandlerPanic(t) ==
  /\ Handling /\ ~open /\ run[t] \in {"none", "created"}
  /\ run' = [run EXCEPT ![t] = "gone"]
  /\ UNCHANGED <<process, manager, answer, snapshot, stopSaves, disk>>

\* The process is killed at any moment.
Crash ==
  /\ main # "down"
  /\ main' = "down" /\ Wiped
  /\ UNCHANGED <<boots, panicked>>

-----------------------------------------------------------------------------

RunStep(t) == RunStart(t) \/ RunSave(t) \/ EngineReturns(t) \/ RunFinish(t)

\* What the run goroutine is certain to do: a submission may take any time,
\* but a cancelled engine comes back (Engine!Terminates).
RunMustStep(t) ==
  RunStart(t) \/ RunSave(t) \/ (t \in canceled /\ EngineReturns(t)) \/ RunFinish(t)

MainStep ==
  \/ (\E t \in Tasks : LoadTask(t)) \/ Loaded
  \/ (\E t \in Tasks : StopAllOne(t)) \/ StopAllDone \/ Close \/ Exit

Next ==
  \/ MainStep
  \/ Boot \/ StopAll \/ Panic \/ Crash
  \/ \E t \in Tasks :
       \/ CreateRow(t) \/ CreateLog(t) \/ Register(t) \/ EndRequest(t)
       \/ RunStep(t) \/ EngineEvent(t)
       \/ HandleStop(t) \/ HandlerPanic(t)
       \/ \E record \in stopSaves[t] : StopSave(t, record)

\* Goroutines are scheduled.
Fairness ==
  /\ WF_vars(MainStep)
  /\ \A t \in Tasks : WF_vars(RunMustStep(t)) /\ WF_vars(CreateLog(t) \/ Register(t))

Spec == Init /\ [][Next]_vars /\ Fairness

-----------------------------------------------------------------------------
(* Properties                                                              *)

Statuses == {"absent", "pending", "running", "succeeded", "failed", "stopped",
             "interrupted"}

Records == [status : Statuses, started : BOOLEAN, finished : BOOLEAN,
            result : {"none", "ok", "error"},
            stopMessage : {"none", "user", "default"}]

\* Every variable of the service stays in its type.
TypeOK ==
  /\ main \in {"loading", "serving", "stopping", "waiting", "closed", "down"}
  /\ open \in BOOLEAN /\ loadErr \in BOOLEAN /\ panicked \in BOOLEAN
  /\ toLoad \subseteq Tasks /\ toStop \subseteq Tasks
  /\ tasks \in [Tasks -> Records]
  /\ runtimes \subseteq Tasks /\ canceled \subseteq Tasks
  /\ run \in [Tasks -> {"none", "created", "logged", "start", "saveStart",
                        "engine", "finish", "saveFinal", "done", "gone"}]
  /\ answer \in [Tasks -> {"none", "ok", "error"}]
  /\ snapshot \in [Tasks -> Records]
  /\ stopSaves \in [Tasks -> SUBSET Records]
  /\ rows \in [Tasks -> Records]
  /\ logs \in [Tasks -> Nat]
  /\ failures \in 0..MaxFailures /\ unsaved \subseteq Tasks
  /\ boots \in 0..MaxBoots

\* A task shown as pending or running has a goroutine that runs it, also
\* after crashes and restarts: Load leaves no task active that nobody runs.
ActiveTaskHasRuntime ==
  main \notin {"down", "loading"} =>
    \A t \in Tasks : tasks[t].status \in Unfinished =>
      t \in runtimes /\ run[t] \in {"start", "saveStart", "engine", "finish"}

\* An accepted Stop decides the outcome: whatever the start of the run writes
\* over it and whatever the engine answers, the task ends as stopped, or as
\* interrupted if the process died first.
AcceptedStopWins ==
  \A t \in Tasks :
    tasks[t].finished /\ tasks[t].stopMessage = "user" =>
      tasks[t].status \in {"stopped", "interrupted"}

\* A task ends as stopped only if a user or the shutdown asked for it, and not
\* because the request that created it was answered.
StoppedOnRequest ==
  \A t \in Tasks : tasks[t].status = "stopped" => tasks[t].stopMessage = "user"

\* A task a client can see has a row, so a crash never forgets a task whose
\* creation was acknowledged.
VisibleTaskIsStored ==
  \A t \in Tasks : Known(t) => rows[t].status # "absent"

\* Once the run of a task is over and its last write succeeded, its row has the
\* status of the task in memory, even with detached saves of Stop still to
\* come: a late save can never bring back another status, and a row that an
\* ignored error of a save left behind is right again after the next save.
DurableStatus ==
  \A t \in Tasks : run[t] = "done" /\ t \notin unsaved =>
    /\ rows[t].status = tasks[t].status
    /\ \A record \in stopSaves[t] : record.status = tasks[t].status

\* The final record of a task is never changed again while the process lives.
FinishedIsFinal ==
  [][\A t \in Tasks : tasks[t].finished /\ main' # "down" => tasks'[t] = tasks[t]]_vars

\* A start of the service changes unfinished rows only, and only to
\* interrupted: no ended task is rewritten by a restart.
RestartKeepsEndedRows ==
  [][main = "loading" => \A t \in Tasks : rows'[t] # rows[t] =>
       rows[t].status \in Unfinished /\ rows'[t].status = "interrupted"]_vars

\* An accepted Stop ends the run, unless the process dies first.
AcceptedStopEnds ==
  \A t \in Tasks :
    (t \in runtimes /\ tasks[t].stopMessage = "user") ~> (t \notin runtimes)

\* A shutdown comes to its end: StopAll reaches every run and Wait returns.
ShutdownEnds == main = "stopping" ~> main = "down"

-----------------------------------------------------------------------------
(* What the documentation says and the code does not do.                   *)

\* store.database() asserts that the store is open in every read and write.
NoUseAfterClose == ~panicked

=============================================================================
