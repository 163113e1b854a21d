------------------------- MODULE TaskManager_proofs -------------------------
(***************************************************************************)
(* The safety of the task service, for every set of tasks, with and        *)
(* without late handlers, and for any number of failing writes and         *)
(* restarts.                                                               *)
(***************************************************************************)
EXTENDS TaskManager, TLAPS

\* Where the run goroutine has not reached its final update.
Live == {"start", "saveStart", "engine", "finish"}

LEMMA RecordFacts ==
  /\ Absent \in Records /\ TaskPending \in Records
  /\ Absent.status = "absent" /\ ~Absent.finished /\ Absent.stopMessage = "none"
  /\ TaskPending.status = "pending" /\ ~TaskPending.finished
  /\ TaskPending.stopMessage = "none"
BY DEF Absent, TaskPending, Records, Statuses

\* A record stays a record when fields are given new values of their types.
LEMMA RecordUpdates ==
  ASSUME NEW r \in Records
  PROVE  /\ \A s \in Statuses : [r EXCEPT !.status = s] \in Records
         /\ \A b \in BOOLEAN : [r EXCEPT !.started = b] \in Records
         /\ \A b \in BOOLEAN : [r EXCEPT !.finished = b] \in Records
         /\ \A a \in {"none", "ok", "error"} : [r EXCEPT !.result = a] \in Records
         /\ \A m \in {"none", "user", "default"} : [r EXCEPT !.stopMessage = m] \in Records
BY DEF Records

\* The updates of Load, of the two updates of run, and of Stop.
LEMMA TaskUpdates ==
  ASSUME NEW r \in Records
  PROVE  /\ [r EXCEPT !.status = "interrupted", !.finished = TRUE] \in Records
         /\ [r EXCEPT !.status = "running", !.started = TRUE] \in Records
         /\ [r EXCEPT !.status = "stopped", !.stopMessage = "user"] \in Records
         /\ \A s \in Statuses, a \in {"none", "ok", "error"}, m \in {"none", "user", "default"} :
              [r EXCEPT !.result = a, !.finished = TRUE, !.status = s, !.stopMessage = m]
                \in Records
<1>1. {"interrupted", "running", "stopped"} \subseteq Statuses
  BY DEF Statuses
<1>2. /\ [[r EXCEPT !.status = "interrupted"] EXCEPT !.finished = TRUE] \in Records
      /\ [[r EXCEPT !.status = "running"] EXCEPT !.started = TRUE] \in Records
      /\ [[r EXCEPT !.status = "stopped"] EXCEPT !.stopMessage = "user"] \in Records
  BY <1>1, RecordUpdates
<1>3. ASSUME NEW s \in Statuses, NEW a \in {"none", "ok", "error"},
             NEW m \in {"none", "user", "default"}
      PROVE  [r EXCEPT !.result = a, !.finished = TRUE, !.status = s, !.stopMessage = m]
               \in Records
  <2>1. [r EXCEPT !.result = a] \in Records
    BY RecordUpdates
  <2>2. [r EXCEPT !.result = a, !.finished = TRUE] \in Records
    BY <2>1, RecordUpdates
  <2>3. [r EXCEPT !.result = a, !.finished = TRUE, !.status = s] \in Records
    BY <2>2, RecordUpdates
  <2> QED
    BY <2>3, RecordUpdates
<1> QED
  BY <1>2, <1>3

-----------------------------------------------------------------------------
(* Types                                                                   *)

LEMMA SaveTypes ==
  ASSUME TypeOK, NEW t \in Tasks, NEW record \in Records, Save(t, record)
  PROVE  /\ rows' \in [Tasks -> Records]
         /\ failures' \in 0..MaxFailures
         /\ unsaved' \subseteq Tasks
<1>1. CASE failures' = failures + 1 /\ unsaved' = unsaved \cup {t} /\ rows' = rows
            /\ failures < MaxFailures
  <2>1. failures' \in 0..MaxFailures
    BY <1>1, TaskManagerAssumption DEF TypeOK
  <2> QED
    BY <1>1, <2>1 DEF TypeOK
<1>2. CASE /\ rows' = [rows EXCEPT ![t] = record]
            /\ unsaved' = unsaved \ {t} /\ UNCHANGED failures
  BY <1>2 DEF TypeOK
<1> QED
  BY <1>1, <1>2 DEF Save

LEMMA WipedTypes ==
  ASSUME TypeOK, Wiped, main' = "down", boots' = boots, panicked' \in BOOLEAN
  PROVE  TypeOK'
<1>1. /\ tasks' \in [Tasks -> Records] /\ snapshot' \in [Tasks -> Records]
      /\ stopSaves' \in [Tasks -> SUBSET Records]
  BY RecordFacts DEF Wiped
<1>2. /\ answer' \in [Tasks -> {"none", "ok", "error"}]
      /\ run' \in [Tasks -> {"none", "created", "logged", "start", "saveStart",
                             "engine", "finish", "saveFinal", "done", "gone"}]
  BY DEF Wiped
<1>3. UNCHANGED <<rows, logs, failures, unsaved>>
  BY DEF Wiped, disk
<1> QED
  BY <1>1, <1>2, <1>3 DEF TypeOK, Wiped

LEMMA StopTypes ==
  ASSUME TypeOK, NEW t \in Tasks, Stop(t)
  PROVE  /\ tasks' \in [Tasks -> Records] /\ canceled' \subseteq Tasks
         /\ stopSaves' \in [Tasks -> SUBSET Records]
         /\ UNCHANGED <<runtimes, run, answer, snapshot, disk>>
<1>1. CASE UNCHANGED <<tasks, canceled, stopSaves>>
  BY <1>1 DEF TypeOK, Stop
<1>2. CASE /\ tasks' = [tasks EXCEPT ![t].status = "stopped", ![t].stopMessage = "user"]
           /\ canceled' = canceled \cup {t}
           /\ stopSaves' = [stopSaves EXCEPT ![t] = @ \cup {tasks'[t]}]
  <2>1. tasks[t] \in Records
    BY DEF TypeOK
  <2>2. tasks' = [tasks EXCEPT ![t] = [tasks[t] EXCEPT !.status = "stopped",
                                                       !.stopMessage = "user"]]
    BY <1>2 DEF TypeOK
  <2>3. tasks' \in [Tasks -> Records] /\ tasks'[t] \in Records
    BY <2>1, <2>2, TaskUpdates DEF TypeOK
  <2> QED
    BY <1>2, <2>3 DEF TypeOK, Stop
<1> QED
  BY <1>1, <1>2 DEF Stop

LEMMA InitTypeOK == Init => TypeOK
<1> SUFFICES ASSUME Init PROVE TypeOK
  OBVIOUS
<1>1. /\ tasks \in [Tasks -> Records] /\ snapshot \in [Tasks -> Records]
      /\ rows \in [Tasks -> Records] /\ stopSaves \in [Tasks -> SUBSET Records]
  BY RecordFacts DEF Init
<1>2. failures \in 0..MaxFailures /\ boots \in 0..MaxBoots /\ logs \in [Tasks -> Nat]
  BY TaskManagerAssumption DEF Init
<1> QED
  BY <1>1, <1>2 DEF Init, TypeOK

LEMMA StepTypeOK == TypeOK /\ [Next]_vars => TypeOK'
<1> SUFFICES ASSUME TypeOK, [Next]_vars PROVE TypeOK'
  OBVIOUS
<1> USE DEF process, manager, goros, disk
<1>1. ASSUME NEW t \in Tasks, LoadTask(t) PROVE TypeOK'
  <2> DEFINE record == [rows[t] EXCEPT !.status = "interrupted", !.finished = TRUE]
  <2>1. record \in Records /\ rows[t] \in Records
    <3>1. rows[t] \in Records
      BY DEF TypeOK
    <3> QED
      BY <3>1, TaskUpdates
  <2> HIDE DEF record
  <2>2. CASE rows[t].status \in Unfinished
    <3>1. tasks' = [tasks EXCEPT ![t] = record] /\ Save(t, record)
          /\ loadErr' = (loadErr \/ failures' # failures)
      BY <1>1, <2>2 DEF LoadTask, record
    <3>2. loadErr' \in BOOLEAN
      BY <3>1 DEF TypeOK
    <3> QED
      BY <1>1, <2>1, <3>1, <3>2, SaveTypes DEF LoadTask, TypeOK
  <2>3. CASE rows[t].status \notin Unfinished
    BY <1>1, <2>1, <2>3 DEF LoadTask, TypeOK
  <2> QED
    BY <2>2, <2>3
<1>2. CASE Loaded
  BY <1>2, WipedTypes DEF Loaded, TypeOK
<1>3. CASE Boot
  <2>1. boots + 1 \in 0..MaxBoots
    BY <1>3, TaskManagerAssumption DEF Boot, TypeOK
  <2> QED
    BY <1>3, <2>1 DEF Boot, TypeOK
<1>4. ASSUME NEW t \in Tasks, CreateRow(t) PROVE TypeOK'
  BY <1>4, SaveTypes, RecordFacts DEF CreateRow, TypeOK
<1>5. ASSUME NEW t \in Tasks, CreateLog(t) PROVE TypeOK'
  <2>1. CASE logs' = [logs EXCEPT ![t] = @ + 1] /\ UNCHANGED <<failures, unsaved>>
    BY <1>5, <2>1 DEF CreateLog, TypeOK
  <2>2. CASE failures < MaxFailures /\ failures' = failures + 1 /\ UNCHANGED <<logs, unsaved>>
    <3>1. failures' \in 0..MaxFailures
      BY <2>2, TaskManagerAssumption DEF TypeOK
    <3> QED
      BY <1>5, <2>2, <3>1 DEF CreateLog, TypeOK
  <2> QED
    BY <1>5, <2>1, <2>2 DEF CreateLog
<1>6. ASSUME NEW t \in Tasks, Register(t) \/ EndRequest(t) PROVE TypeOK'
  BY <1>6, RecordFacts DEF Register, EndRequest, TypeOK
<1>7. ASSUME NEW t \in Tasks, RunStart(t) PROVE TypeOK'
  <2>1. tasks[t] \in Records
    BY DEF TypeOK
  <2>2. tasks' = [tasks EXCEPT ![t] = [tasks[t] EXCEPT !.status = "running", !.started = TRUE]]
    BY <1>7 DEF RunStart, TypeOK
  <2>3. tasks' \in [Tasks -> Records] /\ tasks'[t] \in Records
    BY <2>1, <2>2, TaskUpdates DEF TypeOK
  <2> QED
    BY <1>7, <2>3 DEF RunStart, TypeOK
<1>8. ASSUME NEW t \in Tasks, RunSave(t) PROVE TypeOK'
  <2>1. snapshot[t] \in Records
    BY DEF TypeOK
  <2> QED
    BY <1>8, <2>1, SaveTypes DEF RunSave, TypeOK
<1>9. ASSUME NEW t \in Tasks, EngineEvent(t) \/ EngineReturns(t) PROVE TypeOK'
  BY <1>9 DEF EngineEvent, EngineReturns, TypeOK
<1>10. ASSUME NEW t \in Tasks, RunFinish(t) PROVE TypeOK'
  <2>1. FinalStatus(t) \in Statuses /\ StopMessage(t) \in {"none", "user", "default"}
        /\ answer[t] \in {"none", "ok", "error"}
    BY DEF FinalStatus, StopMessage, Statuses, TypeOK, Records
  <2>2. tasks[t] \in Records
    BY DEF TypeOK
  <2>3. tasks' = [tasks EXCEPT ![t] = [tasks[t] EXCEPT !.result = answer[t], !.finished = TRUE,
                    !.status = FinalStatus(t), !.stopMessage = StopMessage(t)]]
    BY <1>10 DEF RunFinish, TypeOK
  <2>4. tasks' \in [Tasks -> Records] /\ tasks'[t] \in Records
    BY <2>1, <2>2, <2>3, TaskUpdates DEF TypeOK
  <2> QED
    BY <1>10, <2>4 DEF RunFinish, TypeOK
<1>11. ASSUME NEW t \in Tasks, HandleStop(t) \/ StopAllOne(t) PROVE TypeOK'
  BY <1>11, StopTypes DEF HandleStop, StopAllOne, TypeOK
<1>12. ASSUME NEW t \in Tasks, NEW record \in stopSaves[t], StopSave(t, record) PROVE TypeOK'
  <2>1. record \in Records /\ stopSaves' \in [Tasks -> SUBSET Records]
    BY <1>12 DEF StopSave, TypeOK
  <2> QED
    BY <1>12, <2>1, SaveTypes DEF StopSave, TypeOK
<1>13. CASE StopAll \/ StopAllDone \/ Close
  BY <1>13 DEF StopAll, StopAllDone, Close, TypeOK
<1>14. CASE Exit \/ Panic \/ Crash
  BY <1>14, WipedTypes DEF Exit, Panic, Crash, TypeOK
<1>15. ASSUME NEW t \in Tasks, HandlerPanic(t) PROVE TypeOK'
  BY <1>15 DEF HandlerPanic, TypeOK
<1>16. CASE UNCHANGED vars
  BY <1>16 DEF vars, TypeOK
<1> QED
  BY <1>1, <1>2, <1>3, <1>4, <1>5, <1>6, <1>7, <1>8, <1>9, <1>10, <1>11, <1>12, <1>13,
     <1>14, <1>15, <1>16 DEF Next, MainStep, RunStep

\* The service keeps its types: what is saved and loaded is always a record.
THEOREM TaskTypeCorrect == Spec => []TypeOK
BY InitTypeOK, StepTypeOK, PTL DEF Spec

-----------------------------------------------------------------------------
(* What a step does to one task.  Every invariant below speaks of one task *)
(* and the process, so a step of one task leaves the others' invariant.    *)

Same(u) ==
  /\ tasks'[u] = tasks[u] /\ run'[u] = run[u] /\ rows'[u] = rows[u]
  /\ snapshot'[u] = snapshot[u] /\ stopSaves'[u] = stopSaves[u]
  /\ (u \in runtimes' <=> u \in runtimes) /\ (u \in canceled' <=> u \in canceled)
  /\ (u \in unsaved' <=> u \in unsaved) /\ (u \in toLoad' <=> u \in toLoad)

SameExcept(t) == main' = main /\ \A u \in Tasks \ {t} : Same(u)

\* Save(t, record), seen from the row of t.
Written(t, record) ==
  \/ rows'[t] = record /\ t \notin unsaved' /\ failures' = failures
  \/ rows'[t] = rows[t] /\ t \in unsaved' /\ failures' # failures

LEMMA SaveEffect ==
  ASSUME TypeOK, NEW t \in Tasks, NEW record, Save(t, record)
  PROVE  /\ Written(t, record)
         /\ \A u \in Tasks \ {t} : rows'[u] = rows[u] /\ (u \in unsaved' <=> u \in unsaved)
<1>1. CASE failures' = failures + 1 /\ unsaved' = unsaved \cup {t} /\ rows' = rows
  <2>1. failures' # failures
    BY <1>1 DEF TypeOK
  <2> QED
    BY <1>1, <2>1 DEF Written
<1>2. CASE /\ rows' = [rows EXCEPT ![t] = record]
            /\ unsaved' = unsaved \ {t} /\ UNCHANGED failures
  BY <1>2 DEF TypeOK, Written
<1> QED
  BY <1>1, <1>2 DEF Save

LEMMA LoadTaskEffect ==
  ASSUME TypeOK, NEW t \in Tasks, LoadTask(t)
  PROVE  /\ SameExcept(t) /\ main = "loading" /\ t \in toLoad /\ t \notin toLoad'
         /\ run'[t] = run[t] /\ (t \in runtimes' <=> t \in runtimes)
         /\ (t \in canceled' <=> t \in canceled)
         /\ snapshot'[t] = snapshot[t] /\ stopSaves'[t] = stopSaves[t]
         /\ \/ /\ rows[t].status \in Unfinished
               /\ tasks'[t].status = "interrupted" /\ tasks'[t].finished
               /\ Written(t, tasks'[t])
            \/ /\ rows[t].status \notin Unfinished /\ tasks'[t] = rows[t]
               /\ rows'[t] = rows[t] /\ (t \in unsaved' <=> t \in unsaved)
<1> DEFINE record == [rows[t] EXCEPT !.status = "interrupted", !.finished = TRUE]
<1>1. record.status = "interrupted" /\ record.finished
  BY DEF TypeOK, Records
<1> HIDE DEF record
<1>2. CASE rows[t].status \in Unfinished
  <2>1. tasks' = [tasks EXCEPT ![t] = record] /\ Save(t, record)
    BY <1>2 DEF LoadTask, record
  <2>2. tasks'[t] = record /\ \A u \in Tasks \ {t} : tasks'[u] = tasks[u]
    BY <2>1 DEF TypeOK
  <2> QED
    BY <1>1, <1>2, <2>1, <2>2, SaveEffect DEF LoadTask, goros, SameExcept, Same
<1>3. CASE rows[t].status \notin Unfinished
  BY <1>3 DEF LoadTask, goros, TypeOK, SameExcept, Same
<1> QED
  BY <1>2, <1>3

LEMMA CreateRowEffect ==
  ASSUME TypeOK, NEW t \in Tasks, CreateRow(t)
  PROVE  /\ SameExcept(t) /\ main \notin {"down", "loading"}
         /\ run[t] = "none" /\ tasks'[t] = tasks[t]
         /\ Written(t, TaskPending)
         /\ run'[t] = IF failures' = failures THEN "created" ELSE "gone"
         /\ (t \in runtimes' <=> t \in runtimes) /\ (t \in canceled' <=> t \in canceled)
         /\ snapshot'[t] = snapshot[t] /\ stopSaves'[t] = stopSaves[t]
BY SaveEffect DEF CreateRow, Handling, process, manager, TypeOK, SameExcept, Same

LEMMA CreateLogEffect ==
  ASSUME TypeOK, NEW t \in Tasks, CreateLog(t)
  PROVE  /\ SameExcept(t) /\ main \notin {"down", "loading"}
         /\ run[t] = "created" /\ run'[t] = "logged"
         /\ tasks'[t] = tasks[t] /\ rows'[t] = rows[t]
         /\ snapshot'[t] = snapshot[t] /\ stopSaves'[t] = stopSaves[t]
         /\ (t \in runtimes' <=> t \in runtimes) /\ (t \in canceled' <=> t \in canceled)
         /\ (t \in unsaved' <=> t \in unsaved)
BY DEF CreateLog, Handling, process, manager, TypeOK, SameExcept, Same

LEMMA RegisterEffect ==
  ASSUME TypeOK, NEW t \in Tasks, Register(t)
  PROVE  /\ SameExcept(t) /\ main \notin {"down", "loading"}
         /\ run[t] = "logged" /\ run'[t] = "start"
         /\ tasks'[t] = TaskPending /\ rows'[t] = rows[t]
         /\ snapshot'[t] = snapshot[t] /\ stopSaves'[t] = stopSaves[t]
         /\ t \in runtimes' /\ (t \in canceled' <=> t \in canceled)
         /\ (t \in unsaved' <=> t \in unsaved)
BY DEF Register, Handling, process, disk, TypeOK, SameExcept, Same

LEMMA EndRequestEffect ==
  ASSUME TypeOK, NEW t \in Tasks, EndRequest(t)
  PROVE  /\ SameExcept(t) /\ run[t] \notin {"none", "created", "logged", "gone"}
         /\ run'[t] = run[t] /\ tasks'[t] = tasks[t] /\ rows'[t] = rows[t]
         /\ snapshot'[t] = snapshot[t] /\ stopSaves'[t] = stopSaves[t]
         /\ (t \in runtimes' <=> t \in runtimes) /\ t \in canceled'
         /\ (t \in unsaved' <=> t \in unsaved)
BY DEF EndRequest, process, goros, disk, TypeOK, SameExcept, Same

LEMMA RunStartEffect ==
  ASSUME TypeOK, NEW t \in Tasks, RunStart(t)
  PROVE  /\ SameExcept(t) /\ run[t] = "start" /\ run'[t] = "saveStart"
         /\ tasks'[t].status = "running" /\ tasks'[t].finished = tasks[t].finished
         /\ tasks'[t].stopMessage = tasks[t].stopMessage
         /\ snapshot'[t] = tasks'[t] /\ rows'[t] = rows[t] /\ stopSaves'[t] = stopSaves[t]
         /\ (t \in runtimes' <=> t \in runtimes) /\ (t \in canceled' <=> t \in canceled)
         /\ (t \in unsaved' <=> t \in unsaved)
<1> DEFINE r == [tasks[t] EXCEPT !.status = "running", !.started = TRUE]
<1>1. tasks' = [tasks EXCEPT ![t] = r]
  BY DEF RunStart, TypeOK
<1>2. /\ r.status = "running" /\ r.finished = tasks[t].finished
      /\ r.stopMessage = tasks[t].stopMessage
  BY DEF TypeOK, Records
<1> HIDE DEF r
<1> QED
  BY <1>1, <1>2 DEF RunStart, process, disk, TypeOK, SameExcept, Same

LEMMA RunSaveEffect ==
  ASSUME TypeOK, NEW t \in Tasks, RunSave(t)
  PROVE  /\ SameExcept(t)
         /\ \/ run[t] = "saveStart" /\ run'[t] = "engine"
            \/ run[t] = "saveFinal" /\ run'[t] = "done"
         /\ Written(t, snapshot[t]) /\ tasks'[t] = tasks[t]
         /\ snapshot'[t] = snapshot[t] /\ stopSaves'[t] = stopSaves[t]
         /\ (t \in runtimes' <=> t \in runtimes) /\ (t \in canceled' <=> t \in canceled)
BY SaveEffect DEF RunSave, process, manager, TypeOK, SameExcept, Same

LEMMA EngineEffect ==
  ASSUME TypeOK, NEW t \in Tasks, EngineEvent(t) \/ EngineReturns(t)
  PROVE  /\ SameExcept(t) /\ run[t] = "engine" /\ run'[t] \in {"engine", "finish"}
         /\ tasks'[t] = tasks[t] /\ rows'[t] = rows[t]
         /\ snapshot'[t] = snapshot[t] /\ stopSaves'[t] = stopSaves[t]
         /\ (t \in runtimes' <=> t \in runtimes) /\ (t \in canceled' <=> t \in canceled)
         /\ (t \in unsaved' <=> t \in unsaved)
BY DEF EngineEvent, EngineReturns, process, manager, goros, disk, TypeOK, SameExcept, Same

LEMMA RunFinishEffect ==
  ASSUME TypeOK, NEW t \in Tasks, RunFinish(t)
  PROVE  /\ SameExcept(t) /\ run[t] = "finish" /\ run'[t] = "saveFinal"
         /\ tasks'[t].status = FinalStatus(t) /\ tasks'[t].finished
         /\ tasks'[t].stopMessage = StopMessage(t)
         /\ snapshot'[t] = tasks'[t] /\ rows'[t] = rows[t] /\ stopSaves'[t] = stopSaves[t]
         /\ t \notin runtimes' /\ (t \in canceled' <=> t \in canceled)
         /\ (t \in unsaved' <=> t \in unsaved)
<1> DEFINE r == [tasks[t] EXCEPT !.result = answer[t], !.finished = TRUE,
                                 !.status = FinalStatus(t), !.stopMessage = StopMessage(t)]
<1>1. tasks' = [tasks EXCEPT ![t] = r]
  BY DEF RunFinish, TypeOK
<1>2. r.status = FinalStatus(t) /\ r.finished /\ r.stopMessage = StopMessage(t)
  BY DEF TypeOK, Records
<1> HIDE DEF r
<1> QED
  BY <1>1, <1>2 DEF RunFinish, process, disk, TypeOK, SameExcept, Same

LEMMA StopEffect ==
  ASSUME TypeOK, NEW t \in Tasks, HandleStop(t) \/ StopAllOne(t)
  PROVE  /\ SameExcept(t) /\ run'[t] = run[t] /\ rows'[t] = rows[t]
         /\ snapshot'[t] = snapshot[t] /\ (t \in runtimes' <=> t \in runtimes)
         /\ (t \in unsaved' <=> t \in unsaved) /\ main \notin {"down", "loading"}
         /\ \/ /\ tasks'[t] = tasks[t] /\ stopSaves'[t] = stopSaves[t]
               /\ (t \in canceled' <=> t \in canceled)
            \/ /\ t \in runtimes /\ t \in canceled'
               /\ tasks'[t].status = "stopped" /\ tasks'[t].stopMessage = "user"
               /\ tasks'[t].finished = tasks[t].finished
               /\ stopSaves'[t] = stopSaves[t] \cup {tasks'[t]}
<1> DEFINE r == [tasks[t] EXCEPT !.status = "stopped", !.stopMessage = "user"]
<1>1. Stop(t) /\ main' = main /\ main \notin {"down", "loading"} /\ UNCHANGED toLoad
  BY DEF HandleStop, StopAllOne, Handling, process
<1>2. CASE UNCHANGED <<tasks, canceled, stopSaves>>
  BY <1>1, <1>2 DEF Stop, disk, SameExcept, Same
<1>3. CASE /\ t \in runtimes /\ tasks' = [tasks EXCEPT ![t] = r]
           /\ canceled' = canceled \cup {t}
           /\ stopSaves' = [stopSaves EXCEPT ![t] = @ \cup {tasks'[t]}]
  <2>1. r.status = "stopped" /\ r.stopMessage = "user" /\ r.finished = tasks[t].finished
    BY DEF TypeOK, Records
  <2> HIDE DEF r
  <2> QED
    BY <1>1, <1>3, <2>1 DEF Stop, disk, TypeOK, SameExcept, Same
<1> QED
  BY <1>1, <1>2, <1>3 DEF Stop, TypeOK

LEMMA StopSaveEffect ==
  ASSUME TypeOK, NEW t \in Tasks, NEW record \in stopSaves[t], StopSave(t, record)
  PROVE  /\ SameExcept(t) /\ run'[t] = run[t] /\ tasks'[t] = tasks[t]
         /\ snapshot'[t] = snapshot[t] /\ Written(t, record)
         /\ stopSaves'[t] = stopSaves[t] \ {record}
         /\ (t \in runtimes' <=> t \in runtimes) /\ (t \in canceled' <=> t \in canceled)
BY SaveEffect DEF StopSave, process, manager, TypeOK, SameExcept, Same

LEMMA HandlerPanicEffect ==
  ASSUME TypeOK, NEW t \in Tasks, HandlerPanic(t)
  PROVE  /\ SameExcept(t) /\ main \notin {"down", "loading"}
         /\ run[t] \in {"none", "created"} /\ run'[t] = "gone"
         /\ tasks'[t] = tasks[t] /\ rows'[t] = rows[t]
         /\ snapshot'[t] = snapshot[t] /\ stopSaves'[t] = stopSaves[t]
         /\ (t \in runtimes' <=> t \in runtimes) /\ (t \in canceled' <=> t \in canceled)
         /\ (t \in unsaved' <=> t \in unsaved)
BY DEF HandlerPanic, Handling, process, manager, disk, TypeOK, SameExcept, Same

-----------------------------------------------------------------------------
(* The inductive invariant, for one task: where its run goroutine is, what *)
(* an accepted Stop has fixed already, that its row exists, and what the   *)
(* writes that are still to come will store.                               *)

LifeInv(u) ==
  /\ u \in runtimes <=> run[u] \in Live
  /\ tasks[u].status \in Unfinished => u \in runtimes
  /\ tasks[u].finished => run[u] \in {"saveFinal", "done", "gone"}
  /\ rows[u].status # "absent" => run[u] # "none"
  /\ stopSaves[u] # {} => run[u] \in Live \cup {"saveFinal", "done"}
  /\ u \in canceled => run[u] \in Live \cup {"saveFinal", "done"}
  /\ main \in {"down", "loading"} =>
       run[u] \in {"none", "gone"} /\ u \notin runtimes /\ stopSaves[u] = {}
  /\ main = "down" => tasks[u] = Absent
  /\ main = "loading" /\ u \in toLoad => tasks[u] = Absent /\ rows[u].status # "absent"

\* No record with the user's message ends in another way.
Obeyed(record) ==
  record.finished /\ record.stopMessage = "user" => record.status \in {"stopped", "interrupted"}

StopInv(u) ==
  /\ run[u] \in Live /\ tasks[u].stopMessage = "user" => u \in canceled
  /\ Obeyed(tasks[u]) /\ Obeyed(rows[u]) /\ Obeyed(snapshot[u])
  /\ \A record \in stopSaves[u] : Obeyed(record)

StoredInv(u) ==
  /\ run[u] \notin {"none", "gone"} => rows[u].status # "absent"
  /\ Known(u) => rows[u].status # "absent"
  /\ run[u] \in {"saveStart", "saveFinal"} => snapshot[u].status # "absent"

\* Every write still to come for an ended task stores the task's status.
DurableInv(u) ==
  /\ \A record \in stopSaves[u] : record.status = "stopped"
  /\ run[u] \in Live /\ stopSaves[u] # {} => u \in canceled
  /\ run[u] \in {"saveFinal", "done"} /\ stopSaves[u] # {} => tasks[u].status = "stopped"
  /\ run[u] = "saveFinal" => snapshot[u].status = tasks[u].status
  /\ run[u] = "done" /\ u \notin unsaved => rows[u].status = tasks[u].status

TaskInv(u) ==
  LifeInv(u) /\ StopInv(u) /\ StoredInv(u) /\ DurableInv(u)

SafetyInv == TypeOK /\ \A u \in Tasks : TaskInv(u)

LEMMA SameKeeps ==
  ASSUME NEW u \in Tasks, TaskInv(u), Same(u), main' = main
  PROVE  TaskInv(u)'
BY DEF Same, TaskInv, LifeInv, StopInv, StoredInv, DurableInv, Obeyed, Known

\* Only the task a step is about needs a look.
LEMMA OneTaskSuffices ==
  ASSUME NEW t \in Tasks, \A u \in Tasks : TaskInv(u), SameExcept(t), TaskInv(t)'
  PROVE  \A u \in Tasks : TaskInv(u)'
BY SameKeeps DEF SameExcept

LEMMA WipedKeeps ==
  ASSUME NEW u \in Tasks, TaskInv(u), Wiped, main' = "down"
  PROVE  TaskInv(u)'
<1>1. /\ tasks'[u] = Absent /\ snapshot'[u] = Absent /\ stopSaves'[u] = {}
      /\ rows'[u] = rows[u] /\ u \notin runtimes' /\ u \notin canceled' /\ u \notin toLoad'
      /\ run'[u] = IF run[u] = "none" THEN "none" ELSE "gone"
  BY DEF Wiped, disk
<1> QED
  BY <1>1, RecordFacts DEF TaskInv, LifeInv, StopInv, StoredInv, DurableInv, Obeyed,
     Known, Live, Unfinished

LEMMA MainKeeps ==
  ASSUME TypeOK, NEW u \in Tasks, TaskInv(u), UNCHANGED <<manager, goros, disk>>,
         \/ main = "down" /\ main' = "loading" /\ toLoad' = {t \in Tasks : rows[t].status # "absent"}
         \/ main # "down" /\ main' \notin {"down", "loading"}
  PROVE  TaskInv(u)'
BY DEF TaskInv, LifeInv, StopInv, StoredInv, DurableInv, Obeyed,
     Known, Live, Unfinished, manager, goros, disk

LEMMA InitSafety == Init => SafetyInv
<1> SUFFICES ASSUME Init, NEW u \in Tasks PROVE TaskInv(u)
  BY InitTypeOK DEF SafetyInv
<1>1. /\ tasks[u] = Absent /\ snapshot[u] = Absent /\ stopSaves[u] = {} /\ rows[u] = Absent
      /\ u \notin runtimes /\ u \notin canceled /\ u \notin toLoad /\ run[u] = "none"
      /\ main = "down"
  BY DEF Init
<1> QED
  BY <1>1, RecordFacts DEF TaskInv, LifeInv, StopInv, StoredInv, DurableInv, Obeyed,
     Known, Live, Unfinished

LEMMA StepSafety == SafetyInv /\ [Next]_vars => SafetyInv'
<1> SUFFICES ASSUME SafetyInv, [Next]_vars PROVE \A u \in Tasks : TaskInv(u)'
  BY StepTypeOK DEF SafetyInv
<1> USE DEF SafetyInv
<1>0. TypeOK /\ \A u \in Tasks : TaskInv(u)
  OBVIOUS
<1>1. ASSUME NEW t \in Tasks, LoadTask(t) PROVE \A u \in Tasks : TaskInv(u)'
  <2>1. LifeInv(t)'
    BY <1>0, <1>1, LoadTaskEffect, RecordFacts
       DEF TaskInv, LifeInv, Written, SameExcept, Unfinished, Live
  <2>2. StopInv(t)'
    BY <1>0, <1>1, LoadTaskEffect, RecordFacts
       DEF TaskInv, LifeInv, StopInv, Written, Obeyed, Live
  <2>3. StoredInv(t)' /\ DurableInv(t)'
    BY <1>0, <1>1, LoadTaskEffect, RecordFacts
       DEF TaskInv, LifeInv, StoredInv, DurableInv, Written, Known, Live
  <2> QED
    BY <1>0, <1>1, <2>1, <2>2, <2>3, LoadTaskEffect, OneTaskSuffices DEF TaskInv
<1>2. ASSUME NEW t \in Tasks, CreateRow(t) PROVE \A u \in Tasks : TaskInv(u)'
  <2>1. TaskInv(t)'
    BY <1>0, <1>2, CreateRowEffect, RecordFacts
       DEF TaskInv, LifeInv, StopInv, StoredInv, DurableInv, Written, SameExcept,
           Obeyed, Known, Live, Unfinished
  <2> QED
    BY <1>0, <1>2, <2>1, CreateRowEffect, OneTaskSuffices
<1>3. ASSUME NEW t \in Tasks, CreateLog(t) PROVE \A u \in Tasks : TaskInv(u)'
  <2>1. TaskInv(t)'
    BY <1>0, <1>3, CreateLogEffect
       DEF TaskInv, LifeInv, StopInv, StoredInv, DurableInv, SameExcept,
           Obeyed, Known, Live, Unfinished
  <2> QED
    BY <1>0, <1>3, <2>1, CreateLogEffect, OneTaskSuffices
<1>4. ASSUME NEW t \in Tasks, Register(t) PROVE \A u \in Tasks : TaskInv(u)'
  <2>1. TaskInv(t)'
    BY <1>0, <1>4, RegisterEffect, RecordFacts
       DEF TaskInv, LifeInv, StopInv, StoredInv, DurableInv, SameExcept,
           Obeyed, Known, Live, Unfinished
  <2> QED
    BY <1>0, <1>4, <2>1, RegisterEffect, OneTaskSuffices
<1>5. ASSUME NEW t \in Tasks, EndRequest(t) PROVE \A u \in Tasks : TaskInv(u)'
  <2>1. run[t] \in Live \cup {"saveFinal", "done"}
    BY <1>5, EndRequestEffect, <1>0 DEF TypeOK, Live
  <2>2. TaskInv(t)'
    BY <1>0, <1>5, <2>1, EndRequestEffect
       DEF TaskInv, LifeInv, StopInv, StoredInv, DurableInv, SameExcept,
           Obeyed, Known, Live, Unfinished
  <2> QED
    BY <1>0, <1>5, <2>2, EndRequestEffect, OneTaskSuffices
<1>6. ASSUME NEW t \in Tasks, RunStart(t) PROVE \A u \in Tasks : TaskInv(u)'
  <2>1. TaskInv(t)'
    BY <1>0, <1>6, RunStartEffect
       DEF TaskInv, LifeInv, StopInv, StoredInv, DurableInv, SameExcept,
           Obeyed, Known, Live, Unfinished
  <2> QED
    BY <1>0, <1>6, <2>1, RunStartEffect, OneTaskSuffices
<1>7. ASSUME NEW t \in Tasks, RunSave(t) PROVE \A u \in Tasks : TaskInv(u)'
  <2>1. TaskInv(t)'
    BY <1>0, <1>7, RunSaveEffect
       DEF TaskInv, LifeInv, StopInv, StoredInv, DurableInv, Written, SameExcept,
           Obeyed, Known, Live, Unfinished
  <2> QED
    BY <1>0, <1>7, <2>1, RunSaveEffect, OneTaskSuffices
<1>8. ASSUME NEW t \in Tasks, EngineEvent(t) \/ EngineReturns(t) PROVE \A u \in Tasks : TaskInv(u)'
  <2>1. TaskInv(t)'
    BY <1>0, <1>8, EngineEffect
       DEF TaskInv, LifeInv, StopInv, StoredInv, DurableInv, SameExcept,
           Obeyed, Known, Live, Unfinished
  <2> QED
    BY <1>0, <1>8, <2>1, EngineEffect, OneTaskSuffices
<1>9. ASSUME NEW t \in Tasks, RunFinish(t) PROVE \A u \in Tasks : TaskInv(u)'
  <2>1. /\ FinalStatus(t) \in {"stopped", "failed", "succeeded"}
        /\ t \in canceled => FinalStatus(t) = "stopped"
        /\ FinalStatus(t) = "stopped" => t \in canceled \/ tasks[t].status = "stopped"
        /\ StopMessage(t) = "user" => tasks[t].stopMessage = "user"
        /\ tasks[t].stopMessage = "user" => StopMessage(t) = "user"
    BY DEF FinalStatus, StopMessage
  <2>2. TaskInv(t)'
    BY <1>0, <1>9, <2>1, RunFinishEffect
       DEF TaskInv, LifeInv, StopInv, StoredInv, DurableInv, SameExcept,
           Obeyed, Known, Live, Unfinished
  <2> QED
    BY <1>0, <1>9, <2>2, RunFinishEffect, OneTaskSuffices
<1>10. ASSUME NEW t \in Tasks, HandleStop(t) \/ StopAllOne(t) PROVE \A u \in Tasks : TaskInv(u)'
  <2>1. LifeInv(t)'
    BY <1>0, <1>10, StopEffect DEF TaskInv, LifeInv, SameExcept, Live, Unfinished
  <2>2. StopInv(t)'
    BY <1>0, <1>10, StopEffect
       DEF TaskInv, LifeInv, StopInv, Obeyed, Live
  <2>3. StoredInv(t)' /\ DurableInv(t)'
    BY <1>0, <1>10, StopEffect
       DEF TaskInv, LifeInv, StoredInv, DurableInv, Known, Live
  <2> QED
    BY <1>0, <1>10, <2>1, <2>2, <2>3, StopEffect, OneTaskSuffices DEF TaskInv
<1>11. ASSUME NEW t \in Tasks, NEW record \in stopSaves[t], StopSave(t, record)
       PROVE \A u \in Tasks : TaskInv(u)'
  <2>1. TaskInv(t)'
    BY <1>0, <1>11, StopSaveEffect
       DEF TaskInv, LifeInv, StopInv, StoredInv, DurableInv, Written, SameExcept,
           Obeyed, Known, Live, Unfinished
  <2> QED
    BY <1>0, <1>11, <2>1, StopSaveEffect, OneTaskSuffices
<1>12. ASSUME NEW t \in Tasks, HandlerPanic(t) PROVE \A u \in Tasks : TaskInv(u)'
  <2>1. TaskInv(t)'
    BY <1>0, <1>12, HandlerPanicEffect
       DEF TaskInv, LifeInv, StopInv, StoredInv, DurableInv, SameExcept,
           Obeyed, Known, Live, Unfinished
  <2> QED
    BY <1>0, <1>12, <2>1, HandlerPanicEffect, OneTaskSuffices
<1>13. CASE Boot \/ StopAll \/ StopAllDone \/ Close
  BY <1>0, <1>13, MainKeeps DEF Boot, StopAll, StopAllDone, Close
<1>14. CASE Exit \/ Panic \/ Crash
  BY <1>0, <1>14, WipedKeeps DEF Exit, Panic, Crash
<1>15. CASE Loaded
  BY <1>0, <1>15, WipedKeeps, MainKeeps DEF Loaded
<1>16. CASE UNCHANGED vars
  BY <1>0, <1>16, SameKeeps DEF vars, process, manager, goros, disk, Same
<1> QED
  BY <1>1, <1>2, <1>3, <1>4, <1>5, <1>6, <1>7, <1>8, <1>9, <1>10, <1>11, <1>12, <1>13,
     <1>14, <1>15, <1>16 DEF Next, MainStep, RunStep

\* The invariant holds in every state of the service: Create, run, Stop, Load
\* and the shutdown keep it for the task they touch and for all the others.
THEOREM TaskSafety == Spec => []SafetyInv
BY InitSafety, StepSafety, PTL DEF Spec

-----------------------------------------------------------------------------
(* What it gives                                                           *)

\* A task shown as pending or running is being run: no crash and no restart
\* leaves one behind that nobody runs.
THEOREM ActiveTasksAreRun == Spec => []ActiveTaskHasRuntime
<1>1. SafetyInv => ActiveTaskHasRuntime
  BY DEF SafetyInv, TaskInv, LifeInv, ActiveTaskHasRuntime, Live
<1> QED
  BY <1>1, TaskSafety, PTL

\* After an accepted Stop no run can end as succeeded or failed.
THEOREM StopDecides == Spec => []AcceptedStopWins
<1>1. SafetyInv => AcceptedStopWins
  BY DEF SafetyInv, TaskInv, StopInv, Obeyed, AcceptedStopWins
<1> QED
  BY <1>1, TaskSafety, PTL

\* A task a client was told of is in the database at every moment.
THEOREM VisibleIsStored == Spec => []VisibleTaskIsStored
<1>1. SafetyInv => VisibleTaskIsStored
  BY DEF SafetyInv, TaskInv, StoredInv, VisibleTaskIsStored
<1> QED
  BY <1>1, TaskSafety, PTL

\* A detached save of Stop, however late, cannot change an ended task's row.
THEOREM EndedRowsAgree == Spec => []DurableStatus
<1>1. SafetyInv => DurableStatus
  <2> SUFFICES ASSUME SafetyInv, NEW t \in Tasks, run[t] = "done", t \notin unsaved
               PROVE  /\ rows[t].status = tasks[t].status
                      /\ \A record \in stopSaves[t] : record.status = tasks[t].status
    BY DEF DurableStatus
  <2> QED
    BY DEF SafetyInv, TaskInv, DurableInv
<1> QED
  BY <1>1, TaskSafety, PTL

\* The final record of a task is never touched again.
THEOREM FinishedStaysFinal == Spec => FinishedIsFinal
<1> DEFINE Final == \A t \in Tasks : tasks[t].finished /\ main' # "down" => tasks'[t] = tasks[t]
<1>1. SafetyInv /\ [Next]_vars => Final
  <2> SUFFICES ASSUME SafetyInv, [Next]_vars, NEW u \in Tasks,
                      tasks[u].finished, main' # "down"
               PROVE  tasks'[u] = tasks[u]
    OBVIOUS
  <2>0. TypeOK /\ LifeInv(u)
    BY DEF SafetyInv, TaskInv
  <2>1. run[u] \in {"saveFinal", "done", "gone"} /\ u \notin runtimes
    BY <2>0 DEF LifeInv, Live
  <2>2. main = "loading" => u \notin toLoad
    BY <2>0, RecordFacts DEF LifeInv
  <2>3. ASSUME NEW t \in Tasks, SameExcept(t), tasks'[t] = tasks[t] PROVE tasks'[u] = tasks[u]
    BY <2>3 DEF SameExcept, Same
  <2>4. ASSUME NEW t \in Tasks, SameExcept(t), t # u PROVE tasks'[u] = tasks[u]
    BY <2>4 DEF SameExcept, Same
  <2>5. ASSUME NEW t \in Tasks,
               LoadTask(t) \/ Register(t) \/ RunStart(t) \/ RunFinish(t)
        PROVE tasks'[u] = tasks[u]
    BY <2>0, <2>1, <2>2, <2>4, <2>5, LoadTaskEffect, RegisterEffect, RunStartEffect,
       RunFinishEffect
  <2>6. ASSUME NEW t \in Tasks, HandleStop(t) \/ StopAllOne(t) PROVE tasks'[u] = tasks[u]
    BY <2>0, <2>1, <2>3, <2>4, <2>6, StopEffect
  <2>7. ASSUME NEW t \in Tasks,
               \/ CreateRow(t) \/ CreateLog(t) \/ EndRequest(t) \/ RunSave(t)
               \/ EngineEvent(t) \/ EngineReturns(t) \/ HandlerPanic(t)
               \/ \E record \in stopSaves[t] : StopSave(t, record)
        PROVE tasks'[u] = tasks[u]
    BY <2>0, <2>3, <2>7, CreateRowEffect, CreateLogEffect, EndRequestEffect, RunSaveEffect,
       EngineEffect, HandlerPanicEffect, StopSaveEffect
  <2>8. CASE Boot \/ StopAll \/ StopAllDone \/ Close \/ Loaded \/ UNCHANGED vars
    BY <2>8 DEF Boot, StopAll, StopAllDone, Close, Loaded, vars, manager
  <2>9. CASE Exit \/ Panic \/ Crash
    BY <2>9 DEF Exit, Panic, Crash
  <2> QED
    BY <2>5, <2>6, <2>7, <2>8, <2>9 DEF Next, MainStep, RunStep
<1>2. SafetyInv /\ [Next]_vars => [Final]_vars
  BY <1>1
<1> HIDE DEF Final
<1>3. Spec => [][Final]_vars
  BY <1>2, TaskSafety, PTL DEF Spec
<1> QED
  BY <1>3 DEF FinishedIsFinal, Final

\* A start of the service rewrites no ended row.
THEOREM RestartIsGentle == Spec => RestartKeepsEndedRows
<1> DEFINE Gentle == main = "loading" => \A t \in Tasks : rows'[t] # rows[t] =>
                       rows[t].status \in Unfinished /\ rows'[t].status = "interrupted"
<1>1. SafetyInv /\ [Next]_vars => Gentle
  <2> SUFFICES ASSUME SafetyInv, [Next]_vars, main = "loading", NEW u \in Tasks,
                      rows'[u] # rows[u]
               PROVE  rows[u].status \in Unfinished /\ rows'[u].status = "interrupted"
    OBVIOUS
  <2>0. TypeOK /\ \A t \in Tasks : LifeInv(t)
    BY DEF SafetyInv, TaskInv
  <2>1. \A t \in Tasks : run[t] \in {"none", "gone"} /\ stopSaves[t] = {}
    BY <2>0 DEF LifeInv
  <2>2. ASSUME NEW t \in Tasks, LoadTask(t)
        PROVE rows[u].status \in Unfinished /\ rows'[u].status = "interrupted"
    BY <2>0, <2>2, LoadTaskEffect DEF SameExcept, Same, Written
  <2>3. ASSUME NEW t \in Tasks,
               \/ CreateRow(t) \/ CreateLog(t) \/ Register(t) \/ RunStart(t) \/ RunSave(t)
               \/ EngineEvent(t) \/ EngineReturns(t) \/ RunFinish(t) \/ HandlerPanic(t)
               \/ HandleStop(t) \/ \E record \in stopSaves[t] : StopSave(t, record)
        PROVE FALSE
    BY <2>1, <2>3 DEF CreateRow, CreateLog, Register, RunStart, RunSave, EngineEvent,
       EngineReturns, RunFinish, HandlerPanic, HandleStop, Handling
  <2>4. ASSUME NEW t \in Tasks, EndRequest(t) PROVE FALSE
    BY <2>1, <2>4 DEF EndRequest
  <2>5. CASE Loaded \/ Crash \/ UNCHANGED vars
    BY <2>5 DEF Loaded, Crash, Wiped, disk, vars
  <2>6. CASE \/ Boot \/ StopAll \/ StopAllDone \/ Close \/ Exit \/ Panic
             \/ \E t \in Tasks : StopAllOne(t)
    BY <2>6 DEF Boot, StopAll, StopAllDone, Close, Exit, Panic, StopAllOne
  <2> QED
    BY <2>2, <2>3, <2>4, <2>5, <2>6 DEF Next, MainStep, RunStep
<1>2. SafetyInv /\ [Next]_vars => [Gentle]_vars
  BY <1>1
<1> HIDE DEF Gentle
<1>3. Spec => [][Gentle]_vars
  BY <1>2, TaskSafety, PTL DEF Spec
<1> QED
  BY <1>3 DEF RestartKeepsEndedRows, Gentle

=============================================================================
