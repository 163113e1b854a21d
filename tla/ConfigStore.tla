----------------------------- MODULE ConfigStore ----------------------------
(***************************************************************************)
(* The configuration file while it is saved (pkg/surveycore/config/store.go*)
(* SaveDocument): every saver writes a temporary file of its own next to   *)
(* the target, flushes it, and renames it over the target.  Any step may   *)
(* fail, the process may be killed and the power may fail between any two. *)
(*                                                                         *)
(* A file is [content, flushed]; the name of the target refers to file for *)
(* every reader, and to disk once the power has failed.  The disk may take *)
(* a rename, or the data of a file, before it is asked to.                 *)
(***************************************************************************)
EXTENDS ConfigDocument, FiniteSets

CONSTANTS
  Savers,       \* calls of SaveDocument, each once
  Documents,    \* saver -> the document it saves
  Before        \* contents the target may have at first

VARIABLES
  before,   \* the target at first
  file,     \* what readers find
  disk,     \* what the disk has under the name of the target
  temp,     \* temporary file of each saver
  phase,    \* next step of each saver
  result,   \* "", "saved" or "failed"
  loaded    \* result of the last Load

vars == <<before, file, disk, temp, phase, result, loaded>>

Absent == [is |-> "absent"]
Blank  == [is |-> "blank"]
Torn   == [is |-> "torn"]
Whole(s) == [is |-> "v2", value |-> Documents[s]]

File(content, flushed) == [content |-> content, flushed |-> flushed]
NoFile == File(Absent, TRUE)

NotYet == [pending |-> TRUE]

Init ==
  /\ before \in Before
  /\ file = File(before, TRUE) /\ disk = File(before, TRUE)
  /\ temp = [s \in Savers |-> NoFile]
  /\ phase = [s \in Savers |-> "serialize"]
  /\ result = [s \in Savers |-> ""]
  /\ loaded = NotYet

Goto(s, next) == phase' = [phase EXCEPT ![s] = next]

\* MkdirAll and SerializeConfigDocument: numbers JSON cannot express fail.
Serialize(s) ==
  /\ phase[s] = "serialize"
  /\ Goto(s, "create")
  /\ UNCHANGED <<before, file, disk, temp, result, loaded>>

CreateTemp(s) ==
  /\ phase[s] = "create"
  /\ temp' = [temp EXCEPT ![s] = File(Blank, FALSE)]
  /\ Goto(s, "write")
  /\ UNCHANGED <<before, file, disk, result, loaded>>

\* The file may be seen half written by whoever knows its name.
WriteSome(s) ==
  /\ phase[s] = "write" /\ temp[s].content = Blank
  /\ temp' = [temp EXCEPT ![s] = File(Torn, FALSE)]
  /\ UNCHANGED <<before, file, disk, phase, result, loaded>>

Write(s) ==
  /\ phase[s] = "write"
  /\ temp' = [temp EXCEPT ![s] = File(Whole(s), FALSE)]
  /\ Goto(s, "sync")
  /\ UNCHANGED <<before, file, disk, result, loaded>>

\* A plausible slip: the data is left to the operating system.
SyncLater(s) ==
  /\ phase[s] = "sync"
  /\ Goto(s, "replace")
  /\ UNCHANGED <<before, file, disk, temp, result, loaded>>

Sync(s) ==
  /\ phase[s] = "sync"
  /\ temp' = [temp EXCEPT ![s] = File(temp[s].content, TRUE)]
  /\ Goto(s, "replace")
  /\ UNCHANGED <<before, file, disk, result, loaded>>

\* Close and the rename.
Replace(s) ==
  /\ phase[s] = "replace"
  /\ file' = temp[s]
  /\ temp' = [temp EXCEPT ![s] = NoFile]
  /\ result' = [result EXCEPT ![s] = "saved"]
  /\ Goto(s, "done")
  /\ UNCHANGED <<before, disk, loaded>>

\* Every error return; the deferred os.Remove takes the temporary file away.
SaveFails(s) ==
  /\ phase[s] \in {"serialize", "create", "write", "sync", "replace"}
  /\ temp' = [temp EXCEPT ![s] = NoFile]
  /\ result' = [result EXCEPT ![s] = "failed"]
  /\ Goto(s, "done")
  /\ UNCHANGED <<before, file, disk, loaded>>

\* A process is killed and leaves its temporary file.
Kill(s) ==
  /\ phase[s] # "done"
  /\ Goto(s, "done")
  /\ UNCHANGED <<before, file, disk, temp, result, loaded>>

\* The disk catches up with the name of the target.
WriteBack ==
  /\ disk' = file
  /\ UNCHANGED <<before, file, temp, phase, result, loaded>>

\* What is left of data that was not flushed.
Remains(f) == IF f.flushed THEN {f} ELSE {f, File(Blank, TRUE), File(Torn, TRUE)}

PowerFails ==
  /\ \E f \in Remains(disk) \cup Remains(file) : file' = f /\ disk' = f
  /\ phase' = [s \in Savers |-> "done"]
  /\ UNCHANGED <<before, temp, result, loaded>>

Read(strict) ==
  /\ loaded' = Load(file.content, strict)
  /\ UNCHANGED <<before, file, disk, temp, phase, result>>

SaveStep(s) ==
  \/ Serialize(s) \/ CreateTemp(s) \/ WriteSome(s) \/ Write(s) \/ Sync(s) \/ Replace(s)
  \/ SaveFails(s) \/ Kill(s)

Next ==
  \/ \E s \in Savers : SaveStep(s)
  \/ WriteBack \/ PowerFails
  \/ \E strict \in BOOLEAN : Read(strict)

Spec == Init /\ [][Next]_vars

-----------------------------------------------------------------------------
(* Properties                                                              *)

\* store.go:83, "atomically stores": whoever saves at the same time, whichever
\* step fails, and wherever a process or the power dies, the target is what it
\* was or a whole document whose save did not report a failure, and a reader
\* gets the request of one of those.
SaveAtomic ==
  LET saved == {s \in Savers : result[s] = "saved"}
      Found == {before} \cup {Whole(s) : s \in saved}
  IN  /\ file.content \in Found /\ disk.content \in Found
      /\ loaded = NotYet \/ \E c \in Found, strict \in BOOLEAN : loaded = Load(c, strict)

=============================================================================
