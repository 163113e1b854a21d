--------------------------- MODULE SubmissionRun ----------------------------
(***************************************************************************)
(* What a run of the engine promises its caller, without workers, leases,  *)
(* retries or contexts: submissions are counted one at a time, never more  *)
(* than the target; the run may be asked to stop; and it finishes with     *)
(* the verdict "ok" exactly when nothing stopped it and every submission   *)
(* of the target succeeded.  A run nothing stops finishes only when the    *)
(* whole target is accounted for, and every stopped run finishes.          *)
(***************************************************************************)
EXTENDS Naturals

CONSTANT Target

VARIABLES phase, ok, bad, verdict

run == <<phase, ok, bad, verdict>>

Start == phase = "running" /\ ok = 0 /\ bad = 0 /\ verdict = "none"

Open == phase # "finished" /\ ok + bad < Target

Succeed == Open /\ ok' = ok + 1 /\ UNCHANGED <<phase, bad, verdict>>

FailOne == Open /\ bad' = bad + 1 /\ UNCHANGED <<phase, ok, verdict>>

Stop == phase = "running" /\ phase' = "stopping" /\ UNCHANGED <<ok, bad, verdict>>

Finish ==
  /\ phase # "finished"
  /\ phase = "running" => ok + bad = Target
  /\ verdict' = IF phase = "running" /\ ok = Target THEN "ok" ELSE "error"
  /\ phase' = "finished"
  /\ UNCHANGED <<ok, bad>>

RunNext == Succeed \/ FailOne \/ Stop \/ Finish

Safety == Start /\ [][RunNext]_run

\* A stopping run stays able to finish, so weak fairness makes it finish.
RunSpec == Safety /\ WF_run(phase = "stopping" /\ Finish)

=============================================================================
