--------------------------- MODULE RunLifecycle ---------------------------
(***************************************************************************)
(* What the scheduler promises about one pipeline run, independent of      *)
(* workers, ticks and executions: RunStatus of app/pipeline_models.py and  *)
(* the moves between its values.                                           *)
(***************************************************************************)
EXTENDS Naturals

CONSTANTS Run, MaxRetries

VARIABLES status, retries

vars == <<status, retries>>

Init ==
    /\ status = [r \in Run |-> "ABSENT"]
    /\ retries = [r \in Run |-> 0]

Move(r, from, to) ==
    /\ status[r] = from
    /\ status' = [status EXCEPT ![r] = to]

Submit(r) == Move(r, "ABSENT", "QUEUED") /\ UNCHANGED retries
Start(r)  == Move(r, "QUEUED", "IN_PROGRESS") /\ UNCHANGED retries

Finish(r) ==
    /\ \E outcome \in {"COMPLETED", "FAILED", "ABORTED"} : Move(r, "IN_PROGRESS", outcome)
    /\ UNCHANGED retries

(***************************************************************************)
(* Runs go back to the queue, several in one transaction: a started run    *)
(* when no worker was free or whoever ran it was lost; and as a retry,     *)
(* which is counted, one that failed.                                      *)
(***************************************************************************)
Retried(r) == retries[r] > 0

Requeue(lost, failed) ==
    /\ \A r \in lost : status[r] = "IN_PROGRESS"
    /\ \A r \in failed : retries[r] < MaxRetries /\ (status[r] = "FAILED" \/ Retried(r))
    /\ status' = [r \in Run |-> IF r \in lost \cup failed THEN "QUEUED" ELSE status[r]]
    /\ retries' = [r \in Run |-> IF r \in failed THEN retries[r] + 1 ELSE retries[r]]

(***************************************************************************)
(* What is left of one attempt may write the row while the next is under   *)
(* way, so a run that was retried may have any status, at any time; its    *)
(* retries still count.                                                    *)
(***************************************************************************)
Interfere(r) ==
    /\ Retried(r)
    /\ \E any \in {"QUEUED", "IN_PROGRESS", "COMPLETED", "FAILED", "ABORTED"} :
         status' = [status EXCEPT ![r] = any]
    /\ UNCHANGED retries

Next ==
    \/ \E r \in Run : Submit(r) \/ Start(r) \/ Finish(r) \/ Interfere(r)
    \/ \E lost, failed \in SUBSET Run : Requeue(lost, failed)

Spec == Init /\ [][Next]_vars
=============================================================================
