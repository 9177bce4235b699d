--------------------------- MODULE PipelineStore ---------------------------
(***************************************************************************)
(* The three tables every part of the system shares - pipeline runs,       *)
(* workers and worker assignments - and the transactions the services run  *)
(* on them (app/services/job_scheduler.py, app/services/worker_pool.py,    *)
(* the recovery in app/scheduler.py and the handlers of                    *)
(* app/routers/workers.py).  Each operator below is one database           *)
(* transaction: it says what the committed rows become.                    *)
(*                                                                         *)
(* Time is abstracted to what the code compares: a heartbeat or a start    *)
(* time is on one side of the timeout cutoff or on the other, a            *)
(* retry_after is absent, in the future or past.  A worker's load, which   *)
(* moves in steps of 0.5 between 0 and 1, counts halves.                   *)
(***************************************************************************)
EXTENDS Naturals

CONSTANTS Run,          \* pipeline run ids
          Worker,       \* worker ids
          MaxAsg,       \* bound: assignment rows ever inserted
          BuildNo,      \* Jenkins build numbers, 0 when the queue item stayed unresolved
          NoBuild,      \* jenkins_build_number and jenkins_build_url are NULL
          MaxRetries,   \* pipeline_runs.max_retries
          Language,     \* worker languages other than GENERIC
          LangOf,       \* workers.language
          LangNeeded    \* what detect_language returns for a run

ASSUME StoreAssumption ==
    /\ MaxAsg \in Nat
    /\ BuildNo \subseteq Nat
    /\ NoBuild \notin BuildNo
    /\ MaxRetries \in Nat
    /\ "GENERIC" \notin Language
    /\ LangOf \in [Worker -> Language \cup {"GENERIC"}]
    /\ LangNeeded \in [Run -> Language \cup {"GENERIC"}]

VARIABLES run,      \* pipeline_runs
          worker,   \* workers
          asg       \* worker_assignments: a function on the ids inserted so far

storeVars == <<run, worker, asg>>

-----------------------------------------------------------------------------
(* Rows *)

AsgId == 1..MaxAsg                                \* worker_assignments.id

RunStatus      == {"ABSENT", "QUEUED", "IN_PROGRESS", "COMPLETED", "FAILED", "ABORTED"}
TerminalStatus == {"COMPLETED", "FAILED", "ABORTED"}
Result         == {"SUCCESS", "FAILURE", "UNSTABLE", "ABORTED"}

RunRow == [status  : RunStatus,
           started : {"null", "recent", "old"},   \* started_at against the cutoff
           build   : BuildNo \cup {NoBuild},
           retries : Nat,                         \* retry_count
           backoff : {"null", "waiting", "due"}]  \* retry_after

WorkerRow == [status : {"IDLE", "BUSY", "OFFLINE"},
              load   : 0..2,
              stale  : BOOLEAN]                   \* last_heartbeat < cutoff

AsgStatus  == {"ASSIGNED", "RUNNING", "DONE", "FAILED"}
OpenStatus == {"ASSIGNED", "RUNNING"}             \* completed_at IS NULL
AsgRow     == [run : Run, worker : Worker, status : AsgStatus]

StoreTypeOK ==
    /\ run \in [Run -> RunRow]
    /\ worker \in [Worker -> WorkerRow]
    /\ DOMAIN asg \subseteq AsgId
    /\ asg \in [DOMAIN asg -> AsgRow]

NewRun    == [status |-> "ABSENT", started |-> "null", build |-> NoBuild,
              retries |-> 0, backoff |-> "null"]
NewWorker == [status |-> "IDLE", load |-> 0, stale |-> FALSE]

StoreInit ==
    /\ run = [r \in Run |-> NewRun]
    /\ worker = [w \in Worker |-> NewWorker]
    /\ asg = [a \in {} |-> {}]

-----------------------------------------------------------------------------
(* Helpers *)

Open        == {a \in DOMAIN asg : asg[a].status \in OpenStatus}
OpenOf(r)   == {a \in Open : asg[a].run = r}
OpenOn(w)   == {a \in Open : asg[a].worker = w}
RowsOf(r, w) == {a \in DOMAIN asg : asg[a].run = r /\ asg[a].worker = w}

\* Mutant of Less: the floor is forgotten.
Less_NoFloor(n) == n - 1

Less(n) == IF n = 0 THEN 0 ELSE n - 1      \* max(0, load - 0.5)
More(n) == IF n = 2 THEN 2 ELSE n + 1      \* min(1, load + 0.5)

Close(S) ==
    asg' = [a \in DOMAIN asg |->
              IF a \in S THEN [asg[a] EXCEPT !.status = "FAILED"] ELSE asg[a]]

(***************************************************************************)
(* The primary key of the next row: ids are handed out in order.           *)
(***************************************************************************)
IsNextId(a) ==
    /\ a \in AsgId \ DOMAIN asg
    /\ \A b \in AsgId : b < a => b \in DOMAIN asg

-----------------------------------------------------------------------------
(* job_scheduler.py *)

SchedulePipeline(r) ==
    /\ run[r].status = "ABSENT"
    /\ run' = [run EXCEPT ![r].status = "QUEUED"]
    /\ UNCHANGED <<worker, asg>>

(***************************************************************************)
(* on_build_started: whatever the run's status was, it is IN_PROGRESS      *)
(* again; one of its open assignments, any one, becomes RUNNING.           *)
(***************************************************************************)
OnBuildStarted(r, b) ==
    /\ run' = [run EXCEPT ![r].status = "IN_PROGRESS",
                          ![r].build = b,
                          ![r].started = "recent"]
    /\ \/ \E a \in OpenOf(r) : asg' = [asg EXCEPT ![a].status = "RUNNING"]
       \/ OpenOf(r) = {} /\ UNCHANGED asg
    /\ UNCHANGED worker

\* Mutant of StatusFor: the result is stored as Jenkins words it.
StatusFor_Raw(res) == IF res = "SUCCESS" THEN "COMPLETED" ELSE res

\* Mutant of StatusFor: an unstable build counts as a success.
StatusFor_Lenient(res) ==
    CASE res \in {"SUCCESS", "UNSTABLE"} -> "COMPLETED"
      [] res = "ABORTED"                 -> "ABORTED"
      [] OTHER                           -> "FAILED"

StatusFor(res) ==
    CASE res = "SUCCESS" -> "COMPLETED"
      [] res = "ABORTED" -> "ABORTED"
      [] OTHER           -> "FAILED"

(***************************************************************************)
(* release_worker: the worker is IDLE whatever it was, and the row closed  *)
(* is any row of this run and worker, not necessarily the open one.        *)
(***************************************************************************)
ReleaseWorker(w, r, success) ==
    /\ worker' = [worker EXCEPT ![w].status = "IDLE",
                                ![w].load = Less(@),
                                ![w].stale = FALSE]
    /\ \E a \in RowsOf(r, w) :
         asg' = [asg EXCEPT ![a].status = IF success THEN "DONE" ELSE "FAILED"]

\* Mutant of OnBuildCompleted: the worker is not released.
OnBuildCompleted_StatusOnly(r, res) ==
    /\ run' = [run EXCEPT ![r].status = StatusFor(res)]
    /\ UNCHANGED <<worker, asg>>

OnBuildCompleted(r, res) ==
    /\ run' = [run EXCEPT ![r].status = StatusFor(res)]
    /\ \/ \E a \in OpenOf(r) : ReleaseWorker(asg[a].worker, r, res = "SUCCESS")
       \/ OpenOf(r) = {} /\ UNCHANGED <<worker, asg>>

-----------------------------------------------------------------------------
(* worker_pool.py: assign_worker, a read and a write *)

\* Mutant of IdleWorkers: every worker that is not OFFLINE qualifies.
IdleWorkers_NotOffline == {w \in Worker : worker[w].status # "OFFLINE"}

IdleWorkers == {w \in Worker : worker[w].status = "IDLE"}

Candidates(r) ==
    LET speaks(l) == {w \in IdleWorkers : LangOf[w] = l}
    IN  IF speaks(LangNeeded[r]) # {} THEN speaks(LangNeeded[r])
        ELSE IF speaks("GENERIC") # {} THEN speaks("GENERIC")
        ELSE IdleWorkers

BestWorkers(r) ==
    {w \in Candidates(r) : \A v \in Candidates(r) : worker[w].load <= worker[v].load}

AssignWorker(r, w, seenLoad, a) ==
    /\ IsNextId(a)
    /\ worker' = [worker EXCEPT ![w] = [status |-> "BUSY",
                                        load   |-> More(seenLoad),
                                        stale  |-> FALSE]]
    /\ asg' = [i \in DOMAIN asg \cup {a} |->
                 IF i = a THEN [run |-> r, worker |-> w, status |-> "ASSIGNED"]
                          ELSE asg[i]]

-----------------------------------------------------------------------------
(* scheduler.py: _recover_stale_workers *)

\* Mutant of StaleWorkers: only workers that hold an open assignment.
StaleWorkers_Assigned ==
    {w \in Worker : worker[w].status = "BUSY" /\ worker[w].stale /\ OpenOn(w) # {}}

StaleWorkers == {w \in Worker : worker[w].status = "BUSY" /\ worker[w].stale}
StaleAsgs    == {a \in Open : asg[a].worker \in StaleWorkers}
StaleRuns    == {r \in Run : /\ run[r].status = "IN_PROGRESS"
                             /\ \E a \in StaleAsgs : asg[a].run = r}

\* Mutant of OrphanRuns: phase 2 does not exist.
OrphanRuns_None == {}

OrphanRuns ==
    {r \in Run \ StaleRuns : /\ run[r].status = "IN_PROGRESS"
                             /\ run[r].build = NoBuild
                             /\ run[r].started # "recent"}
OrphanAsgs    == {a \in Open \ StaleAsgs : asg[a].run \in OrphanRuns}

OrphanWorkers == {w \in Worker \ StaleWorkers :
                    /\ worker[w].status = "BUSY"
                    /\ \E a \in OrphanAsgs : asg[a].worker = w}

\* Mutant of RecoverStaleWorkers: phase 1 forgets the worker rows.
RecoverStaleWorkers_RunsOnly ==
    /\ run' = [r \in Run |-> IF r \in StaleRuns \cup OrphanRuns
                             THEN [run[r] EXCEPT !.status = "QUEUED"] ELSE run[r]]
    /\ Close(StaleAsgs \cup OrphanAsgs)
    /\ UNCHANGED worker

RecoverStaleWorkers ==
    /\ run' = [r \in Run |->
                 IF r \in StaleRuns \cup OrphanRuns
                 THEN [run[r] EXCEPT !.status = "QUEUED", !.started = "null"]
                 ELSE run[r]]
    /\ worker' = [w \in Worker |->
                    IF w \in StaleWorkers THEN NewWorker
                    ELSE IF w \in OrphanWorkers
                    THEN [status |-> "IDLE", load |-> Less(worker[w].load), stale |-> FALSE]
                    ELSE worker[w]]
    /\ Close(StaleAsgs \cup OrphanAsgs)

-----------------------------------------------------------------------------
(* routers/workers.py *)

SetOffline(w) ==
    /\ worker[w].status # "OFFLINE"
    /\ worker' = [worker EXCEPT ![w].status = "OFFLINE"]
    /\ UNCHANGED <<run, asg>>

SetOnline(w) ==
    /\ worker' = [worker EXCEPT ![w].status = "IDLE", ![w].load = 0]
    /\ worker' # worker
    /\ UNCHANGED <<run, asg>>

ResetWorker(w) ==
    /\ run' = [r \in Run |->
                 IF run[r].status = "IN_PROGRESS" /\ \E a \in OpenOn(w) : asg[a].run = r
                 THEN [run[r] EXCEPT !.status = "QUEUED", !.started = "null"]
                 ELSE run[r]]
    /\ worker' = [worker EXCEPT ![w] = NewWorker]
    /\ Close(OpenOn(w))
=============================================================================
