--------------------------- MODULE BuildTracking ---------------------------
(***************************************************************************)
(* How a run and its Jenkins build find each other.  Three paths write the *)
(* same rows: the execution the scheduler started (app/scheduler.py), the  *)
(* Celery trigger and poll tasks schedule_pipeline sends for every run     *)
(* (app/pipeline_tasks.py), and the webhooks Jenkins sends when a build    *)
(* starts and when it is finalized (app/routers/webhook.py).               *)
(*                                                                         *)
(* A failed run is tried again, and what is left of the earlier attempt -  *)
(* an execution that still polls, a webhook on its way - goes on beside    *)
(* the new one.  There is one ticker, below its cap on threads, and nothing*)
(* is lost but webhooks; Jenkins is modelled from the answers the code     *)
(* reads.                                                                  *)
(***************************************************************************)
EXTENDS PipelineStore, FiniteSets

CONSTANTS Job,          \* jenkins_job_name
          JobOf,        \* that of a run
          Celery,       \* runs whose trigger task a Celery worker picks up
          TriggerRetries, \* max_retries of trigger_jenkins_build
          Outcome,      \* bound: the Jenkins results considered
          MaxBuilds     \* bound: Jenkins builds ever queued

ASSUME TrackingAssumption ==
    /\ JobOf \in [Run -> Job]
    /\ Celery \subseteq Run
    /\ TriggerRetries \in Nat
    /\ Outcome \subseteq Result
    /\ MaxBuilds \in Nat
    /\ 0..MaxBuilds \subseteq BuildNo

VARIABLES tracker,   \* where each path is with each run
          builds,    \* Jenkins builds, by number
          hooks,     \* webhooks on their way; one may stay there for ever
          earlier    \* the order of started_at: for a run, those started before it

vars == <<run, worker, asg, tracker, builds, hooks, earlier>>

-----------------------------------------------------------------------------
(* State *)

\* The Celery task of a run, and an execution for each of its attempts.
Task == 0
Path == {Task} \cup 1..(MaxRetries + 1)

Build == [cause : Run, state : {"queued", "running", "done"}, result : Result \cup {"none"}]

Hook == [phase : {"STARTED", "FINALIZED"}, build : 1..MaxBuilds]

Tracker == [pc   : {"off", "claimed", "trigger", "resolve", "mark", "poll", "over"},
            item : 0..MaxBuilds,              \* the queue item, 0 for none
            build : BuildNo,                  \* the number it resolved to
            tries : 0..TriggerRetries]        \* request.retries of the trigger task

Untracked == [pc |-> "off", item |-> 0, build |-> 0, tries |-> 0]

(***************************************************************************)
(* Types of the tables, of the paths' local state and of Jenkins.          *)
(***************************************************************************)
TypeOK ==
    /\ StoreTypeOK
    /\ tracker \in [Path -> [Run -> Tracker]]
    /\ DOMAIN builds \subseteq 1..MaxBuilds
    /\ builds \in [DOMAIN builds -> Build]
    /\ hooks \subseteq Hook
    /\ earlier \in [Run -> SUBSET Run]

Init ==
    /\ StoreInit
    /\ tracker = [p \in Path |-> [r \in Run |-> Untracked]]
    /\ builds = [n \in {} |-> {}]
    /\ hooks = {}
    /\ earlier = [r \in Run |-> {}]

At(p, r, pc)   == tracker[p][r].pc = pc
Goto(p, r, pc) == tracker' = [tracker EXCEPT ![p][r].pc = pc]

Exec(r) == run[r].retries + 1         \* the execution of the current attempt

Finished(r) == run[r].status \in TerminalStatus

(***************************************************************************)
(* started_at becomes now: every other run was started before r, or has    *)
(* not been started.                                                       *)
(***************************************************************************)
StampStart(r) ==
    earlier' = [q \in Run |-> IF q = r THEN Run \ {r} ELSE earlier[q] \ {r}]

MarkStarted(r, b) == OnBuildStarted(r, b) /\ StampStart(r)
MarkCompleted(r, res) == OnBuildCompleted(r, res) /\ UNCHANGED earlier

-----------------------------------------------------------------------------
(* Submission and the tick *)

Submit(r) ==
    /\ SchedulePipeline(r)
    /\ IF r \in Celery THEN Goto(Task, r, "trigger") ELSE UNCHANGED tracker
    /\ UNCHANGED <<builds, hooks, earlier>>

Claiming == \E r \in Run : At(Exec(r), r, "claimed")

(***************************************************************************)
(* Bound: a run that is queued again by the recovery waits until the       *)
(* execution of the same attempt is over.  That two never run at the same  *)
(* time is AtMostOneExecution of Scheduler.                                *)
(***************************************************************************)
Claim(r) ==
    /\ run[r].status = "QUEUED"
    /\ ~Claiming
    /\ At(Exec(r), r, "off") \/ At(Exec(r), r, "over")
    /\ Cardinality(DOMAIN asg) < MaxAsg
    /\ run' = [run EXCEPT ![r].status = "IN_PROGRESS", ![r].started = "recent"]
    /\ StampStart(r)
    /\ Goto(Exec(r), r, "claimed")
    /\ UNCHANGED <<worker, asg, builds, hooks>>

Assign(r) ==
    /\ At(Exec(r), r, "claimed")
    /\ \E w \in BestWorkers(r), a \in AsgId : AssignWorker(r, w, worker[w].load, a)
    /\ Goto(Exec(r), r, "trigger")
    /\ UNCHANGED <<run, builds, hooks, earlier>>

Revert(r) ==
    /\ At(Exec(r), r, "claimed")
    /\ IdleWorkers = {}
    /\ run' = [run EXCEPT ![r].status = "QUEUED", ![r].started = "null"]
    /\ Goto(Exec(r), r, "off")
    /\ UNCHANGED <<worker, asg, builds, hooks, earlier>>

Tick == \E r \in Run : Claim(r) \/ Assign(r) \/ Revert(r)

(***************************************************************************)
(* The retry phase at the end of a tick: it arms the backoff of a failed   *)
(* run, or queues the run again when the backoff has elapsed.  The build   *)
(* of the failed attempt stays with the run.  (Scheduler has its read and  *)
(* its write apart, and the retry endpoint.)                               *)
(***************************************************************************)
Retryable(r) == run[r].status = "FAILED" /\ run[r].retries < MaxRetries

ArmRetry(r) ==
    /\ ~Claiming
    /\ Retryable(r) /\ run[r].backoff = "null"
    /\ run' = [run EXCEPT ![r].backoff = "waiting"]
    /\ UNCHANGED <<worker, asg, tracker, builds, hooks, earlier>>

BackoffElapses(r) ==
    /\ run[r].backoff = "waiting"
    /\ run' = [run EXCEPT ![r].backoff = "due"]
    /\ UNCHANGED <<worker, asg, tracker, builds, hooks, earlier>>

Retry(r) ==
    /\ ~Claiming
    /\ Retryable(r) /\ run[r].backoff = "due"
    /\ run' = [run EXCEPT ![r].status = "QUEUED", ![r].started = "null",
                          ![r].backoff = "null", ![r].retries = @ + 1]
    /\ UNCHANGED <<worker, asg, tracker, builds, hooks, earlier>>

RetryPhase(r) == ArmRetry(r) \/ Retry(r)

-----------------------------------------------------------------------------
(* The recovery at the start of a tick *)

Recover ==
    /\ ~Claiming
    /\ RecoverStaleWorkers
    /\ UNCHANGED <<tracker, builds, hooks, earlier>>

(***************************************************************************)
(* Nothing refreshes the heartbeat of a worker; it expires at the latest   *)
(* when no execution of a run it was given to is alive.                    *)
(***************************************************************************)
Serving(w) == \E a \in OpenOn(w) : \E p \in Path \ {Task} :
                tracker[p][asg[a].run].pc \notin {"off", "claimed", "over"}

HeartbeatExpires(w) ==
    /\ worker[w].status = "BUSY" /\ ~worker[w].stale /\ ~Serving(w)
    /\ worker' = [worker EXCEPT ![w].stale = TRUE]
    /\ UNCHANGED <<run, asg, tracker, builds, hooks, earlier>>

-----------------------------------------------------------------------------
(* Both paths: _trigger_jenkins, on_build_started, _sync_stages *)

(***************************************************************************)
(* Jenkins accepts the build.  It merges a request with an identical one   *)
(* that is still in its queue.                                             *)
(***************************************************************************)
Trigger(p, r) ==
    /\ At(p, r, "trigger")
    /\ \E n \in 1..MaxBuilds :
         /\ \/ /\ n \notin DOMAIN builds
               /\ \A m \in 1..MaxBuilds : m < n => m \in DOMAIN builds
               /\ builds' = [m \in DOMAIN builds \cup {n} |->
                               IF m = n THEN [cause |-> r, state |-> "queued", result |-> "none"]
                                        ELSE builds[m]]
            \/ /\ n \in DOMAIN builds
               /\ builds[n].cause = r /\ builds[n].state = "queued"
               /\ UNCHANGED builds
         /\ tracker' = [tracker EXCEPT ![p][r].pc = "resolve", ![p][r].item = n]
    /\ UNCHANGED <<storeVars, hooks, earlier>>

(***************************************************************************)
(* The queue item has become a build, or a minute has gone by: number 0.   *)
(***************************************************************************)
ResolveQueueItem(p, r) ==
    /\ At(p, r, "resolve")
    /\ \E b \in {0, tracker[p][r].item} :
         /\ b # 0 => builds[b].state # "queued"
         /\ tracker' = [tracker EXCEPT ![p][r].pc = "mark", ![p][r].build = b]
    /\ UNCHANGED <<storeVars, builds, hooks, earlier>>

Mark(p, r) ==
    /\ At(p, r, "mark")
    /\ MarkStarted(r, tracker[p][r].build)
    /\ Goto(p, r, "poll")
    /\ UNCHANGED <<builds, hooks>>

(***************************************************************************)
(* A poll that sees the end of the build.  Other polls change nothing; a   *)
(* run without a build number polls the Jenkins root and never sees one.   *)
(***************************************************************************)
SyncStages(p, r) ==
    /\ At(p, r, "poll")
    /\ tracker[p][r].build # 0
    /\ builds[tracker[p][r].build].state = "done"
    /\ MarkCompleted(r, builds[tracker[p][r].build].result)
    /\ Goto(p, r, "over")
    /\ UNCHANGED <<builds, hooks>>

-----------------------------------------------------------------------------
(* The execution: _run_execution *)

(***************************************************************************)
(* Jenkins refuses the trigger, or the connection breaks while the queue   *)
(* item is resolved.                                                       *)
(***************************************************************************)
ExecTriggerFails(p, r) ==
    /\ At(p, r, "trigger") \/ At(p, r, "resolve")
    /\ MarkCompleted(r, "FAILURE")
    /\ Goto(p, r, "over")
    /\ UNCHANGED <<builds, hooks>>

\* Mutant of ExecExhausted: the run is left as it is.
ExecExhausted_Silent(p, r) ==
    /\ At(p, r, "poll")
    /\ Goto(p, r, "over")
    /\ UNCHANGED <<storeVars, earlier, builds, hooks>>

ExecExhausted(p, r) ==
    /\ At(p, r, "poll")
    /\ IF run[r].status = "IN_PROGRESS"
       THEN MarkCompleted(r, "FAILURE")
       ELSE UNCHANGED <<storeVars, earlier>>
    /\ Goto(p, r, "over")
    /\ UNCHANGED <<builds, hooks>>

-----------------------------------------------------------------------------
(* The Celery tasks: trigger_jenkins_build, poll_pipeline_stages *)

(***************************************************************************)
(* A failed attempt starts over, with a trigger of its own.                *)
(***************************************************************************)
TaskRetries(r) ==
    /\ At(Task, r, "trigger") \/ At(Task, r, "resolve") \/ At(Task, r, "mark")
    /\ tracker[Task][r].tries < TriggerRetries
    /\ tracker' = [tracker EXCEPT ![Task][r].pc = "trigger", ![Task][r].tries = @ + 1]
    /\ UNCHANGED <<storeVars, builds, hooks, earlier>>

FinalizeExhaustedPoll(r, res) ==
    IF Finished(r) THEN UNCHANGED <<storeVars, earlier>> ELSE MarkCompleted(r, res)

TaskTriggerFails(r) ==
    /\ At(Task, r, "trigger") \/ At(Task, r, "resolve") \/ At(Task, r, "mark")
    /\ tracker[Task][r].tries = TriggerRetries
    /\ FinalizeExhaustedPoll(r, "ABORTED")
    /\ Goto(Task, r, "over")
    /\ UNCHANGED <<builds, hooks>>

(***************************************************************************)
(* The last poll raises: the run is finalised.  The last poll finds the    *)
(* build not done: the task ends without a word.                           *)
(***************************************************************************)
TaskPollFails(r) ==
    /\ At(Task, r, "poll")
    /\ FinalizeExhaustedPoll(r, IF tracker[Task][r].build = 0 THEN "ABORTED" ELSE "FAILURE")
    /\ Goto(Task, r, "over")
    /\ UNCHANGED <<builds, hooks>>

TaskExhausted(r) ==
    /\ At(Task, r, "poll")
    /\ Goto(Task, r, "over")
    /\ UNCHANGED <<storeVars, builds, hooks, earlier>>

Follow(p, r) ==
    \/ Trigger(p, r) \/ ResolveQueueItem(p, r) \/ Mark(p, r) \/ SyncStages(p, r)
    \/ p # Task /\ (ExecTriggerFails(p, r) \/ ExecExhausted(p, r))
    \/ p = Task /\ (\/ TaskRetries(r) \/ TaskTriggerFails(r)
                    \/ TaskPollFails(r) \/ TaskExhausted(r))

-----------------------------------------------------------------------------
(* Jenkins and its webhooks *)

BuildStarts(n) ==
    /\ builds[n].state = "queued"
    /\ builds' = [builds EXCEPT ![n].state = "running"]
    /\ hooks' = hooks \cup {[phase |-> "STARTED", build |-> n]}
    /\ UNCHANGED <<storeVars, tracker, earlier>>

BuildEnds(n, res) ==
    /\ builds[n].state = "running"
    /\ builds' = [builds EXCEPT ![n].state = "done", ![n].result = res]
    /\ hooks' = hooks \cup {[phase |-> "FINALIZED", build |-> n]}
    /\ UNCHANGED <<storeVars, tracker, earlier>>

\* Mutant of Unlinked: the job is not compared.
Unlinked_AnyJob(j) ==
    {r \in Run : run[r].status = "IN_PROGRESS" /\ run[r].build = NoBuild}

(***************************************************************************)
(* Runs of a job that are in progress and know of no build.                *)
(***************************************************************************)
Unlinked(j) ==
    {r \in Run : JobOf[r] = j /\ run[r].status = "IN_PROGRESS" /\ run[r].build = NoBuild}

JobOfBuild(n) == JobOf[builds[n].cause]

\* Whether r is the one of S that was started last.
Latest(S, r) == r \in S /\ S \ {r} \subseteq earlier[r]

(***************************************************************************)
(* STARTED: the build is given to the most recent unlinked run of the job. *)
(***************************************************************************)
HandleBuildStarted(n) ==
    IF Unlinked(JobOfBuild(n)) = {} THEN UNCHANGED <<storeVars, earlier>>
    ELSE \E r \in Run : Latest(Unlinked(JobOfBuild(n)), r) /\ MarkStarted(r, n)

LinkedTo(n) == {r \in Run : JobOf[r] = JobOfBuild(n) /\ run[r].build = n}

(***************************************************************************)
(* FINALIZED: the run with this job and build number is completed.  With   *)
(* two of them the query raises, and that is only logged.                  *)
(***************************************************************************)
HandleBuildCompletion(n) ==
    IF Cardinality(LinkedTo(n)) = 1
    THEN \E r \in LinkedTo(n) : MarkCompleted(r, builds[n].result)
    ELSE UNCHANGED <<storeVars, earlier>>

JenkinsWebhook(h) ==
    /\ IF h.phase = "STARTED" THEN HandleBuildStarted(h.build) ELSE HandleBuildCompletion(h.build)
    /\ hooks' = hooks \ {h}
    /\ UNCHANGED <<tracker, builds>>

Jenkins ==
    \/ \E n \in DOMAIN builds : BuildStarts(n) \/ \E res \in Outcome : BuildEnds(n, res)
    \/ \E h \in hooks : JenkinsWebhook(h)

-----------------------------------------------------------------------------
(* Specifications *)

Next ==
    \/ \E r \in Run : Submit(r) \/ RetryPhase(r) \/ BackoffElapses(r)
    \/ \E w \in Worker : HeartbeatExpires(w)
    \/ Tick \/ Recover
    \/ \E p \in Path, r \in Run : Follow(p, r)
    \/ Jenkins

Spec == Init /\ [][Next]_vars

(***************************************************************************)
(* The loop ticks every five seconds and each tick has its recovery and    *)
(* its retry phase, before and after the claims; backoffs and heartbeats   *)
(* run out; an execution polls 120 times and a task 60 times.  Nothing is  *)
(* assumed of Jenkins: builds may hang and webhooks may never arrive.      *)
(***************************************************************************)
LiveSpec ==
    /\ Spec
    /\ WF_vars(Tick) /\ SF_vars(Recover)
    /\ \A w \in Worker : WF_vars(HeartbeatExpires(w))
    /\ \A r \in Run : SF_vars(RetryPhase(r)) /\ WF_vars(BackoffElapses(r))
    /\ \A p \in Path, r \in Run : WF_vars(Follow(p, r))

-----------------------------------------------------------------------------
(* Properties *)

(***************************************************************************)
(* A run is linked to a build that was triggered for it: neither the       *)
(* webhook nor the two paths give it the build of another run.             *)
(***************************************************************************)
LinkedToOwn ==
    \A r \in Run : run[r].build \in DOMAIN builds => builds[run[r].build].cause = r

(***************************************************************************)
(* A run that is reported COMPLETED has a successful build of its own.     *)
(***************************************************************************)
SuccessIsOwn ==
    \A r \in Run : run[r].status = "COMPLETED"
      => \E n \in DOMAIN builds : builds[n].cause = r /\ builds[n].result = "SUCCESS"

(***************************************************************************)
(* A run that ends at its first attempt holds no worker, whichever path    *)
(* finished it, unless its execution has yet to start the build it was     *)
(* given the worker for.  (Of a retried run release_worker may close the   *)
(* row of an earlier attempt instead.)                                     *)
(***************************************************************************)
FirstAttempt(r) == run[r].retries = 0

NoWorkerLeftBehind ==
    \A r \in Run : FirstAttempt(r) /\ Finished(r) /\ OpenOf(r) # {}
      => \E pc \in {"trigger", "resolve", "mark"} : At(Exec(r), r, pc)

(***************************************************************************)
(* Every queued run ends, and for good, with its retries used up if it     *)
(* failed, whatever Jenkins does, however many webhooks arrive late or     *)
(* never, and also when an earlier attempt interferes with a later one.    *)
(***************************************************************************)
RunEnds ==
    \A r \in Run : run[r].status = "QUEUED" ~> [](Finished(r) /\ ~Retryable(r))
=============================================================================
