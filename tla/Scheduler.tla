----------------------------- MODULE Scheduler -----------------------------
(***************************************************************************)
(* The scheduler (app/scheduler.py): ticks that claim queued runs, pair    *)
(* them with workers and dispatch them, the executions they start, the     *)
(* automatic retry at the end of a tick, and the API calls that write the  *)
(* same rows (app/routers/jobs.py, ui.py, workers.py).                     *)
(*                                                                         *)
(* Two kinds of ticker run the same code: the loop inside the web process, *)
(* which dispatches to daemon threads, and Celery beat, which dispatches   *)
(* tasks.  A tick is a sequence of short transactions; everything else may *)
(* run between any two of them.                                            *)
(***************************************************************************)
EXTENDS PipelineStore, FiniteSets

CONSTANTS Ticker,       \* processes that run ticks
          Threaded,     \* those inside the web process
          NoWorker,     \* a tick has picked no worker
          Rank,         \* place of a run in the order of the queue query
          MaxExec,      \* MAX_CONCURRENT_EXECUTIONS
          MaxEvents     \* bound: deaths, timeouts of what is alive, API requests

ASSUME SchedulerAssumption ==
    /\ IsFiniteSet(Run)
    /\ Threaded \subseteq Ticker
    /\ \A t, u \in Threaded : t = u
    /\ NoWorker \notin Worker
    /\ Rank \in [Run -> Nat]
    /\ \A q, r \in Run : Rank[q] = Rank[r] => q = r
    /\ MaxExec \in Nat \ {0}
    /\ MaxEvents \in Nat

VARIABLES tick,      \* what each ticker is doing
          exec,      \* live executions, by the assignment they were started with
          requests,  \* API requests between their read and their write
          events     \* of the events MaxEvents bounds, how many have happened

vars == <<run, worker, asg, tick, exec, requests, events>>

-----------------------------------------------------------------------------
(* State *)

Failure == [run : Run, retries : Nat, backoff : {"null", "waiting", "due"}]

TickState ==
    [pc   : {"idle", "select", "claim", "pick", "assign", "revert", "scan", "retry"},
     todo : SUBSET Run,               \* queued_runs not processed yet
     pick : Worker \cup {NoWorker},   \* the worker read as IDLE
     load : 0..2,                     \* and its load at that read
     snap : SUBSET Failure]           \* FAILED rows read by the retry phase

Execution == [run : Run, pc : {"trigger", "poll"}, build : BuildNo \cup {NoBuild},
              threaded : BOOLEAN]

Request == [op : {"cancel"}, run : Run, seen : {"QUEUED", "IN_PROGRESS"}]
             \cup [op : {"retry"}, run : Run, seen : Nat]

(***************************************************************************)
(* Types of the tables, of the ticks' and executions' local state and of   *)
(* the requests in flight.                                                 *)
(***************************************************************************)
TypeOK ==
    /\ StoreTypeOK
    /\ tick \in [Ticker -> TickState]
    /\ DOMAIN exec \subseteq AsgId
    /\ exec \in [DOMAIN exec -> Execution]
    /\ requests \subseteq Request
    /\ events \in 0..MaxEvents

Event == events < MaxEvents /\ events' = events + 1

TickAt(pc, todo, snap) ==
    [pc |-> pc, todo |-> todo, pick |-> NoWorker, load |-> 0, snap |-> snap]

IdleTick == TickAt("idle", {}, {})

Init ==
    /\ StoreInit
    /\ tick = [t \in Ticker |-> IdleTick]
    /\ exec = [a \in {} |-> {}]
    /\ requests = {}
    /\ events = 0

-----------------------------------------------------------------------------
(* Ticks: _scheduler_tick_async *)

ActiveThreads == {a \in DOMAIN exec : exec[a].threaded}

At(t, pc) == tick[t].pc = pc

(***************************************************************************)
(* SELECT ... WHERE status = QUEUED ORDER BY ... LIMIT MaxExec: a batch,   *)
(* worked off in the same order.                                           *)
(***************************************************************************)
Queued == {r \in Run : run[r].status = "QUEUED"}

IsBatch(S) ==
    /\ Cardinality(S) <= MaxExec
    /\ Cardinality(S) = MaxExec \/ S = Queued
    /\ \A r \in S : \A q \in Queued \ S : Rank[r] <= Rank[q]

Current(t, r) == r \in tick[t].todo /\ \A q \in tick[t].todo : Rank[r] <= Rank[q]

\* Mutant of TickRecover: off by one in the cap.
TickRecover_OffByOne(t) ==
    /\ At(t, "idle")
    /\ t \in Threaded => Cardinality(ActiveThreads) <= MaxExec
    /\ RecoverStaleWorkers
    /\ tick' = [tick EXCEPT ![t].pc = "select"]
    /\ UNCHANGED <<exec, requests, events>>

(***************************************************************************)
(* The in-process loop does nothing at all while enough of its threads are *)
(* alive; otherwise every tick starts with the recovery.                   *)
(***************************************************************************)
TickRecover(t) ==
    /\ At(t, "idle")
    /\ t \in Threaded => Cardinality(ActiveThreads) < MaxExec
    /\ RecoverStaleWorkers
    /\ tick' = [tick EXCEPT ![t].pc = "select"]
    /\ UNCHANGED <<exec, requests, events>>

(***************************************************************************)
(* The bound on assignment rows: a tick that might run out of ids takes    *)
(* up no runs.                                                             *)
(***************************************************************************)
Room == Cardinality(DOMAIN asg) + MaxExec * Cardinality(Ticker) <= MaxAsg

TickSelect(t) ==
    /\ At(t, "select")
    /\ \E S \in SUBSET Queued :
         /\ IF Room THEN IsBatch(S) ELSE S = {}
         /\ tick' = [tick EXCEPT ![t] = TickAt(IF S = {} THEN "scan" ELSE "claim", S, {})]
    /\ UNCHANGED <<storeVars, exec, requests, events>>

(***************************************************************************)
(* Control moves past run r: to the next one, or to the retry phase.       *)
(***************************************************************************)
DoneWith(t, r) ==
    tick' = [tick EXCEPT ![t] = TickAt(IF tick[t].todo = {r} THEN "scan" ELSE "claim",
                                       tick[t].todo \ {r}, {})]

\* Mutant of TickClaim: the update is guarded by the id only.
TickClaim_Unguarded(t, r) ==
    /\ At(t, "claim")
    /\ Current(t, r)
    /\ run' = [run EXCEPT ![r].status = "IN_PROGRESS", ![r].started = "recent"]
    /\ tick' = [tick EXCEPT ![t].pc = "pick"]
    /\ UNCHANGED <<worker, asg, exec, requests, events>>

(***************************************************************************)
(* UPDATE ... SET status = IN_PROGRESS WHERE id = r AND status = QUEUED    *)
(***************************************************************************)
TickClaim(t, r) ==
    /\ At(t, "claim")
    /\ Current(t, r)
    /\ run[r].status = "QUEUED"
    /\ run' = [run EXCEPT ![r].status = "IN_PROGRESS", ![r].started = "recent"]
    /\ tick' = [tick EXCEPT ![t].pc = "pick"]
    /\ UNCHANGED <<worker, asg, exec, requests, events>>

TickSkip(t, r) ==
    /\ At(t, "claim")
    /\ Current(t, r)
    /\ run[r].status # "QUEUED"
    /\ DoneWith(t, r)
    /\ UNCHANGED <<storeVars, exec, requests, events>>

TickPick(t, r) ==
    /\ At(t, "pick")
    /\ Current(t, r)
    /\ \/ \E w \in BestWorkers(r) :
            tick' = [tick EXCEPT ![t].pc = "assign",
                                 ![t].pick = w,
                                 ![t].load = worker[w].load]
       \/ /\ IdleWorkers = {}
          /\ tick' = [tick EXCEPT ![t].pc = "revert"]
    /\ UNCHANGED <<storeVars, exec, requests, events>>

(***************************************************************************)
(* The worker and the assignment row are committed and the execution is    *)
(* dispatched, to a daemon thread or through Celery.  The row's id names   *)
(* the execution.                                                          *)
(***************************************************************************)
TickAssign(t, r) ==
    /\ At(t, "assign")
    /\ Current(t, r)
    /\ \E a \in AsgId :
         /\ AssignWorker(r, tick[t].pick, tick[t].load, a)
         /\ exec' = [e \in DOMAIN exec \cup {a} |->
                       IF e = a
                       THEN [run |-> r, pc |-> "trigger", build |-> NoBuild,
                             threaded |-> t \in Threaded]
                       ELSE exec[e]]
    /\ DoneWith(t, r)
    /\ UNCHANGED <<run, requests, events>>

(***************************************************************************)
(* UPDATE ... SET status = QUEUED WHERE id = r, whatever happened to the   *)
(* run since the claim.                                                    *)
(***************************************************************************)
TickRevert(t, r) ==
    /\ At(t, "revert")
    /\ Current(t, r)
    /\ run' = [run EXCEPT ![r].status = "QUEUED", ![r].started = "null"]
    /\ DoneWith(t, r)
    /\ UNCHANGED <<worker, asg, exec, requests, events>>

\* Mutant of Retryable: one retry too many.
Retryable_OffByOne(r) == run[r].status = "FAILED" /\ run[r].retries <= MaxRetries

(***************************************************************************)
(* The retry phase: reads the FAILED rows that have retries left, then     *)
(* writes what it computed from them.                                      *)
(***************************************************************************)
Retryable(r) == run[r].status = "FAILED" /\ run[r].retries < MaxRetries

FailureOf(r) == [run |-> r, retries |-> run[r].retries, backoff |-> run[r].backoff]

TickScan(t) ==
    /\ At(t, "scan")
    /\ tick' = [tick EXCEPT ![t] =
                  TickAt("retry", {}, {FailureOf(r) : r \in {q \in Run : Retryable(q)}})]
    /\ UNCHANGED <<storeVars, exec, requests, events>>

\* Mutant of Requeued: the attempt is not counted.
Requeued_NotCounted(r, seenRetries) ==
    [run[r] EXCEPT !.status = "QUEUED", !.started = "null", !.backoff = "null"]

Requeued(r, seenRetries) ==
    [run[r] EXCEPT !.status = "QUEUED", !.started = "null", !.backoff = "null",
                   !.retries = seenRetries + 1]

Rewritten(f) ==
    CASE f.backoff = "null"    -> [run[f.run] EXCEPT !.backoff = "waiting"]
      [] f.backoff = "waiting" -> run[f.run]
      [] f.backoff = "due"     -> Requeued(f.run, f.retries)

TickRetry(t) ==
    /\ At(t, "retry")
    /\ run' = [r \in Run |->
                 IF \E f \in tick[t].snap : f.run = r
                 THEN Rewritten(CHOOSE f \in tick[t].snap : f.run = r)
                 ELSE run[r]]
    /\ tick' = [tick EXCEPT ![t] = IdleTick]
    /\ UNCHANGED <<worker, asg, exec, requests, events>>

TickStep(t) ==
    \/ TickRecover(t) \/ TickSelect(t) \/ TickScan(t) \/ TickRetry(t)
    \/ \E r \in Run : \/ TickClaim(t, r)  \/ TickSkip(t, r) \/ TickPick(t, r)
                      \/ TickAssign(t, r) \/ TickRevert(t, r)

-----------------------------------------------------------------------------
(* Executions: _run_execution *)

EndExec(a) == exec' = [e \in DOMAIN exec \ {a} |-> exec[e]]

(***************************************************************************)
(* No job name, or Jenkins refuses the trigger.                            *)
(***************************************************************************)
ExecTriggerFails(a) ==
    /\ exec[a].pc = "trigger"
    /\ OnBuildCompleted(exec[a].run, "FAILURE")
    /\ EndExec(a)
    /\ UNCHANGED <<tick, requests, events>>

ExecStarted(a, b) ==
    /\ exec[a].pc = "trigger"
    /\ OnBuildStarted(exec[a].run, b)
    /\ exec' = [exec EXCEPT ![a].pc = "poll", ![a].build = b]
    /\ UNCHANGED <<tick, requests, events>>

(***************************************************************************)
(* A poll sees the build finished.  Build 0 is polled at the Jenkins root  *)
(* and never finishes.                                                     *)
(***************************************************************************)
ExecFinished(a, res) ==
    /\ exec[a].pc = "poll"
    /\ exec[a].build # 0
    /\ OnBuildCompleted(exec[a].run, res)
    /\ EndExec(a)
    /\ UNCHANGED <<tick, requests, events>>

(***************************************************************************)
(* 120 polls without an end: FAILURE, if the run is still IN_PROGRESS.     *)
(***************************************************************************)
ExecExhausted(a) ==
    /\ exec[a].pc = "poll"
    /\ IF run[exec[a].run].status = "IN_PROGRESS"
       THEN OnBuildCompleted(exec[a].run, "FAILURE")
       ELSE UNCHANGED storeVars
    /\ EndExec(a)
    /\ UNCHANGED <<tick, requests, events>>

ExecStep(a) ==
    \/ ExecTriggerFails(a)
    \/ \E b \in BuildNo : ExecStarted(a, b)
    \/ \E res \in Result : ExecFinished(a, res)
    \/ ExecExhausted(a)

-----------------------------------------------------------------------------
(* Requests: schedule_pipeline, cancel_run, retry_run, recover_all_workers *)

Submit(r) ==
    /\ SchedulePipeline(r)
    /\ UNCHANGED <<tick, exec, requests, events>>

Receive(q) ==
    /\ Event
    /\ requests' = requests \cup {q}
    /\ UNCHANGED <<storeVars, tick, exec>>

CancelRead(r) ==
    /\ run[r].status \in {"QUEUED", "IN_PROGRESS"}
    /\ Receive([op |-> "cancel", run |-> r, seen |-> run[r].status])

(***************************************************************************)
(* An active run is finalised as if Jenkins had reported ABORTED; a queued *)
(* one is set to ABORTED by an update guarded by nothing but the id.       *)
(***************************************************************************)
CancelWrite(q) ==
    /\ q.op = "cancel"
    /\ IF q.seen = "IN_PROGRESS"
       THEN OnBuildCompleted(q.run, "ABORTED")
       ELSE run' = [run EXCEPT ![q.run].status = "ABORTED"] /\ UNCHANGED <<worker, asg>>
    /\ requests' = requests \ {q}
    /\ UNCHANGED <<tick, exec, events>>

RetryRead(r) ==
    /\ Retryable(r)
    /\ Receive([op |-> "retry", run |-> r, seen |-> run[r].retries])

RetryWrite(q) ==
    /\ q.op = "retry"
    /\ run' = [run EXCEPT ![q.run] = Requeued(q.run, q.seen)]
    /\ requests' = requests \ {q}
    /\ UNCHANGED <<worker, asg, tick, exec, events>>

BulkRecover ==
    /\ Event
    /\ RecoverStaleWorkers
    /\ UNCHANGED <<tick, exec, requests>>

RequestStep ==
    \/ \E r \in Run : CancelRead(r) \/ RetryRead(r)
    \/ \E q \in requests : CancelWrite(q) \/ RetryWrite(q)
    \/ BulkRecover

-----------------------------------------------------------------------------
(* Time, deaths and operators *)

BackoffElapses(r) ==
    /\ run[r].backoff = "waiting"
    /\ run' = [run EXCEPT ![r].backoff = "due"]
    /\ UNCHANGED <<worker, asg, tick, exec, requests, events>>

(***************************************************************************)
(* Timeouts.  Nothing refreshes a heartbeat while an execution polls, so   *)
(* it can expire on one that is still alive: that counts as an event.  On  *)
(* one that is gone it is only a matter of time.  A tick works on a run    *)
(* for seconds, far less than the timeout.                                 *)
(***************************************************************************)
HeartbeatAges(w) ==
    /\ worker[w].status = "BUSY" /\ ~worker[w].stale
    /\ worker' = [worker EXCEPT ![w].stale = TRUE]
    /\ UNCHANGED <<run, asg, tick, exec, requests>>

Working(t, r) == tick[t].pc \in {"pick", "assign", "revert"} /\ Current(t, r)

StartAges(r) ==
    /\ run[r].status = "IN_PROGRESS" /\ run[r].started = "recent"
    /\ \A t \in Ticker : ~Working(t, r)
    /\ run' = [run EXCEPT ![r].started = "old"]
    /\ UNCHANGED <<worker, asg, tick, exec, requests>>

Serving(w)   == \E a \in DOMAIN exec \cap Open : asg[a].worker = w
Executing(r) == \E a \in DOMAIN exec : exec[a].run = r

(***************************************************************************)
(* An execution is lost: its thread dies with the process, or its Celery   *)
(* task never runs.  A tick ends early: its process dies or a statement    *)
(* raises.                                                                 *)
(***************************************************************************)
ExecDies(a) ==
    /\ Event
    /\ EndExec(a)
    /\ UNCHANGED <<storeVars, tick, requests>>

TickDies(t) ==
    /\ Event
    /\ ~At(t, "idle")
    /\ tick' = [tick EXCEPT ![t] = IdleTick]
    /\ UNCHANGED <<storeVars, exec, requests>>

Operator(w) ==
    /\ Event
    /\ SetOffline(w) \/ SetOnline(w) \/ ResetWorker(w)
    /\ UNCHANGED <<tick, exec, requests>>

OverdueStep ==
    /\ \/ \E w \in Worker : ~Serving(w) /\ HeartbeatAges(w)
       \/ \E r \in Run : ~Executing(r) /\ StartAges(r)
    /\ UNCHANGED events

PrematureStep ==
    /\ Event
    /\ \/ \E w \in Worker : Serving(w) /\ HeartbeatAges(w)
       \/ \E r \in Run : Executing(r) /\ StartAges(r)

DeathStep == (\E a \in DOMAIN exec : ExecDies(a)) \/ (\E t \in Ticker : TickDies(t))
OperatorStep == \E w \in Worker : Operator(w)

-----------------------------------------------------------------------------
(* Specifications *)

(***************************************************************************)
(* Ticks and executions, when nobody intervenes and nothing is lost; with  *)
(* deaths and the timeouts that notice them; with everything.              *)
(***************************************************************************)
QuietNext ==
    \/ \E r \in Run : Submit(r) \/ BackoffElapses(r)
    \/ \E t \in Ticker : TickStep(t)
    \/ \E a \in DOMAIN exec : ExecStep(a)

MortalNext == QuietNext \/ OverdueStep \/ DeathStep

Next == MortalNext \/ PrematureStep \/ RequestStep \/ OperatorStep

Spec       == Init /\ [][Next]_vars
MortalSpec == Init /\ [][MortalNext]_vars

(***************************************************************************)
(* Losses the recovery is meant for: any but that of a tick that has       *)
(* claimed a run which still carries a build, because it was retried or    *)
(* recovered after Jenkins had acknowledged it (see GhostIsRecoverable).   *)
(***************************************************************************)
RecoverableDeath ==
    /\ DeathStep
    /\ \A t \in Ticker, r \in Run :
         Working(t, r) /\ run[r].build # NoBuild => tick'[t] = tick[t]

RecoverableNext == QuietNext \/ OverdueStep \/ RecoverableDeath

(***************************************************************************)
(* The loop ticks every five seconds and an execution polls a bounded      *)
(* number of times; time passes.                                           *)
(***************************************************************************)
Fairness ==
    /\ \A t \in Ticker : WF_vars(TickStep(t))
    /\ \A a \in AsgId : WF_vars(a \in DOMAIN exec /\ ExecStep(a))
    /\ \A r \in Run : WF_vars(BackoffElapses(r))
    /\ WF_vars(OverdueStep)

LiveSpec == Init /\ [][RecoverableNext]_vars /\ Fairness

-----------------------------------------------------------------------------
(* Safety, whatever happens *)

(***************************************************************************)
(* A worker is never BUSY for nothing: some assignment of it is open, so   *)
(* both recovery phases and the completion of its run can still reach it.  *)
(* (assign_worker and every transaction that closes assignments)           *)
(***************************************************************************)
BusyHasOpenAssignment == \A w \in Worker : worker[w].status = "BUSY" => OpenOn(w) # {}

(***************************************************************************)
(* No run counts more retries than max_retries allows, although the retry  *)
(* phase and the retry endpoint write counters they read earlier.          *)
(***************************************************************************)
RetryBudget == \A r \in Run : run[r].retries <= MaxRetries

(***************************************************************************)
(* The cap on execution threads is checked once, before a tick that may    *)
(* start MaxExec of them: this is the bound the code does guarantee.       *)
(***************************************************************************)
ThreadBound == Cardinality(ActiveThreads) <= 2 * MaxExec - 1

-----------------------------------------------------------------------------
(* Safety of the claim and of the pairing with workers *)

(***************************************************************************)
(* The first attempt at a run, of one run or of all.  A retry may be       *)
(* written from an old read, and release_worker may leave the assignment   *)
(* of a retried run open, which the recovery then takes for a lost one:    *)
(* what follows is not promised to later attempts.                         *)
(***************************************************************************)
FirstAttempt(r) == run[r].retries = 0
NoneRetried == \A r \in Run : FirstAttempt(r)

(***************************************************************************)
(* The atomic claim: the first attempt at a run is in the hands of at most *)
(* one tick or execution, so it never runs twice at a time, whatever dies  *)
(* and is recovered.                                                       *)
(***************************************************************************)
AtMostOneExecution ==
    \A r \in Run : FirstAttempt(r) =>
        /\ \A a, b \in DOMAIN exec : exec[a].run = r /\ exec[b].run = r => a = b
        /\ \A t, u \in Ticker : Working(t, r) /\ Working(u, r) => t = u
        /\ \A t \in Ticker : Working(t, r) => ~Executing(r)

(***************************************************************************)
(* As long as nothing is retried two executions never share a worker: the  *)
(* worker assign_worker read as IDLE is still free when it is written, and *)
(* neither a completion nor a recovery frees one that is at work.          *)
(***************************************************************************)
OneRunPerWorker ==
    NoneRetried =>
        \A a, b \in DOMAIN exec \cap Open : asg[a].worker = asg[b].worker => a = b

(***************************************************************************)
(* A run that is IN_PROGRESS with nobody working on it and no worker held  *)
(* for it is one phase 2 of the recovery will pick up: Jenkins never       *)
(* acknowledged it.                                                        *)
(***************************************************************************)
Ghost(r) ==
    /\ run[r].status = "IN_PROGRESS"
    /\ ~Executing(r)
    /\ \A t \in Ticker : ~Working(t, r)
    /\ \A a \in OpenOf(r) : worker[asg[a].worker].status # "BUSY"

GhostIsRecoverable == \A r \in Run : Ghost(r) => run[r].build = NoBuild

(***************************************************************************)
(* A cancel sticks unless somebody already had the run in hand when it was *)
(* cancelled: a tick past its claim, an execution, or a retry that had     *)
(* read the run as FAILED.  A batch read before the cancel, a recovery and *)
(* a worker reset must all leave the aborted run alone.                    *)
(* (cancel_run against on_build_started, the claim and the retries)        *)
(***************************************************************************)
InHand(r) ==
    \/ Executing(r)
    \/ \E t \in Ticker : Working(t, r) \/ \E f \in tick[t].snap : f.run = r
    \/ \E q \in requests : q.op = "retry" /\ q.run = r

AbortedStays ==
    [][\A r \in Run : run[r].status = "ABORTED" /\ ~InHand(r)
                        => run'[r].status = "ABORTED"]_vars

-----------------------------------------------------------------------------
(* Refinement *)

(***************************************************************************)
(* With one ticker and no API writes, and through deaths and recoveries,   *)
(* the rows move only as the lifecycle allows: a first attempt starts from *)
(* the queue and ends for good, only failures are tried again, and every   *)
(* retry is counted.                                                       *)
(***************************************************************************)
Lifecycle == INSTANCE RunLifecycle WITH
               status <- [r \in Run |-> run[r].status],
               retries <- [r \in Run |-> run[r].retries]

ImplementsLifecycle == Lifecycle!Spec

-----------------------------------------------------------------------------
(* Liveness *)

(***************************************************************************)
(* Every queued run ends for good - finished, aborted, or failed with its  *)
(* retries used up - even when executions and ticks are lost on the way.   *)
(***************************************************************************)
Settled(r) == run[r].status \in TerminalStatus /\ ~Retryable(r)

RunSettles == \A r \in Run : run[r].status = "QUEUED" ~> Settled(r)

(***************************************************************************)
(* A silent BUSY worker is recovered, although the in-process loop skips   *)
(* the recovery while its threads are at the cap.                          *)
(***************************************************************************)
StaleWorkerFreed == \A w \in Worker : w \in StaleWorkers ~> w \notin StaleWorkers
=============================================================================
