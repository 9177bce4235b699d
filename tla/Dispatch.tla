------------------------------ MODULE Dispatch ------------------------------
(***************************************************************************)
(* From a GitHub delivery to a worker: the webhook's background task that  *)
(* enqueues a run, the order in which ticks take runs from the queue, the  *)
(* endpoint that empties the queue, the routing mode, and restarts of the  *)
(* web process, which lose what it holds in memory and rewrite every       *)
(* priority (app/routers/github_webhook.py, app/scheduler.py,              *)
(* app/routers/ui.py, src/main.py).                                        *)
(*                                                                         *)
(* The tables and their transactions are those of PipelineStore.  Scheduler*)
(* models the rest of what can happen to a run: API requests, retries and  *)
(* deaths.  Here a run is also a delivery, and a deleted run is one that   *)
(* was inserted and is ABSENT again; its assignment rows are kept, closed, *)
(* which no query can tell from their absence.                             *)
(***************************************************************************)
EXTENDS PipelineStore, Intake, FiniteSets, Sequences

CONSTANTS Ticker,         \* processes that run ticks
          Web,            \* the one inside the web process, which uses threads
          NoWorker,       \* a tick has picked no worker
          PayloadOf,      \* the GitHub delivery behind a run
          RepoOf,         \* its repository
          AllowSynthetic, \* ALLOW_SYNTHETIC_PIPELINE_STAGES
          MaxExec,        \* MAX_CONCURRENT_EXECUTIONS
          Outcome,        \* bound: the Jenkins results considered
          MaxUpsets       \* bound: restarts, mode changes and flushes

ASSUME DispatchAssumption ==
    /\ IsFiniteSet(Run) /\ IsFiniteSet(Ticker)
    /\ Web \in Ticker
    /\ NoWorker \notin Worker
    /\ PayloadOf \in [Run -> Payload]
    /\ RepoOf \in [Run -> Repository]
    /\ AllowSynthetic \in BOOLEAN
    /\ MaxExec \in Nat \ {0}
    /\ Outcome \subseteq Result
    /\ MaxUpsets \in Nat

VARIABLES delivery, \* how far each GitHub delivery got
          prio,     \* pipeline_runs.scheduling_priority
          arrived,  \* pipeline_runs.queued_at: its place among the insertions
          mode,     \* _routing_mode, one per process
          tick,     \* what each ticker is doing
          exec,     \* live executions, by the assignment they were started with
          flush,    \* run_ids of the flush in progress
          upsets,   \* of the events MaxUpsets bounds, how many have happened
          passed    \* auxiliary: who was served before whom (see Observe)

ownVars == <<delivery, prio, arrived, mode, tick, exec, flush, upsets>>
vars    == <<storeVars, ownVars, passed>>

-----------------------------------------------------------------------------
(* State *)

Mode == {"FIFO", "Priority", "Load-Balanced"}

TickState == [pc   : {"idle", "select", "claim", "pick", "assign", "revert"},
              todo : Seq(Run),               \* queued_runs not processed yet
              pick : Worker \cup {NoWorker}, \* the worker read as IDLE
              load : 0..2]                   \* and its load at that read

Execution == [run : Run, threaded : BOOLEAN]

(***************************************************************************)
(* Types of the tables, of what the processes hold in memory and of the    *)
(* auxiliary counters.                                                     *)
(***************************************************************************)
TypeOK ==
    /\ StoreTypeOK
    /\ delivery \in [Run -> {"sent", "accepted", "enqueued", "lost"}]
    /\ prio \in [Run -> 1..6]
    /\ arrived \in [Run -> Nat]
    /\ mode \in [Ticker -> Mode]
    /\ tick \in [Ticker -> TickState]
    /\ DOMAIN exec \subseteq AsgId
    /\ exec \in [DOMAIN exec -> Execution]
    /\ flush \subseteq Run
    /\ upsets \in 0..MaxUpsets
    /\ passed \in [Ticker -> [Run -> Nat]]

TickAt(pc, todo) == [pc |-> pc, todo |-> todo, pick |-> NoWorker, load |-> 0]

IdleTick == TickAt("idle", <<>>)

Init ==
    /\ StoreInit
    /\ delivery = [r \in Run |-> "sent"]
    /\ prio = [r \in Run |-> 6]
    /\ arrived = [r \in Run |-> 0]
    /\ mode = [t \in Ticker |-> "Priority"]
    /\ tick = [t \in Ticker |-> IdleTick]
    /\ exec = [a \in {} |-> {}]
    /\ flush = {}
    /\ upsets = 0
    /\ passed = [t \in Ticker |-> [r \in Run |-> 0]]

Exists(r)  == run[r].status # "ABSENT"
Deleted(r) == delivery[r] = "enqueued" /\ ~Exists(r)
Queued     == {r \in Run : run[r].status = "QUEUED"}

Upset == upsets < MaxUpsets /\ upsets' = upsets + 1

-----------------------------------------------------------------------------
(* Deliveries: _handle_github_event, then _enqueue_run in the background *)

Accept(r) ==
    /\ delivery[r] = "sent"
    /\ Schedules(PayloadOf[r])
    /\ delivery' = [delivery EXCEPT ![r] = "accepted"]
    /\ UNCHANGED <<storeVars, prio, arrived, mode, tick, exec, flush, upsets>>

Enqueue(r) ==
    /\ delivery[r] = "accepted"
    /\ FetchJenkinsfile(RepoOf[r]) \/ AllowSynthetic
    /\ SchedulePipeline(r)
    /\ delivery' = [delivery EXCEPT ![r] = "enqueued"]
    /\ prio' = [prio EXCEPT ![r] = Calculate(BranchFor(PayloadOf[r]),
                                             FilesFor(PayloadOf[r]))]
    /\ arrived' = [arrived EXCEPT ![r] =
                     1 + Cardinality({q \in Run : delivery[q] = "enqueued"})]
    /\ UNCHANGED <<mode, tick, exec, flush, upsets>>

(***************************************************************************)
(* No stages were found, or the host did not answer, and none may be made  *)
(* up; GitHub has its answer already, so nobody hears of it.               *)
(***************************************************************************)
Refuse(r) ==
    /\ delivery[r] = "accepted"
    /\ ~AllowSynthetic
    /\ delivery' = [delivery EXCEPT ![r] = "lost"]
    /\ UNCHANGED <<storeVars, prio, arrived, mode, tick, exec, flush, upsets>>

-----------------------------------------------------------------------------
(* The queue's order *)

(***************************************************************************)
(* ORDER BY scheduling_priority, queued_at in Priority mode, by queued_at  *)
(* alone in the others.                                                    *)
(***************************************************************************)
Ahead(t, r, q) ==
    \/ mode[t] = "Priority" /\ prio[r] < prio[q]
    \/ (mode[t] = "Priority" => prio[r] = prio[q]) /\ arrived[r] < arrived[q]

Chosen(b) == {b[i] : i \in DOMAIN b}

Batches == UNION {[1..n -> Queued] : n \in 0..MaxExec}

\* Mutant of IsBatch: the query has no ORDER BY.
IsBatch_Unordered(t, b) ==
    /\ \A i, j \in DOMAIN b : i # j => b[i] # b[j]
    /\ Len(b) = MaxExec \/ Chosen(b) = Queued

IsBatch(t, b) ==
    /\ \A i, j \in DOMAIN b : i < j => Ahead(t, b[i], b[j])
    /\ \A i \in DOMAIN b, q \in Queued \ Chosen(b) : Ahead(t, b[i], q)
    /\ Len(b) = MaxExec \/ Chosen(b) = Queued

-----------------------------------------------------------------------------
(* Ticks: _scheduler_tick_async, up to the retry phase *)

At(t, pc) == tick[t].pc = pc
Current(t) == Head(tick[t].todo)
Threads == {a \in DOMAIN exec : exec[a].threaded}

NextRun(t) ==
    LET rest == Tail(tick[t].todo)
    IN  IF rest = <<>> THEN IdleTick ELSE TickAt("claim", rest)

Quiet == UNCHANGED <<delivery, prio, arrived, mode, flush, upsets>>

TickRecover(t) ==
    /\ At(t, "idle")
    /\ t = Web => Cardinality(Threads) < MaxExec
    /\ RecoverStaleWorkers
    /\ tick' = [tick EXCEPT ![t].pc = "select"]
    /\ UNCHANGED exec /\ Quiet

(***************************************************************************)
(* The bound on assignment rows: a tick that might run out of ids takes    *)
(* up no runs.                                                             *)
(***************************************************************************)
Room == Cardinality(DOMAIN asg) + MaxExec * Cardinality(Ticker) <= MaxAsg

TickSelect(t) ==
    /\ At(t, "select")
    /\ \E b \in Batches :
         /\ IF Room THEN IsBatch(t, b) ELSE b = <<>>
         /\ tick' = [tick EXCEPT ![t] = IF b = <<>> THEN IdleTick ELSE TickAt("claim", b)]
    /\ UNCHANGED <<storeVars, exec>> /\ Quiet

TickClaim(t) ==
    /\ At(t, "claim")
    /\ IF run[Current(t)].status = "QUEUED"
       THEN /\ run' = [run EXCEPT ![Current(t)].status = "IN_PROGRESS",
                                  ![Current(t)].started = "recent"]
            /\ tick' = [tick EXCEPT ![t].pc = "pick"]
       ELSE /\ tick' = [tick EXCEPT ![t] = NextRun(t)]
            /\ UNCHANGED run
    /\ UNCHANGED <<worker, asg, exec>> /\ Quiet

TickPick(t) ==
    /\ At(t, "pick")
    /\ \/ \E w \in BestWorkers(Current(t)) :
            tick' = [tick EXCEPT ![t].pc = "assign", ![t].pick = w,
                                 ![t].load = worker[w].load]
       \/ IdleWorkers = {} /\ tick' = [tick EXCEPT ![t].pc = "revert"]
    /\ UNCHANGED <<storeVars, exec>> /\ Quiet

(***************************************************************************)
(* The assignment row refers to the run: if a flush has deleted the run    *)
(* since the claim, the commit fails and the exception ends the tick.      *)
(***************************************************************************)
TickAssign(t) ==
    /\ At(t, "assign")
    /\ IF Exists(Current(t))
       THEN /\ \E a \in AsgId :
                 /\ AssignWorker(Current(t), tick[t].pick, tick[t].load, a)
                 /\ exec' = [e \in DOMAIN exec \cup {a} |->
                               IF e = a THEN [run |-> Current(t), threaded |-> t = Web]
                               ELSE exec[e]]
            /\ tick' = [tick EXCEPT ![t] = NextRun(t)]
       ELSE /\ tick' = [tick EXCEPT ![t] = IdleTick]
            /\ UNCHANGED <<worker, asg, exec>>
    /\ UNCHANGED run /\ Quiet

TickRevert(t) ==
    /\ At(t, "revert")
    /\ run' = IF Exists(Current(t))
              THEN [run EXCEPT ![Current(t)].status = "QUEUED",
                               ![Current(t)].started = "null"]
              ELSE run
    /\ tick' = [tick EXCEPT ![t] = NextRun(t)]
    /\ UNCHANGED <<worker, asg, exec>> /\ Quiet

TickStep(t) ==
    \/ TickRecover(t) \/ TickSelect(t) \/ TickClaim(t)
    \/ TickPick(t) \/ TickAssign(t) \/ TickRevert(t)

-----------------------------------------------------------------------------
(* Executions: none of their transactions does anything to a deleted run *)

EndExec(S) == exec' = [e \in DOMAIN exec \ S |-> exec[e]]

ExecStarted(a, b) ==
    /\ Exists(exec[a].run) /\ run[exec[a].run].build = NoBuild
    /\ OnBuildStarted(exec[a].run, b)
    /\ UNCHANGED <<tick, exec>> /\ Quiet

ExecEnds(a) ==
    /\ IF Exists(exec[a].run)
       THEN \E res \in Outcome : OnBuildCompleted(exec[a].run, res)
       ELSE UNCHANGED storeVars
    /\ EndExec({a})
    /\ UNCHANGED tick /\ Quiet

ExecStep(a) == (\E b \in BuildNo : ExecStarted(a, b)) \/ ExecEnds(a)

-----------------------------------------------------------------------------
(* flush_queue: reads the queued runs, then deletes them by id *)

FlushRead ==
    /\ Upset
    /\ flush = {} /\ Queued # {}
    /\ flush' = Queued
    /\ UNCHANGED <<storeVars, delivery, prio, arrived, mode, tick, exec>>

FlushWrite ==
    /\ flush # {}
    /\ run' = [r \in Run |-> IF r \in flush THEN NewRun ELSE run[r]]
    /\ Close({a \in DOMAIN asg : asg[a].run \in flush})
    /\ flush' = {}
    /\ UNCHANGED <<worker, delivery, prio, arrived, mode, tick, exec, upsets>>

(***************************************************************************)
(* An assignment inserted after the flush deleted the assignments and      *)
(* before it deletes the runs makes the flush fail.                        *)
(***************************************************************************)
FlushFails ==
    /\ \E r \in flush : OpenOf(r) # {}
    /\ flush' = {}
    /\ UNCHANGED <<storeVars, delivery, prio, arrived, mode, tick, exec, upsets>>

-----------------------------------------------------------------------------
(* The web process *)

SetMode(m) ==
    /\ Upset
    /\ m # mode[Web]
    /\ mode' = [mode EXCEPT ![Web] = m]
    /\ UNCHANGED <<storeVars, delivery, prio, arrived, tick, exec, flush>>

(***************************************************************************)
(* The process stops and its lifespan starts again: background tasks,      *)
(* threads, the tick and a flush in progress are gone, the mode is the     *)
(* default, and the priorities of all rows are rewritten.                  *)
(***************************************************************************)
Restart ==
    /\ Upset
    /\ delivery' = [r \in Run |-> IF delivery[r] = "accepted" THEN "lost" ELSE delivery[r]]
    /\ prio' = [r \in Run |-> IF Exists(r) THEN Backfill(BranchFor(PayloadOf[r])) ELSE prio[r]]
    /\ mode' = [mode EXCEPT ![Web] = "Priority"]
    /\ tick' = [tick EXCEPT ![Web] = IdleTick]
    /\ EndExec(Threads)
    /\ flush' = {}
    /\ UNCHANGED <<storeVars, arrived>>

-----------------------------------------------------------------------------
(* Time: the timeouts notice what is gone; see Scheduler for the others *)

Serving(w)    == \E a \in DOMAIN exec \cap Open : asg[a].worker = w
Executing(r)  == \E a \in DOMAIN exec : exec[a].run = r
Working(t, r) == tick[t].pc \in {"pick", "assign", "revert"} /\ Current(t) = r

HeartbeatAges(w) ==
    /\ worker[w].status = "BUSY" /\ ~worker[w].stale /\ ~Serving(w)
    /\ worker' = [worker EXCEPT ![w].stale = TRUE]
    /\ UNCHANGED <<run, asg, tick, exec>> /\ Quiet

StartAges(r) ==
    /\ run[r].status = "IN_PROGRESS" /\ run[r].started = "recent" /\ ~Executing(r)
    /\ \A t \in Ticker : ~Working(t, r)
    /\ run' = [run EXCEPT ![r].started = "old"]
    /\ UNCHANGED <<worker, asg, tick, exec>> /\ Quiet

OverdueStep == (\E w \in Worker : HeartbeatAges(w)) \/ (\E r \in Run : StartAges(r))

-----------------------------------------------------------------------------
(* Specification *)

(***************************************************************************)
(* passed[t][r] counts the runs ticker t has taken from the queue while r, *)
(* ahead of them in the order t uses, was queued all along and that order  *)
(* did not change, not even for a run that another ticker holds and may    *)
(* give back.  It stops just above the bound it is compared with.          *)
(***************************************************************************)
Takes(t, q)     == At(t, "claim") /\ tick'[t].pc = "pick" /\ q = Current(t)
Reordered(t, r) == mode'[t] # mode[t] \/ prio'[r] # prio[r]

Observe ==
    passed' = [t \in Ticker |-> [r \in Run |->
                 IF run'[r].status # "QUEUED" \/ \E q \in Run : Exists(q) /\ Reordered(t, q) THEN 0
                 ELSE IF /\ passed[t][r] <= MaxExec
                         /\ \E q \in Queued : Takes(t, q) /\ Ahead(t, r, q)
                 THEN passed[t][r] + 1
                 ELSE passed[t][r]]]

Step ==
    \/ \E r \in Run : Accept(r) \/ Enqueue(r) \/ Refuse(r)
    \/ \E t \in Ticker : TickStep(t)
    \/ \E a \in DOMAIN exec : ExecStep(a)
    \/ FlushRead \/ FlushWrite \/ FlushFails
    \/ \E m \in Mode : SetMode(m)
    \/ Restart
    \/ OverdueStep

Next == Step /\ Observe

Spec == Init /\ [][Next]_vars

(***************************************************************************)
(* Both tickers tick every few seconds, executions end and time passes.    *)
(***************************************************************************)
Fairness ==
    /\ \A t \in Ticker : WF_vars(TickStep(t) /\ Observe)
    /\ \A a \in AsgId : WF_vars(a \in DOMAIN exec /\ ExecEnds(a) /\ Observe)
    /\ WF_vars(OverdueStep /\ Observe)

LiveSpec == Spec /\ Fairness

-----------------------------------------------------------------------------
(* Properties *)

(***************************************************************************)
(* A restart may forget what the changed files added to a run's priority   *)
(* but never moves a run forward.                                          *)
(* (calculate_pipeline_priority against the UPDATE in lifespan)            *)
(***************************************************************************)
RestartOnlyDemotes ==
    [][\A r \in Run : Exists(r) /\ Exists(r)' => prio'[r] >= prio[r]]_vars

(***************************************************************************)
(* A ticker passes over a waiting run at most MaxExec times for runs       *)
(* behind it, the rest of one batch, however many arrive, are cancelled or *)
(* recovered meanwhile, and whatever the other ticker does.                *)
(* (the order of the queue query against batches that are already taken)   *)
(***************************************************************************)
BoundedOvertaking == \A t \in Ticker, r \in Run : passed[t][r] <= MaxExec

(***************************************************************************)
(* A worker is BUSY only for an open assignment, or for the one it got     *)
(* last, whose run a flush deleted under it.                               *)
(* (flush_queue deletes the assignments of the runs it read as queued)     *)
(***************************************************************************)
LastOn(w, a) == /\ a \in DOMAIN asg /\ asg[a].worker = w
                /\ \A b \in DOMAIN asg : asg[b].worker = w => b <= a

BusyAccounted ==
    \A w \in Worker : worker[w].status = "BUSY" =>
      \/ OpenOn(w) # {}
      \/ \E a \in AsgId : LastOn(w, a) /\ Deleted(asg[a].run)

(***************************************************************************)
(* A BUSY worker always comes back, also when the run it was given has     *)
(* been deleted, so that nothing will ever complete it.                    *)
(* (phase 1 of _recover_stale_workers looks at the worker alone)           *)
(***************************************************************************)
WorkersReturn == \A w \in Worker : worker[w].status = "BUSY" ~> worker[w].status # "BUSY"
=============================================================================
