-------------------------- MODULE SchedulerProofs --------------------------
(***************************************************************************)
(* Proofs about Scheduler, for every number of runs, workers, tickers and  *)
(* events: the type invariant, BusyHasOpenAssignment, RetryBudget,         *)
(* ThreadBound and AbortedStays.                                           *)
(***************************************************************************)
EXTENDS Scheduler, StoreProofs, FiniteSetTheorems

-----------------------------------------------------------------------------
(* Busy workers and the transactions on the tables *)

LEMMA OnBuildStartedStore ==
    ASSUME StoreTypeOK, BusyHasOpenAssignment,
           NEW r \in Run, NEW b \in BuildNo, OnBuildStarted(r, b)
    PROVE  StoreTypeOK' /\ BusyHasOpenAssignment'
<1>1. RowsStay /\ Open' = Open
  BY StartedRows
<1>2. \A w \in Worker : OpenOn(w)' = OpenOn(w)
  BY <1>1 DEF RowsStay, OpenOn, Open
<1> QED
  BY <1>2, StartedTypes DEF BusyHasOpenAssignment, OnBuildStarted

LEMMA OnBuildCompletedStore ==
    ASSUME StoreTypeOK, BusyHasOpenAssignment,
           NEW r \in Run, NEW res \in Result, OnBuildCompleted(r, res)
    PROVE  StoreTypeOK' /\ BusyHasOpenAssignment'
<1>1. CASE UNCHANGED <<worker, asg>>
  BY <1>1, CompletedTypes DEF BusyHasOpenAssignment, OpenOn, Open
<1>2. ASSUME NEW b \in OpenOf(r), ReleaseWorker(asg[b].worker, r, res = "SUCCESS")
      PROVE  BusyHasOpenAssignment'
  <2>1. PICK w \in Worker : w = asg[b].worker
    BY DEF StoreTypeOK, OpenOf, Open, AsgRow
  <2>2. /\ worker'[w].status = "IDLE" /\ \A v \in Worker \ {w} : worker'[v] = worker[v]
        /\ DOMAIN asg' = DOMAIN asg
    BY <1>2, <2>1, ReleasedTypes
  <2>3. PICK a \in RowsOf(r, w), closed \in {"DONE", "FAILED"} : asg' = [asg EXCEPT ![a].status = closed]
    BY <1>2, <2>1 DEF ReleaseWorker
  <2>4. \A v \in Worker \ {w} : OpenOn(v) \subseteq OpenOn(v)'
    BY <2>2, <2>3 DEF StoreTypeOK, RowsOf, OpenOn, Open
  <2> QED
    BY <2>2, <2>4 DEF BusyHasOpenAssignment
<1> QED
  BY <1>1, <1>2, CompletedTypes DEF OnBuildCompleted

LEMMA RecoverStore ==
    ASSUME StoreTypeOK, BusyHasOpenAssignment, RecoverStaleWorkers
    PROVE  StoreTypeOK' /\ BusyHasOpenAssignment'
<1>1. RowsStay /\ Open' = Open \ (StaleAsgs \cup OrphanAsgs)
  BY RecoveredRows
<1>2. ASSUME NEW w \in Worker, worker'[w].status = "BUSY"
      PROVE  OpenOn(w)' # {}
  <2>1. worker[w].status = "BUSY" /\ w \notin StaleWorkers /\ w \notin OrphanWorkers
    BY <1>2 DEF RecoverStaleWorkers, NewWorker
  <2>2. PICK a \in OpenOn(w) : TRUE
    BY <2>1 DEF BusyHasOpenAssignment
  <2>3. a \notin StaleAsgs /\ a \notin OrphanAsgs
    BY <2>1, <2>2 DEF OpenOn, StaleAsgs, OrphanAsgs, OrphanWorkers
  <2>4. a \in Open'
    BY <1>1, <2>2, <2>3 DEF OpenOn
  <2>5. asg'[a].worker = w
    BY <1>1, <2>2 DEF RowsStay, OpenOn, Open
  <2> QED
    BY <2>4, <2>5 DEF OpenOn
<1> QED
  BY <1>2, RecoveredTypes DEF BusyHasOpenAssignment

LEMMA AssignWorkerStore ==
    ASSUME StoreTypeOK, BusyHasOpenAssignment,
           NEW r \in Run, NEW w \in Worker, NEW n \in 0..2, NEW a \in AsgId,
           AssignWorker(r, w, n, a), UNCHANGED run
    PROVE  StoreTypeOK' /\ BusyHasOpenAssignment'
<1>1. /\ \A b \in DOMAIN asg : asg'[b] = asg[b]
      /\ asg'[a] = [run |-> r, worker |-> w, status |-> "ASSIGNED"]
      /\ DOMAIN asg' = DOMAIN asg \cup {a}
  BY DEF AssignWorker, IsNextId
<1>2. ASSUME NEW v \in Worker, worker'[v].status = "BUSY"
      PROVE  OpenOn(v)' # {}
  <2>1. CASE v = w
    BY <1>1, <2>1 DEF OpenOn, Open, OpenStatus
  <2>2. CASE v # w
    <3>1. worker[v].status = "BUSY"
      BY <1>2, <2>2 DEF AssignWorker, StoreTypeOK
    <3>2. OpenOn(v) \subseteq OpenOn(v)'
      BY <1>1 DEF OpenOn, Open
    <3> QED
      BY <3>1, <3>2 DEF BusyHasOpenAssignment
  <2> QED
    BY <2>1, <2>2
<1> QED
  BY <1>2, AssignedTypes DEF BusyHasOpenAssignment

LEMMA ResetWorkerStore ==
    ASSUME StoreTypeOK, BusyHasOpenAssignment, NEW w \in Worker, ResetWorker(w)
    PROVE  StoreTypeOK' /\ BusyHasOpenAssignment'
<1>1. ASSUME NEW v \in Worker, worker'[v].status = "BUSY"
      PROVE  OpenOn(v)' # {}
  <2>1. v # w /\ worker[v].status = "BUSY"
    BY <1>1 DEF StoreTypeOK, ResetWorker, NewWorker
  <2>2. OpenOn(v) \subseteq OpenOn(v)'
    BY <2>1 DEF ResetWorker, Close, OpenOn, Open
  <2> QED
    BY <2>1, <2>2 DEF BusyHasOpenAssignment
<1> QED
  BY <1>1, ResetTypes DEF BusyHasOpenAssignment

-----------------------------------------------------------------------------
(* The inductive invariant *)

(***************************************************************************)
(* A tick that is about to assign has picked a worker; whatever the retry  *)
(* phase and the retry endpoint remember was read with a retry to spare.   *)
(***************************************************************************)
PickedOne == \A t \in Ticker : tick[t].pc = "assign" => tick[t].pick \in Worker

Spare ==
    /\ \A t \in Ticker : \A f \in tick[t].snap : f.retries < MaxRetries
    /\ \A q \in requests : q.op = "retry" => q.seen < MaxRetries

IInv == TypeOK /\ BusyHasOpenAssignment /\ RetryBudget /\ PickedOne /\ Spare

LEMMA InitIInv ==
    ASSUME StoreAssumption, SchedulerAssumption, Init
    PROVE  IInv
<1>1. NewRun \in RunRow /\ NewWorker \in WorkerRow /\ IdleTick \in TickState
  BY StoreAssumption DEF NewRun, RunRow, RunStatus, NewWorker, WorkerRow, IdleTick, TickAt, TickState
<1>2. StoreTypeOK
  BY <1>1 DEF Init, StoreInit, StoreTypeOK
<1>3. TypeOK
  BY <1>1, <1>2, SchedulerAssumption DEF Init, TypeOK
<1>4. BusyHasOpenAssignment /\ RetryBudget
  BY StoreAssumption DEF Init, StoreInit, NewRun, NewWorker, BusyHasOpenAssignment, RetryBudget
<1>5. PickedOne /\ Spare
  BY DEF Init, IdleTick, TickAt, PickedOne, Spare
<1> QED
  BY <1>3, <1>4, <1>5 DEF IInv

(***************************************************************************)
(* A step that only writes the tables, through a transaction above, and    *)
(* moves control without touching what was remembered.                     *)
(***************************************************************************)
LEMMA TickAtType ==
    ASSUME NEW pc \in {"idle", "claim", "scan", "retry"},
           NEW todo \in SUBSET Run, NEW snap \in SUBSET Failure
    PROVE  /\ TickAt(pc, todo, snap) \in TickState
           /\ TickAt(pc, todo, snap).pc = pc
           /\ TickAt(pc, todo, snap).snap = snap
           /\ TickAt(pc, todo, snap).todo = todo
BY DEF TickAt, TickState

LEMMA DoneWithTick ==
    ASSUME TypeOK, PickedOne, Spare, NEW t \in Ticker, NEW r \in Run, DoneWith(t, r),
           UNCHANGED requests
    PROVE  tick' \in [Ticker -> TickState] /\ PickedOne' /\ Spare'
<1> DEFINE new == TickAt(IF tick[t].todo = {r} THEN "scan" ELSE "claim",
                         tick[t].todo \ {r}, {})
<1>1. tick[t].todo \in SUBSET Run
  BY DEF TypeOK, TickState
<1>2. new \in TickState /\ new.pc # "assign" /\ new.snap = {}
  BY <1>1, TickAtType
<1>3. tick' = [tick EXCEPT ![t] = new]
  BY DEF DoneWith
<1>4. tick' \in [Ticker -> TickState]
  BY <1>2, <1>3 DEF TypeOK
<1>5. PickedOne' /\ Spare'
  BY <1>2, <1>3 DEF TypeOK, PickedOne, Spare
<1> QED
  BY <1>4, <1>5

LEMMA TickRows ==
    ASSUME IInv, NEW t \in Ticker, NEW r \in Run,
           TickClaim(t, r) \/ TickSkip(t, r) \/ TickPick(t, r)
             \/ TickAssign(t, r) \/ TickRevert(t, r)
    PROVE  IInv'
<1> USE DEF IInv
<1>0. tick[t] \in TickState /\ run[r] \in RunRow
  BY DEF TypeOK, StoreTypeOK
<1>1. CASE TickClaim(t, r)
  <2>1. [run[r] EXCEPT !.status = "IN_PROGRESS", !.started = "recent"] \in RunRow
    BY <1>0 DEF RunRow, RunStatus
  <2>2. run' = [run EXCEPT ![r] = [run[r] EXCEPT !.status = "IN_PROGRESS",
                                                !.started = "recent"]]
    BY <1>1 DEF TickClaim, TypeOK, StoreTypeOK
  <2>3. [tick[t] EXCEPT !.pc = "pick"] \in TickState
    BY <1>0 DEF TickState
  <2>4. tick' = [tick EXCEPT ![t] = [tick[t] EXCEPT !.pc = "pick"]]
    BY <1>1 DEF TickClaim, TypeOK
  <2>5. TypeOK'
    BY <1>1, <2>1, <2>2, <2>3, <2>4 DEF TickClaim, TypeOK, StoreTypeOK
  <2>6. RetryBudget'
    BY <1>0, <2>2 DEF RetryBudget, TypeOK, StoreTypeOK, RunRow
  <2>7. PickedOne' /\ Spare'
    BY <1>0, <1>1, <2>4 DEF TickClaim, PickedOne, Spare, TypeOK, TickState
  <2>8. BusyHasOpenAssignment'
    BY <1>1 DEF TickClaim, BusyHasOpenAssignment, OpenOn, Open
  <2> QED
    BY <2>5, <2>6, <2>7, <2>8
<1>2. CASE TickSkip(t, r)
  <2>1. tick' \in [Ticker -> TickState] /\ PickedOne' /\ Spare'
    BY <1>2, DoneWithTick DEF TickSkip
  <2> QED
    BY <1>2, <2>1 DEF TickSkip, storeVars, TypeOK, StoreTypeOK, RetryBudget,
                      BusyHasOpenAssignment, OpenOn, Open
<1>3. CASE TickPick(t, r)
  <2>1. ASSUME NEW w \in BestWorkers(r),
               tick' = [tick EXCEPT ![t].pc = "assign", ![t].pick = w,
                                    ![t].load = worker[w].load]
        PROVE  tick' \in [Ticker -> TickState] /\ PickedOne' /\ Spare'
    <3>1. w \in Worker /\ worker[w].load \in 0..2
      BY DEF BestWorkers, Candidates, IdleWorkers, TypeOK, StoreTypeOK, WorkerRow
    <3>2. [tick[t] EXCEPT !.pc = "assign", !.pick = w, !.load = worker[w].load] \in TickState
      BY <1>0, <3>1 DEF TickState
    <3>3. tick' = [tick EXCEPT ![t] = [tick[t] EXCEPT !.pc = "assign", !.pick = w,
                                                     !.load = worker[w].load]]
      BY <2>1 DEF TypeOK
    <3> QED
      BY <1>0, <1>3, <3>1, <3>2, <3>3 DEF TickPick, TypeOK, PickedOne, Spare, TickState
  <2>2. ASSUME tick' = [tick EXCEPT ![t].pc = "revert"]
        PROVE  tick' \in [Ticker -> TickState] /\ PickedOne' /\ Spare'
    <3>1. [tick[t] EXCEPT !.pc = "revert"] \in TickState
      BY <1>0 DEF TickState
    <3>2. tick' = [tick EXCEPT ![t] = [tick[t] EXCEPT !.pc = "revert"]]
      BY <2>2 DEF TypeOK
    <3> QED
      BY <1>0, <1>3, <3>1, <3>2 DEF TickPick, TypeOK, PickedOne, Spare, TickState
  <2>3. tick' \in [Ticker -> TickState] /\ PickedOne' /\ Spare'
    BY <1>3, <2>1, <2>2 DEF TickPick
  <2> QED
    BY <1>3, <2>3 DEF TickPick, storeVars, TypeOK, StoreTypeOK, RetryBudget,
                      BusyHasOpenAssignment, OpenOn, Open
<1>4. CASE TickAssign(t, r)
  <2>1. tick' \in [Ticker -> TickState] /\ PickedOne' /\ Spare'
    BY <1>4, DoneWithTick DEF TickAssign
  <2>2. tick[t].pick \in Worker /\ tick[t].load \in 0..2
    BY <1>0, <1>4 DEF TickAssign, At, PickedOne, TickState
  <2>3. PICK a \in AsgId :
          /\ AssignWorker(r, tick[t].pick, tick[t].load, a)
          /\ exec' = [e \in DOMAIN exec \cup {a} |->
                        IF e = a
                        THEN [run |-> r, pc |-> "trigger", build |-> NoBuild,
                              threaded |-> t \in Threaded]
                        ELSE exec[e]]
    BY <1>4 DEF TickAssign
  <2>4. StoreTypeOK' /\ BusyHasOpenAssignment'
    BY <1>4, <2>2, <2>3, AssignWorkerStore DEF TickAssign, TypeOK
  <2>5. DOMAIN exec' \subseteq AsgId /\ exec' \in [DOMAIN exec' -> Execution]
    BY <2>3 DEF TypeOK, Execution
  <2> QED
    BY <1>4, <2>1, <2>4, <2>5 DEF TickAssign, TypeOK, RetryBudget
<1>5. CASE TickRevert(t, r)
  <2>1. tick' \in [Ticker -> TickState] /\ PickedOne' /\ Spare'
    BY <1>5, DoneWithTick DEF TickRevert
  <2>2. run' = [run EXCEPT ![r] = [run[r] EXCEPT !.status = "QUEUED", !.started = "null"]]
    BY <1>5 DEF TickRevert, TypeOK, StoreTypeOK
  <2>3. run' \in [Run -> RunRow]
    BY <1>0, <2>2, Back DEF TypeOK, StoreTypeOK
  <2>4. RetryBudget'
    BY <1>0, <2>2 DEF RetryBudget, TypeOK, StoreTypeOK, RunRow
  <2> QED
    BY <1>5, <2>1, <2>3, <2>4 DEF TickRevert, TypeOK, StoreTypeOK, BusyHasOpenAssignment,
                                  OpenOn, Open
<1> QED
  BY <1>1, <1>2, <1>3, <1>4, <1>5

LEMMA RequeuedRow ==
    ASSUME StoreAssumption, StoreTypeOK, NEW r \in Run, NEW n \in Nat, n < MaxRetries
    PROVE  Requeued(r, n) \in RunRow /\ Requeued(r, n).retries <= MaxRetries
<1>1. run[r] \in RunRow /\ n + 1 \in Nat /\ n + 1 <= MaxRetries
  BY DEF StoreTypeOK, StoreAssumption
<1>2. Requeued(r, n) = [run[r] EXCEPT !.status = "QUEUED", !.started = "null",
                                      !.backoff = "null", !.retries = n + 1]
  BY DEF Requeued
<1>3. Requeued(r, n).retries = n + 1
  BY <1>1, <1>2 DEF RunRow
<1>4. Requeued(r, n) \in RunRow
  BY <1>1, <1>2 DEF RunRow, RunStatus
<1> QED
  BY <1>1, <1>3, <1>4

LEMMA TickPhases ==
    ASSUME StoreAssumption, SchedulerAssumption, IInv, NEW t \in Ticker,
           TickRecover(t) \/ TickSelect(t) \/ TickScan(t) \/ TickRetry(t)
    PROVE  IInv'
<1> USE DEF IInv
<1>0. tick[t] \in TickState
  BY DEF TypeOK
<1>1. CASE TickRecover(t)
  <2>1. StoreTypeOK' /\ BusyHasOpenAssignment'
    BY <1>1, RecoverStore DEF TickRecover, TypeOK
  <2>2. [tick[t] EXCEPT !.pc = "select"] \in TickState
    BY <1>0 DEF TickState
  <2>3. tick' = [tick EXCEPT ![t] = [tick[t] EXCEPT !.pc = "select"]]
    BY <1>1 DEF TickRecover, TypeOK
  <2>4. tick' \in [Ticker -> TickState] /\ PickedOne' /\ Spare'
    BY <1>0, <1>1, <2>2, <2>3 DEF TickRecover, TypeOK, PickedOne, Spare, TickState
  <2>5. \A r \in Run : run'[r].retries = run[r].retries
    BY <1>1, RecoverRetries DEF TickRecover, TypeOK
  <2> QED
    BY <1>1, <2>1, <2>4, <2>5 DEF TickRecover, TypeOK, RetryBudget
<1>2. CASE TickSelect(t)
  <2>1. PICK S \in SUBSET Queued :
          tick' = [tick EXCEPT ![t] = TickAt(IF S = {} THEN "scan" ELSE "claim", S, {})]
    BY <1>2 DEF TickSelect
  <2>2. S \in SUBSET Run
    BY DEF Queued
  <2>3. PICK p \in {"scan", "claim"} : tick' = [tick EXCEPT ![t] = TickAt(p, S, {})]
    BY <2>1
  <2>4. TickAt(p, S, {}) \in TickState /\ TickAt(p, S, {}).pc = p /\ TickAt(p, S, {}).snap = {}
    BY <2>2, TickAtType
  <2>5. tick' \in [Ticker -> TickState] /\ PickedOne' /\ Spare'
    BY <1>2, <2>3, <2>4 DEF TickSelect, TypeOK, PickedOne, Spare
  <2> QED
    BY <1>2, <2>5 DEF TickSelect, storeVars, TypeOK, StoreTypeOK, RetryBudget,
                      BusyHasOpenAssignment, OpenOn, Open
<1>3. CASE TickScan(t)
  <2> DEFINE F == {FailureOf(r) : r \in {q \in Run : Retryable(q)}}
             new == TickAt("retry", {}, F)
  <2>1. ASSUME NEW r \in Run, Retryable(r)
        PROVE  FailureOf(r) \in Failure /\ FailureOf(r).retries < MaxRetries
    <3>1. run[r].retries \in Nat /\ run[r].backoff \in {"null", "waiting", "due"}
      BY DEF TypeOK, StoreTypeOK, RunRow
    <3> QED
      BY <2>1, <3>1 DEF FailureOf, Failure, Retryable
  <2>2. F \in SUBSET Failure /\ \A f \in F : f.retries < MaxRetries
    BY <2>1
  <2>3. new \in TickState /\ new.pc = "retry" /\ new.snap = F
    <3> HIDE DEF F
    <3> QED
      BY <2>2, TickAtType
  <2>4. tick' = [tick EXCEPT ![t] = new]
    BY <1>3 DEF TickScan
  <2>5. tick' \in [Ticker -> TickState] /\ PickedOne' /\ Spare'
    <3> HIDE DEF new
    <3> QED
      BY <1>3, <2>2, <2>3, <2>4 DEF TickScan, TypeOK, PickedOne, Spare
  <2> QED
    BY <1>3, <2>5 DEF TickScan, storeVars, TypeOK, StoreTypeOK, RetryBudget,
                      BusyHasOpenAssignment, OpenOn, Open
<1>4. CASE TickRetry(t)
  <2>1. IdleTick \in TickState /\ IdleTick.pc = "idle" /\ IdleTick.snap = {}
    BY TickAtType DEF IdleTick
  <2>2. tick' \in [Ticker -> TickState] /\ PickedOne' /\ Spare'
    BY <1>4, <2>1 DEF TickRetry, TypeOK, PickedOne, Spare
  <2>3. ASSUME NEW f \in tick[t].snap
        PROVE  Rewritten(f) \in RunRow /\ Rewritten(f).retries <= MaxRetries
    <3>1. f \in Failure /\ f.retries < MaxRetries
      BY <1>0 DEF TickState, Spare
    <3>2. f.run \in Run /\ f.retries \in Nat /\ f.backoff \in {"null", "waiting", "due"}
      BY <3>1 DEF Failure
    <3>3. run[f.run] \in RunRow /\ run[f.run].retries <= MaxRetries
      BY <3>2 DEF TypeOK, StoreTypeOK, RetryBudget
    <3>4. CASE f.backoff = "null"
      <4>1. Rewritten(f) = [run[f.run] EXCEPT !.backoff = "waiting"]
        BY <3>4 DEF Rewritten
      <4> QED
        BY <3>3, <4>1 DEF RunRow
    <3>5. CASE f.backoff = "waiting"
      BY <3>3, <3>5 DEF Rewritten
    <3>6. CASE f.backoff = "due"
      <4>1. Rewritten(f) = Requeued(f.run, f.retries)
        BY <3>6 DEF Rewritten
      <4> QED
        BY <3>1, <3>2, <4>1, RequeuedRow DEF TypeOK
    <3> QED
      BY <3>2, <3>4, <3>5, <3>6
  <2>4. ASSUME NEW r \in Run
        PROVE  run'[r] \in RunRow /\ run'[r].retries <= MaxRetries
    <3>1. CASE \E f \in tick[t].snap : f.run = r
      <4> DEFINE g == CHOOSE f \in tick[t].snap : f.run = r
      <4>1. g \in tick[t].snap
        BY <3>1
      <4>2. run'[r] = Rewritten(g)
        BY <1>4, <3>1 DEF TickRetry
      <4> QED
        BY <2>3, <4>1, <4>2
    <3>2. CASE ~ \E f \in tick[t].snap : f.run = r
      BY <1>4, <3>2 DEF TickRetry, TypeOK, StoreTypeOK, RetryBudget
    <3> QED
      BY <3>1, <3>2
  <2>5. run' \in [Run -> RunRow] /\ RetryBudget'
    BY <1>4, <2>4 DEF TickRetry, RetryBudget
  <2> QED
    BY <1>4, <2>2, <2>5 DEF TickRetry, TypeOK, StoreTypeOK, BusyHasOpenAssignment, OpenOn, Open
<1> QED
  BY <1>1, <1>2, <1>3, <1>4

LEMMA ExecSteps ==
    ASSUME StoreAssumption, IInv, NEW a \in DOMAIN exec, ExecStep(a)
    PROVE  IInv'
<1> USE DEF IInv
<1>0. exec[a] \in Execution /\ exec[a].run \in Run
  BY DEF TypeOK, Execution
<1>1. ASSUME EndExec(a)
      PROVE  DOMAIN exec' \subseteq AsgId /\ exec' \in [DOMAIN exec' -> Execution]
  BY <1>1 DEF EndExec, TypeOK
<1>2. ASSUME UNCHANGED <<tick, requests>>
      PROVE  PickedOne' /\ Spare'
  BY <1>2 DEF PickedOne, Spare
<1>3. ASSUME NEW res \in Result, OnBuildCompleted(exec[a].run, res)
      PROVE  StoreTypeOK' /\ BusyHasOpenAssignment' /\ RetryBudget'
  <2>1. StoreTypeOK' /\ BusyHasOpenAssignment'
    BY <1>0, <1>3, OnBuildCompletedStore DEF TypeOK
  <2>2. \A r \in Run : run'[r].retries = run[r].retries
    BY <1>3 DEF OnBuildCompleted, TypeOK, StoreTypeOK, RunRow
  <2> QED
    BY <2>1, <2>2 DEF RetryBudget
<1>4. CASE ExecTriggerFails(a)
  BY <1>1, <1>2, <1>3, <1>4 DEF ExecTriggerFails, TypeOK, Result
<1>5. ASSUME NEW b \in BuildNo, ExecStarted(a, b)
      PROVE  IInv'
  <2>1. StoreTypeOK' /\ BusyHasOpenAssignment'
    BY <1>0, <1>5, OnBuildStartedStore DEF ExecStarted, TypeOK
  <2>2. \A r \in Run : run'[r].retries = run[r].retries
    BY <1>5 DEF ExecStarted, OnBuildStarted, TypeOK, StoreTypeOK, RunRow
  <2>3. [exec[a] EXCEPT !.pc = "poll", !.build = b] \in Execution
    BY <1>0 DEF Execution
  <2>4. exec' = [exec EXCEPT ![a] = [exec[a] EXCEPT !.pc = "poll", !.build = b]]
    BY <1>5 DEF ExecStarted, TypeOK
  <2>5. DOMAIN exec' \subseteq AsgId /\ exec' \in [DOMAIN exec' -> Execution]
    BY <2>3, <2>4 DEF TypeOK
  <2> QED
    BY <1>2, <1>5, <2>1, <2>2, <2>5 DEF ExecStarted, TypeOK, RetryBudget
<1>6. ASSUME NEW res \in Result, ExecFinished(a, res)
      PROVE  IInv'
  BY <1>1, <1>2, <1>3, <1>6 DEF ExecFinished, TypeOK
<1>7. CASE ExecExhausted(a)
  <2>1. CASE OnBuildCompleted(exec[a].run, "FAILURE")
    BY <1>1, <1>2, <1>3, <1>7, <2>1 DEF ExecExhausted, TypeOK, Result
  <2>2. CASE UNCHANGED storeVars
    BY <1>1, <1>2, <1>7, <2>2 DEF ExecExhausted, storeVars, TypeOK, StoreTypeOK, RetryBudget,
                                  BusyHasOpenAssignment, OpenOn, Open
  <2> QED
    BY <1>7, <2>1, <2>2 DEF ExecExhausted
<1> QED
  BY <1>4, <1>5, <1>6, <1>7 DEF ExecStep

LEMMA RequestSteps ==
    ASSUME StoreAssumption, SchedulerAssumption, IInv, RequestStep
    PROVE  IInv'
<1> USE DEF IInv
<1>0. MaxEvents \in Nat /\ (Event => events' \in 0..MaxEvents)
  BY SchedulerAssumption DEF TypeOK, Event
<1>1. ASSUME NEW r \in Run, CancelRead(r)
      PROVE  IInv'
  <2>1. [op |-> "cancel", run |-> r, seen |-> run[r].status] \in Request
    BY <1>1 DEF CancelRead, Request
  <2> QED
    BY <1>0, <1>1, <2>1 DEF CancelRead, Receive, storeVars, TypeOK, StoreTypeOK, RetryBudget,
                       BusyHasOpenAssignment, OpenOn, Open, PickedOne, Spare
<1>2. ASSUME NEW r \in Run, RetryRead(r)
      PROVE  IInv'
  <2>1. run[r].retries \in Nat /\ run[r].retries < MaxRetries
    BY <1>2 DEF RetryRead, Retryable, TypeOK, StoreTypeOK, RunRow
  <2>2. [op |-> "retry", run |-> r, seen |-> run[r].retries] \in Request
    BY <2>1 DEF Request
  <2> QED
    BY <1>0, <1>2, <2>1, <2>2 DEF RetryRead, Receive, storeVars, TypeOK, StoreTypeOK,
                       RetryBudget, BusyHasOpenAssignment, OpenOn, Open, PickedOne, Spare
<1>3. ASSUME NEW q \in requests, CancelWrite(q)
      PROVE  IInv'
  <2>1. q.run \in Run
    BY DEF TypeOK, Request
  <2>2. CASE OnBuildCompleted(q.run, "ABORTED")
    <3>1. StoreTypeOK' /\ BusyHasOpenAssignment'
      BY <2>1, <2>2, OnBuildCompletedStore DEF TypeOK, Result
    <3>2. \A r \in Run : run'[r].retries = run[r].retries
      BY <2>2 DEF OnBuildCompleted, TypeOK, StoreTypeOK, RunRow
    <3> QED
      BY <1>3, <3>1, <3>2 DEF CancelWrite, TypeOK, RetryBudget, PickedOne, Spare
  <2>3. CASE run' = [run EXCEPT ![q.run].status = "ABORTED"] /\ UNCHANGED <<worker, asg>>
    <3>1. run[q.run] \in RunRow
      BY <2>1 DEF TypeOK, StoreTypeOK
    <3>2. [run[q.run] EXCEPT !.status = "ABORTED"] \in RunRow
      BY <3>1 DEF RunRow, RunStatus
    <3>3. run' \in [Run -> RunRow]
      BY <2>3, <3>2 DEF TypeOK, StoreTypeOK
    <3>4. \A r \in Run : run'[r].retries = run[r].retries
      BY <2>3 DEF TypeOK, StoreTypeOK, RunRow
    <3> QED
      BY <1>3, <2>3, <3>3, <3>4 DEF CancelWrite, TypeOK, StoreTypeOK, RetryBudget,
             BusyHasOpenAssignment, OpenOn, Open, PickedOne, Spare
  <2> QED
    BY <1>3, <2>2, <2>3 DEF CancelWrite
<1>4. ASSUME NEW q \in requests, RetryWrite(q)
      PROVE  IInv'
  <2>1. q.run \in Run /\ q.seen \in Nat /\ q.seen < MaxRetries
    BY <1>4 DEF RetryWrite, Spare, TypeOK, Request
  <2>2. Requeued(q.run, q.seen) \in RunRow /\ Requeued(q.run, q.seen).retries <= MaxRetries
    BY <2>1, RequeuedRow DEF TypeOK
  <2>3. run' = [run EXCEPT ![q.run] = Requeued(q.run, q.seen)]
    BY <1>4 DEF RetryWrite
  <2>4. run' \in [Run -> RunRow] /\ RetryBudget'
    BY <2>1, <2>2, <2>3 DEF TypeOK, StoreTypeOK, RetryBudget
  <2> QED
    BY <1>4, <2>4 DEF RetryWrite, TypeOK, StoreTypeOK, BusyHasOpenAssignment, OpenOn, Open,
                      PickedOne, Spare
<1>5. CASE BulkRecover
  <2>1. StoreTypeOK' /\ BusyHasOpenAssignment'
    BY <1>5, RecoverStore DEF BulkRecover, TypeOK
  <2>2. RetryBudget'
    BY <1>5, RecoverRetries DEF BulkRecover, TypeOK, RetryBudget
  <2> QED
    BY <1>0, <1>5, <2>1, <2>2 DEF BulkRecover, TypeOK, PickedOne, Spare
<1> QED
  BY <1>1, <1>2, <1>3, <1>4, <1>5 DEF RequestStep

LEMMA SmallRunSteps ==
    ASSUME IInv, NEW r \in Run,
           \/ Submit(r) \/ BackoffElapses(r)
           \/ StartAges(r) /\ events' \in 0..MaxEvents
    PROVE  IInv'
<1> USE DEF IInv
<1>1. run[r] \in RunRow
  BY DEF TypeOK, StoreTypeOK
<1>2. PICK new \in RunRow : run' = [run EXCEPT ![r] = new] /\ new.retries = run[r].retries
  <2>1. CASE Submit(r)
    <3>1. [run[r] EXCEPT !.status = "QUEUED"] \in RunRow
      BY <1>1 DEF RunRow, RunStatus
    <3> QED
      BY <1>1, <2>1, <3>1 DEF Submit, SchedulePipeline, TypeOK, StoreTypeOK, RunRow
  <2>2. CASE BackoffElapses(r)
    <3>1. [run[r] EXCEPT !.backoff = "due"] \in RunRow
      BY <1>1 DEF RunRow
    <3> QED
      BY <1>1, <2>2, <3>1 DEF BackoffElapses, TypeOK, StoreTypeOK, RunRow
  <2>3. CASE StartAges(r)
    <3>1. [run[r] EXCEPT !.started = "old"] \in RunRow
      BY <1>1 DEF RunRow
    <3> QED
      BY <1>1, <2>3, <3>1 DEF StartAges, TypeOK, StoreTypeOK, RunRow
  <2> QED
    BY <2>1, <2>2, <2>3
<1>3. run' \in [Run -> RunRow] /\ RetryBudget'
  BY <1>2 DEF TypeOK, StoreTypeOK, RetryBudget
<1>4. UNCHANGED <<worker, asg, tick, exec, requests>> /\ events' \in 0..MaxEvents
  BY DEF Submit, SchedulePipeline, BackoffElapses, StartAges, TypeOK
<1> QED
  BY <1>3, <1>4 DEF TypeOK, StoreTypeOK, BusyHasOpenAssignment, OpenOn, Open, PickedOne, Spare

LEMMA WorkerSteps ==
    ASSUME IInv, NEW w \in Worker, events' \in 0..MaxEvents, HeartbeatAges(w) \/ Operator(w)
    PROVE  IInv'
<1> USE DEF IInv
<1>0. worker[w] \in WorkerRow
  BY DEF TypeOK, StoreTypeOK
<1>1. CASE HeartbeatAges(w)
  <2>1. [worker[w] EXCEPT !.stale = TRUE] \in WorkerRow
    BY <1>0 DEF WorkerRow
  <2>2. worker' \in [Worker -> WorkerRow]
    BY <1>1, <2>1 DEF HeartbeatAges, TypeOK, StoreTypeOK
  <2>3. \A v \in Worker : worker'[v].status = worker[v].status
    BY <1>1 DEF HeartbeatAges, TypeOK, StoreTypeOK, WorkerRow
  <2> QED
    BY <1>1, <2>2, <2>3 DEF HeartbeatAges, TypeOK, StoreTypeOK, RetryBudget,
           BusyHasOpenAssignment, OpenOn, Open, PickedOne, Spare
<1>2. ASSUME SetOffline(w) \/ SetOnline(w), UNCHANGED <<tick, exec, requests>>
      PROVE  IInv'
  <2>1. /\ [worker[w] EXCEPT !.status = "OFFLINE"] \in WorkerRow
        /\ [worker[w] EXCEPT !.status = "IDLE", !.load = 0] \in WorkerRow
    <3>1. ASSUME NEW n \in 0..2
          PROVE  [worker[w] EXCEPT !.status = "IDLE", !.load = n] \in WorkerRow
      BY <1>0 DEF WorkerRow
    <3>2. 0 \in 0..2
      OBVIOUS
    <3>3. [worker[w] EXCEPT !.status = "OFFLINE"] \in WorkerRow
      BY <1>0 DEF WorkerRow
    <3> QED
      BY <3>1, <3>2, <3>3
  <2>2. \/ worker' = [worker EXCEPT ![w] = [worker[w] EXCEPT !.status = "OFFLINE"]]
        \/ worker' = [worker EXCEPT ![w] = [worker[w] EXCEPT !.status = "IDLE", !.load = 0]]
    BY <1>2 DEF SetOffline, SetOnline, TypeOK, StoreTypeOK
  <2>3. worker' \in [Worker -> WorkerRow]
    BY <2>1, <2>2 DEF TypeOK, StoreTypeOK
  <2>4. \A v \in Worker : worker'[v].status = "BUSY" => worker[v].status = "BUSY"
    BY <1>0, <2>2 DEF TypeOK, StoreTypeOK, WorkerRow
  <2> QED
    BY <1>2, <2>3, <2>4 DEF SetOffline, SetOnline, TypeOK, StoreTypeOK, RetryBudget,
           BusyHasOpenAssignment, OpenOn, Open, PickedOne, Spare
<1>3. ASSUME ResetWorker(w), UNCHANGED <<tick, exec, requests>>
      PROVE  IInv'
  <2>1. StoreTypeOK' /\ BusyHasOpenAssignment'
    BY <1>3, ResetWorkerStore DEF TypeOK
  <2>2. ASSUME NEW r \in Run
        PROVE  run'[r].retries = run[r].retries
    <3>1. run[r] \in RunRow
      BY DEF TypeOK, StoreTypeOK
    <3>2. [run[r] EXCEPT !.status = "QUEUED", !.started = "null"].retries = run[r].retries
      BY <3>1 DEF RunRow
    <3> QED
      BY <1>3, <3>2 DEF ResetWorker
  <2> QED
    BY <1>3, <2>1, <2>2 DEF TypeOK, RetryBudget, PickedOne, Spare
<1> QED
  BY <1>1, <1>2, <1>3 DEF Operator

LEMMA DeathSteps ==
    ASSUME SchedulerAssumption, IInv, DeathStep
    PROVE  IInv'
<1> USE DEF IInv
<1>0. Event => events' \in 0..MaxEvents
  BY SchedulerAssumption DEF TypeOK, Event
<1>1. ASSUME NEW a \in DOMAIN exec, ExecDies(a)
      PROVE  IInv'
  BY <1>0, <1>1 DEF ExecDies, EndExec, storeVars, TypeOK, StoreTypeOK, RetryBudget,
                    BusyHasOpenAssignment, OpenOn, Open, PickedOne, Spare
<1>2. ASSUME NEW t \in Ticker, TickDies(t)
      PROVE  IInv'
  <2>1. IdleTick \in TickState /\ IdleTick.pc = "idle" /\ IdleTick.snap = {}
    BY TickAtType DEF IdleTick
  <2>2. tick' \in [Ticker -> TickState] /\ PickedOne' /\ Spare'
    BY <1>2, <2>1 DEF TickDies, TypeOK, PickedOne, Spare
  <2> QED
    BY <1>0, <1>2, <2>2 DEF TickDies, storeVars, TypeOK, StoreTypeOK, RetryBudget,
                            BusyHasOpenAssignment, OpenOn, Open
<1> QED
  BY <1>1, <1>2 DEF DeathStep

LEMMA NextIInv ==
    ASSUME StoreAssumption, SchedulerAssumption, IInv, [Next]_vars
    PROVE  IInv'
<1>1. Event => events' \in 0..MaxEvents
  BY SchedulerAssumption DEF IInv, TypeOK, Event
<1>2. UNCHANGED events => events' \in 0..MaxEvents
  BY DEF IInv, TypeOK
<1>3. CASE QuietNext
  BY <1>3, TickRows, TickPhases, ExecSteps, SmallRunSteps DEF QuietNext, TickStep
<1>4. CASE OverdueStep
  BY <1>2, <1>4, WorkerSteps, SmallRunSteps DEF OverdueStep
<1>5. CASE PrematureStep
  BY <1>1, <1>5, WorkerSteps, SmallRunSteps DEF PrematureStep
<1>6. CASE OperatorStep
  BY <1>1, <1>6, WorkerSteps DEF OperatorStep, Operator
<1>7. CASE DeathStep
  BY <1>7, DeathSteps
<1>8. CASE RequestStep
  BY <1>8, RequestSteps
<1>9. CASE UNCHANGED vars
  BY <1>9 DEF vars, IInv, TypeOK, StoreTypeOK, RetryBudget, BusyHasOpenAssignment, OpenOn,
              Open, PickedOne, Spare
<1> QED
  BY <1>3, <1>4, <1>5, <1>6, <1>7, <1>8, <1>9 DEF Next, MortalNext

-----------------------------------------------------------------------------
(* Cancelled runs *)

(***************************************************************************)
(* The steps of ticks: the claim is guarded by the status, and every other *)
(* write is to a run the tick has in hand.                                 *)
(***************************************************************************)
LEMMA TickKeepsAborted ==
    ASSUME TypeOK, NEW r \in Run, run[r].status = "ABORTED", ~InHand(r),
           NEW t \in Ticker, TickStep(t)
    PROVE  run'[r].status = "ABORTED"
<1> USE DEF TypeOK, StoreTypeOK
<1>1. CASE TickRecover(t)
  BY <1>1 DEF TickRecover, RecoverStaleWorkers, StaleRuns, OrphanRuns
<1>2. CASE TickSelect(t) \/ TickScan(t)
  BY <1>2 DEF TickSelect, TickScan, storeVars
<1>3. CASE TickRetry(t)
  <2>1. \A f \in tick[t].snap : f.run # r
    BY DEF InHand
  <2> QED
    BY <1>3, <2>1 DEF TickRetry
<1>4. ASSUME NEW q \in Run, TickClaim(t, q)
      PROVE  run'[r].status = "ABORTED"
  BY <1>4 DEF TickClaim
<1>5. ASSUME NEW q \in Run, TickSkip(t, q) \/ TickPick(t, q) \/ TickAssign(t, q)
      PROVE  run'[r].status = "ABORTED"
  BY <1>5 DEF TickSkip, TickPick, TickAssign, storeVars
<1>6. ASSUME NEW q \in Run, TickRevert(t, q)
      PROVE  run'[r].status = "ABORTED"
  <2>1. q # r
    BY <1>6 DEF InHand, Working, TickRevert, At
  <2> QED
    BY <1>6, <2>1 DEF TickRevert
<1> QED
  BY <1>1, <1>2, <1>3, <1>4, <1>5, <1>6 DEF TickStep

(***************************************************************************)
(* Executions and retry requests write a run they have in hand; a cancel   *)
(* writes ABORTED; recovery and reset requeue only IN_PROGRESS runs.       *)
(***************************************************************************)
LEMMA NextKeepsAborted ==
    ASSUME TypeOK, NEW r \in Run, run[r].status = "ABORTED", ~InHand(r), [Next]_vars
    PROVE  run'[r].status = "ABORTED"
<1> USE DEF TypeOK, StoreTypeOK
<1>1. ASSUME NEW a \in DOMAIN exec, ExecStep(a)
      PROVE  run'[r].status = "ABORTED"
  <2>1. exec[a].run # r
    BY DEF InHand, Executing
  <2> QED
    BY <1>1, <2>1 DEF ExecStep, ExecTriggerFails, ExecStarted, ExecFinished, ExecExhausted,
                      OnBuildStarted, OnBuildCompleted, storeVars
<1>2. ASSUME NEW q \in requests, CancelWrite(q)
      PROVE  run'[r].status = "ABORTED"
  BY <1>2 DEF CancelWrite, OnBuildCompleted, StatusFor, RunRow
<1>3. ASSUME NEW q \in requests, RetryWrite(q)
      PROVE  run'[r].status = "ABORTED"
  <2>1. q.run # r
    BY <1>3 DEF InHand, RetryWrite
  <2> QED
    BY <1>3, <2>1 DEF RetryWrite
<1>4. CASE RequestStep
  BY <1>2, <1>3, <1>4 DEF RequestStep, CancelRead, RetryRead, Receive, BulkRecover,
                          RecoverStaleWorkers, StaleRuns, OrphanRuns, storeVars
<1>5. CASE QuietNext
  <2>1. ASSUME NEW q \in Run, Submit(q) \/ BackoffElapses(q)
        PROVE  run'[r].status = "ABORTED"
    BY <2>1 DEF Submit, SchedulePipeline, BackoffElapses, RunRow
  <2> QED
    BY <1>1, <1>5, <2>1, TickKeepsAborted DEF QuietNext
<1>6. CASE OverdueStep \/ PrematureStep
  BY <1>6 DEF OverdueStep, PrematureStep, HeartbeatAges, StartAges
<1>7. CASE DeathStep
  BY <1>7 DEF DeathStep, ExecDies, TickDies, storeVars
<1>8. CASE OperatorStep
  BY <1>8 DEF OperatorStep, Operator, SetOffline, SetOnline, ResetWorker
<1>9. CASE UNCHANGED vars
  BY <1>9 DEF vars
<1> QED
  BY <1>4, <1>5, <1>6, <1>7, <1>8, <1>9 DEF Next, MortalNext

-----------------------------------------------------------------------------
(* Execution threads *)

Threads == Cardinality(ActiveThreads)

(***************************************************************************)
(* What each phase of the in-process tick leaves room for: after the check *)
(* the threads are below the cap, and while a batch is worked off they and *)
(* the runs still to be dispatched together stay within the bound.         *)
(***************************************************************************)
Budget(t) ==
    /\ At(t, "select") => Threads <= MaxExec - 1
    /\ tick[t].pc \in {"claim", "pick", "assign", "revert"} =>
         Threads + Cardinality(tick[t].todo) <= 2 * MaxExec - 1

ThreadInv ==
    /\ Threads <= 2 * MaxExec - 1
    /\ \A t \in Threaded : Budget(t)

LEMMA Finite ==
    ASSUME StoreAssumption, SchedulerAssumption, TypeOK
    PROVE  /\ IsFiniteSet(ActiveThreads) /\ Threads \in Nat
           /\ \A S \in SUBSET Run : IsFiniteSet(S) /\ Cardinality(S) \in Nat
<1>1. IsFiniteSet(AsgId)
  BY FS_Interval DEF AsgId, StoreAssumption
<1>2. ActiveThreads \in SUBSET AsgId
  BY DEF ActiveThreads, TypeOK
<1>3. IsFiniteSet(ActiveThreads)
  BY <1>1, <1>2, FS_Subset
<1>4. \A S \in SUBSET Run : IsFiniteSet(S)
  BY FS_Subset DEF SchedulerAssumption
<1> QED
  BY <1>3, <1>4, FS_CardinalityType DEF Threads

(***************************************************************************)
(* Steps that start no thread and leave the in-process ticks alone, or     *)
(* send one to a phase without a batch.                                    *)
(***************************************************************************)
LEMMA NoNewThread ==
    ASSUME StoreAssumption, SchedulerAssumption, TypeOK, ThreadInv,
           ActiveThreads' \subseteq ActiveThreads,
           \A t \in Threaded : tick'[t] = tick[t] \/ tick'[t].pc \in {"idle", "scan", "retry"}
    PROVE  ThreadInv'
<1>1. Threads \in Nat /\ Threads' \in Nat /\ Threads' <= Threads
  BY Finite, FS_Subset, FS_CardinalityType DEF Threads
<1>2. MaxExec \in Nat
  BY DEF SchedulerAssumption
<1>3. ASSUME NEW t \in Threaded
      PROVE  Budget(t)'
  <2>1. CASE tick'[t] = tick[t]
    <3>1. Budget(t) /\ Cardinality(tick[t].todo) \in Nat
      BY Finite DEF ThreadInv, SchedulerAssumption, TypeOK, TickState
    <3> QED
      BY <1>1, <1>2, <2>1, <3>1 DEF Budget, At
  <2>2. CASE tick'[t].pc \in {"idle", "scan", "retry"}
    BY <2>2 DEF Budget, At
  <2> QED
    BY <1>3, <2>1, <2>2
<1> QED
  BY <1>1, <1>2, <1>3 DEF ThreadInv

(***************************************************************************)
(* Every step of the specification that is not one of a tick.              *)
(***************************************************************************)
LEMMA OtherStep ==
    ASSUME StoreAssumption, SchedulerAssumption, IInv, ThreadInv, [Next]_vars,
           \A t \in Ticker : ~TickStep(t)
    PROVE  ThreadInv'
<1>1. TypeOK
  BY DEF IInv
<1>2. CASE UNCHANGED <<exec, tick>>
  BY <1>1, <1>2, NoNewThread DEF ActiveThreads
<1>3. ASSUME NEW a \in DOMAIN exec, ExecStep(a)
      PROVE  ThreadInv'
  <2>1. UNCHANGED tick
    BY <1>3 DEF ExecStep, ExecTriggerFails, ExecStarted, ExecFinished, ExecExhausted
  <2>2. \/ EndExec(a)
        \/ \E b \in BuildNo : exec' = [exec EXCEPT ![a].pc = "poll", ![a].build = b]
    BY <1>3 DEF ExecStep, ExecTriggerFails, ExecStarted, ExecFinished, ExecExhausted
  <2>3. ActiveThreads' \subseteq ActiveThreads
    <3>1. CASE EndExec(a)
      BY <3>1 DEF EndExec, ActiveThreads
    <3>2. ASSUME NEW b \in BuildNo, exec' = [exec EXCEPT ![a].pc = "poll", ![a].build = b]
          PROVE  ActiveThreads' \subseteq ActiveThreads
      <4>1. exec[a] \in Execution
        BY <1>1 DEF TypeOK
      <4>2. DOMAIN exec' = DOMAIN exec
            /\ \A e \in DOMAIN exec : exec'[e].threaded = exec[e].threaded
        BY <3>2, <4>1 DEF Execution
      <4> QED
        BY <4>2 DEF ActiveThreads
    <3> QED
      BY <2>2, <3>1, <3>2
  <2> QED
    BY <1>1, <2>1, <2>3, NoNewThread
<1>4. ASSUME NEW a \in DOMAIN exec, ExecDies(a)
      PROVE  ThreadInv'
  <2>1. ActiveThreads' \subseteq ActiveThreads
    BY <1>4 DEF ExecDies, EndExec, ActiveThreads
  <2> QED
    BY <1>1, <1>4, <2>1, NoNewThread DEF ExecDies
<1>5. ASSUME NEW t \in Ticker, TickDies(t)
      PROVE  ThreadInv'
  <2>1. \A u \in Threaded : tick'[u] = tick[u] \/ tick'[u].pc = "idle"
    <3>1. IdleTick.pc = "idle"
      BY DEF IdleTick, TickAt
    <3> QED
      BY <1>1, <1>5, <3>1 DEF TickDies, TypeOK, SchedulerAssumption
  <2>2. ActiveThreads' \subseteq ActiveThreads
    BY <1>5 DEF TickDies, ActiveThreads
  <2> QED
    BY <1>1, <2>1, <2>2, NoNewThread
<1>6. CASE OverdueStep \/ PrematureStep \/ OperatorStep
  BY <1>2, <1>6 DEF OverdueStep, PrematureStep, OperatorStep, Operator, HeartbeatAges, StartAges
<1>7. CASE RequestStep
  BY <1>2, <1>7 DEF RequestStep, CancelRead, RetryRead, Receive, CancelWrite, RetryWrite, BulkRecover
<1>8. CASE \E r \in Run : Submit(r) \/ BackoffElapses(r)
  BY <1>2, <1>8 DEF Submit, BackoffElapses
<1>9. CASE UNCHANGED vars
  BY <1>2, <1>9 DEF vars
<1> QED
  BY <1>3, <1>4, <1>5, <1>6, <1>7, <1>8, <1>9 DEF Next, MortalNext, QuietNext, DeathStep

(***************************************************************************)
(* A step of one tick.  That of a Celery ticker starts no thread; the      *)
(* in-process one is alone, so only its own budget is at stake.            *)
(***************************************************************************)
LEMMA CeleryTick ==
    ASSUME StoreAssumption, SchedulerAssumption, IInv, ThreadInv,
           NEW t \in Ticker \ Threaded, TickStep(t)
    PROVE  ThreadInv'
<1>1. TypeOK
  BY DEF IInv
<1>2. \A u \in Threaded : tick'[u] = tick[u]
  <2>1. \A u \in Threaded : u \in Ticker /\ u # t
    BY DEF SchedulerAssumption
  <2>2. \A u \in Ticker : u # t => tick'[u] = tick[u]
    BY <1>1 DEF TypeOK, TickStep, TickRecover, TickSelect, TickScan, TickRetry, TickClaim,
                TickSkip, TickPick, TickAssign, TickRevert, DoneWith
  <2> QED
    BY <2>1, <2>2
<1>3. ActiveThreads' \subseteq ActiveThreads
  <2>1. CASE \E r \in Run : TickAssign(t, r)
    <3>1. PICK a \in AsgId, r \in Run :
            exec' = [e \in DOMAIN exec \cup {a} |->
                       IF e = a
                       THEN [run |-> r, pc |-> "trigger", build |-> NoBuild,
                             threaded |-> t \in Threaded]
                       ELSE exec[e]]
      BY <2>1 DEF TickAssign
    <3> QED
      BY <3>1 DEF ActiveThreads
  <2>2. CASE UNCHANGED exec
    BY <2>2 DEF ActiveThreads
  <2> QED
    BY <2>1, <2>2 DEF TickStep, TickRecover, TickSelect, TickScan, TickRetry, TickClaim,
                      TickSkip, TickPick, TickRevert
<1> QED
  BY <1>1, <1>2, <1>3, NoNewThread

LEMMA OneLess ==
    ASSUME SchedulerAssumption, TypeOK, NEW t \in Ticker, NEW r \in tick[t].todo
    PROVE  /\ Cardinality(tick[t].todo \ {r}) = Cardinality(tick[t].todo) - 1
           /\ Cardinality(tick[t].todo) \in Nat
<1>1. tick[t].todo \subseteq Run
  BY DEF TypeOK, TickState
<1>2. IsFiniteSet(tick[t].todo)
  BY <1>1, FS_Subset DEF SchedulerAssumption
<1> QED
  BY <1>2, FS_RemoveElement, FS_CardinalityType

LEMMA ThreadedTick ==
    ASSUME StoreAssumption, SchedulerAssumption, IInv, ThreadInv,
           NEW t \in Threaded, TickStep(t)
    PROVE  ThreadInv'
<1>1. TypeOK
  BY DEF IInv
<1>2. t \in Ticker /\ tick[t] \in TickState /\ \A u \in Threaded : u = t
  BY <1>1 DEF SchedulerAssumption, TypeOK
<1>3. Budget(t) /\ Threads <= 2 * MaxExec - 1 /\ Threads \in Nat /\ MaxExec \in Nat \ {0}
  BY <1>1, Finite DEF ThreadInv, SchedulerAssumption
<1>4. ASSUME Budget(t)', Threads' <= 2 * MaxExec - 1
      PROVE  ThreadInv'
  BY <1>2, <1>4 DEF ThreadInv
<1>5. CASE TickRecover(t)
  <2>1. UNCHANGED exec /\ Threads < MaxExec
    BY <1>5 DEF TickRecover, Threads
  <2>2. Threads' = Threads
    BY <2>1 DEF Threads, ActiveThreads
  <2>3. tick'[t].pc = "select"
    BY <1>1, <1>2, <1>5 DEF TickRecover, TypeOK, TickState
  <2>4. Budget(t)'
    BY <1>3, <2>1, <2>2, <2>3 DEF Budget, At
  <2> QED
    BY <1>3, <1>4, <2>2, <2>4
<1>6. CASE TickSelect(t)
  <2>1. Threads' = Threads
    BY <1>6 DEF TickSelect, Threads, ActiveThreads
  <2>2. Threads <= MaxExec - 1
    BY <1>3, <1>6 DEF TickSelect, Budget
  <2>3. PICK S \in SUBSET Queued :
          /\ IF Room THEN IsBatch(S) ELSE S = {}
          /\ tick' = [tick EXCEPT ![t] = TickAt(IF S = {} THEN "scan" ELSE "claim", S, {})]
    BY <1>6 DEF TickSelect
  <2>4. Cardinality(S) \in Nat /\ Cardinality(S) <= MaxExec
    <3>1. Cardinality(S) \in Nat
      BY <1>1, Finite DEF Queued
    <3>2. CASE Room
      BY <2>3, <3>1, <3>2 DEF IsBatch
    <3>3. CASE ~Room
      <4>1. Cardinality({}) = 0
        BY FS_EmptySet
      <4>2. S = {}
        BY <2>3, <3>3, Zenon
      <4> QED
        BY <1>3, <4>1, <4>2
    <3> QED
      BY <3>1, <3>2, <3>3
  <2>5. tick'[t].todo = S /\ tick'[t].pc \in {"scan", "claim"}
    BY <1>1, <1>2, <2>3 DEF TickAt, TypeOK
  <2>6. Budget(t)'
    BY <1>3, <2>1, <2>2, <2>4, <2>5 DEF Budget, At
  <2> QED
    BY <1>3, <1>4, <2>1, <2>6
<1>7. CASE \E r \in Run : TickClaim(t, r) \/ TickPick(t, r)
  <2>1. Threads' = Threads
    BY <1>7 DEF TickClaim, TickPick, Threads, ActiveThreads
  <2>2. /\ tick[t].pc \in {"claim", "pick"}
        /\ tick'[t].todo = tick[t].todo
        /\ tick'[t].pc \in {"pick", "assign", "revert"}
    <3>1. \/ At(t, "claim") /\ tick' = [tick EXCEPT ![t].pc = "pick"]
          \/ /\ At(t, "pick")
             /\ \/ \E w \in Worker : tick' = [tick EXCEPT ![t].pc = "assign", ![t].pick = w,
                                                        ![t].load = worker[w].load]
                \/ tick' = [tick EXCEPT ![t].pc = "revert"]
      BY <1>7 DEF TickClaim, TickPick, BestWorkers, Candidates, IdleWorkers
    <3>2. ASSUME NEW w \in Worker,
                 tick' = [tick EXCEPT ![t].pc = "assign", ![t].pick = w,
                                      ![t].load = worker[w].load]
          PROVE  tick'[t].todo = tick[t].todo /\ tick'[t].pc = "assign"
      <4>1. tick'[t] = [tick[t] EXCEPT !.pc = "assign", !.pick = w, !.load = worker[w].load]
        BY <1>1, <1>2, <3>2 DEF TypeOK
      <4> QED
        BY <1>2, <4>1 DEF TickState
    <3>3. ASSUME NEW pc, tick' = [tick EXCEPT ![t].pc = pc]
          PROVE  tick'[t].todo = tick[t].todo /\ tick'[t].pc = pc
      <4>1. tick'[t] = [tick[t] EXCEPT !.pc = pc]
        BY <1>1, <1>2, <3>3 DEF TypeOK
      <4> QED
        BY <1>2, <4>1 DEF TickState
    <3> QED
      BY <3>1, <3>2, <3>3 DEF At
  <2>3. Budget(t)'
    BY <1>3, <2>1, <2>2 DEF Budget, At
  <2> QED
    BY <1>3, <1>4, <2>1, <2>3
<1>8. CASE \E r \in Run : TickSkip(t, r) \/ TickRevert(t, r)
  <2>1. Threads' = Threads
    BY <1>8 DEF TickSkip, TickRevert, Threads, ActiveThreads
  <2>2. PICK r \in tick[t].todo : DoneWith(t, r) /\ tick[t].pc \in {"claim", "revert"}
    BY <1>8 DEF TickSkip, TickRevert, Current, At
  <2>3. tick'[t].todo = tick[t].todo \ {r} /\ tick'[t].pc \in {"scan", "claim"}
    BY <1>1, <1>2, <2>2 DEF DoneWith, TickAt, TypeOK
  <2>4. Budget(t)'
    BY <1>1, <1>2, <1>3, <2>1, <2>2, <2>3, OneLess DEF Budget, At
  <2> QED
    BY <1>3, <1>4, <2>1, <2>4
<1>9. CASE \E r \in Run : TickAssign(t, r)
  <2>1. PICK r \in tick[t].todo, a \in AsgId :
          /\ DoneWith(t, r) /\ tick[t].pc = "assign"
          /\ exec' = [e \in DOMAIN exec \cup {a} |->
                        IF e = a
                        THEN [run |-> r, pc |-> "trigger", build |-> NoBuild,
                              threaded |-> t \in Threaded]
                        ELSE exec[e]]
    BY <1>9 DEF TickAssign, Current, At
  <2>2. ActiveThreads' \subseteq ActiveThreads \cup {a}
    BY <2>1 DEF ActiveThreads
  <2>3. Threads' \in Nat /\ Threads' <= Threads + 1
    <3>1. IsFiniteSet(ActiveThreads)
      BY <1>1, Finite
    <3>2. /\ IsFiniteSet(ActiveThreads \cup {a})
          /\ \/ Cardinality(ActiveThreads \cup {a}) = Threads
             \/ Cardinality(ActiveThreads \cup {a}) = Threads + 1
      BY ONLY <3>1, FS_AddElement DEF Threads
    <3>3. /\ IsFiniteSet(ActiveThreads')
          /\ Cardinality(ActiveThreads') <= Cardinality(ActiveThreads \cup {a})
      BY <2>2, <3>2, FS_Subset
    <3>4. Threads' \in Nat /\ Cardinality(ActiveThreads \cup {a}) \in Nat
      BY <3>2, <3>3, FS_CardinalityType DEF Threads
    <3> QED
      BY <1>3, <3>2, <3>3, <3>4 DEF Threads
  <2>4. tick'[t].todo = tick[t].todo \ {r} /\ tick'[t].pc \in {"scan", "claim"}
    BY <1>1, <1>2, <2>1 DEF DoneWith, TickAt, TypeOK
  <2>5. Cardinality(tick[t].todo \ {r}) = Cardinality(tick[t].todo) - 1
        /\ Cardinality(tick[t].todo) \in Nat /\ Cardinality(tick[t].todo \ {r}) \in Nat
    BY <1>1, <1>2, OneLess, Finite DEF TickState
  <2>6. Threads + Cardinality(tick[t].todo) <= 2 * MaxExec - 1
    BY <1>3, <2>1 DEF Budget
  <2>7. Threads' + Cardinality(tick[t].todo \ {r}) <= 2 * MaxExec - 1
    BY <1>3, <2>3, <2>5, <2>6
  <2>8. Budget(t)'
    BY <2>4, <2>7 DEF Budget, At
  <2> QED
    BY <1>3, <1>4, <2>3, <2>5, <2>7, <2>8
<1>10. CASE TickScan(t) \/ TickRetry(t)
  <2>1. ActiveThreads' \subseteq ActiveThreads
    BY <1>10 DEF TickScan, TickRetry, ActiveThreads
  <2>2. tick'[t].pc \in {"retry", "idle"}
    BY <1>1, <1>2, <1>10 DEF TickScan, TickRetry, IdleTick, TickAt, TypeOK
  <2> QED
    BY <1>1, <1>2, <2>1, <2>2, NoNewThread
<1> QED
  BY <1>5, <1>6, <1>7, <1>8, <1>9, <1>10 DEF TickStep

-----------------------------------------------------------------------------
(* Theorems *)

(***************************************************************************)
(* The invariant the theorems below are conjuncts of.                      *)
(***************************************************************************)
THEOREM Invariance == Spec => []IInv
<1>1. Init => IInv
  BY StoreAssumption, SchedulerAssumption, InitIInv
<1>2. IInv /\ [Next]_vars => IInv'
  BY StoreAssumption, SchedulerAssumption, NextIInv
<1> QED
  BY <1>1, <1>2, PTL DEF Spec

(***************************************************************************)
(* Rows, ticks, executions and requests keep their types (Scheduler.Next). *)
(***************************************************************************)
THEOREM TypeCorrect == Spec => []TypeOK
BY Invariance, PTL DEF IInv

(***************************************************************************)
(* No worker is BUSY for nothing, whatever ticks, executions, requests,    *)
(* operators, timeouts and deaths do to the three tables.                  *)
(***************************************************************************)
THEOREM BusyWorkersAreAssigned == Spec => []BusyHasOpenAssignment
BY Invariance, PTL DEF IInv

(***************************************************************************)
(* retry_count stays within max_retries for any number of racing retry     *)
(* phases and retry requests.                                              *)
(***************************************************************************)
THEOREM RetriesAreBounded == Spec => []RetryBudget
BY Invariance, PTL DEF IInv

(***************************************************************************)
(* A cancelled run that nobody had in hand stays cancelled, whatever ticks *)
(* had selected it before, for any number of processes and requests.       *)
(***************************************************************************)
THEOREM CancelsStick == Spec => AbortedStays
<1>1. ASSUME TypeOK, [Next]_vars
      PROVE  [\A r \in Run : run[r].status = "ABORTED" /\ ~InHand(r)
                             => run'[r].status = "ABORTED"]_vars
  BY <1>1, NextKeepsAborted
<1> QED
  BY <1>1, TypeCorrect, PTL DEF Spec, AbortedStays

(***************************************************************************)
(* Whatever dies, expires or is requested, the process never runs more     *)
(* than twice its cap of execution threads, less one: the cap is checked   *)
(* once a tick, and a tick starts at most a batch (_scheduler_tick_async). *)
(***************************************************************************)
THEOREM ThreadsAreBounded == Spec => []ThreadBound
<1>1. Init => ThreadInv
  <2> SUFFICES ASSUME Init PROVE ThreadInv
    OBVIOUS
  <2>1. ActiveThreads = {}
    BY DEF Init, ActiveThreads
  <2>2. Threads = 0
    BY <2>1, FS_EmptySet DEF Threads
  <2>3. \A t \in Threaded : Budget(t)
    BY SchedulerAssumption DEF Init, Budget, At, IdleTick, TickAt
  <2> QED
    BY <2>2, <2>3, SchedulerAssumption DEF ThreadInv
<1>2. IInv /\ ThreadInv /\ [Next]_vars => ThreadInv'
  <2> SUFFICES ASSUME IInv, ThreadInv, [Next]_vars PROVE ThreadInv'
    OBVIOUS
  <2>1. CASE \E t \in Ticker : TickStep(t)
    BY <2>1, StoreAssumption, SchedulerAssumption, CeleryTick, ThreadedTick
  <2>2. CASE \A t \in Ticker : ~TickStep(t)
    BY <2>2, StoreAssumption, SchedulerAssumption, OtherStep
  <2> QED
    BY <2>1, <2>2
<1>3. ThreadInv => ThreadBound
  BY DEF ThreadInv, ThreadBound, Threads
<1> QED
  BY <1>1, <1>2, <1>3, Invariance, PTL DEF Spec
=============================================================================
