--------------------------- MODULE TrackingProofs ---------------------------
(***************************************************************************)
(* Proofs about BuildTracking, for any number of runs, workers and builds, *)
(* any retries and any loss, delay or reordering of webhooks.  Types; then *)
(* that a run which ends at its first attempt leaves no worker behind; and *)
(* then, when no two runs share a job, that a run is linked only to a      *)
(* build of its own and COMPLETED only by a success of its own.  Last,     *)
(* that a run in progress is always in the hands of an execution, if only  *)
(* executions work on it.                                                  *)
(***************************************************************************)
EXTENDS BuildTracking, StoreProofs

-----------------------------------------------------------------------------
(* Types *)

\* A run that is queued again has an execution of its own among the paths.
Budget == \A r \in Run : run[r].retries <= MaxRetries

TypeInv == TypeOK /\ Budget

LEMMA InitTypeInv == ASSUME TrackingAssumption, StoreAssumption, Init PROVE TypeInv
<1>1. NewRun \in RunRow /\ NewWorker \in WorkerRow
  BY StoreAssumption DEF NewRun, RunRow, RunStatus, NewWorker, WorkerRow
<1>2. StoreTypeOK
  BY <1>1 DEF Init, StoreInit, StoreTypeOK
<1>3. Budget
  <2>1. NewRun.retries = 0 /\ 0 <= MaxRetries
    BY StoreAssumption DEF StoreAssumption, NewRun
  <2>2. \A r \in Run : run[r] = NewRun
    BY DEF Init, StoreInit
  <2> QED
    BY <2>1, <2>2 DEF Budget
<1>4. Untracked \in Tracker
  BY DEF TrackingAssumption, Untracked, Tracker
<1> QED
  BY <1>2, <1>3, <1>4 DEF Init, TypeInv, TypeOK

LEMMA Paths ==
    ASSUME StoreAssumption, TypeInv
    PROVE  Task \in Path /\ 1 \in Path /\ \A r \in Run : Exec(r) \in Path
BY DEF StoreAssumption, TypeInv, TypeOK, Budget, StoreTypeOK, RunRow, Exec, Path, Task

Pc == {"off", "claimed", "trigger", "resolve", "mark", "poll", "over"}

(***************************************************************************)
(* One path moves with one run.                                            *)
(***************************************************************************)
LEMMA TrackerMoves ==
    ASSUME TypeInv, NEW p \in Path, NEW r \in Run, NEW row \in Tracker,
           tracker' = [tracker EXCEPT ![p] = [tracker[p] EXCEPT ![r] = row]]
    PROVE  /\ tracker' \in [Path -> [Run -> Tracker]]
           /\ tracker'[p][r] = row
           /\ \A o \in Path, q \in Run : o # p \/ q # r => tracker'[o][q] = tracker[o][q]
BY DEF TypeInv, TypeOK

LEMMA GotoMoves ==
    ASSUME TypeInv, NEW p \in Path, NEW r \in Run, NEW pc \in Pc, Goto(p, r, pc)
    PROVE  /\ tracker' \in [Path -> [Run -> Tracker]]
           /\ tracker'[p][r].pc = pc
           /\ tracker'[p][r].item = tracker[p][r].item
           /\ tracker'[p][r].build = tracker[p][r].build
           /\ \A o \in Path, q \in Run : o # p \/ q # r => tracker'[o][q] = tracker[o][q]
<1> DEFINE row == [tracker[p][r] EXCEPT !.pc = pc]
<1>1. tracker[p][r] \in Tracker
  BY DEF TypeInv, TypeOK
<1>2. /\ row \in Tracker /\ row.pc = pc
      /\ row.item = tracker[p][r].item /\ row.build = tracker[p][r].build
  BY <1>1 DEF Tracker, Pc
<1>3. tracker' = [tracker EXCEPT ![p] = [tracker[p] EXCEPT ![r] = row]]
  BY DEF Goto, TypeInv, TypeOK
<1> HIDE DEF row
<1> QED
  BY <1>2, <1>3, TrackerMoves

(***************************************************************************)
(* What a step writes of the rows: one run alone, the start of a build and *)
(* its end.                                                                *)
(***************************************************************************)
LEMMA RowMoves ==
    ASSUME TypeInv, NEW r \in Run, NEW row \in RunRow, row.retries <= MaxRetries,
           run' = [run EXCEPT ![r] = row], UNCHANGED <<worker, asg>>
    PROVE  StoreTypeOK' /\ Budget'
BY DEF TypeInv, TypeOK, StoreTypeOK, Budget

LEMMA StartedMoves ==
    ASSUME TypeInv, NEW r \in Run, NEW b \in BuildNo, MarkStarted(r, b)
    PROVE  /\ StoreTypeOK' /\ Budget' /\ earlier' \in [Run -> SUBSET Run]
           /\ run'[r].status = "IN_PROGRESS" /\ run'[r].started = "recent"
           /\ run'[r].build = b /\ run'[r].retries = run[r].retries
           /\ \A q \in Run \ {r} : run'[q] = run[q]
<1>1. StoreTypeOK'
  BY StartedTypes DEF TypeInv, TypeOK, MarkStarted
<1>2. /\ run'[r].status = "IN_PROGRESS" /\ run'[r].started = "recent"
      /\ run'[r].build = b /\ run'[r].retries = run[r].retries
      /\ \A q \in Run \ {r} : run'[q] = run[q]
  BY DEF TypeInv, TypeOK, StoreTypeOK, RunRow, MarkStarted, OnBuildStarted
<1>3. Budget'
  BY <1>2 DEF TypeInv, Budget
<1>4. earlier' \in [Run -> SUBSET Run]
  BY DEF TypeInv, TypeOK, MarkStarted, StampStart
<1> QED
  BY <1>1, <1>2, <1>3, <1>4

LEMMA CompletedMoves ==
    ASSUME TypeInv, NEW r \in Run, NEW res, MarkCompleted(r, res)
    PROVE  /\ StoreTypeOK' /\ Budget' /\ earlier' \in [Run -> SUBSET Run]
           /\ run'[r].status = StatusFor(res) /\ StatusFor(res) \in TerminalStatus
           /\ run'[r].build = run[r].build /\ run'[r].retries = run[r].retries
           /\ run'[r].started = run[r].started
           /\ \A q \in Run \ {r} : run'[q] = run[q]
<1>1. StoreTypeOK'
  BY CompletedTypes DEF TypeInv, TypeOK, MarkCompleted
<1>2. /\ run'[r].status = StatusFor(res)
      /\ run'[r].build = run[r].build /\ run'[r].retries = run[r].retries
      /\ run'[r].started = run[r].started
      /\ \A q \in Run \ {r} : run'[q] = run[q]
  BY DEF TypeInv, TypeOK, StoreTypeOK, RunRow, MarkCompleted, OnBuildCompleted
<1>3. Budget'
  BY <1>2 DEF TypeInv, Budget
<1>4. StatusFor(res) \in TerminalStatus
  BY DEF StatusFor, TerminalStatus
<1> QED
  BY <1>1, <1>2, <1>3, <1>4 DEF TypeInv, TypeOK, MarkCompleted

(* One lemma for each kind of step *)

LEMMA SubmitTypes == ASSUME StoreAssumption, TypeInv, NEW r \in Run, Submit(r) PROVE TypeInv'
<1> DEFINE row == [run[r] EXCEPT !.status = "QUEUED"]
<1>1. row \in RunRow /\ row.retries <= MaxRetries /\ run' = [run EXCEPT ![r] = row]
  BY DEF TypeInv, TypeOK, Budget, StoreTypeOK, RunRow, RunStatus, Submit, SchedulePipeline
<1>2. UNCHANGED <<worker, asg, builds, hooks, earlier>>
  BY DEF Submit, SchedulePipeline
<1> HIDE DEF row
<1>3. StoreTypeOK' /\ Budget'
  BY <1>1, <1>2, RowMoves
<1>4. tracker' \in [Path -> [Run -> Tracker]]
  BY GotoMoves, Paths DEF Submit, Pc, TypeInv, TypeOK
<1> QED
  BY <1>2, <1>3, <1>4 DEF TypeInv, TypeOK

LEMMA TickTypes == ASSUME StoreAssumption, TypeInv, Tick PROVE TypeInv'
<1>1. PICK r \in Run : Claim(r) \/ Assign(r) \/ Revert(r)
  BY DEF Tick
<1>2. tracker' \in [Path -> [Run -> Tracker]] /\ UNCHANGED <<builds, hooks>>
  <2>1. \E pc \in Pc : Goto(Exec(r), r, pc)
    BY <1>1 DEF Claim, Assign, Revert, Pc
  <2> QED
    BY <1>1, <2>1, GotoMoves, Paths DEF Claim, Assign, Revert
<1>3. earlier' \in [Run -> SUBSET Run]
  BY <1>1 DEF TypeInv, TypeOK, Claim, Assign, Revert, StampStart
<1>4. run[r] \in RunRow /\ run[r].retries <= MaxRetries
  BY DEF TypeInv, TypeOK, Budget, StoreTypeOK
<1>5. CASE Claim(r)
  <2> DEFINE row == [run[r] EXCEPT !.status = "IN_PROGRESS", !.started = "recent"]
  <2>1. row \in RunRow /\ row.retries <= MaxRetries
    BY <1>4 DEF RunRow, RunStatus
  <2>2. run' = [run EXCEPT ![r] = row] /\ UNCHANGED <<worker, asg>>
    BY <1>5 DEF Claim, TypeInv, TypeOK, StoreTypeOK
  <2> HIDE DEF row
  <2>3. StoreTypeOK' /\ Budget'
    BY <2>1, <2>2, RowMoves
  <2> QED
    BY <1>2, <1>3, <2>3 DEF TypeInv, TypeOK
<1>6. CASE Revert(r)
  <2> DEFINE row == [run[r] EXCEPT !.status = "QUEUED", !.started = "null"]
  <2>1. row \in RunRow /\ row.retries <= MaxRetries
    BY <1>4 DEF RunRow, RunStatus
  <2>2. run' = [run EXCEPT ![r] = row] /\ UNCHANGED <<worker, asg>>
    BY <1>6 DEF Revert, TypeInv, TypeOK, StoreTypeOK
  <2> HIDE DEF row
  <2>3. StoreTypeOK' /\ Budget'
    BY <2>1, <2>2, RowMoves
  <2> QED
    BY <1>2, <1>3, <2>3 DEF TypeInv, TypeOK
<1>7. CASE Assign(r)
  <2>1. PICK w \in BestWorkers(r), a \in AsgId : AssignWorker(r, w, worker[w].load, a)
    BY <1>7 DEF Assign
  <2>2. w \in Worker /\ worker[w].load \in 0..2
    BY DEF BestWorkers, Candidates, IdleWorkers, TypeInv, TypeOK, StoreTypeOK, WorkerRow
  <2>3. UNCHANGED run
    BY <1>7 DEF Assign
  <2>4. StoreTypeOK'
    BY <2>1, <2>2, <2>3, AssignedTypes DEF TypeInv, TypeOK
  <2> QED
    BY <1>2, <1>3, <2>3, <2>4 DEF TypeInv, TypeOK, Budget
<1> QED
  BY <1>1, <1>5, <1>6, <1>7

LEMMA RetryTypes ==
    ASSUME StoreAssumption, TypeInv, NEW r \in Run, RetryPhase(r) \/ BackoffElapses(r)
    PROVE  TypeInv'
<1>1. run[r] \in RunRow /\ run[r].retries <= MaxRetries
  BY DEF TypeInv, TypeOK, Budget, StoreTypeOK
<1>2. UNCHANGED <<worker, asg, tracker, builds, hooks, earlier>>
  BY DEF RetryPhase, ArmRetry, Retry, BackoffElapses
<1>3. ASSUME NEW row \in RunRow, row.retries <= MaxRetries, run' = [run EXCEPT ![r] = row]
      PROVE  TypeInv'
  BY <1>2, <1>3, RowMoves DEF TypeInv, TypeOK
<1>4. ASSUME NEW b \in {"waiting", "due"}, run' = [run EXCEPT ![r].backoff = b]
      PROVE  TypeInv'
  <2> DEFINE row == [run[r] EXCEPT !.backoff = b]
  <2>1. row \in RunRow /\ row.retries <= MaxRetries
    BY <1>1 DEF RunRow
  <2>2. run' = [run EXCEPT ![r] = row]
    BY <1>4 DEF TypeInv, TypeOK, StoreTypeOK
  <2> HIDE DEF row
  <2> QED
    BY <1>3, <2>1, <2>2
<1>5. CASE Retry(r)
  <2> DEFINE row == [run[r] EXCEPT !.status = "QUEUED", !.started = "null",
                                   !.backoff = "null", !.retries = run[r].retries + 1]
  <2>1. run[r].retries < MaxRetries /\ run[r].retries \in Nat /\ MaxRetries \in Nat
    BY <1>1, <1>5 DEF Retry, Retryable, RunRow, StoreAssumption
  <2>2. run[r].retries + 1 \in Nat /\ run[r].retries + 1 <= MaxRetries
    BY <2>1
  <2>3. row \in RunRow /\ row.retries <= MaxRetries
    BY <1>1, <2>2 DEF RunRow, RunStatus
  <2>4. run' = [run EXCEPT ![r] = row]
    BY <1>5 DEF Retry, TypeInv, TypeOK, StoreTypeOK
  <2> HIDE DEF row
  <2> QED
    BY <1>3, <2>3, <2>4
<1> QED
  BY <1>4, <1>5 DEF RetryPhase, ArmRetry, BackoffElapses

LEMMA RecoverTypes ==
    ASSUME TypeInv, Recover \/ \E w \in Worker : HeartbeatExpires(w)
    PROVE  TypeInv'
<1>1. UNCHANGED <<tracker, builds, hooks, earlier>>
  BY DEF Recover, HeartbeatExpires
<1>2. CASE Recover
  <2>1. StoreTypeOK'
    BY <1>2, RecoveredTypes DEF Recover, TypeInv, TypeOK
  <2>2. Budget'
    BY <1>2, RecoverRetries DEF Recover, TypeInv, TypeOK, Budget
  <2> QED
    BY <1>1, <2>1, <2>2 DEF TypeInv, TypeOK
<1>3. ASSUME NEW w \in Worker, HeartbeatExpires(w)
      PROVE  TypeInv'
  <2>1. worker' \in [Worker -> WorkerRow] /\ UNCHANGED <<run, asg>>
    BY <1>3 DEF HeartbeatExpires, TypeInv, TypeOK, StoreTypeOK, WorkerRow
  <2> QED
    BY <1>1, <2>1 DEF TypeInv, TypeOK, StoreTypeOK, Budget
<1> QED
  BY <1>2, <1>3

(***************************************************************************)
(* A path goes on with a run without touching the tables: it triggers a    *)
(* build, resolves its queue item, or starts over.                         *)
(***************************************************************************)
WorksOn(p, r) ==
    \/ Trigger(p, r)
    \/ ResolveQueueItem(p, r)
    \/ p = Task /\ TaskRetries(r)

LEMMA WorksOnMoves ==
    ASSUME TrackingAssumption, TypeInv, NEW p \in Path, NEW r \in Run, WorksOn(p, r)
    PROVE  /\ UNCHANGED <<run, worker, asg, hooks, earlier>>
           /\ tracker' \in [Path -> [Run -> Tracker]]
           /\ tracker[p][r].pc # "off"
           /\ tracker'[p][r].pc \in {"trigger", "resolve", "mark"}
           /\ \/ tracker'[p][r].item = tracker[p][r].item
              \/ /\ tracker'[p][r].item \in DOMAIN builds'
                 /\ builds'[tracker'[p][r].item].cause = r
           /\ tracker'[p][r].build \in {0, tracker[p][r].item, tracker[p][r].build}
           /\ \A o \in Path, q \in Run : o # p \/ q # r => tracker'[o][q] = tracker[o][q]
<1>1. tracker[p][r] \in Tracker
  BY DEF TypeInv, TypeOK
<1>2. UNCHANGED <<run, worker, asg, hooks, earlier>> /\ tracker[p][r].pc # "off"
  BY DEF WorksOn, Trigger, ResolveQueueItem, TaskRetries, At, storeVars
<1>3. PICK row \in Tracker :
         /\ tracker' = [tracker EXCEPT ![p] = [tracker[p] EXCEPT ![r] = row]]
         /\ row.pc \in {"trigger", "resolve", "mark"}
         /\ \/ row.item = tracker[p][r].item
            \/ row.item \in DOMAIN builds' /\ builds'[row.item].cause = r
         /\ row.build \in {0, tracker[p][r].item, tracker[p][r].build}
  <2>1. CASE Trigger(p, r)
    <3>1. PICK n \in 1..MaxBuilds :
             /\ \/ builds' = [m \in DOMAIN builds \cup {n} |->
                                IF m = n THEN [cause |-> r, state |-> "queued", result |-> "none"]
                                         ELSE builds[m]]
                \/ n \in DOMAIN builds /\ builds[n].cause = r /\ UNCHANGED builds
             /\ tracker' = [tracker EXCEPT ![p][r].pc = "resolve", ![p][r].item = n]
      BY <2>1 DEF Trigger
    <3>5. n \in DOMAIN builds' /\ builds'[n].cause = r
      BY <3>1
    <3> DEFINE row == [tracker[p][r] EXCEPT !.pc = "resolve", !.item = n]
    <3>2. n \in 0..MaxBuilds
      BY DEF TrackingAssumption
    <3>3. row \in Tracker /\ row.pc = "resolve" /\ row.item = n /\ row.build = tracker[p][r].build
      BY <1>1, <3>2 DEF Tracker
    <3>4. tracker' = [tracker EXCEPT ![p] = [tracker[p] EXCEPT ![r] = row]]
      BY <3>1 DEF TypeInv, TypeOK
    <3> HIDE DEF row
    <3> QED
      BY <3>3, <3>4, <3>5
  <2>2. CASE ResolveQueueItem(p, r)
    <3>1. PICK b \in {0, tracker[p][r].item} :
             tracker' = [tracker EXCEPT ![p][r].pc = "mark", ![p][r].build = b]
      BY <2>2 DEF ResolveQueueItem
    <3> DEFINE row == [tracker[p][r] EXCEPT !.pc = "mark", !.build = b]
    <3>2. b \in BuildNo
      <4>1. 0 \in 0..MaxBuilds /\ tracker[p][r].item \in 0..MaxBuilds
        BY <1>1 DEF TrackingAssumption, Tracker
      <4> QED
        BY <3>1, <4>1 DEF TrackingAssumption
    <3>3. row \in Tracker /\ row.pc = "mark" /\ row.item = tracker[p][r].item /\ row.build = b
      BY <1>1, <3>2 DEF Tracker
    <3>4. tracker' = [tracker EXCEPT ![p] = [tracker[p] EXCEPT ![r] = row]]
      BY <3>1 DEF TypeInv, TypeOK
    <3> HIDE DEF row
    <3> QED
      BY <3>1, <3>3, <3>4
  <2>3. CASE p = Task /\ TaskRetries(r)
    <3> DEFINE row == [tracker[p][r] EXCEPT !.pc = "trigger", !.tries = tracker[p][r].tries + 1]
    <3>1. tracker[p][r].tries + 1 \in 0..TriggerRetries
      BY <1>1, <2>3 DEF TrackingAssumption, TaskRetries, Tracker
    <3>2. /\ row \in Tracker /\ row.pc = "trigger"
          /\ row.item = tracker[p][r].item /\ row.build = tracker[p][r].build
      BY <1>1, <3>1 DEF Tracker
    <3>3. tracker' = [tracker EXCEPT ![p] = [tracker[p] EXCEPT ![r] = row]]
      BY <2>3 DEF TaskRetries, TypeInv, TypeOK
    <3> HIDE DEF row
    <3> QED
      BY <3>2, <3>3
  <2> QED
    BY <2>1, <2>2, <2>3 DEF WorksOn
<1>4. /\ tracker' \in [Path -> [Run -> Tracker]]
      /\ tracker'[p][r] = row
      /\ \A o \in Path, q \in Run : o # p \/ q # r => tracker'[o][q] = tracker[o][q]
  <2>1. tracker' = [tracker EXCEPT ![p] = [tracker[p] EXCEPT ![r] = row]]
    BY <1>3
  <2> QED
    BY <2>1, TrackerMoves
<1> QED
  BY <1>2, <1>3, <1>4

LEMMA FollowTypes ==
    ASSUME TrackingAssumption, TypeInv, NEW p \in Path, NEW r \in Run, Follow(p, r)
    PROVE  TypeInv'
<1>1. tracker[p][r] \in Tracker
  BY DEF TypeInv, TypeOK
<1>2. CASE WorksOn(p, r)
  <2>1. ASSUME UNCHANGED builds
        PROVE  DOMAIN builds' \subseteq 1..MaxBuilds /\ builds' \in [DOMAIN builds' -> Build]
    BY <2>1 DEF TypeInv, TypeOK
  <2>2. ASSUME NEW n \in 1..MaxBuilds,
               builds' = [m \in DOMAIN builds \cup {n} |->
                            IF m = n THEN [cause |-> r, state |-> "queued", result |-> "none"]
                                     ELSE builds[m]]
        PROVE  DOMAIN builds' \subseteq 1..MaxBuilds /\ builds' \in [DOMAIN builds' -> Build]
    BY <2>2 DEF TypeInv, TypeOK, Build
  <2>3. DOMAIN builds' \subseteq 1..MaxBuilds /\ builds' \in [DOMAIN builds' -> Build]
    BY <1>2, <2>1, <2>2 DEF WorksOn, Trigger, ResolveQueueItem, TaskRetries
  <2>4. UNCHANGED <<run, worker, asg, hooks, earlier>> /\ tracker' \in [Path -> [Run -> Tracker]]
    BY <1>2, WorksOnMoves
  <2> QED
    BY <2>3, <2>4 DEF TypeInv, TypeOK, StoreTypeOK, Budget
<1>3. ASSUME NEW pc \in Pc, Goto(p, r, pc), UNCHANGED <<builds, hooks>>,
             \/ UNCHANGED <<storeVars, earlier>>
             \/ \E b \in BuildNo : MarkStarted(r, b)
             \/ \E res : MarkCompleted(r, res)
      PROVE  TypeInv'
  <2>1. tracker' \in [Path -> [Run -> Tracker]]
    BY <1>3, GotoMoves
  <2>2. StoreTypeOK' /\ Budget' /\ earlier' \in [Run -> SUBSET Run]
    <3>1. CASE UNCHANGED <<storeVars, earlier>>
      BY <3>1 DEF TypeInv, TypeOK, StoreTypeOK, Budget, storeVars
    <3> QED
      BY <1>3, <3>1, StartedMoves, CompletedMoves
  <2> QED
    BY <1>3, <2>1, <2>2 DEF TypeInv, TypeOK
<1>4. CASE Mark(p, r)
  <2>1. tracker[p][r].build \in BuildNo
    BY <1>1 DEF Tracker
  <2> QED
    BY <1>3, <1>4, <2>1 DEF Mark, Pc
<1>5. CASE SyncStages(p, r)
  BY <1>3, <1>5 DEF SyncStages, Pc
<1>6. CASE ExecTriggerFails(p, r) \/ ExecExhausted(p, r)
  BY <1>3, <1>6 DEF ExecTriggerFails, ExecExhausted, Pc
<1>7. CASE p = Task /\ (TaskTriggerFails(r) \/ TaskPollFails(r) \/ TaskExhausted(r))
  BY <1>3, <1>7 DEF TaskTriggerFails, TaskPollFails, TaskExhausted, FinalizeExhaustedPoll, Pc
<1> QED
  BY <1>2, <1>4, <1>5, <1>6, <1>7 DEF Follow, WorksOn

LEMMA JenkinsTypes == ASSUME TrackingAssumption, TypeInv, Jenkins PROVE TypeInv'
<1>1. ASSUME NEW n \in DOMAIN builds, NEW row \in Build, builds' = [builds EXCEPT ![n] = row],
             NEW phase \in {"STARTED", "FINALIZED"},
             hooks' = hooks \cup {[phase |-> phase, build |-> n]},
             UNCHANGED <<storeVars, tracker, earlier>>
      PROVE  TypeInv'
  <2>1. DOMAIN builds' = DOMAIN builds /\ builds' \in [DOMAIN builds -> Build]
    BY <1>1 DEF TypeInv, TypeOK
  <2>2. hooks' \subseteq Hook
    BY <1>1 DEF TypeInv, TypeOK, Hook
  <2> QED
    BY <1>1, <2>1, <2>2 DEF TypeInv, TypeOK, StoreTypeOK, Budget, storeVars
<1>2. ASSUME NEW n \in DOMAIN builds, BuildStarts(n)
      PROVE  TypeInv'
  <2> DEFINE row == [builds[n] EXCEPT !.state = "running"]
  <2>1. row \in Build /\ builds' = [builds EXCEPT ![n] = row]
    BY <1>2 DEF BuildStarts, TypeInv, TypeOK, Build
  <2> HIDE DEF row
  <2> QED
    BY <1>1, <1>2, <2>1 DEF BuildStarts
<1>3. ASSUME NEW n \in DOMAIN builds, NEW res \in Outcome, BuildEnds(n, res)
      PROVE  TypeInv'
  <2> DEFINE row == [builds[n] EXCEPT !.state = "done", !.result = res]
  <2>1. row \in Build /\ builds' = [builds EXCEPT ![n] = row]
    BY <1>3 DEF BuildEnds, TypeInv, TypeOK, Build, TrackingAssumption
  <2> HIDE DEF row
  <2> QED
    BY <1>1, <1>3, <2>1 DEF BuildEnds
<1>4. ASSUME NEW h \in hooks, JenkinsWebhook(h)
      PROVE  TypeInv'
  <2>1. h.build \in BuildNo /\ hooks' \subseteq Hook /\ UNCHANGED <<tracker, builds>>
    <3>1. h.build \in 0..MaxBuilds
      BY DEF TypeInv, TypeOK, Hook, TrackingAssumption
    <3> QED
      BY <1>4, <3>1 DEF TypeInv, TypeOK, TrackingAssumption, JenkinsWebhook
  <2>2. \/ UNCHANGED <<storeVars, earlier>>
        \/ \E r \in Run : MarkStarted(r, h.build)
        \/ \E r \in Run : \E res : MarkCompleted(r, res)
    BY <1>4 DEF JenkinsWebhook, HandleBuildStarted, HandleBuildCompletion, LinkedTo
  <2>3. StoreTypeOK' /\ Budget' /\ earlier' \in [Run -> SUBSET Run]
    <3>1. CASE UNCHANGED <<storeVars, earlier>>
      BY <3>1 DEF TypeInv, TypeOK, StoreTypeOK, Budget, storeVars
    <3> QED
      BY <2>1, <2>2, <3>1, StartedMoves, CompletedMoves
  <2> QED
    BY <2>1, <2>3 DEF TypeInv, TypeOK
<1> QED
  BY <1>2, <1>3, <1>4 DEF Jenkins

LEMMA NextTypes ==
    ASSUME TrackingAssumption, StoreAssumption, TypeInv, [Next]_vars
    PROVE  TypeInv'
<1>1. CASE UNCHANGED vars
  BY <1>1 DEF vars, TypeInv, TypeOK, StoreTypeOK, Budget
<1> QED
  BY <1>1, SubmitTypes, TickTypes, RetryTypes, RecoverTypes, FollowTypes, JenkinsTypes DEF Next

(***************************************************************************)
(* The types, and that no retry counter passes max_retries (the retry      *)
(* phase of app/scheduler.py).                                             *)
(***************************************************************************)
THEOREM TypeInvariance == Spec => []TypeInv
<1>1. Init => TypeInv
  BY InitTypeInv, TrackingAssumption, StoreAssumption
<1>2. TypeInv /\ [Next]_vars => TypeInv'
  BY NextTypes, TrackingAssumption, StoreAssumption
<1> QED
  BY <1>1, <1>2, PTL DEF Spec

(***************************************************************************)
(* Every table, path and webhook of the model keeps its type.              *)
(***************************************************************************)
THEOREM TypeCorrect == Spec => []TypeOK
<1>1. TypeInv => TypeOK
  BY DEF TypeInv
<1> QED
  BY <1>1, TypeInvariance, PTL

-----------------------------------------------------------------------------
(* First attempts *)

Rows(r) == {a \in DOMAIN asg : asg[a].run = r}

FirstAt(r) == tracker[1][r].pc

Waiting(r) == run[r].status \in {"ABSENT", "QUEUED"}

(***************************************************************************)
(* The worker of a run at its first attempt is in the hands of the one     *)
(* execution this attempt has: the run has a single assignment row, which  *)
(* the execution makes when it starts; while the row is open its worker is *)
(* not stale; and the row is closed once the execution is over, or polls   *)
(* for a run that has ended.  A run that waits has no execution yet.       *)
(***************************************************************************)
Attended(r) ==
    /\ Waiting(r) => FirstAt(r) = "off"
    /\ FirstAt(r) \in {"off", "claimed"} => Rows(r) = {}
    /\ \A a, b \in Rows(r) : a = b
    /\ FirstAt(r) = "over" => OpenOf(r) = {}
    /\ FirstAt(r) = "poll" /\ Finished(r) => OpenOf(r) = {}
    /\ \A a \in OpenOf(r) : asg[a].worker \notin StaleWorkers

\* No run in progress was started before the cutoff of the orphan sweep.
Timely == \A r \in Run : run[r].status = "IN_PROGRESS" => run[r].started = "recent"

FirstInv == Timely /\ \A r \in Run : FirstAttempt(r) => Attended(r)

LEMMA InitFirst ==
    ASSUME TrackingAssumption, StoreAssumption, Init
    PROVE  FirstInv
<1>1. Task \in Path /\ 1 \in Path
  BY DEF StoreAssumption, Path, Task
<1>2. \A r \in Run : FirstAt(r) = "off"
  BY <1>1 DEF Init, FirstAt, Untracked
<1>3. Timely
  BY DEF Init, StoreInit, NewRun, Timely
<1>4. \A r \in Run : Rows(r) = {} /\ OpenOf(r) = {}
  BY DEF Init, StoreInit, Rows, OpenOf, Open
<1> QED
  BY <1>2, <1>3, <1>4 DEF FirstInv, Attended

(***************************************************************************)
(* What a step may do to an attended run and leave it attended: no new     *)
(* row, no row given away or opened again, no worker gone stale, and the   *)
(* execution either stays or works on.                                     *)
(***************************************************************************)
RowsKept(r) ==
    /\ \A a \in Rows(r)' : a \in Rows(r) /\ asg'[a].worker = asg[a].worker
    /\ OpenOf(r)' \subseteq OpenOf(r)

Undisturbed(r) ==
    /\ Waiting(r)' => Waiting(r)
    /\ Finished(r)' => Finished(r)
    /\ RowsKept(r)
    /\ StaleWorkers' \subseteq StaleWorkers
    /\ \/ FirstAt(r)' = FirstAt(r)
       \/ /\ FirstAt(r) # "off"
          /\ \/ FirstAt(r)' \in {"trigger", "resolve", "mark"}
             \/ FirstAt(r)' = "poll" /\ ~Finished(r)'

LEMMA StillAttended ==
    ASSUME NEW r \in Run, Attended(r), Undisturbed(r)
    PROVE  Attended(r)'
<1>1. Waiting(r)' => FirstAt(r)' = "off"
  BY DEF Attended, Undisturbed
<1>2. FirstAt(r)' \in {"off", "claimed"} => Rows(r)' = {}
  BY DEF Attended, Undisturbed, RowsKept
<1>3. \A a, b \in Rows(r)' : a = b
  BY DEF Attended, Undisturbed, RowsKept
<1>4. FirstAt(r)' = "over" => OpenOf(r)' = {}
  BY DEF Attended, Undisturbed, RowsKept
<1>5. FirstAt(r)' = "poll" /\ Finished(r)' => OpenOf(r)' = {}
  BY DEF Attended, Undisturbed, RowsKept
<1>6. \A a \in OpenOf(r)' : asg'[a].worker \notin StaleWorkers'
  <2>1. \A a \in OpenOf(r)' : a \in Rows(r)'
    BY DEF OpenOf, Open, Rows
  <2> QED
    BY <2>1 DEF Attended, Undisturbed, RowsKept
<1> QED
  BY <1>1, <1>2, <1>3, <1>4, <1>5, <1>6 DEF Attended

LEMMA NoRowsChange ==
    ASSUME NEW r \in Run, UNCHANGED asg
    PROVE  RowsKept(r)
BY DEF RowsKept, Rows, OpenOf, Open

LEMMA RowsStayKept ==
    ASSUME NEW r \in Run, RowsStay
    PROVE  RowsKept(r)
BY DEF RowsKept, RowsStay, Rows, OpenOf, Open

(***************************************************************************)
(* A step that concerns one run.                                           *)
(***************************************************************************)
LEMMA OneRun ==
    ASSUME FirstInv, Timely', NEW r \in Run,
           \A q \in Run \ {r} : Undisturbed(q) /\ run'[q] = run[q],
           FirstAttempt(r)' => Attended(r)'
    PROVE  FirstInv'
<1>1. ASSUME NEW q \in Run, FirstAttempt(q)'
      PROVE  Attended(q)'
  <2>1. CASE q = r
    BY <1>1, <2>1
  <2>2. CASE q # r
    BY <1>1, <2>2, StillAttended DEF FirstInv, FirstAttempt
  <2> QED
    BY <2>1, <2>2
<1> QED
  BY <1>1 DEF FirstInv

LEMMA StartedFirst ==
    ASSUME TypeInv, FirstInv, NEW r \in Run, NEW b \in BuildNo, MarkStarted(r, b),
           \A q \in Run \ {r} : FirstAt(q)' = FirstAt(q),
           \/ FirstAt(r)' = FirstAt(r)
           \/ FirstAt(r) # "off" /\ FirstAt(r)' = "poll"
    PROVE  FirstInv'
<1>1. /\ run'[r].status = "IN_PROGRESS" /\ run'[r].started = "recent"
      /\ run'[r].retries = run[r].retries
      /\ \A q \in Run \ {r} : run'[q] = run[q]
  BY StartedMoves
<1>2. Timely'
  BY <1>1 DEF FirstInv, Timely
<1>3. RowsStay
  BY StartedRows DEF TypeInv, TypeOK, MarkStarted
<1>4. StaleWorkers' = StaleWorkers
  BY DEF MarkStarted, OnBuildStarted, StaleWorkers
<1>5. \A q \in Run : Undisturbed(q)
  BY <1>1, <1>3, <1>4, RowsStayKept DEF Undisturbed, Waiting, Finished, TerminalStatus
<1>6. FirstAttempt(r)' => Attended(r)'
  BY <1>1, <1>5, StillAttended DEF FirstInv, FirstAttempt
<1> QED
  BY <1>1, <1>2, <1>5, <1>6, OneRun

(***************************************************************************)
(* A run at its first attempt has one row, so the row release_worker       *)
(* closes is the open one.                                                 *)
(***************************************************************************)
LEMMA CompletedFirst ==
    ASSUME TypeInv, FirstInv, NEW r \in Run, NEW res, MarkCompleted(r, res),
           \A q \in Run \ {r} : FirstAt(q)' = FirstAt(q),
           FirstAt(r)' = FirstAt(r) \/ FirstAt(r)' = "over"
    PROVE  FirstInv'
<1>1. /\ run'[r].status \in TerminalStatus /\ run'[r].retries = run[r].retries
      /\ \A q \in Run \ {r} : run'[q] = run[q]
  BY CompletedMoves
<1>2. Timely'
  BY <1>1 DEF FirstInv, Timely, TerminalStatus
<1>3. RowsStay
  BY CompletedRows DEF TypeInv, TypeOK, MarkCompleted
<1>4. StaleWorkers' \subseteq StaleWorkers
  <2>1. CASE UNCHANGED worker
    BY <2>1 DEF StaleWorkers
  <2>2. ASSUME NEW a \in OpenOf(r), ReleaseWorker(asg[a].worker, r, res = "SUCCESS")
        PROVE  StaleWorkers' \subseteq StaleWorkers
    <3>1. asg[a].worker \in Worker
      BY DEF OpenOf, Open, TypeInv, TypeOK, StoreTypeOK, AsgRow
    <3> QED
      BY <2>2, <3>1, ReleasedTypes DEF StaleWorkers, TypeInv, TypeOK
  <2> QED
    BY <2>1, <2>2 DEF MarkCompleted, OnBuildCompleted
<1>5. \A q \in Run \ {r} : Undisturbed(q)
  BY <1>1, <1>3, <1>4, RowsStayKept DEF Undisturbed, Waiting, Finished
<1>6. ASSUME FirstAttempt(r)'
      PROVE  Attended(r)'
  <2>1. Attended(r)
    BY <1>1, <1>6 DEF FirstInv, FirstAttempt
  <2>2. OpenOf(r)' = {}
    <3>1. CASE OpenOf(r) = {}
      BY <1>3, <3>1, RowsStayKept DEF RowsKept
    <3>2. ASSUME NEW a \in OpenOf(r), ReleaseWorker(asg[a].worker, r, res = "SUCCESS")
          PROVE  OpenOf(r)' = {}
      <4>1. \A b \in Rows(r) : b = a
        BY <2>1 DEF Attended, OpenOf, Open, Rows
      <4>2. PICK b \in Rows(r), closed \in {"DONE", "FAILED"} :
               asg' = [asg EXCEPT ![b].status = closed]
        BY <3>2 DEF ReleaseWorker, RowsOf, Rows
      <4>3. asg'[a].status \notin OpenStatus
        BY <4>1, <4>2 DEF OpenStatus, Rows, TypeInv, TypeOK, StoreTypeOK, AsgRow
      <4>4. \A b1 \in OpenOf(r)' : b1 = a
        BY <1>3, <4>1 DEF RowsStay, OpenOf, Open, Rows
      <4> QED
        BY <4>3, <4>4 DEF OpenOf, Open
    <3> QED
      BY <3>1, <3>2 DEF MarkCompleted, OnBuildCompleted
  <2>3. ~Waiting(r)'
    BY <1>1 DEF Waiting, TerminalStatus
  <2>4. RowsKept(r)
    BY <1>3, RowsStayKept
  <2> QED
    BY <2>1, <2>2, <2>3, <2>4 DEF Attended, RowsKept
<1> QED
  BY <1>1, <1>2, <1>5, <1>6, OneRun

(***************************************************************************)
(* A step of one path that leaves the tables as they are.                  *)
(***************************************************************************)
LEMMA UnmarkedFirst ==
    ASSUME TypeInv, FirstInv, NEW r \in Run, UNCHANGED storeVars,
           \A q \in Run \ {r} : FirstAt(q)' = FirstAt(q),
           \/ FirstAt(r)' = FirstAt(r)
           \/ FirstAt(r) # "off" /\ FirstAt(r)' \in {"trigger", "resolve", "mark"}
    PROVE  FirstInv'
<1>1. \A q \in Run : Undisturbed(q) /\ run'[q] = run[q]
  BY NoRowsChange DEF storeVars, Undisturbed, Waiting, Finished, StaleWorkers
<1>2. Timely'
  BY DEF FirstInv, Timely, storeVars
<1>3. FirstAttempt(r)' => Attended(r)'
  BY <1>1, StillAttended DEF FirstInv, FirstAttempt
<1> QED
  BY <1>1, <1>2, <1>3, OneRun

(***************************************************************************)
(* A path other than the first execution is of no account here.            *)
(***************************************************************************)
LEMMA OtherPath ==
    ASSUME StoreAssumption, TypeInv, NEW p \in Path \ {1}, NEW r \in Run,
           \A o \in Path, q \in Run : o # p \/ q # r => tracker'[o][q] = tracker[o][q]
    PROVE  \A q \in Run : FirstAt(q)' = FirstAt(q)
BY Paths DEF FirstAt

LEMMA SubmitFirst ==
    ASSUME StoreAssumption, TypeInv, FirstInv, NEW r \in Run, Submit(r)
    PROVE  FirstInv'
<1>1. /\ run[r].status = "ABSENT" /\ run'[r].status = "QUEUED"
      /\ run'[r].retries = run[r].retries
      /\ \A q \in Run \ {r} : run'[q] = run[q]
  BY DEF Submit, SchedulePipeline, TypeInv, TypeOK, StoreTypeOK, RunRow
<1>2. \A q \in Run : FirstAt(q)' = FirstAt(q)
  <2>1. CASE r \in Celery
    <3>1. Task \in Path \ {1}
      BY Paths DEF Task
    <3> QED
      BY <2>1, <3>1, GotoMoves, OtherPath DEF Submit, Pc
  <2>2. CASE r \notin Celery
    BY <2>2 DEF Submit, FirstAt
  <2> QED
    BY <2>1, <2>2
<1>3. Timely'
  BY <1>1 DEF FirstInv, Timely
<1>4. \A q \in Run : Undisturbed(q)
  <2>1. UNCHANGED <<worker, asg>>
    BY DEF Submit, SchedulePipeline
  <2>2. ~Finished(r)' /\ Waiting(r)
    BY <1>1 DEF Finished, TerminalStatus, Waiting
  <2> QED
    BY <1>1, <1>2, <2>1, <2>2, NoRowsChange DEF Undisturbed, Waiting, Finished, StaleWorkers
<1>5. FirstAttempt(r)' => Attended(r)'
  BY <1>1, <1>4, StillAttended DEF FirstInv, FirstAttempt
<1> QED
  BY <1>1, <1>3, <1>4, <1>5, OneRun

(***************************************************************************)
(* A run claimed or put back is, at its first attempt, still without a row *)
(* and without an execution.                                               *)
(***************************************************************************)
LEMMA ClaimFirst ==
    ASSUME StoreAssumption, TypeInv, FirstInv, NEW r \in Run, Claim(r) \/ Revert(r)
    PROVE  FirstInv'
<1>1. /\ run'[r].retries = run[r].retries /\ run[r].retries \in Nat
      /\ \A q \in Run \ {r} : run'[q] = run[q]
      /\ run'[r].status = "IN_PROGRESS" => run'[r].started = "recent"
      /\ UNCHANGED <<worker, asg>>
  BY DEF Claim, Revert, TypeInv, TypeOK, StoreTypeOK, RunRow
<1>2. PICK pc \in {"claimed", "off"} :
         /\ Goto(Exec(r), r, pc)
         /\ pc = "claimed" <=> run'[r].status = "IN_PROGRESS"
         /\ pc = "off" <=> run'[r].status = "QUEUED"
  BY DEF Claim, Revert, TypeInv, TypeOK, StoreTypeOK, RunRow
<1>3. /\ tracker'[Exec(r)][r].pc = pc
      /\ \A o \in Path, q \in Run : o # Exec(r) \/ q # r => tracker'[o][q] = tracker[o][q]
  BY <1>2, GotoMoves, Paths DEF Pc
<1>4. Timely'
  BY <1>1 DEF FirstInv, Timely
<1>5. \A q \in Run \ {r} : Undisturbed(q)
  BY <1>1, <1>3, Paths, NoRowsChange
     DEF Undisturbed, Waiting, Finished, FirstAt, StaleWorkers
<1>6. ASSUME FirstAttempt(r)'
      PROVE  Attended(r)'
  <2>1. Attended(r) /\ Exec(r) = 1
    <3>1. run[r].retries = 0
      BY <1>1, <1>6 DEF FirstAttempt
    <3> QED
      BY <3>1 DEF FirstInv, FirstAttempt, Exec
  <2>2. FirstAt(r) \in {"off", "claimed"}
    BY <2>1 DEF Claim, Revert, At, FirstAt, Attended, Waiting
  <2>3. Rows(r)' = {} /\ OpenOf(r)' = {}
    BY <1>1, <2>1, <2>2 DEF Attended, Rows, OpenOf, Open
  <2>4. FirstAt(r)' = pc /\ (Waiting(r)' => pc = "off")
    BY <1>2, <1>3, <2>1 DEF FirstAt, Waiting
  <2> QED
    BY <2>3, <2>4 DEF Attended
<1> QED
  BY <1>1, <1>4, <1>5, <1>6, OneRun

(***************************************************************************)
(* The first row of a first attempt, on a worker with a fresh heartbeat.   *)
(***************************************************************************)
LEMMA AssignFirst ==
    ASSUME StoreAssumption, TypeInv, FirstInv, NEW r \in Run, Assign(r)
    PROVE  FirstInv'
<1>1. PICK w \in Worker, a \in AsgId : AssignWorker(r, w, worker[w].load, a)
  BY DEF Assign, BestWorkers, Candidates, IdleWorkers
<1>2. /\ a \notin DOMAIN asg
      /\ DOMAIN asg' = DOMAIN asg \cup {a}
      /\ \A b \in DOMAIN asg : asg'[b] = asg[b]
      /\ asg'[a].run = r /\ asg'[a].worker = w
      /\ Open' = Open \cup {a}
  BY <1>1, AssignedRows DEF TypeInv, TypeOK
<1>3. StaleWorkers' \subseteq StaleWorkers /\ w \notin StaleWorkers'
  BY <1>1 DEF AssignWorker, StaleWorkers, TypeInv, TypeOK, StoreTypeOK
<1>4. /\ tracker'[Exec(r)][r].pc = "trigger"
      /\ \A o \in Path, q \in Run : o # Exec(r) \/ q # r => tracker'[o][q] = tracker[o][q]
  BY GotoMoves, Paths DEF Assign, Pc
<1>5. \A q \in Run : run'[q] = run[q]
  BY DEF Assign
<1>6. Timely'
  BY <1>5 DEF FirstInv, Timely
<1>7. \A q \in Run \ {r} : Undisturbed(q)
  <2>1. \A q \in Run \ {r} : RowsKept(q)
    BY <1>2 DEF RowsKept, Rows, OpenOf, Open
  <2> QED
    BY <1>3, <1>4, <1>5, <2>1, Paths DEF Undisturbed, Waiting, Finished, FirstAt
<1>8. ASSUME FirstAttempt(r)'
      PROVE  Attended(r)'
  <2>1. Attended(r) /\ Exec(r) = 1
    <3>1. run[r].retries = 0
      BY <1>5, <1>8 DEF FirstAttempt
    <3> QED
      BY <3>1 DEF FirstInv, FirstAttempt, Exec
  <2>2. FirstAt(r) = "claimed" /\ FirstAt(r)' = "trigger"
    BY <1>4, <2>1 DEF Assign, At, FirstAt
  <2>3. ~Waiting(r)'
    BY <1>5, <2>1, <2>2 DEF Attended, Waiting
  <2>4. Rows(r)' = {a}
    BY <1>2, <2>1, <2>2 DEF Attended, Rows
  <2>5. OpenOf(r)' \subseteq {a}
    BY <2>4 DEF Rows, OpenOf, Open
  <2> QED
    BY <1>2, <1>3, <2>2, <2>3, <2>4, <2>5 DEF Attended
<1> QED
  BY <1>5, <1>6, <1>7, <1>8, OneRun

(***************************************************************************)
(* The backoff changes nothing of this, and a retry ends the first attempt.*)
(***************************************************************************)
LEMMA RetryFirst ==
    ASSUME TypeInv, FirstInv, NEW r \in Run, RetryPhase(r) \/ BackoffElapses(r)
    PROVE  FirstInv'
<1>1. UNCHANGED <<worker, asg, tracker>>
  BY DEF RetryPhase, ArmRetry, Retry, BackoffElapses
<1>2. \A q \in Run \ {r} : Undisturbed(q) /\ run'[q] = run[q]
  <2>1. \A q \in Run \ {r} : run'[q] = run[q]
    BY DEF RetryPhase, ArmRetry, Retry, BackoffElapses, TypeInv, TypeOK, StoreTypeOK
  <2> QED
    BY <1>1, <2>1, NoRowsChange DEF Undisturbed, Waiting, Finished, FirstAt, StaleWorkers
<1>3. CASE Retry(r)
  <2>1. run'[r].status = "QUEUED" /\ run'[r].retries = run[r].retries + 1
        /\ run[r].retries \in Nat
    BY <1>3 DEF Retry, TypeInv, TypeOK, StoreTypeOK, RunRow
  <2>2. ~FirstAttempt(r)'
    BY <2>1 DEF FirstAttempt
  <2>3. Timely'
    BY <1>2, <2>1 DEF FirstInv, Timely
  <2> QED
    BY <1>2, <2>2, <2>3, OneRun
<1>4. CASE ArmRetry(r) \/ BackoffElapses(r)
  <2>1. /\ run'[r].status = run[r].status /\ run'[r].started = run[r].started
        /\ run'[r].retries = run[r].retries
    BY <1>4 DEF ArmRetry, BackoffElapses, TypeInv, TypeOK, StoreTypeOK, RunRow
  <2>2. Timely'
    BY <1>2, <2>1 DEF FirstInv, Timely
  <2>3. Undisturbed(r)
    BY <1>1, <2>1, NoRowsChange DEF Undisturbed, Waiting, Finished, FirstAt, StaleWorkers
  <2>4. FirstAttempt(r)' => Attended(r)'
    BY <2>1, <2>3, StillAttended DEF FirstInv, FirstAttempt
  <2> QED
    BY <1>2, <2>2, <2>4, OneRun
<1> QED
  BY <1>3, <1>4 DEF RetryPhase

(***************************************************************************)
(* The recovery finds no run of a first attempt: none has an open row on a *)
(* stale worker, and none in progress was started long ago.                *)
(***************************************************************************)
LEMMA RecoverFirst ==
    ASSUME TypeInv, FirstInv, Recover
    PROVE  FirstInv'
<1>1. OrphanRuns = {}
  BY DEF FirstInv, Timely, OrphanRuns
<1>2. \A q \in Run : run'[q].status = "IN_PROGRESS" => run'[q] = run[q]
  BY DEF Recover, RecoverStaleWorkers, TypeInv, TypeOK, StoreTypeOK, RunRow
<1>3. Timely'
  BY <1>2 DEF FirstInv, Timely
<1>4. StaleWorkers' \subseteq StaleWorkers
  BY DEF Recover, RecoverStaleWorkers, StaleWorkers, NewWorker
<1>5. RowsStay
  BY RecoveredRows DEF Recover, TypeInv, TypeOK
<1>6. ASSUME NEW q \in Run, FirstAttempt(q)'
      PROVE  Attended(q)'
  <2>1. Attended(q)
    BY <1>6, RecoverRetries DEF Recover, FirstInv, FirstAttempt, TypeInv, TypeOK
  <2>2. q \notin StaleRuns
    BY <2>1 DEF Attended, StaleRuns, StaleAsgs, OpenOf, Open
  <2>3. run'[q] = run[q]
    BY <1>1, <2>2 DEF Recover, RecoverStaleWorkers
  <2>4. Undisturbed(q)
    BY <1>4, <1>5, <2>3, RowsStayKept DEF Undisturbed, Waiting, Finished, FirstAt, Recover
  <2> QED
    BY <2>1, <2>4, StillAttended
<1> QED
  BY <1>3, <1>6 DEF FirstInv

(***************************************************************************)
(* While a first attempt holds a worker its execution is alive, and the    *)
(* worker's heartbeat lasts.                                               *)
(***************************************************************************)
LEMMA HeartbeatFirst ==
    ASSUME StoreAssumption, TypeInv, FirstInv, NEW w \in Worker, HeartbeatExpires(w)
    PROVE  FirstInv'
<1>1. UNCHANGED <<run, asg, tracker>> /\ StaleWorkers' = StaleWorkers \cup {w}
  BY DEF HeartbeatExpires, StaleWorkers, TypeInv, TypeOK, StoreTypeOK, WorkerRow
<1>2. Timely'
  BY <1>1 DEF FirstInv, Timely
<1>3. ASSUME NEW q \in Run, FirstAttempt(q)'
      PROVE  Attended(q)'
  <2>1. Attended(q)
    BY <1>1, <1>3 DEF FirstInv, FirstAttempt
  <2>2. \A a \in OpenOf(q) : asg[a].worker # w
    <3> SUFFICES ASSUME NEW a \in OpenOf(q), asg[a].worker = w
                 PROVE  FALSE
      OBVIOUS
    <3>1. a \in OpenOn(w) /\ a \in Rows(q) /\ asg[a].run = q
      BY DEF OpenOf, OpenOn, Open, Rows
    <3>2. FirstAt(q) \notin {"off", "claimed", "over"}
      BY <2>1, <3>1 DEF Attended
    <3>3. 1 \in Path \ {Task}
      BY Paths DEF Task
    <3> QED
      BY <3>1, <3>2, <3>3 DEF HeartbeatExpires, Serving, FirstAt
  <2>3. \A a \in OpenOf(q)' : asg'[a].worker \notin StaleWorkers'
    BY <1>1, <2>1, <2>2 DEF Attended, OpenOf, Open
  <2> QED
    BY <1>1, <2>1, <2>3 DEF Attended, Waiting, Finished, FirstAt, Rows, OpenOf, Open
<1> QED
  BY <1>2, <1>3 DEF FirstInv

(***************************************************************************)
(* An execution that polled in vain finds its run ended by another path,   *)
(* and the worker free.                                                    *)
(***************************************************************************)
LEMMA GivenUp ==
    ASSUME StoreAssumption, TypeInv, FirstInv, NEW p \in Path, NEW r \in Run,
           At(p, r, "poll"), run[r].status # "IN_PROGRESS",
           Goto(p, r, "over"), UNCHANGED storeVars
    PROVE  FirstInv'
<1>1. /\ tracker'[p][r].pc = "over"
      /\ \A o \in Path, q \in Run : o # p \/ q # r => tracker'[o][q] = tracker[o][q]
  BY GotoMoves DEF Pc
<1>2. CASE p # 1
  <2>1. \A q \in Run : FirstAt(q)' = FirstAt(q)
    BY <1>1, <1>2, OtherPath
  <2> QED
    BY <2>1, UnmarkedFirst
<1>3. CASE p = 1
  <2>1. \A q \in Run \ {r} : Undisturbed(q) /\ run'[q] = run[q]
    BY <1>1, <1>3, Paths, NoRowsChange
       DEF storeVars, Undisturbed, Waiting, Finished, FirstAt, StaleWorkers
  <2>2. Timely'
    BY DEF FirstInv, Timely, storeVars
  <2>3. ASSUME FirstAttempt(r)'
        PROVE  Attended(r)'
    <3>1. Attended(r) /\ FirstAt(r) = "poll" /\ FirstAt(r)' = "over"
      BY <1>1, <1>3, <2>3 DEF FirstInv, FirstAttempt, storeVars, At, FirstAt
    <3>2. ~Waiting(r) /\ Finished(r)
      BY <3>1 DEF Attended, Waiting, Finished, TerminalStatus, TypeInv, TypeOK, StoreTypeOK,
                  RunRow, RunStatus
    <3> QED
      BY <3>1, <3>2 DEF Attended, storeVars, Waiting, Rows, OpenOf, Open, StaleWorkers
  <2> QED
    BY <2>1, <2>2, <2>3, OneRun
<1> QED
  BY <1>2, <1>3

LEMMA FollowFirst ==
    ASSUME TrackingAssumption, StoreAssumption, TypeInv, FirstInv,
           NEW p \in Path, NEW r \in Run, Follow(p, r)
    PROVE  FirstInv'
<1>1. tracker[p][r] \in Tracker /\ run[r] \in RunRow
  BY DEF TypeInv, TypeOK, StoreTypeOK
<1>2. CASE WorksOn(p, r)
  <2>0. /\ tracker[p][r].pc # "off" /\ tracker'[p][r].pc \in {"trigger", "resolve", "mark"}
        /\ \A o \in Path, q \in Run : o # p \/ q # r => tracker'[o][q] = tracker[o][q]
    BY <1>2, WorksOnMoves
  <2>1. /\ \A q \in Run \ {r} : FirstAt(q)' = FirstAt(q)
        /\ \/ FirstAt(r)' = FirstAt(r)
           \/ FirstAt(r) # "off" /\ FirstAt(r)' \in {"trigger", "resolve", "mark"}
    BY <2>0, Paths DEF FirstAt
  <2> QED
    BY <1>2, <2>1, WorksOnMoves, UnmarkedFirst DEF storeVars
<1>3. ASSUME NEW pc \in Pc, Goto(p, r, pc)
      PROVE  /\ \A q \in Run \ {r} : FirstAt(q)' = FirstAt(q)
             /\ FirstAt(r)' = IF p = 1 THEN pc ELSE FirstAt(r)
  BY <1>3, GotoMoves, Paths DEF FirstAt
<1>4. CASE Mark(p, r)
  <2>1. tracker[p][r].build \in BuildNo
    BY <1>1 DEF Tracker
  <2>2. Goto(p, r, "poll") /\ MarkStarted(r, tracker[p][r].build) /\ At(p, r, "mark")
    BY <1>4 DEF Mark
  <2>3. /\ \A q \in Run \ {r} : FirstAt(q)' = FirstAt(q)
        /\ FirstAt(r)' = IF p = 1 THEN "poll" ELSE FirstAt(r)
    BY <1>3, <2>2 DEF Pc
  <2>4. p = 1 => FirstAt(r) # "off"
    BY <2>2 DEF At, FirstAt
  <2> QED
    BY <2>1, <2>2, <2>3, <2>4, StartedFirst
<1>5. ASSUME NEW res, MarkCompleted(r, res), Goto(p, r, "over")
      PROVE  FirstInv'
  BY <1>3, <1>5, CompletedFirst DEF Pc
<1>6. ASSUME p = Task, Goto(p, r, "over"), UNCHANGED storeVars
      PROVE  FirstInv'
  <2>1. \A q \in Run : FirstAt(q)' = FirstAt(q)
    BY <1>3, <1>6 DEF Pc, Task
  <2> QED
    BY <1>6, <2>1, UnmarkedFirst
<1>7. CASE SyncStages(p, r) \/ ExecTriggerFails(p, r)
  BY <1>5, <1>7 DEF SyncStages, ExecTriggerFails
<1>8. CASE ExecExhausted(p, r)
  <2>1. CASE run[r].status = "IN_PROGRESS"
    BY <1>5, <1>8, <2>1 DEF ExecExhausted
  <2>2. CASE run[r].status # "IN_PROGRESS"
    BY <1>8, <2>2, GivenUp DEF ExecExhausted
  <2> QED
    BY <2>1, <2>2
<1>9. CASE p = Task /\ (TaskTriggerFails(r) \/ TaskPollFails(r) \/ TaskExhausted(r))
  BY <1>5, <1>6, <1>9
     DEF TaskTriggerFails, TaskPollFails, TaskExhausted, FinalizeExhaustedPoll
<1> QED
  BY <1>2, <1>4, <1>7, <1>8, <1>9 DEF Follow, WorksOn

LEMMA JenkinsFirst ==
    ASSUME TrackingAssumption, TypeInv, FirstInv, Jenkins
    PROVE  FirstInv'
<1>1. \A q \in Run : FirstAt(q)' = FirstAt(q)
  BY DEF Jenkins, BuildStarts, BuildEnds, JenkinsWebhook, FirstAt
<1>2. CASE UNCHANGED storeVars
  <2>1. \A q \in Run : Undisturbed(q)
    BY <1>1, <1>2, NoRowsChange DEF storeVars, Undisturbed, Waiting, Finished, StaleWorkers
  <2>2. \A q \in Run : run'[q] = run[q]
    BY <1>2 DEF storeVars
  <2> QED
    BY <2>1, <2>2, StillAttended DEF FirstInv, Timely, FirstAttempt
<1>3. ASSUME NEW r \in Run, NEW n \in 1..MaxBuilds, MarkStarted(r, n)
      PROVE  FirstInv'
  <2>1. n \in BuildNo
    <3>1. n \in 0..MaxBuilds
      BY DEF TrackingAssumption
    <3> QED
      BY <3>1 DEF TrackingAssumption
  <2> QED
    BY <1>1, <1>3, <2>1, StartedFirst
<1>4. ASSUME NEW r \in Run, NEW res, MarkCompleted(r, res)
      PROVE  FirstInv'
  BY <1>1, <1>4, CompletedFirst
<1>5. ASSUME NEW h \in hooks, JenkinsWebhook(h)
      PROVE  FirstInv'
  <2>1. h.build \in 1..MaxBuilds
    BY DEF TypeInv, TypeOK, Hook
  <2>2. \/ UNCHANGED storeVars
        \/ \E r \in Run : MarkStarted(r, h.build)
        \/ \E r \in Run : \E res : MarkCompleted(r, res)
    BY <1>5 DEF JenkinsWebhook, HandleBuildStarted, HandleBuildCompletion, LinkedTo
  <2> QED
    BY <1>2, <1>3, <1>4, <2>1, <2>2
<1> QED
  BY <1>2, <1>5 DEF Jenkins, BuildStarts, BuildEnds

LEMMA NextFirst ==
    ASSUME TrackingAssumption, StoreAssumption, TypeInv, FirstInv, [Next]_vars
    PROVE  FirstInv'
<1>1. CASE UNCHANGED vars
  BY <1>1 DEF vars, FirstInv, Timely, FirstAttempt, Attended, Waiting, FirstAt, Finished,
              Rows, OpenOf, Open, StaleWorkers
<1>2. CASE Tick
  BY <1>2, ClaimFirst, AssignFirst DEF Tick
<1> QED
  BY <1>1, <1>2, SubmitFirst, RetryFirst, RecoverFirst, HeartbeatFirst, FollowFirst, JenkinsFirst
     DEF Next

(***************************************************************************)
(* Every run at its first attempt is attended, through submission, tick,   *)
(* recovery, both paths and the webhooks.                                  *)
(***************************************************************************)
THEOREM FirstInvariance == Spec => []FirstInv
<1>1. Init => FirstInv
  BY InitFirst, TrackingAssumption, StoreAssumption
<1>2. TypeInv /\ FirstInv /\ [Next]_vars => FirstInv'
  BY NextFirst, TrackingAssumption, StoreAssumption
<1> QED
  BY <1>1, <1>2, TypeInvariance, PTL DEF Spec

(***************************************************************************)
(* Whichever of the execution (_run_execution), the Celery task            *)
(* (_finalize_exhausted_poll) and the webhook (_handle_build_completion)   *)
(* ends a run at its first attempt, the run's worker is freed, or its      *)
(* execution is still on its way to the build.                             *)
(***************************************************************************)
THEOREM FirstAttemptsFreeTheirWorker == Spec => []NoWorkerLeftBehind
<1>1. ASSUME TypeInv, FirstInv
      PROVE  NoWorkerLeftBehind
  <2> SUFFICES ASSUME NEW r \in Run, FirstAttempt(r), Finished(r), OpenOf(r) # {}
               PROVE  \E pc \in {"trigger", "resolve", "mark"} : At(Exec(r), r, pc)
    BY DEF NoWorkerLeftBehind
  <2>1. Attended(r) /\ Exec(r) = 1
    BY <1>1 DEF FirstInv, FirstAttempt, Exec
  <2>2. Rows(r) # {}
    BY DEF OpenOf, Open, Rows
  <2>3. FirstAt(r) \notin {"off", "claimed", "over", "poll"}
    BY <2>1, <2>2 DEF Attended
  <2>4. FirstAt(r) \in Pc
    BY <1>1, Paths, StoreAssumption DEF TypeInv, TypeOK, FirstAt, Tracker, Pc
  <2> QED
    BY <2>1, <2>3, <2>4 DEF FirstAt, At, Pc
<1> QED
  BY <1>1, TypeInvariance, FirstInvariance, PTL

-----------------------------------------------------------------------------
(* Whose build is whose *)

OwnJobs == \A q, r \in Run : JobOf[q] = JobOf[r] => q = r

(***************************************************************************)
(* The numbers that may stand for a build of r: those of the builds it     *)
(* caused, and 0 for a queue item that was never resolved.                 *)
(***************************************************************************)
Own(r) == {0} \cup {n \in DOMAIN builds : builds[n].cause = r}

Succeeded(r) == \E n \in DOMAIN builds : builds[n].cause = r /\ builds[n].result = "SUCCESS"

RunInv ==
    \A r \in Run : /\ run[r].build \in Own(r) \cup {NoBuild}
                   /\ run[r].status = "COMPLETED" => Succeeded(r)

TrackInv ==
    \A p \in Path, r \in Run : tracker[p][r].item \in Own(r) /\ tracker[p][r].build \in Own(r)

JenkinsInv ==
    /\ \A n \in DOMAIN builds : builds[n].result # "none" => builds[n].state = "done"
    /\ \A h \in hooks : /\ h.build \in DOMAIN builds
                        /\ h.phase = "FINALIZED" => builds[h.build].state = "done"

OwnInv == RunInv /\ TrackInv /\ JenkinsInv

LEMMA InitOwn == ASSUME Init PROVE OwnInv
<1>1. RunInv
  BY DEF Init, StoreInit, NewRun, RunInv
<1>2. TrackInv
  BY DEF Init, TrackInv, Untracked, Own
<1>3. JenkinsInv
  BY DEF Init, JenkinsInv
<1> QED
  BY <1>1, <1>2, <1>3 DEF OwnInv

(***************************************************************************)
(* Builds are added and advance; none is taken from its run and a finished *)
(* one stays as it is.                                                     *)
(***************************************************************************)
BuildsAdvance ==
    \A n \in DOMAIN builds :
      /\ n \in DOMAIN builds'
      /\ builds'[n].cause = builds[n].cause
      /\ builds[n].state = "done" => builds'[n] = builds[n]
      /\ builds[n].result = "SUCCESS" => builds'[n].result = "SUCCESS"

LEMMA OwnGrows ==
    ASSUME BuildsAdvance, NEW r \in Run
    PROVE  Own(r) \subseteq Own(r)' /\ (Succeeded(r) => Succeeded(r)')
BY DEF BuildsAdvance, Own, Succeeded

LEMMA RunsKept ==
    ASSUME RunInv, BuildsAdvance,
           \A q \in Run : /\ run'[q].build = run[q].build \/ run'[q].build \in Own(q)'
                          /\ run'[q].status = "COMPLETED" =>
                               run[q].status = "COMPLETED" \/ Succeeded(q)'
    PROVE  RunInv'
BY OwnGrows DEF RunInv

LEMMA TrackersKept ==
    ASSUME TrackInv, BuildsAdvance,
           \A p \in Path, q \in Run :
             /\ tracker'[p][q].item = tracker[p][q].item \/ tracker'[p][q].item \in Own(q)'
             /\ \/ tracker'[p][q].build \in {tracker[p][q].build, tracker[p][q].item}
                \/ tracker'[p][q].build \in Own(q)'
    PROVE  TrackInv'
BY OwnGrows DEF TrackInv

LEMMA SameTrackers ==
    ASSUME TypeInv, TrackInv, BuildsAdvance,
           \/ UNCHANGED tracker
           \/ \E p \in Path, r \in Run, pc \in Pc : Goto(p, r, pc)
    PROVE  TrackInv'
<1>1. CASE UNCHANGED tracker
  BY <1>1, TrackersKept
<1>2. ASSUME NEW p \in Path, NEW r \in Run, NEW pc \in Pc, Goto(p, r, pc)
      PROVE  TrackInv'
  BY <1>2, GotoMoves, TrackersKept
<1> QED
  BY <1>1, <1>2

LEMMA SameBuilds ==
    ASSUME JenkinsInv, UNCHANGED builds, hooks' \subseteq hooks
    PROVE  JenkinsInv' /\ BuildsAdvance
BY DEF JenkinsInv, BuildsAdvance

(***************************************************************************)
(* Submission, tick and recovery link no run and complete none.            *)
(***************************************************************************)
SchedulerStep ==
    \/ \E r \in Run : Submit(r) \/ RetryPhase(r) \/ BackoffElapses(r)
    \/ \E w \in Worker : HeartbeatExpires(w)
    \/ Tick \/ Recover

LEMMA SchedulerOwn ==
    ASSUME StoreAssumption, TypeInv, OwnInv, SchedulerStep
    PROVE  OwnInv'
<1>1. UNCHANGED <<builds, hooks>>
  BY DEF SchedulerStep, Submit, RetryPhase, ArmRetry, Retry, BackoffElapses, HeartbeatExpires,
         Tick, Claim, Assign, Revert, Recover
<1>2. ASSUME NEW q \in Run
      PROVE  /\ run'[q].build = run[q].build
             /\ run'[q].status = "COMPLETED" => run[q].status = "COMPLETED"
  <2>1. run \in [Run -> RunRow] /\ run[q] \in RunRow
    BY DEF TypeInv, TypeOK, StoreTypeOK
  <2>2. CASE \E r \in Run : Submit(r)
    BY <2>1, <2>2 DEF Submit, SchedulePipeline, RunRow
  <2>3. CASE \E r \in Run : RetryPhase(r) \/ BackoffElapses(r)
    BY <2>1, <2>3 DEF RetryPhase, ArmRetry, Retry, BackoffElapses, RunRow
  <2>4. CASE Tick
    BY <2>1, <2>4 DEF Tick, Claim, Assign, Revert, RunRow
  <2>5. CASE Recover
    BY <2>1, <2>5 DEF Recover, RecoverStaleWorkers, RunRow
  <2>6. CASE \E w \in Worker : HeartbeatExpires(w)
    BY <2>6 DEF HeartbeatExpires
  <2> QED
    BY <2>2, <2>3, <2>4, <2>5, <2>6 DEF SchedulerStep
<1>3. \/ UNCHANGED tracker
      \/ \E p \in Path, r \in Run, pc \in Pc : Goto(p, r, pc)
  <2>1. Tick => \E r \in Run, pc \in Pc : Goto(Exec(r), r, pc)
    BY DEF Tick, Claim, Assign, Revert, Pc
  <2>2. ASSUME NEW r \in Run, Submit(r)
        PROVE  UNCHANGED tracker \/ \E pc \in Pc : Goto(Task, r, pc)
    BY <2>2 DEF Submit, Pc
  <2> QED
    BY <2>1, <2>2, Paths DEF SchedulerStep, RetryPhase, ArmRetry, Retry, BackoffElapses,
                             HeartbeatExpires, Recover
<1> QED
  BY <1>1, <1>2, <1>3, SameBuilds, SameTrackers, RunsKept DEF OwnInv

(***************************************************************************)
(* The two transactions that link a run and end it.                        *)
(***************************************************************************)
LEMMA StartedOwn ==
    ASSUME TypeInv, RunInv, BuildsAdvance, NEW r \in Run, NEW b \in Own(r), b \in BuildNo,
           MarkStarted(r, b)
    PROVE  RunInv'
<1>1. /\ run'[r].status = "IN_PROGRESS" /\ run'[r].build = b
      /\ \A q \in Run \ {r} : run'[q] = run[q]
  BY StartedMoves
<1> QED
  BY <1>1, OwnGrows, RunsKept

LEMMA CompletedOwn ==
    ASSUME TypeInv, RunInv, BuildsAdvance, NEW r \in Run, NEW res, MarkCompleted(r, res),
           res = "SUCCESS" => Succeeded(r)
    PROVE  RunInv'
<1>1. /\ run'[r].status = StatusFor(res) /\ run'[r].build = run[r].build
      /\ \A q \in Run \ {r} : run'[q] = run[q]
  BY CompletedMoves
<1>2. StatusFor(res) = "COMPLETED" => res = "SUCCESS"
  BY DEF StatusFor
<1> QED
  BY <1>1, <1>2, OwnGrows, RunsKept

LEMMA FollowOwn ==
    ASSUME TrackingAssumption, StoreAssumption, TypeInv, OwnInv,
           NEW p \in Path, NEW r \in Run, Follow(p, r)
    PROVE  OwnInv'
<1>1. tracker[p][r] \in Tracker /\ tracker[p][r].build \in Own(r)
  BY DEF TypeInv, TypeOK, OwnInv, TrackInv
<1>2. CASE WorksOn(p, r)
  <2>1. \/ UNCHANGED builds
        \/ \E n \in 1..MaxBuilds :
             /\ n \notin DOMAIN builds
             /\ builds' = [m \in DOMAIN builds \cup {n} |->
                             IF m = n THEN [cause |-> r, state |-> "queued", result |-> "none"]
                                      ELSE builds[m]]
    BY <1>2 DEF WorksOn, Trigger, ResolveQueueItem, TaskRetries
  <2>2. BuildsAdvance
    BY <2>1 DEF BuildsAdvance
  <2>3. \A n \in DOMAIN builds' : builds'[n].result # "none" => builds'[n].state = "done"
    <3>1. CASE UNCHANGED builds
      BY <3>1 DEF OwnInv, JenkinsInv
    <3>2. ASSUME NEW n \in 1..MaxBuilds,
                 builds' = [m \in DOMAIN builds \cup {n} |->
                              IF m = n THEN [cause |-> r, state |-> "queued", result |-> "none"]
                                       ELSE builds[m]]
          PROVE  \A m \in DOMAIN builds' : builds'[m].result # "none" => builds'[m].state = "done"
      BY <3>2 DEF OwnInv, JenkinsInv
    <3> QED
      BY <2>1, <3>1, <3>2
  <2>4. /\ UNCHANGED <<run, hooks>>
        /\ \/ tracker'[p][r].item = tracker[p][r].item
           \/ tracker'[p][r].item \in Own(r)'
        /\ tracker'[p][r].build \in {0, tracker[p][r].item, tracker[p][r].build}
        /\ \A o \in Path, q \in Run : o # p \/ q # r => tracker'[o][q] = tracker[o][q]
    BY <1>2, WorksOnMoves DEF Own
  <2>5. 0 \in Own(r)'
    BY DEF Own
  <2>6. RunInv'
    BY <2>2, <2>4, RunsKept DEF OwnInv
  <2>7. TrackInv'
    BY <2>2, <2>4, <2>5, TrackersKept DEF OwnInv
  <2>8. JenkinsInv'
    BY <2>2, <2>3, <2>4 DEF OwnInv, JenkinsInv, BuildsAdvance
  <2> QED
    BY <2>6, <2>7, <2>8 DEF OwnInv
<1>3. ASSUME NEW pc \in Pc, Goto(p, r, pc), UNCHANGED <<builds, hooks>>, BuildsAdvance => RunInv'
      PROVE  OwnInv'
  BY <1>3, SameBuilds, SameTrackers DEF OwnInv
<1>4. CASE Mark(p, r)
  BY <1>1, <1>3, <1>4, StartedOwn DEF Mark, Pc, OwnInv, Tracker
<1>5. CASE SyncStages(p, r)
  <2>1. PICK n \in DOMAIN builds : /\ builds[n].cause = r /\ MarkCompleted(r, builds[n].result)
    BY <1>1, <1>5 DEF SyncStages, Own
  <2>2. builds[n].result = "SUCCESS" => Succeeded(r)
    BY <2>1 DEF Succeeded
  <2>3. BuildsAdvance => RunInv'
    BY <2>1, <2>2, CompletedOwn DEF OwnInv
  <2> QED
    BY <1>3, <1>5, <2>3 DEF SyncStages, Pc
<1>6. ASSUME NEW res \in {"FAILURE", "ABORTED"}, Goto(p, r, "over"), UNCHANGED <<builds, hooks>>,
             MarkCompleted(r, res) \/ UNCHANGED storeVars
      PROVE  OwnInv'
  <2>1. ASSUME BuildsAdvance PROVE RunInv'
    BY <1>6, <2>1, CompletedOwn, RunsKept DEF OwnInv, storeVars
  <2> QED
    BY <1>3, <1>6, <2>1 DEF Pc
<1>7. CASE ExecTriggerFails(p, r) \/ ExecExhausted(p, r)
  BY <1>6, <1>7 DEF ExecTriggerFails, ExecExhausted
<1>8. CASE p = Task /\ (TaskTriggerFails(r) \/ TaskExhausted(r))
  BY <1>6, <1>8 DEF TaskTriggerFails, TaskExhausted, FinalizeExhaustedPoll
<1>9. CASE p = Task /\ TaskPollFails(r)
  <2> DEFINE res == IF tracker[Task][r].build = 0 THEN "ABORTED" ELSE "FAILURE"
  <2>1. MarkCompleted(r, res) \/ UNCHANGED storeVars
    BY <1>9 DEF TaskPollFails, FinalizeExhaustedPoll
  <2>2. Goto(p, r, "over") /\ UNCHANGED <<builds, hooks>>
    BY <1>9 DEF TaskPollFails
  <2>3. res \in {"FAILURE", "ABORTED"}
    OBVIOUS
  <2> HIDE DEF res
  <2> QED
    BY <1>6, <2>1, <2>2, <2>3
<1> QED
  BY <1>2, <1>4, <1>5, <1>7, <1>8, <1>9 DEF Follow, WorksOn

LEMMA BuildOwn ==
    ASSUME TrackingAssumption, TypeInv, OwnInv, NEW n \in DOMAIN builds,
           BuildStarts(n) \/ \E res \in Outcome : BuildEnds(n, res)
    PROVE  OwnInv'
<1>1. builds \in [DOMAIN builds -> Build] /\ builds[n] \in Build
  BY DEF TypeInv, TypeOK
<1>2. UNCHANGED <<run, tracker>>
  BY DEF BuildStarts, BuildEnds, storeVars
<1>3. builds[n].state # "done" /\ builds[n].result = "none"
  BY DEF BuildStarts, BuildEnds, OwnInv, JenkinsInv
<1>4. PICK row \in Build :
         /\ builds' = [builds EXCEPT ![n] = row]
         /\ row.cause = builds[n].cause
         /\ row.result # "none" => row.state = "done"
         /\ \A h \in hooks' \ hooks : h.build = n /\ (h.phase = "FINALIZED" => row.state = "done")
  <2>1. CASE BuildStarts(n)
    <3> DEFINE row == [builds[n] EXCEPT !.state = "running"]
    <3>1. row \in Build /\ row.cause = builds[n].cause /\ row.result = "none"
      BY <1>1, <1>3 DEF Build
    <3>2. /\ builds' = [builds EXCEPT ![n] = row]
          /\ \A h \in hooks' \ hooks : h.build = n /\ h.phase = "STARTED"
      BY <1>1, <2>1 DEF BuildStarts
    <3> HIDE DEF row
    <3> QED
      BY <3>1, <3>2
  <2>2. ASSUME NEW res \in Outcome, BuildEnds(n, res)
        PROVE  \E row \in Build :
                 /\ builds' = [builds EXCEPT ![n] = row]
                 /\ row.cause = builds[n].cause
                 /\ row.result # "none" => row.state = "done"
                 /\ \A h \in hooks' \ hooks :
                      h.build = n /\ (h.phase = "FINALIZED" => row.state = "done")
    <3> DEFINE row == [builds[n] EXCEPT !.state = "done", !.result = res]
    <3>1. row \in Build /\ row.cause = builds[n].cause /\ row.state = "done"
      BY <1>1 DEF Build, TrackingAssumption
    <3>2. /\ builds' = [builds EXCEPT ![n] = row]
          /\ hooks' = hooks \cup {[phase |-> "FINALIZED", build |-> n]}
      BY <1>1, <2>2 DEF BuildEnds
    <3> HIDE DEF row
    <3>3. \A h \in hooks' \ hooks : h.build = n
      BY <3>2
    <3> QED
      BY <3>1, <3>2, <3>3
  <2> QED
    BY <2>1, <2>2
<1>5. BuildsAdvance
  BY <1>1, <1>3, <1>4 DEF BuildsAdvance
<1>6. JenkinsInv'
  BY <1>1, <1>4, <1>5 DEF OwnInv, JenkinsInv, BuildsAdvance
<1> QED
  BY <1>2, <1>5, <1>6, RunsKept, TrackersKept DEF OwnInv

(***************************************************************************)
(* The one run of the job is the one the build was triggered for.          *)
(***************************************************************************)
LEMMA HookOwn ==
    ASSUME TrackingAssumption, OwnJobs, TypeInv, OwnInv, NEW h \in hooks, JenkinsWebhook(h)
    PROVE  OwnInv'
<1> DEFINE n == h.build
<1>1. n \in DOMAIN builds /\ builds[n].cause \in Run /\ n \in BuildNo
  <2>1. n \in DOMAIN builds /\ n \in 0..MaxBuilds
    BY DEF OwnInv, JenkinsInv, TypeInv, TypeOK, Hook, TrackingAssumption
  <2> QED
    BY <2>1 DEF TypeInv, TypeOK, Build, TrackingAssumption
<1>2. JenkinsInv' /\ BuildsAdvance /\ UNCHANGED tracker
  BY SameBuilds DEF OwnInv, JenkinsWebhook
<1>3. RunInv'
  <2>1. CASE UNCHANGED storeVars
    BY <1>2, <2>1, RunsKept DEF OwnInv, storeVars
  <2>2. ASSUME NEW r \in Unlinked(JobOfBuild(n)), MarkStarted(r, n)
        PROVE  RunInv'
    <3>1. r \in Run /\ r = builds[n].cause
      BY <1>1, <2>2 DEF Unlinked, JobOfBuild, OwnJobs
    <3>2. n \in Own(r)
      BY <1>1, <3>1 DEF Own
    <3> QED
      BY <1>1, <1>2, <2>2, <3>1, <3>2, StartedOwn DEF OwnInv
  <2>3. ASSUME NEW r \in LinkedTo(n), MarkCompleted(r, builds[n].result)
        PROVE  RunInv'
    <3>1. r \in Run /\ r = builds[n].cause
      BY <1>1, <2>3 DEF LinkedTo, JobOfBuild, OwnJobs
    <3>2. builds[n].result = "SUCCESS" => Succeeded(r)
      BY <1>1, <3>1 DEF Succeeded
    <3> QED
      BY <1>2, <2>3, <3>1, <3>2, CompletedOwn DEF OwnInv
  <2> QED
    BY <2>1, <2>2, <2>3 DEF JenkinsWebhook, HandleBuildStarted, HandleBuildCompletion, Latest
<1> QED
  BY <1>2, <1>3, TrackersKept DEF OwnInv

LEMMA NextOwn ==
    ASSUME TrackingAssumption, StoreAssumption, OwnJobs, TypeInv, OwnInv, [Next]_vars
    PROVE  OwnInv'
<1>1. CASE UNCHANGED vars
  BY <1>1, SameBuilds, RunsKept, TrackersKept DEF vars, OwnInv
<1>2. CASE Jenkins
  BY <1>2, BuildOwn, HookOwn DEF Jenkins
<1> QED
  BY <1>1, <1>2, SchedulerOwn, FollowOwn DEF Next, SchedulerStep

(***************************************************************************)
(* Rows, trackers and Jenkins agree on whose build is whose, on every path *)
(* of app/scheduler.py, app/pipeline_tasks.py and app/routers/webhook.py.  *)
(***************************************************************************)
THEOREM OwnInvariance == OwnJobs /\ Spec => []OwnInv
<1>1. Init => OwnInv
  BY InitOwn
<1>2. OwnJobs /\ TypeInv /\ OwnInv /\ [Next]_vars => OwnInv'
  BY NextOwn, TrackingAssumption, StoreAssumption
<1>3. SUFFICES ASSUME OwnJobs PROVE Spec => []OwnInv
  OBVIOUS
<1> QED
  BY <1>1, <1>2, <1>3, TypeInvariance, PTL DEF Spec

(***************************************************************************)
(* A run is linked only to a build that was triggered for it               *)
(* (_handle_build_started and _mark_started), when no two runs share a     *)
(* job.                                                                    *)
(***************************************************************************)
THEOREM RunsKeepTheirBuilds == OwnJobs /\ Spec => []LinkedToOwn
<1>1. TypeInv /\ OwnInv => LinkedToOwn
  BY TrackingAssumption, StoreAssumption
     DEF TrackingAssumption, StoreAssumption, TypeInv, TypeOK, OwnInv, RunInv, Own, LinkedToOwn
<1> QED
  BY <1>1, TypeInvariance, OwnInvariance, PTL

(***************************************************************************)
(* No run is COMPLETED without a successful build of its own               *)
(* (_handle_build_completion and _sync_stages), when no two runs share a   *)
(* job.                                                                    *)
(***************************************************************************)
THEOREM SuccessIsEarned == OwnJobs /\ Spec => []SuccessIsOwn
<1>1. OwnInv => SuccessIsOwn
  BY DEF OwnInv, RunInv, Succeeded, SuccessIsOwn
<1> QED
  BY <1>1, OwnInvariance, PTL

-----------------------------------------------------------------------------
(* Nobody is left waiting *)

Alive(p, r) == tracker[p][r].pc \in {"claimed", "trigger", "resolve", "mark", "poll"}

Hands(r) == \E p \in Path : Alive(p, r)

\* The tick has claimed r, or an execution is on its way to the build's end.
InHands(r) ==
    \/ At(Exec(r), r, "claimed")
    \/ \E p \in Path \ {Task} : tracker[p][r].pc \in {"trigger", "resolve", "mark", "poll"}

(***************************************************************************)
(* A run in progress that no Celery task works on is in the hands of an    *)
(* execution; a claim belongs to the current attempt.                      *)
(***************************************************************************)
HandsInv ==
    /\ \A p \in Path, r \in Run : At(p, r, "claimed") => p = Exec(r)
    /\ \A r \in Run \ Celery : ~Alive(Task, r)
    /\ \A r \in Run \ Celery : run[r].status = "IN_PROGRESS" => Hands(r)

(***************************************************************************)
(* What a step may do to a run: a claim stays with its attempt, and a run  *)
(* stays in progress in the same hands or comes into new ones.             *)
(***************************************************************************)
Minded(r) ==
    /\ \A p \in Path : At(p, r, "claimed")' =>
         \/ At(p, r, "claimed") /\ Exec(r)' = Exec(r)
         \/ p = Exec(r)'
    /\ Alive(Task, r)' => Alive(Task, r) \/ r \in Celery
    /\ run'[r].status = "IN_PROGRESS" =>
         \/ r \in Celery
         \/ Hands(r)'
         \/ /\ run[r].status = "IN_PROGRESS"
            /\ \A p \in Path : Alive(p, r) => Alive(p, r)'

LEMMA AllMinded ==
    ASSUME HandsInv, \A r \in Run : Minded(r)
    PROVE  HandsInv'
BY DEF HandsInv, Minded, Hands

LEMMA Untouched ==
    ASSUME NEW r \in Run, run'[r] = run[r], \A p \in Path : tracker'[p][r] = tracker[p][r],
           Task \in Path
    PROVE  Minded(r)
BY DEF Minded, At, Alive, Exec

LEMMA SameTrackersMinded ==
    ASSUME NEW r \in Run, \A p \in Path : tracker'[p][r] = tracker[p][r], Task \in Path,
           run'[r].status = "IN_PROGRESS" => run[r].status = "IN_PROGRESS",
           run'[r].retries = run[r].retries
    PROVE  Minded(r)
BY DEF Minded, At, Alive, Exec

LEMMA SubmitHands ==
    ASSUME StoreAssumption, TypeInv, NEW r \in Run, Submit(r), NEW q \in Run
    PROVE  Minded(q)
<1>0. Task \in Path
  BY Paths
<1>1. /\ run'[r].status = "QUEUED" /\ run'[r].retries = run[r].retries
      /\ \A o \in Run \ {r} : run'[o] = run[o]
  BY DEF Submit, SchedulePipeline, TypeInv, TypeOK, StoreTypeOK, RunRow
<1>2. CASE r \in Celery
  <2>1. /\ tracker'[Task][r].pc = "trigger"
        /\ \A o \in Path, k \in Run : o # Task \/ k # r => tracker'[o][k] = tracker[o][k]
    BY <1>0, <1>2, GotoMoves DEF Submit, Pc
  <2>2. CASE q # r
    BY <1>0, <1>1, <2>1, <2>2, Untouched
  <2>3. CASE q = r
    BY <1>1, <1>2, <2>1, <2>3 DEF Minded, At, Exec
  <2> QED
    BY <2>2, <2>3
<1>3. CASE r \notin Celery
  <2>1. tracker' = tracker
    BY <1>3 DEF Submit
  <2>2. CASE q # r
    BY <1>0, <1>1, <2>1, <2>2, Untouched
  <2>3. CASE q = r
    BY <1>0, <1>1, <2>1, <2>3, SameTrackersMinded
  <2> QED
    BY <2>2, <2>3
<1> QED
  BY <1>2, <1>3

LEMMA TickHands ==
    ASSUME StoreAssumption, TypeInv, Tick, NEW q \in Run
    PROVE  Minded(q)
<1>1. PICK r \in Run : Claim(r) \/ Assign(r) \/ Revert(r)
  BY DEF Tick
<1>2. Task \in Path /\ Exec(r) \in Path /\ Exec(r) # Task
  BY Paths DEF Exec, Task, TypeInv, TypeOK, StoreTypeOK, RunRow
<1>3. /\ run'[r].retries = run[r].retries
      /\ \A o \in Run \ {r} : run'[o] = run[o]
  BY <1>1 DEF Claim, Assign, Revert, TypeInv, TypeOK, StoreTypeOK, RunRow
<1>4. PICK pc \in {"claimed", "trigger", "off"} :
         Goto(Exec(r), r, pc) /\ (pc = "off" => run'[r].status = "QUEUED")
  BY <1>1 DEF Claim, Assign, Revert, TypeInv, TypeOK, StoreTypeOK, RunRow
<1>5. /\ tracker'[Exec(r)][r].pc = pc
      /\ \A o \in Path, k \in Run : o # Exec(r) \/ k # r => tracker'[o][k] = tracker[o][k]
  BY <1>2, <1>4, GotoMoves DEF Pc
<1>6. CASE q # r
  BY <1>2, <1>3, <1>5, <1>6, Untouched
<1>7. CASE q = r
  <2>1. Exec(r)' = Exec(r)
    BY <1>3 DEF Exec
  <2>2. \A p \in Path : At(p, r, "claimed")' => At(p, r, "claimed") \/ p = Exec(r)'
    BY <1>5, <2>1 DEF At
  <2>3. Alive(Task, r)' => Alive(Task, r)
    BY <1>2, <1>5 DEF Alive
  <2>4. run'[r].status = "IN_PROGRESS" => Hands(r)'
    BY <1>2, <1>4, <1>5 DEF Hands, Alive
  <2> QED
    BY <1>7, <2>1, <2>2, <2>3, <2>4 DEF Minded
<1> QED
  BY <1>6, <1>7

LEMMA RetryHands ==
    ASSUME StoreAssumption, TypeInv, HandsInv, NEW r \in Run, RetryPhase(r) \/ BackoffElapses(r),
           NEW q \in Run
    PROVE  Minded(q)
<1>0. Task \in Path /\ tracker' = tracker
  BY Paths DEF RetryPhase, ArmRetry, Retry, BackoffElapses
<1>1. \A o \in Run \ {r} : run'[o] = run[o]
  BY DEF RetryPhase, ArmRetry, Retry, BackoffElapses, TypeInv, TypeOK, StoreTypeOK
<1>2. CASE q # r
  BY <1>0, <1>1, <1>2, Untouched
<1>3. CASE q = r /\ Retry(r)
  <2>1. run'[r].status = "QUEUED" /\ ~Claiming
    BY <1>3 DEF Retry, TypeInv, TypeOK, StoreTypeOK, RunRow
  <2>2. \A p \in Path : ~At(p, r, "claimed")
    BY <2>1 DEF HandsInv, Claiming
  <2> QED
    BY <1>0, <1>3, <2>1, <2>2 DEF Minded, At, Alive
<1>4. CASE q = r /\ (ArmRetry(r) \/ BackoffElapses(r))
  <2>1. run'[r].status = run[r].status /\ run'[r].retries = run[r].retries
    BY <1>4 DEF ArmRetry, BackoffElapses, TypeInv, TypeOK, StoreTypeOK, RunRow
  <2> QED
    BY <1>0, <1>4, <2>1, SameTrackersMinded
<1> QED
  BY <1>2, <1>3, <1>4 DEF RetryPhase

LEMMA FollowHands ==
    ASSUME TrackingAssumption, StoreAssumption, TypeInv, HandsInv,
           NEW p \in Path, NEW r \in Run, Follow(p, r), NEW q \in Run
    PROVE  Minded(q)
<1>0. Task \in Path /\ tracker[p][r].pc \notin {"off", "claimed", "over"}
  BY Paths DEF Follow, Trigger, ResolveQueueItem, Mark, SyncStages, ExecTriggerFails, ExecExhausted,
               TaskRetries, TaskTriggerFails, TaskPollFails, TaskExhausted, At
<1>1. p = Task => r \in Celery
  BY <1>0 DEF HandsInv, Alive, TypeInv, TypeOK, Tracker
<1>2. ASSUME NEW row \in Tracker, tracker' = [tracker EXCEPT ![p] = [tracker[p] EXCEPT ![r] = row]],
             row.pc # "claimed", run'[r].retries = run[r].retries,
             \A o \in Run \ {r} : run'[o] = run[o],
             row.pc = "over" => p = Task \/ run'[r].status # "IN_PROGRESS",
             row.pc # "off"
      PROVE  Minded(q)
  <2>1. /\ tracker'[p][r] = row
        /\ \A o \in Path, k \in Run : o # p \/ k # r => tracker'[o][k] = tracker[o][k]
    BY <1>2, TrackerMoves
  <2>2. CASE q # r
    BY <1>0, <1>2, <2>1, <2>2, Untouched
  <2>3. CASE q = r
    <3>1. Exec(r)' = Exec(r)
      BY <1>2 DEF Exec
    <3>2. \A o \in Path : At(o, r, "claimed")' => At(o, r, "claimed")
      BY <1>2, <2>1 DEF At
    <3>3. Alive(Task, r)' => Alive(Task, r) \/ r \in Celery
      BY <1>0, <1>1, <2>1 DEF Alive
    <3>4. run'[r].status = "IN_PROGRESS" => r \in Celery \/ Hands(r)'
      BY <1>1, <1>2, <2>1 DEF Hands, Alive, Tracker
    <3> QED
      BY <2>3, <3>1, <3>2, <3>3, <3>4 DEF Minded
  <2> QED
    BY <2>2, <2>3
<1>3. CASE WorksOn(p, r)
  <2>1. /\ tracker[p][r].pc # "off" /\ tracker'[p][r].pc \in {"trigger", "resolve", "mark"}
        /\ tracker' \in [Path -> [Run -> Tracker]]
        /\ \A o \in Path, k \in Run : o # p \/ k # r => tracker'[o][k] = tracker[o][k]
        /\ run' = run
    BY <1>3, WorksOnMoves
  <2>2. CASE q # r
    BY <1>0, <2>1, <2>2, Untouched
  <2>3. CASE q = r
    <3>1. Exec(r)' = Exec(r)
      BY <2>1 DEF Exec
    <3>2. \A o \in Path : At(o, r, "claimed")' => At(o, r, "claimed")
      BY <2>1 DEF At
    <3>3. Alive(Task, r)' => Alive(Task, r) \/ r \in Celery
      BY <1>0, <1>1, <2>1 DEF Alive
    <3>4. Hands(r)'
      BY <2>1 DEF Hands, Alive
    <3> QED
      BY <2>3, <3>1, <3>2, <3>3, <3>4 DEF Minded
  <2> QED
    BY <2>2, <2>3
<1>4. ASSUME NEW pc \in {"poll", "over"}, Goto(p, r, pc), run'[r].retries = run[r].retries,
             \A o \in Run \ {r} : run'[o] = run[o],
             pc = "over" => p = Task \/ run'[r].status # "IN_PROGRESS"
      PROVE  Minded(q)
  <2> DEFINE row == [tracker[p][r] EXCEPT !.pc = pc]
  <2>1. tracker[p][r] \in Tracker
    BY DEF TypeInv, TypeOK
  <2>2. row \in Tracker /\ row.pc = pc
    BY <2>1 DEF Tracker
  <2>3. tracker' = [tracker EXCEPT ![p] = [tracker[p] EXCEPT ![r] = row]]
    BY <1>4 DEF Goto, TypeInv, TypeOK
  <2> HIDE DEF row
  <2> QED
    BY <1>2, <1>4, <2>2, <2>3
<1>5. CASE Mark(p, r)
  <2>1. tracker[p][r].build \in BuildNo
    BY DEF TypeInv, TypeOK, Tracker
  <2>2. run'[r].retries = run[r].retries /\ \A o \in Run \ {r} : run'[o] = run[o]
    BY <1>5, <2>1, StartedMoves DEF Mark
  <2> QED
    BY <1>4, <1>5, <2>2 DEF Mark
<1>6. ASSUME NEW res, MarkCompleted(r, res), Goto(p, r, "over")
      PROVE  Minded(q)
  <2>1. /\ run'[r].status # "IN_PROGRESS" /\ run'[r].retries = run[r].retries
        /\ \A o \in Run \ {r} : run'[o] = run[o]
    BY <1>6, CompletedMoves DEF TerminalStatus
  <2> QED
    BY <1>4, <1>6, <2>1
<1>7. ASSUME Goto(p, r, "over"), run' = run, p = Task \/ run[r].status # "IN_PROGRESS"
      PROVE  Minded(q)
  BY <1>4, <1>7
<1>8. CASE SyncStages(p, r) \/ ExecTriggerFails(p, r)
  BY <1>6, <1>8 DEF SyncStages, ExecTriggerFails
<1>9. CASE ExecExhausted(p, r)
  BY <1>6, <1>7, <1>9 DEF ExecExhausted, storeVars
<1>10. CASE p = Task /\ (TaskTriggerFails(r) \/ TaskPollFails(r) \/ TaskExhausted(r))
  BY <1>6, <1>7, <1>10
     DEF TaskTriggerFails, TaskPollFails, TaskExhausted, FinalizeExhaustedPoll, storeVars
<1> QED
  BY <1>3, <1>5, <1>8, <1>9, <1>10 DEF Follow, WorksOn

LEMMA JenkinsHands ==
    ASSUME TrackingAssumption, StoreAssumption, TypeInv, Jenkins, NEW q \in Run
    PROVE  Minded(q)
<1>0. Task \in Path /\ tracker' = tracker
  BY Paths DEF Jenkins, BuildStarts, BuildEnds, JenkinsWebhook
<1>1. CASE UNCHANGED storeVars
  BY <1>0, <1>1, Untouched DEF storeVars
<1>2. ASSUME NEW r \in Run, NEW n \in 1..MaxBuilds, MarkStarted(r, n),
             run[r].status = "IN_PROGRESS"
      PROVE  Minded(q)
  <2>1. n \in BuildNo
    <3>1. n \in 0..MaxBuilds
      BY DEF TrackingAssumption
    <3> QED
      BY <3>1 DEF TrackingAssumption
  <2>2. run'[r].retries = run[r].retries /\ \A o \in Run \ {r} : run'[o] = run[o]
    BY <1>2, <2>1, StartedMoves
  <2>3. CASE q # r
    BY <1>0, <2>2, <2>3, Untouched
  <2>4. CASE q = r
    BY <1>0, <1>2, <2>2, <2>4, SameTrackersMinded
  <2> QED
    BY <2>3, <2>4
<1>3. ASSUME NEW r \in Run, NEW res, MarkCompleted(r, res)
      PROVE  Minded(q)
  <2>1. /\ run'[r].status # "IN_PROGRESS" /\ run'[r].retries = run[r].retries
        /\ \A o \in Run \ {r} : run'[o] = run[o]
    BY <1>3, CompletedMoves DEF TerminalStatus
  <2>2. CASE q # r
    BY <1>0, <2>1, <2>2, Untouched
  <2>3. CASE q = r
    BY <1>0, <2>1, <2>3, SameTrackersMinded
  <2> QED
    BY <2>2, <2>3
<1>4. ASSUME NEW h \in hooks, JenkinsWebhook(h)
      PROVE  Minded(q)
  <2>1. h.build \in 1..MaxBuilds
    BY DEF TypeInv, TypeOK, Hook
  <2>2. \/ UNCHANGED storeVars
        \/ \E r \in Run : MarkStarted(r, h.build) /\ run[r].status = "IN_PROGRESS"
        \/ \E r \in Run : \E res : MarkCompleted(r, res)
    BY <1>4 DEF JenkinsWebhook, HandleBuildStarted, HandleBuildCompletion, LinkedTo, Latest, Unlinked
  <2> QED
    BY <1>1, <1>2, <1>3, <2>1, <2>2
<1> QED
  BY <1>1, <1>4 DEF Jenkins, BuildStarts, BuildEnds

LEMMA NextHands ==
    ASSUME TrackingAssumption, StoreAssumption, TypeInv, HandsInv, [Next]_vars
    PROVE  HandsInv'
<1> SUFFICES ASSUME NEW q \in Run
             PROVE  Minded(q)
  BY AllMinded
<1>0. Task \in Path
  BY Paths
<1>1. CASE UNCHANGED vars
  BY <1>0, <1>1, Untouched DEF vars
<1>2. CASE Recover
  <2>1. run'[q].status = "IN_PROGRESS" => run[q].status = "IN_PROGRESS"
    <3>1. run'[q] = run[q] \/ run'[q] = [run[q] EXCEPT !.status = "QUEUED", !.started = "null"]
      BY <1>2 DEF Recover, RecoverStaleWorkers
    <3>2. run[q] \in RunRow
      BY DEF TypeInv, TypeOK, StoreTypeOK
    <3>3. [run[q] EXCEPT !.status = "QUEUED", !.started = "null"].status = "QUEUED"
      BY <3>2 DEF RunRow
    <3> QED
      BY <3>1, <3>3
  <2>2. run'[q].retries = run[q].retries
    BY <1>2, RecoverRetries DEF Recover, TypeInv, TypeOK
  <2> QED
    BY <1>0, <1>2, <2>1, <2>2, SameTrackersMinded DEF Recover
<1>3. ASSUME NEW w \in Worker, HeartbeatExpires(w)
      PROVE  Minded(q)
  BY <1>0, <1>3, Untouched DEF HeartbeatExpires
<1> QED
  BY <1>1, <1>2, <1>3, SubmitHands, TickHands, RetryHands, FollowHands, JenkinsHands DEF Next

(***************************************************************************)
(* A run that is IN_PROGRESS and has no Celery task is in the hands of an  *)
(* execution (_run_execution), which ends by taking it out of IN_PROGRESS, *)
(* or of the tick that claimed it: no webhook, recovery or retry leaves it *)
(* there with nobody to end it.                                            *)
(***************************************************************************)
THEOREM RunsAreAttended ==
    Spec => [](\A r \in Run \ Celery : run[r].status = "IN_PROGRESS" => InHands(r))
<1>1. Init => HandsInv
  <2> SUFFICES ASSUME Init
               PROVE  HandsInv
    OBVIOUS
  <2>1. Task \in Path
    BY DEF Path
  <2>2. \A p \in Path, r \in Run : tracker[p][r].pc = "off"
    BY DEF Init, Untracked
  <2>3. \A r \in Run : run[r].status = "ABSENT"
    BY DEF Init, StoreInit, NewRun
  <2> QED
    BY <2>1, <2>2, <2>3 DEF HandsInv, At, Alive
<1>2. TypeInv /\ HandsInv /\ [Next]_vars => HandsInv'
  BY NextHands, TrackingAssumption, StoreAssumption
<1>3. HandsInv => \A r \in Run \ Celery : run[r].status = "IN_PROGRESS" => InHands(r)
  BY DEF HandsInv, InHands, Hands, Alive, At
<1> QED
  BY <1>1, <1>2, <1>3, TypeInvariance, PTL DEF Spec
=============================================================================
