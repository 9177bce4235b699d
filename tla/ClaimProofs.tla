---------------------------- MODULE ClaimProofs ----------------------------
(***************************************************************************)
(* Proofs about the claim, the pairing with workers and the lifecycle of   *)
(* Scheduler, for every number of runs, workers, tickers, deaths and       *)
(* retries: AtMostOneExecution, OneRunPerWorker and ImplementsLifecycle.   *)
(* While nobody is retried, no run is out of reach of the recovery.        *)
(***************************************************************************)
EXTENDS SchedulerProofs

-----------------------------------------------------------------------------
(* The inductive invariant of the claim *)

ExecsOf(r) == {a \in DOMAIN exec : exec[a].run = r}
HeldBy(r)  == {t \in Ticker : Working(t, r)}

(***************************************************************************)
(* What holds of the first attempt at r: one pair of hands, which has the  *)
(* run IN_PROGRESS and just started; no assignment is open before its      *)
(* execution begins, only the one of the execution while it is alive, and  *)
(* at most that one when it has died.                                      *)
(***************************************************************************)
Sound(r) ==
    /\ \A a, b \in ExecsOf(r) : a = b
    /\ \A t, u \in HeldBy(r) : t = u
    /\ ExecsOf(r) = {} \/ HeldBy(r) = {}
    /\ ExecsOf(r) \cup HeldBy(r) # {}
         => run[r].status = "IN_PROGRESS" /\ run[r].started = "recent"
    /\ HeldBy(r) # {} => OpenOf(r) = {}
    /\ \A a \in ExecsOf(r) : OpenOf(r) = {a}
    /\ run[r].status \in {"ABSENT", "QUEUED"} => OpenOf(r) = {}
    /\ run[r].status = "IN_PROGRESS" => \A a, b \in OpenOf(r) : a = b

(***************************************************************************)
(* An execution is named by its assignment; a BUSY worker whose heartbeat  *)
(* has expired serves nobody.                                              *)
(***************************************************************************)
RowsKnown == \A a \in DOMAIN exec : a \in DOMAIN asg /\ asg[a].run = exec[a].run

StaleIsIdle == \A w \in StaleWorkers : ~Serving(w)

ClaimInv == RowsKnown /\ StaleIsIdle /\ \A r \in Run : FirstAttempt(r) => Sound(r)

LEMMA InitClaimInv == ASSUME Init PROVE ClaimInv
<1>1. DOMAIN exec = {} /\ DOMAIN asg = {}
  BY DEF Init, StoreInit
<1>2. RowsKnown /\ StaleIsIdle
  BY <1>1 DEF RowsKnown, StaleIsIdle, Serving
<1>3. ASSUME NEW r \in Run
      PROVE  ExecsOf(r) = {} /\ HeldBy(r) = {} /\ OpenOf(r) = {}
  BY <1>1 DEF Init, IdleTick, TickAt, ExecsOf, HeldBy, Working, OpenOf, Open
<1> QED
  BY <1>2, <1>3 DEF ClaimInv, Sound

-----------------------------------------------------------------------------
(* What steps do to the hands a run is in *)

(***************************************************************************)
(* The order of the batch is total, so a ticker works on one run at most.  *)
(***************************************************************************)
LEMMA OneCurrent ==
    ASSUME SchedulerAssumption, TypeOK, NEW t \in Ticker, NEW q \in Run, NEW r \in Run,
           Current(t, q), Current(t, r)
    PROVE  q = r
<1>1. Rank[q] \in Nat /\ Rank[r] \in Nat /\ Rank[q] <= Rank[r] /\ Rank[r] <= Rank[q]
  BY DEF SchedulerAssumption, Current
<1> QED
  BY <1>1 DEF SchedulerAssumption

LEMMA HandsOff ==
    ASSUME TypeOK, NEW t \in Ticker, NEW new, tick' = [tick EXCEPT ![t] = new],
           new.pc \notin {"pick", "assign", "revert"}
    PROVE  \A r \in Run : HeldBy(r)' = HeldBy(r) \ {t}
BY DEF TypeOK, HeldBy, Working, Current

LEMMA DoneHandsOff ==
    ASSUME TypeOK, NEW t \in Ticker, NEW r \in Run, DoneWith(t, r)
    PROVE  \A q \in Run : HeldBy(q)' = HeldBy(q) \ {t}
<1>1. tick[t].todo \in SUBSET Run
  BY DEF TypeOK, TickState
<1>2. PICK pc \in {"scan", "claim"} :
        tick' = [tick EXCEPT ![t] = TickAt(pc, tick[t].todo \ {r}, {})]
  BY DEF DoneWith
<1>3. TickAt(pc, tick[t].todo \ {r}, {}).pc = pc
  BY DEF TickAt
<1> QED
  BY <1>2, <1>3, HandsOff

(***************************************************************************)
(* A step that leaves the row and the open assignments of r alone and puts *)
(* it in no new hands.                                                     *)
(***************************************************************************)
LEMMA LeftAlone ==
    ASSUME NEW r \in Run, Sound(r),
           ExecsOf(r)' \subseteq ExecsOf(r), HeldBy(r)' \subseteq HeldBy(r),
           OpenOf(r)' = OpenOf(r), run'[r].status = run[r].status,
           ExecsOf(r)' \cup HeldBy(r)' # {} => run'[r].started = run[r].started
    PROVE  Sound(r)'
BY DEF Sound

(***************************************************************************)
(* Open rows of the runs a transaction does not touch.                     *)
(***************************************************************************)
LEMMA OpenElsewhere ==
    ASSUME RowsStay, NEW r \in Run, NEW q \in Run, q # r,
           \A a \in Open \ Open' : asg[a].run = r
    PROVE  OpenOf(q)' = OpenOf(q)
BY DEF RowsStay, OpenOf, Open

LEMMA StaysServed ==
    ASSUME StaleIsIdle, Open' \cap DOMAIN exec' \subseteq Open \cap DOMAIN exec,
           \A a \in Open' : asg'[a].worker = asg[a].worker,
           StaleWorkers' \subseteq StaleWorkers
    PROVE  StaleIsIdle'
BY DEF StaleIsIdle, Serving

-----------------------------------------------------------------------------
(* Every step keeps the invariant *)

(***************************************************************************)
(* The recovery.  Whoever is at work has started recently and is not       *)
(* served by a silent worker, so its run stays; a run that is taken back   *)
(* loses all its open assignments.                                         *)
(***************************************************************************)
LEMMA RecoverClaim ==
    ASSUME TypeOK, ClaimInv, NEW t \in Ticker, TickRecover(t)
    PROVE  ClaimInv'
<1>1. StoreTypeOK /\ RecoverStaleWorkers
  BY DEF TypeOK, TickRecover
<1>2. RowsStay /\ Open' = Open \ (StaleAsgs \cup OrphanAsgs)
  BY <1>1, RecoveredRows
<1>3. RowsKnown'
  BY <1>2 DEF ClaimInv, RowsKnown, RowsStay, TickRecover
<1>4. StaleIsIdle'
  <2>1. StaleWorkers' \subseteq StaleWorkers
    BY <1>1 DEF StaleWorkers, RecoverStaleWorkers, NewWorker
  <2>2. \A a \in Open' : asg'[a].worker = asg[a].worker
    BY <1>2 DEF RowsStay, Open
  <2> QED
    BY <1>2, <2>1, <2>2, StaysServed DEF ClaimInv, TickRecover
<1>5. ASSUME NEW r \in Run, FirstAttempt(r)'
      PROVE  Sound(r)'
  <2>1. Sound(r)
    BY <1>1, <1>5, RecoverRetries DEF ClaimInv, FirstAttempt
  <2>2. ExecsOf(r)' = ExecsOf(r)
    BY DEF ExecsOf, TickRecover
  <2>3. HeldBy(r)' = HeldBy(r)
    BY DEF TickRecover, TypeOK, TickState, At, HeldBy, Working, Current
  <2>4. OpenOf(r)' = OpenOf(r) \ (StaleAsgs \cup OrphanAsgs)
    BY <1>2 DEF OpenOf, RowsStay, Open
  <2>5. r \notin StaleRuns \cup OrphanRuns => run'[r] = run[r]
    BY <1>1 DEF RecoverStaleWorkers
  <2>6. CASE ExecsOf(r) \cup HeldBy(r) # {}
    <3>1. run[r].started = "recent"
      BY <2>1, <2>6 DEF Sound
    <3>2. r \notin OrphanRuns
      BY <3>1 DEF OrphanRuns
    <3>3. ASSUME NEW a \in OpenOf(r) PROVE a \notin StaleAsgs
      <4>1. a \in ExecsOf(r)
        BY <2>1, <2>6 DEF Sound
      <4>2. a \in DOMAIN exec \cap Open /\ asg[a].worker \in Worker
        BY <1>1, <4>1 DEF ExecsOf, OpenOf, Open, StoreTypeOK, AsgRow
      <4> QED
        BY <4>2 DEF StaleAsgs, StaleWorkers, ClaimInv, StaleIsIdle, Serving
    <3>4. r \notin StaleRuns
      BY <3>3 DEF StaleRuns, StaleAsgs, OpenOf
    <3>5. OpenOf(r)' = OpenOf(r)
      BY <2>4, <3>2, <3>3 DEF OrphanAsgs, OpenOf
    <3> QED
      BY <2>1, <2>2, <2>3, <2>5, <3>2, <3>4, <3>5, LeftAlone
  <2>7. CASE ExecsOf(r) \cup HeldBy(r) = {} /\ r \in StaleRuns \cup OrphanRuns
    <3>1. run[r].status = "IN_PROGRESS" /\ \A a, b \in OpenOf(r) : a = b
      BY <2>1, <2>7 DEF Sound, StaleRuns, OrphanRuns
    <3>2. OpenOf(r) \subseteq StaleAsgs \cup OrphanAsgs
      BY <2>7, <3>1 DEF StaleRuns, StaleAsgs, OrphanAsgs, OpenOf
    <3>3. OpenOf(r)' = {}
      BY <2>4, <3>2
    <3>4. run'[r].status = "QUEUED"
      <4>1. run[r] \in RunRow /\ run'[r] = [run[r] EXCEPT !.status = "QUEUED", !.started = "null"]
        BY <1>1, <2>7 DEF RecoverStaleWorkers, StoreTypeOK
      <4> QED
        BY <4>1 DEF RunRow
    <3> QED
      BY <2>2, <2>3, <2>7, <3>3, <3>4 DEF Sound
  <2>8. CASE ExecsOf(r) \cup HeldBy(r) = {} /\ r \notin StaleRuns \cup OrphanRuns
    BY <2>1, <2>2, <2>3, <2>4, <2>5, <2>8 DEF Sound
  <2> QED
    BY <2>6, <2>7, <2>8
<1> QED
  BY <1>3, <1>4, <1>5 DEF ClaimInv

(***************************************************************************)
(* Steps that leave the tables and the executions alone and only move a    *)
(* ticker on.                                                              *)
(***************************************************************************)
LEMMA ControlClaim ==
    ASSUME ClaimInv, UNCHANGED <<storeVars, exec>>,
           \A r \in Run : HeldBy(r)' \subseteq HeldBy(r)
    PROVE  ClaimInv'
<1>1. UNCHANGED <<run, worker, asg, exec>>
  BY DEF storeVars
<1>2. RowsKnown'
  BY <1>1 DEF ClaimInv, RowsKnown
<1>3. StaleIsIdle'
  BY <1>1 DEF ClaimInv, StaleIsIdle, StaleWorkers, Serving, Open
<1>4. ASSUME NEW r \in Run, FirstAttempt(r)'
      PROVE  Sound(r)'
  <2>1. Sound(r)
    BY <1>1, <1>4 DEF ClaimInv, FirstAttempt
  <2>2. ExecsOf(r)' = ExecsOf(r) /\ OpenOf(r)' = OpenOf(r) /\ run' = run
    BY <1>1 DEF ExecsOf, OpenOf, Open
  <2> QED
    BY <2>1, <2>2, LeftAlone
<1> QED
  BY <1>2, <1>3, <1>4 DEF ClaimInv

LEMMA PhasesClaim ==
    ASSUME TypeOK, ClaimInv, NEW t \in Ticker, TickSelect(t) \/ TickScan(t) \/ TickDies(t)
    PROVE  ClaimInv'
<1>1. PICK pc, todo, snap :
         /\ pc \in {"idle", "scan", "claim", "retry"}
         /\ tick' = [tick EXCEPT ![t] = TickAt(pc, todo, snap)]
  BY DEF TickSelect, TickScan, TickDies, IdleTick
<1>2. TickAt(pc, todo, snap).pc = pc
  BY DEF TickAt
<1>3. \A r \in Run : HeldBy(r)' = HeldBy(r) \ {t}
  BY <1>1, <1>2, HandsOff
<1> QED
  BY <1>3, ControlClaim DEF TickSelect, TickScan, TickDies

(***************************************************************************)
(* The claim itself: a queued run is in nobody's hands.                    *)
(***************************************************************************)
LEMMA ClaimClaim ==
    ASSUME SchedulerAssumption, TypeOK, ClaimInv, NEW t \in Ticker, NEW q \in Run,
           TickClaim(t, q)
    PROVE  ClaimInv'
<1>1. UNCHANGED <<worker, asg, exec>>
  BY DEF TickClaim
<1>2. run[q] \in RunRow /\ tick[t] \in TickState
  BY DEF TypeOK, StoreTypeOK
<1>3. /\ run'[q].status = "IN_PROGRESS" /\ run'[q].started = "recent"
      /\ run'[q].retries = run[q].retries
      /\ \A r \in Run \ {q} : run'[r] = run[r]
  BY <1>2 DEF TickClaim, TypeOK, StoreTypeOK, RunRow
<1>4. /\ tick' = [tick EXCEPT ![t] = [tick[t] EXCEPT !.pc = "pick"]]
      /\ tick'[t].pc = "pick" /\ tick'[t].todo = tick[t].todo
  BY <1>2 DEF TickClaim, TypeOK, TickState
<1>5. \A r \in Run : Current(t, r) => r = q
  BY OneCurrent DEF TickClaim
<1>6. ASSUME NEW r \in Run
      PROVE  HeldBy(r)' \ {t} = HeldBy(r) \ {t} /\ (t \in HeldBy(r)' => r = q)
  BY <1>4, <1>5 DEF HeldBy, Working, Current, TypeOK
<1>7. RowsKnown'
  BY <1>1 DEF ClaimInv, RowsKnown
<1>8. StaleIsIdle'
  BY <1>1 DEF ClaimInv, StaleIsIdle, StaleWorkers, Serving, Open
<1>9. ASSUME NEW r \in Run, FirstAttempt(r)'
      PROVE  Sound(r)'
  <2>1. Sound(r)
    BY <1>3, <1>9 DEF ClaimInv, FirstAttempt
  <2>2. ExecsOf(r)' = ExecsOf(r) /\ OpenOf(r)' = OpenOf(r)
    BY <1>1 DEF ExecsOf, OpenOf, Open
  <2>3. CASE r # q
    BY <1>3, <1>6, <2>1, <2>2, <2>3, LeftAlone
  <2>4. CASE r = q
    <3>1. ExecsOf(q) = {} /\ HeldBy(q) = {} /\ OpenOf(q) = {}
      BY <2>1, <2>4 DEF Sound, TickClaim
    <3>2. HeldBy(q)' \subseteq {t}
      BY <1>6, <3>1
    <3> QED
      BY <1>3, <2>2, <2>4, <3>1, <3>2 DEF Sound
  <2> QED
    BY <2>3, <2>4
<1> QED
  BY <1>7, <1>8, <1>9 DEF ClaimInv

LEMMA TicksClaim ==
    ASSUME SchedulerAssumption, TypeOK, PickedOne, ClaimInv,
           NEW t \in Ticker, NEW q \in Run,
           TickSkip(t, q) \/ TickPick(t, q) \/ TickAssign(t, q) \/ TickRevert(t, q)
    PROVE  ClaimInv'
<1>1. CASE TickSkip(t, q)
  BY <1>1, DoneHandsOff, ControlClaim DEF TickSkip
<1>2. CASE TickPick(t, q)
  <2>1. tick[t] \in TickState
    BY DEF TypeOK
  <2>2. /\ \A u \in Ticker \ {t} : tick'[u] = tick[u]
        /\ tick'[t].todo = tick[t].todo /\ tick'[t].pc \in {"assign", "revert"}
    <3>1. CASE tick' = [tick EXCEPT ![t].pc = "revert"]
      BY <2>1, <3>1 DEF TypeOK, TickState
    <3>2. ASSUME NEW w \in BestWorkers(q),
                 tick' = [tick EXCEPT ![t].pc = "assign", ![t].pick = w,
                                      ![t].load = worker[w].load]
          PROVE  /\ \A u \in Ticker \ {t} : tick'[u] = tick[u]
                 /\ tick'[t].todo = tick[t].todo /\ tick'[t].pc \in {"assign", "revert"}
      BY <2>1, <3>2 DEF TypeOK, TickState
    <3> QED
      BY <1>2, <3>1, <3>2 DEF TickPick
  <2>3. \A r \in Run : HeldBy(r)' = HeldBy(r)
    BY <1>2, <2>2 DEF TickPick, At, HeldBy, Working, Current
  <2> QED
    BY <1>2, <2>3, ControlClaim DEF TickPick
<1>3. CASE TickAssign(t, q)
  <2>1. tick[t].pick \in Worker /\ tick[t].load \in 0..2
    BY <1>3 DEF TickAssign, At, PickedOne, TypeOK, TickState
  <2>2. PICK a \in AsgId :
          /\ AssignWorker(q, tick[t].pick, tick[t].load, a)
          /\ exec' = [e \in DOMAIN exec \cup {a} |->
                        IF e = a
                        THEN [run |-> q, pc |-> "trigger", build |-> NoBuild,
                              threaded |-> t \in Threaded]
                        ELSE exec[e]]
    BY <1>3 DEF TickAssign
  <2>3. /\ a \notin DOMAIN asg
        /\ DOMAIN asg' = DOMAIN asg \cup {a}
        /\ \A b \in DOMAIN asg : asg'[b] = asg[b]
        /\ asg'[a].run = q /\ asg'[a].worker = tick[t].pick
        /\ Open' = Open \cup {a}
    BY <2>1, <2>2, AssignedRows DEF TypeOK
  <2>4. /\ DOMAIN exec' = DOMAIN exec \cup {a} /\ exec'[a].run = q
        /\ a \notin DOMAIN exec
        /\ \A b \in DOMAIN exec : exec'[b].run = exec[b].run
    BY <2>2, <2>3 DEF ClaimInv, RowsKnown
  <2>5. RowsKnown'
    BY <2>3, <2>4 DEF ClaimInv, RowsKnown
  <2>6. StaleIsIdle'
    <3>1. tick[t].pick \notin StaleWorkers' /\ StaleWorkers' \subseteq StaleWorkers
      BY <2>1, <2>2 DEF AssignWorker, StaleWorkers, TypeOK, StoreTypeOK
    <3>2. \A b \in (Open' \cap DOMAIN exec') \ {a} : b \in Open \cap DOMAIN exec
      BY <2>3, <2>4
    <3>3. \A w \in Worker : Serving(w)' => Serving(w) \/ w = tick[t].pick
      BY <2>3, <3>2 DEF Serving, Open
    <3> QED
      BY <3>1, <3>3 DEF ClaimInv, StaleIsIdle, StaleWorkers
  <2>7. \A r \in Run : HeldBy(r)' = HeldBy(r) \ {t}
    BY <1>3, DoneHandsOff DEF TickAssign
  <2>8. t \in HeldBy(q) /\ run' = run
    BY <1>3 DEF TickAssign, At, HeldBy, Working
  <2>9. ASSUME NEW r \in Run, FirstAttempt(r)'
        PROVE  Sound(r)'
    <3>1. Sound(r)
      BY <2>8, <2>9 DEF ClaimInv, FirstAttempt
    <3>2. CASE r # q
      <4>1. ExecsOf(r)' = ExecsOf(r)
        BY <2>4, <3>2 DEF ExecsOf
      <4>2. OpenOf(r)' = OpenOf(r)
        BY <2>3, <3>2 DEF OpenOf, Open
      <4> QED
        BY <2>7, <2>8, <3>1, <4>1, <4>2, LeftAlone
    <3>3. CASE r = q
      <4>1. HeldBy(q) = {t} /\ ExecsOf(q) = {} /\ OpenOf(q) = {}
            /\ run[q].status = "IN_PROGRESS" /\ run[q].started = "recent"
        BY <2>8, <3>1, <3>3 DEF Sound
      <4>2. HeldBy(q)' = {}
        BY <2>7, <4>1
      <4>3. ExecsOf(q)' = {a}
        BY <2>4, <4>1 DEF ExecsOf
      <4>4. OpenOf(q)' = {a}
        BY <2>3, <4>1 DEF OpenOf, Open
      <4> QED
        BY <2>8, <3>3, <4>1, <4>2, <4>3, <4>4 DEF Sound
    <3> QED
      BY <3>2, <3>3
  <2> QED
    BY <2>5, <2>6, <2>9 DEF ClaimInv
<1>4. CASE TickRevert(t, q)
  <2>1. UNCHANGED <<worker, asg, exec>>
    BY <1>4 DEF TickRevert
  <2>2. run[q] \in RunRow
    BY DEF TypeOK, StoreTypeOK
  <2>3. /\ run'[q].status = "QUEUED" /\ run'[q].retries = run[q].retries
        /\ \A r \in Run \ {q} : run'[r] = run[r]
    BY <1>4, <2>2 DEF TickRevert, TypeOK, StoreTypeOK, RunRow
  <2>4. \A r \in Run : HeldBy(r)' = HeldBy(r) \ {t}
    BY <1>4, DoneHandsOff DEF TickRevert
  <2>5. t \in HeldBy(q)
    BY <1>4 DEF TickRevert, At, HeldBy, Working
  <2>6. RowsKnown'
    BY <2>1 DEF ClaimInv, RowsKnown
  <2>7. StaleIsIdle'
    BY <2>1 DEF ClaimInv, StaleIsIdle, StaleWorkers, Serving, Open
  <2>8. ASSUME NEW r \in Run, FirstAttempt(r)'
        PROVE  Sound(r)'
    <3>1. Sound(r)
      BY <2>3, <2>8 DEF ClaimInv, FirstAttempt
    <3>2. ExecsOf(r)' = ExecsOf(r) /\ OpenOf(r)' = OpenOf(r)
      BY <2>1 DEF ExecsOf, OpenOf, Open
    <3>3. CASE r # q
      BY <2>3, <2>4, <3>1, <3>2, <3>3, LeftAlone
    <3>4. CASE r = q
      BY <2>3, <2>4, <2>5, <3>1, <3>2, <3>4 DEF Sound
    <3> QED
      BY <3>3, <3>4
  <2> QED
    BY <2>6, <2>7, <2>8 DEF ClaimInv
<1> QED
  BY <1>1, <1>2, <1>3, <1>4

(***************************************************************************)
(* What the retry phase does to a row: it leaves status, start and retries *)
(* alone, or it requeues the run and counts the retry.                     *)
(***************************************************************************)
LEMMA RetriedRow ==
    ASSUME TypeOK, NEW t \in Ticker, TickRetry(t), NEW r \in Run
    PROVE  \/ /\ run'[r].status = run[r].status /\ run'[r].started = run[r].started
              /\ run'[r].retries = run[r].retries
           \/ \E f \in tick[t].snap :
                /\ f.run = r /\ run'[r].status = "QUEUED"
                /\ f.retries \in Nat /\ run'[r].retries = f.retries + 1
<1>1. run[r] \in RunRow
  BY DEF TypeOK, StoreTypeOK
<1>2. CASE run'[r] = run[r]
  BY <1>2
<1>3. CASE \E f \in tick[t].snap : f.run = r /\ run'[r] = Rewritten(f)
  <2>1. PICK f \in tick[t].snap : f.run = r /\ run'[r] = Rewritten(f)
    BY <1>3
  <2>2. f \in Failure
    BY DEF TypeOK, TickState
  <2>3. CASE f.backoff = "null"
    BY <1>1, <2>1, <2>3 DEF Rewritten, RunRow
  <2>4. CASE f.backoff = "waiting"
    BY <2>1, <2>4 DEF Rewritten
  <2>5. CASE f.backoff = "due"
    <3>1. run'[r] = [run[r] EXCEPT !.status = "QUEUED", !.started = "null",
                                   !.backoff = "null", !.retries = f.retries + 1]
      BY <2>1, <2>5 DEF Rewritten, Requeued
    <3>2. run'[r].status = "QUEUED" /\ run'[r].retries = f.retries + 1
      BY <1>1, <3>1 DEF RunRow
    <3>3. f.retries \in Nat
      BY <2>2 DEF Failure
    <3> QED
      BY <2>1, <3>2, <3>3
  <2> QED
    BY <2>2, <2>3, <2>4, <2>5 DEF Failure
<1> QED
  BY <1>2, <1>3 DEF TickRetry

(***************************************************************************)
(* The retry phase: a run it puts back in the queue is no first attempt    *)
(* any more; of the others it writes the backoff only.                     *)
(***************************************************************************)
LEMMA RetryClaim ==
    ASSUME TypeOK, ClaimInv, NEW t \in Ticker, TickRetry(t)
    PROVE  ClaimInv'
<1>1. UNCHANGED <<worker, asg, exec>>
  BY DEF TickRetry
<1>2. RowsKnown'
  BY <1>1 DEF ClaimInv, RowsKnown
<1>3. StaleIsIdle'
  BY <1>1 DEF ClaimInv, StaleIsIdle, StaleWorkers, Serving, Open
<1>4. IdleTick.pc = "idle" /\ tick' = [tick EXCEPT ![t] = IdleTick]
  BY DEF IdleTick, TickAt, TickRetry
<1>5. \A r \in Run : HeldBy(r)' = HeldBy(r) \ {t}
  BY <1>4, HandsOff
<1>6. ASSUME NEW r \in Run, FirstAttempt(r)'
      PROVE  /\ run'[r].status = run[r].status /\ run'[r].started = run[r].started
             /\ run'[r].retries = run[r].retries
  BY <1>6, RetriedRow DEF FirstAttempt
<1>7. ASSUME NEW r \in Run, FirstAttempt(r)'
      PROVE  Sound(r)'
  <2>1. Sound(r)
    BY <1>6, <1>7 DEF ClaimInv, FirstAttempt
  <2>2. ExecsOf(r)' = ExecsOf(r) /\ OpenOf(r)' = OpenOf(r)
    BY <1>1 DEF ExecsOf, OpenOf, Open
  <2> QED
    BY <1>5, <1>6, <1>7, <2>1, <2>2, LeftAlone
<1> QED
  BY <1>2, <1>3, <1>7 DEF ClaimInv

(***************************************************************************)
(* The end of an execution.  It takes the run to a terminal status and     *)
(* touches the rows of no other run.                                       *)
(***************************************************************************)
LEMMA CompletedClaim ==
    ASSUME TypeOK, ClaimInv, NEW a \in DOMAIN exec, NEW res \in Result,
           OnBuildCompleted(exec[a].run, res), EndExec(a), UNCHANGED tick
    PROVE  ClaimInv'
<1>0. PICK q \in Run : q = exec[a].run
  BY DEF TypeOK, Execution
<1>1. StoreTypeOK /\ run[q] \in RunRow /\ OnBuildCompleted(q, res)
  BY <1>0 DEF TypeOK, StoreTypeOK
<1>2. RowsStay /\ \A b \in Open \ Open' : asg[b].run = q
  BY <1>1, CompletedRows
<1>3. /\ DOMAIN exec' = DOMAIN exec \ {a}
      /\ \A b \in DOMAIN exec' : exec'[b] = exec[b]
  BY DEF EndExec
<1>4. /\ run'[q].status = StatusFor(res) /\ run'[q].retries = run[q].retries
      /\ \A r \in Run \ {q} : run'[r] = run[r]
  BY <1>1 DEF OnBuildCompleted, StoreTypeOK, RunRow
<1>5. RowsKnown'
  BY <1>2, <1>3 DEF ClaimInv, RowsKnown, RowsStay
<1>6. StaleIsIdle'
  <2>1. StaleWorkers' \subseteq StaleWorkers
    <3>1. CASE UNCHANGED worker
      BY <3>1 DEF StaleWorkers
    <3>2. ASSUME NEW w, ReleaseWorker(w, q, res = "SUCCESS")
          PROVE  StaleWorkers' \subseteq StaleWorkers
      BY <1>1, <3>2 DEF ReleaseWorker, StaleWorkers, StoreTypeOK, WorkerRow
    <3> QED
      BY <1>1, <3>1, <3>2 DEF OnBuildCompleted
  <2>2. \A b \in Open' : asg'[b].worker = asg[b].worker
    BY <1>2 DEF RowsStay, Open
  <2> QED
    BY <1>2, <1>3, <2>1, <2>2, StaysServed DEF ClaimInv, RowsStay
<1>7. ASSUME NEW r \in Run, FirstAttempt(r)'
      PROVE  Sound(r)'
  <2>1. Sound(r)
    BY <1>4, <1>7 DEF ClaimInv, FirstAttempt
  <2>2. HeldBy(r)' = HeldBy(r) /\ ExecsOf(r)' = ExecsOf(r) \ {a}
    BY <1>3 DEF HeldBy, Working, Current, ExecsOf
  <2>3. CASE r # q
    <3>1. OpenOf(r)' = OpenOf(r)
      BY <1>1, <1>2, <2>3, OpenElsewhere
    <3> QED
      BY <1>4, <2>1, <2>2, <2>3, <3>1, LeftAlone
  <2>4. CASE r = q
    <3>1. a \in ExecsOf(q)
      BY <1>0 DEF ExecsOf
    <3>2. ExecsOf(q)' = {} /\ HeldBy(q)' = {}
      BY <2>1, <2>2, <2>4, <3>1 DEF Sound
    <3>3. run'[q].status \notin {"ABSENT", "QUEUED", "IN_PROGRESS"}
      BY <1>4 DEF StatusFor
    <3> QED
      BY <2>4, <3>2, <3>3 DEF Sound
  <2> QED
    BY <2>3, <2>4
<1> QED
  BY <1>5, <1>6, <1>7 DEF ClaimInv

LEMMA EndedClaim ==
    ASSUME ClaimInv, NEW a \in DOMAIN exec, EndExec(a), UNCHANGED <<storeVars, tick>>
    PROVE  ClaimInv'
<1>1. UNCHANGED <<run, worker, asg>>
  BY DEF storeVars
<1>2. DOMAIN exec' = DOMAIN exec \ {a} /\ \A b \in DOMAIN exec' : exec'[b] = exec[b]
  BY DEF EndExec
<1>3. RowsKnown'
  BY <1>1, <1>2 DEF ClaimInv, RowsKnown
<1>4. StaleIsIdle'
  BY <1>1, <1>2 DEF ClaimInv, StaleIsIdle, StaleWorkers, Serving, Open
<1>5. ASSUME NEW r \in Run, FirstAttempt(r)'
      PROVE  Sound(r)'
  <2>1. Sound(r)
    BY <1>1, <1>5 DEF ClaimInv, FirstAttempt
  <2>2. OpenOf(r)' = OpenOf(r) /\ HeldBy(r)' = HeldBy(r)
    BY <1>1 DEF OpenOf, Open, HeldBy, Working, Current
  <2>3. ExecsOf(r)' \subseteq ExecsOf(r)
    BY <1>2 DEF ExecsOf
  <2> QED
    BY <1>1, <2>1, <2>2, <2>3, LeftAlone
<1> QED
  BY <1>3, <1>4, <1>5 DEF ClaimInv

LEMMA StartedClaim ==
    ASSUME TypeOK, ClaimInv, NEW a \in DOMAIN exec, NEW b \in BuildNo, ExecStarted(a, b)
    PROVE  ClaimInv'
<1>0. PICK q \in Run : q = exec[a].run
  BY DEF TypeOK, Execution
<1>1. /\ StoreTypeOK /\ run[q] \in RunRow
      /\ OnBuildStarted(q, b) /\ UNCHANGED <<worker, tick>>
  BY <1>0 DEF TypeOK, StoreTypeOK, ExecStarted, OnBuildStarted
<1>2. RowsStay /\ Open' = Open
  BY <1>1, StartedRows
<1>3. DOMAIN exec' = DOMAIN exec /\ \A e \in DOMAIN exec : exec'[e].run = exec[e].run
  BY DEF ExecStarted, TypeOK, Execution
<1>4. /\ run'[q].status = "IN_PROGRESS" /\ run'[q].started = "recent"
      /\ run'[q].retries = run[q].retries
      /\ \A r \in Run \ {q} : run'[r] = run[r]
  BY <1>1 DEF OnBuildStarted, StoreTypeOK, RunRow
<1>5. RowsKnown'
  BY <1>2, <1>3 DEF ClaimInv, RowsKnown, RowsStay
<1>6. StaleIsIdle'
  <2>1. \A e \in Open' : asg'[e].worker = asg[e].worker
    BY <1>2 DEF RowsStay, Open
  <2> QED
    BY <1>1, <1>2, <1>3, <2>1, StaysServed DEF ClaimInv, StaleWorkers
<1>7. ASSUME NEW r \in Run, FirstAttempt(r)'
      PROVE  Sound(r)'
  <2>1. Sound(r)
    BY <1>4, <1>7 DEF ClaimInv, FirstAttempt
  <2>2. HeldBy(r)' = HeldBy(r) /\ ExecsOf(r)' = ExecsOf(r) /\ OpenOf(r)' = OpenOf(r)
    BY <1>1, <1>2, <1>3 DEF HeldBy, Working, Current, ExecsOf, OpenOf, Open, RowsStay
  <2>3. CASE r # q
    BY <1>4, <2>1, <2>2, <2>3, LeftAlone
  <2>4. CASE r = q
    <3>1. a \in ExecsOf(q)
      BY <1>0 DEF ExecsOf
    <3> QED
      BY <1>4, <2>1, <2>2, <2>4, <3>1 DEF Sound
  <2> QED
    BY <2>3, <2>4
<1> QED
  BY <1>5, <1>6, <1>7 DEF ClaimInv

LEMMA ExecsClaim ==
    ASSUME TypeOK, ClaimInv, NEW a \in DOMAIN exec, ExecStep(a)
    PROVE  ClaimInv'
<1>1. CASE ExecTriggerFails(a)
  <2>1. "FAILURE" \in Result
    BY DEF Result
  <2> QED
    BY <1>1, <2>1, CompletedClaim DEF ExecTriggerFails
<1>2. CASE \E b \in BuildNo : ExecStarted(a, b)
  BY <1>2, StartedClaim
<1>3. CASE \E res \in Result : ExecFinished(a, res)
  BY <1>3, CompletedClaim DEF ExecFinished
<1>4. CASE ExecExhausted(a)
  <2>1. "FAILURE" \in Result
    BY DEF Result
  <2>2. CASE OnBuildCompleted(exec[a].run, "FAILURE")
    BY <1>4, <2>1, <2>2, CompletedClaim DEF ExecExhausted
  <2>3. CASE UNCHANGED storeVars
    BY <1>4, <2>3, EndedClaim DEF ExecExhausted
  <2> QED
    BY <1>4, <2>2, <2>3 DEF ExecExhausted
<1> QED
  BY <1>1, <1>2, <1>3, <1>4 DEF ExecStep

(***************************************************************************)
(* Steps that write the row of one run: a run that is submitted has no     *)
(* assignments yet, and only a run in nobody's hands ages.                 *)
(***************************************************************************)
LEMMA RunRowClaim ==
    ASSUME TypeOK, ClaimInv, NEW q \in Run,
           Submit(q) \/ BackoffElapses(q) \/ (~Executing(q) /\ StartAges(q))
    PROVE  ClaimInv'
<1>1. UNCHANGED <<worker, asg, tick, exec>> /\ run[q] \in RunRow
  BY DEF TypeOK, StoreTypeOK, Submit, SchedulePipeline, BackoffElapses, StartAges
<1>2. /\ run'[q].retries = run[q].retries
      /\ \A r \in Run \ {q} : run'[r] = run[r]
  BY <1>1 DEF Submit, SchedulePipeline, BackoffElapses, StartAges, TypeOK, StoreTypeOK, RunRow
<1>3. RowsKnown'
  BY <1>1 DEF ClaimInv, RowsKnown
<1>4. StaleIsIdle'
  BY <1>1 DEF ClaimInv, StaleIsIdle, StaleWorkers, Serving, Open
<1>5. ASSUME NEW r \in Run, FirstAttempt(r)'
      PROVE  Sound(r)'
  <2>1. Sound(r)
    BY <1>2, <1>5 DEF ClaimInv, FirstAttempt
  <2>2. HeldBy(r)' = HeldBy(r) /\ ExecsOf(r)' = ExecsOf(r) /\ OpenOf(r)' = OpenOf(r)
    BY <1>1 DEF HeldBy, Working, Current, ExecsOf, OpenOf, Open
  <2>3. CASE r # q
    BY <1>2, <2>1, <2>2, <2>3, LeftAlone
  <2>4. CASE r = q /\ Submit(q)
    <3>1. run[q].status = "ABSENT" /\ run'[q].status = "QUEUED"
      BY <1>1, <2>4 DEF Submit, SchedulePipeline, TypeOK, StoreTypeOK, RunRow
    <3> QED
      BY <2>1, <2>2, <2>4, <3>1 DEF Sound
  <2>5. CASE r = q /\ BackoffElapses(q)
    <3>1. run'[q].status = run[q].status /\ run'[q].started = run[q].started
      BY <1>1, <2>5 DEF BackoffElapses, TypeOK, StoreTypeOK, RunRow
    <3> QED
      BY <2>1, <2>2, <2>5, <3>1, LeftAlone
  <2>6. CASE r = q /\ ~Executing(q) /\ StartAges(q)
    <3>1. run'[q].status = run[q].status
      BY <1>1, <2>6 DEF StartAges, TypeOK, StoreTypeOK, RunRow
    <3>2. ExecsOf(q) = {} /\ HeldBy(q) = {}
      BY <2>6 DEF StartAges, Executing, ExecsOf, HeldBy
    <3> QED
      BY <2>1, <2>2, <2>6, <3>1, <3>2, LeftAlone
  <2> QED
    BY <2>3, <2>4, <2>5, <2>6
<1> QED
  BY <1>3, <1>4, <1>5 DEF ClaimInv

LEMMA SilenceClaim ==
    ASSUME TypeOK, ClaimInv, NEW w \in Worker, ~Serving(w), HeartbeatAges(w)
    PROVE  ClaimInv'
<1>1. UNCHANGED <<run, asg, tick, exec>>
  BY DEF HeartbeatAges
<1>2. RowsKnown'
  BY <1>1 DEF ClaimInv, RowsKnown
<1>3. StaleIsIdle'
  <2>1. StaleWorkers' \subseteq StaleWorkers \cup {w}
    BY DEF HeartbeatAges, StaleWorkers, TypeOK, StoreTypeOK, WorkerRow
  <2>2. \A v \in Worker : Serving(v)' => Serving(v)
    BY <1>1 DEF Serving, Open
  <2> QED
    BY <2>1, <2>2 DEF ClaimInv, StaleIsIdle, StaleWorkers
<1>4. ASSUME NEW r \in Run, FirstAttempt(r)'
      PROVE  Sound(r)'
  BY <1>1, <1>4 DEF ClaimInv, FirstAttempt, Sound, ExecsOf, HeldBy, Working, Current, OpenOf,
                    Open
<1> QED
  BY <1>2, <1>3, <1>4 DEF ClaimInv

LEMMA NextClaim ==
    ASSUME SchedulerAssumption, TypeOK, PickedOne, ClaimInv, [MortalNext]_vars
    PROVE  ClaimInv'
<1>1. CASE QuietNext
  BY <1>1, RecoverClaim, PhasesClaim, ClaimClaim, TicksClaim, RetryClaim, ExecsClaim, RunRowClaim
     DEF QuietNext, TickStep
<1>2. CASE OverdueStep
  BY <1>2, SilenceClaim, RunRowClaim DEF OverdueStep
<1>3. ASSUME NEW a \in DOMAIN exec, ExecDies(a)
      PROVE  ClaimInv'
  BY <1>3, EndedClaim DEF ExecDies
<1>4. ASSUME NEW t \in Ticker, TickDies(t)
      PROVE  ClaimInv'
  BY <1>4, PhasesClaim
<1>5. CASE UNCHANGED vars
  BY <1>5, ControlClaim DEF vars, storeVars, HeldBy, Working, Current
<1> QED
  BY <1>1, <1>2, <1>3, <1>4, <1>5 DEF MortalNext, DeathStep

-----------------------------------------------------------------------------
(* The pairing with workers *)

(***************************************************************************)
(* The open assignments of runs under way.  What release_worker left open  *)
(* of a finished run is not among them.                                    *)
(***************************************************************************)
Active == {a \in Open : run[asg[a].run].status = "IN_PROGRESS"}

(***************************************************************************)
(* The worker of an active assignment is BUSY with it alone, and the one a *)
(* tick has picked is still IDLE.                                          *)
(***************************************************************************)
Paired ==
    /\ \A a \in Active : worker[asg[a].worker].status = "BUSY"
    /\ \A a, b \in Active : asg[a].worker = asg[b].worker => a = b
    /\ \A t \in Ticker : At(t, "assign") => worker[tick[t].pick].status = "IDLE"

PairInv == NoneRetried => Paired

OneTicker == \A t, u \in Ticker : t = u

(***************************************************************************)
(* Only the retry phase writes the count, and never counts down to zero.   *)
(***************************************************************************)
LEMMA CountKept ==
    ASSUME TypeOK, [MortalNext]_vars, \A t \in Ticker : ~TickRetry(t), NEW r \in Run
    PROVE  run'[r].retries = run[r].retries
<1> USE DEF TypeOK, StoreTypeOK
<1>0. run[r] \in RunRow
  OBVIOUS
<1>1. ASSUME NEW t \in Ticker, TickStep(t)
      PROVE  run'[r].retries = run[r].retries
  <2>1. CASE TickRecover(t)
    BY <2>1, RecoverRetries DEF TickRecover
  <2>2. CASE TickSelect(t) \/ TickScan(t)
    BY <2>2 DEF TickSelect, TickScan, storeVars
  <2>3. ASSUME NEW q \in Run, TickSkip(t, q) \/ TickPick(t, q) \/ TickAssign(t, q)
        PROVE  run'[r].retries = run[r].retries
    BY <2>3 DEF TickSkip, TickPick, TickAssign, storeVars
  <2>4. ASSUME NEW q \in Run, TickClaim(t, q)
        PROVE  run'[r].retries = run[r].retries
    BY <1>0, <2>4 DEF TickClaim, RunRow
  <2>5. ASSUME NEW q \in Run, TickRevert(t, q)
        PROVE  run'[r].retries = run[r].retries
    BY <1>0, <2>5 DEF TickRevert, RunRow
  <2> QED
    BY <1>1, <2>1, <2>2, <2>3, <2>4, <2>5 DEF TickStep
<1>2. ASSUME NEW a \in DOMAIN exec, ExecStep(a)
      PROVE  run'[r].retries = run[r].retries
  <2>1. ASSUME NEW res, OnBuildCompleted(exec[a].run, res)
        PROVE  run'[r].retries = run[r].retries
    BY <1>0, <2>1 DEF OnBuildCompleted, RunRow
  <2>2. ASSUME NEW b, OnBuildStarted(exec[a].run, b)
        PROVE  run'[r].retries = run[r].retries
    BY <1>0, <2>2 DEF OnBuildStarted, RunRow
  <2> QED
    BY <1>2, <2>1, <2>2 DEF ExecStep, ExecTriggerFails, ExecStarted, ExecFinished,
                            ExecExhausted, storeVars
<1>3. ASSUME NEW q \in Run, Submit(q) \/ BackoffElapses(q) \/ StartAges(q)
      PROVE  run'[r].retries = run[r].retries
  BY <1>0, <1>3 DEF Submit, SchedulePipeline, BackoffElapses, StartAges, RunRow
<1>4. CASE QuietNext
  BY <1>1, <1>2, <1>3, <1>4 DEF QuietNext
<1>5. CASE OverdueStep \/ DeathStep \/ UNCHANGED vars
  BY <1>3, <1>5 DEF OverdueStep, HeartbeatAges, DeathStep, ExecDies, TickDies, storeVars, vars
<1> QED
  BY <1>4, <1>5 DEF MortalNext

LEMMA AttemptsGrow ==
    ASSUME TypeOK, [MortalNext]_vars, NEW r \in Run, FirstAttempt(r)'
    PROVE  FirstAttempt(r)
<1>1. ASSUME NEW t \in Ticker, TickRetry(t)
      PROVE  FirstAttempt(r)
  BY <1>1, RetriedRow DEF FirstAttempt
<1> QED
  BY <1>1, CountKept DEF FirstAttempt

(***************************************************************************)
(* A step that starts no assignment and frees no worker in use or picks    *)
(* none.                                                                   *)
(***************************************************************************)
LEMMA PairKept ==
    ASSUME Paired, Active' \subseteq Active,
           \A a \in Active' : /\ asg'[a].worker = asg[a].worker
                             /\ worker'[asg[a].worker].status = "BUSY",
           \A t \in Ticker : At(t, "assign")' =>
                /\ At(t, "assign") /\ tick'[t].pick = tick[t].pick
                /\ worker'[tick[t].pick].status = "IDLE"
    PROVE  Paired'
BY DEF Paired

LEMMA RowsOfActive ==
    ASSUME RowsStay, \A r \in Run : run'[r].status = "IN_PROGRESS"
                                      => run[r].status = "IN_PROGRESS",
           StoreTypeOK
    PROVE  Active' \subseteq Active /\ \A a \in Active' : asg'[a].worker = asg[a].worker
<1>1. ASSUME NEW a \in Active'
      PROVE  a \in Active /\ asg'[a].worker = asg[a].worker
  <2>1. a \in Open /\ a \in DOMAIN asg /\ asg[a].run \in Run
    BY DEF Active, RowsStay, Open, StoreTypeOK, AsgRow
  <2> QED
    BY <2>1 DEF Active, RowsStay
<1> QED
  BY <1>1

(***************************************************************************)
(* The recovery frees silent workers and those whose active assignment it  *)
(* takes back: an assignment that stays active keeps its worker.           *)
(***************************************************************************)
LEMMA RecoverPair ==
    ASSUME TypeOK, PickedOne, Paired, NEW t \in Ticker, TickRecover(t)
    PROVE  Paired'
<1>1. StoreTypeOK /\ RecoverStaleWorkers
  BY DEF TypeOK, TickRecover
<1>2. RowsStay /\ Open' = Open \ (StaleAsgs \cup OrphanAsgs)
  BY <1>1, RecoveredRows
<1>3. ASSUME NEW r \in Run, run'[r].status = "IN_PROGRESS"
      PROVE  run[r].status = "IN_PROGRESS" /\ r \notin StaleRuns \cup OrphanRuns
  <2>1. run[r] \in RunRow
    BY <1>1 DEF StoreTypeOK
  <2> QED
    BY <1>1, <1>3, <2>1 DEF RecoverStaleWorkers, RunRow
<1>4. Active' \subseteq Active /\ \A a \in Active' : asg'[a].worker = asg[a].worker
  BY <1>1, <1>2, <1>3, RowsOfActive
<1>5. ASSUME NEW a \in Active'
      PROVE  worker'[asg[a].worker].status = "BUSY"
  <2>1. a \in Active /\ a \in Open \ (StaleAsgs \cup OrphanAsgs)
    BY <1>2, <1>4 DEF Active
  <2>2. asg[a].worker \in Worker /\ worker[asg[a].worker].status = "BUSY"
    BY <1>1, <2>1 DEF Paired, Active, Open, StoreTypeOK, AsgRow
  <2>3. asg[a].worker \notin StaleWorkers
    BY <2>1 DEF StaleAsgs
  <2>4. ASSUME NEW b \in OrphanAsgs, asg[b].worker = asg[a].worker
        PROVE  FALSE
    <3>1. b \in Active
      BY DEF OrphanAsgs, OrphanRuns, Active
    <3> QED
      BY <2>1, <2>4, <3>1 DEF Paired
  <2>5. asg[a].worker \notin OrphanWorkers
    BY <2>4 DEF OrphanWorkers
  <2> QED
    BY <1>1, <2>2, <2>3, <2>5 DEF RecoverStaleWorkers
<1>6. ASSUME NEW u \in Ticker, At(u, "assign")'
      PROVE  /\ At(u, "assign") /\ tick'[u].pick = tick[u].pick
             /\ worker'[tick[u].pick].status = "IDLE"
  <2>1. tick[u] \in TickState /\ tick[t] \in TickState
    BY DEF TypeOK
  <2>2. u # t /\ tick'[u] = tick[u]
    BY <1>6, <2>1 DEF TickRecover, TypeOK, At, TickState
  <2>3. worker[tick[u].pick].status = "IDLE"
    BY <1>6, <2>2 DEF Paired, At
  <2>4. tick[u].pick \in Worker => worker'[tick[u].pick].status = "IDLE"
    BY <1>1, <2>3 DEF RecoverStaleWorkers, StaleWorkers, OrphanWorkers
  <2> QED
    BY <1>6, <2>2, <2>4 DEF At, PickedOne
<1> QED
  BY <1>4, <1>5, <1>6, PairKept

(***************************************************************************)
(* The tick's own steps on a run it has in hand.  With one ticker nobody   *)
(* takes the worker between the pick and the assignment.                   *)
(***************************************************************************)
LEMMA TicksPair ==
    ASSUME OneTicker, TypeOK, PickedOne, Paired, NEW t \in Ticker, NEW q \in Run, Sound(q),
           \/ TickClaim(t, q) \/ TickSkip(t, q) \/ TickPick(t, q)
           \/ TickAssign(t, q) \/ TickRevert(t, q)
    PROVE  Paired'
<1>0. tick[t] \in TickState /\ run[q] \in RunRow /\ StoreTypeOK
  BY DEF TypeOK, StoreTypeOK
<1>1. DoneWith(t, q) => ~At(t, "assign")'
  BY DEF DoneWith, TickAt, At, TypeOK
<1>2. CASE TickClaim(t, q)
  <2>1. run[q].status = "QUEUED" /\ OpenOf(q) = {} /\ UNCHANGED <<worker, asg>>
    BY <1>2 DEF TickClaim, Sound
  <2>2. \A r \in Run \ {q} : run'[r] = run[r]
    BY <1>0, <1>2 DEF TickClaim, StoreTypeOK
  <2>3. Active' \subseteq Active
    BY <1>0, <2>1, <2>2 DEF Active, Open, OpenOf, StoreTypeOK, AsgRow
  <2>4. ~At(t, "assign")'
    BY <1>0, <1>2 DEF TickClaim, At, TypeOK, TickState
  <2> QED
    BY <2>1, <2>3, <2>4 DEF Paired, OneTicker
<1>3. CASE TickSkip(t, q)
  BY <1>1, <1>3 DEF TickSkip, storeVars, Paired, Active, Open, OneTicker
<1>4. CASE TickPick(t, q)
  <2>1. UNCHANGED <<run, worker, asg>>
    BY <1>4 DEF TickPick, storeVars
  <2>2. Active' = Active
    BY <2>1 DEF Active, Open
  <2>3. At(t, "assign")' => worker[tick'[t].pick].status = "IDLE"
    <3>1. ASSUME NEW w \in BestWorkers(q),
                 tick' = [tick EXCEPT ![t].pc = "assign", ![t].pick = w,
                                      ![t].load = worker[w].load]
          PROVE  worker[tick'[t].pick].status = "IDLE"
      <4>1. w \in IdleWorkers
        BY DEF BestWorkers, Candidates
      <4>2. tick'[t].pick = w
        BY <1>0, <3>1 DEF TypeOK, TickState
      <4> QED
        BY <4>1, <4>2 DEF IdleWorkers
    <3>2. CASE tick' = [tick EXCEPT ![t].pc = "revert"]
      BY <1>0, <3>2 DEF TypeOK, TickState, At
    <3> QED
      BY <1>4, <3>1, <3>2 DEF TickPick
  <2> QED
    BY <2>1, <2>2, <2>3 DEF Paired, OneTicker
<1>5. CASE TickAssign(t, q)
  <2>1. tick[t].pick \in Worker /\ tick[t].load \in 0..2
    BY <1>0, <1>5 DEF TickAssign, At, PickedOne, TickState
  <2>2. PICK a \in AsgId : AssignWorker(q, tick[t].pick, tick[t].load, a)
    BY <1>5 DEF TickAssign
  <2>3. /\ a \notin DOMAIN asg
        /\ DOMAIN asg' = DOMAIN asg \cup {a}
        /\ \A b \in DOMAIN asg : asg'[b] = asg[b]
        /\ asg'[a].run = q /\ asg'[a].worker = tick[t].pick
        /\ Open' = Open \cup {a}
    BY <1>0, <2>1, <2>2, AssignedRows
  <2>4. /\ worker'[tick[t].pick].status = "BUSY"
        /\ \A w \in Worker \ {tick[t].pick} : worker'[w] = worker[w]
    BY <1>0, <2>1, <2>2 DEF AssignWorker, StoreTypeOK
  <2>5. \A b \in Active' \ {a} : b \in Active /\ asg'[b] = asg[b]
    BY <1>5, <2>3 DEF Active, Open, TickAssign
  <2>6. \A b \in Active : asg[b].worker \in Worker /\ asg[b].worker # tick[t].pick
    BY <1>0, <1>5, <2>1 DEF Paired, Active, Open, StoreTypeOK, AsgRow, TickAssign
  <2>7. ASSUME NEW b \in Active'
        PROVE  worker'[asg'[b].worker].status = "BUSY"
    <3>1. CASE b = a
      BY <2>3, <2>4, <3>1
    <3>2. CASE b # a
      BY <2>4, <2>5, <2>6, <3>2 DEF Paired
    <3> QED
      BY <3>1, <3>2
  <2>8. ASSUME NEW b \in Active', NEW c \in Active', asg'[b].worker = asg'[c].worker
        PROVE  b = c
    <3>1. CASE b = a \/ c = a
      BY <2>3, <2>5, <2>6, <2>8, <3>1
    <3>2. CASE b # a /\ c # a
      BY <2>5, <2>8, <3>2 DEF Paired
    <3> QED
      BY <3>1, <3>2
  <2> QED
    BY <1>1, <1>5, <2>7, <2>8 DEF Paired, OneTicker, TickAssign
<1>6. CASE TickRevert(t, q)
  <2>1. UNCHANGED <<worker, asg>>
    BY <1>6 DEF TickRevert
  <2>2. \A r \in Run : run'[r].status = "IN_PROGRESS" => run[r].status = "IN_PROGRESS"
    BY <1>0, <1>6 DEF TickRevert, StoreTypeOK, RunRow
  <2>3. Active' \subseteq Active
    BY <1>0, <2>1, <2>2 DEF Active, Open, StoreTypeOK, AsgRow
  <2> QED
    BY <1>1, <1>6, <2>1, <2>3 DEF Paired, OneTicker, TickRevert
<1> QED
  BY <1>2, <1>3, <1>4, <1>5, <1>6

(***************************************************************************)
(* The end of an execution frees the worker of its own assignment, the     *)
(* only active one there.                                                  *)
(***************************************************************************)
LEMMA CompletedPair ==
    ASSUME TypeOK, PickedOne, Paired, NEW a \in DOMAIN exec, Sound(exec[a].run),
           NEW res \in Result, OnBuildCompleted(exec[a].run, res), UNCHANGED tick
    PROVE  Paired'
<1>0. PICK q \in Run : q = exec[a].run
  BY DEF TypeOK, Execution
<1>1. StoreTypeOK /\ run[q] \in RunRow /\ OnBuildCompleted(q, res)
  BY <1>0 DEF TypeOK, StoreTypeOK
<1>2. RowsStay
  BY <1>1, CompletedRows
<1>3. OpenOf(q) = {a} /\ run[q].status = "IN_PROGRESS"
  BY <1>0 DEF Sound, ExecsOf
<1>4. PICK w \in Worker : w = asg[a].worker
  BY <1>1, <1>3 DEF OpenOf, Open, StoreTypeOK, AsgRow
<1>5. /\ worker'[w].status = "IDLE"
      /\ \A v \in Worker \ {w} : worker'[v] = worker[v]
  <2>1. ReleaseWorker(w, q, res = "SUCCESS")
    BY <1>1, <1>3, <1>4 DEF OnBuildCompleted
  <2>2. worker' = [worker EXCEPT ![w] = [worker[w] EXCEPT !.status = "IDLE",
                                                         !.load = Less(worker[w].load),
                                                         !.stale = FALSE]]
    BY <1>1, <2>1 DEF ReleaseWorker, StoreTypeOK
  <2>3. worker[w] \in WorkerRow
    BY <1>1 DEF StoreTypeOK
  <2> QED
    BY <1>1, <2>2, <2>3 DEF StoreTypeOK, WorkerRow
<1>6. run'[q].status # "IN_PROGRESS" /\ \A r \in Run \ {q} : run'[r] = run[r]
  BY <1>1 DEF OnBuildCompleted, StatusFor, StoreTypeOK, RunRow
<1>7. Active' \subseteq Active /\ \A b \in Active' : asg'[b].worker = asg[b].worker
  BY <1>1, <1>2, <1>6, RowsOfActive
<1>8. ASSUME NEW b \in Active'
      PROVE  worker'[asg[b].worker].status = "BUSY"
  <2>1. b \in Active /\ b \in DOMAIN asg /\ asg'[b].run = asg[b].run
    BY <1>2, <1>7 DEF Active, Open, RowsStay
  <2>2. asg[b].run # q
    BY <1>6, <2>1 DEF Active
  <2>3. a \in Active /\ a # b
    BY <1>3, <2>2 DEF Active, OpenOf
  <2>4. asg[b].worker \in Worker \ {w}
    BY <1>1, <1>4, <2>1, <2>3 DEF Paired, StoreTypeOK, AsgRow
  <2> QED
    BY <1>5, <2>1, <2>4 DEF Paired
<1>9. ASSUME NEW t \in Ticker, At(t, "assign")'
      PROVE  /\ At(t, "assign") /\ tick'[t].pick = tick[t].pick
             /\ worker'[tick[t].pick].status = "IDLE"
  <2>1. At(t, "assign") /\ tick[t].pick \in Worker
    BY <1>9 DEF At, PickedOne
  <2>2. worker[tick[t].pick].status = "IDLE"
    BY <2>1 DEF Paired
  <2> QED
    BY <1>5, <2>1, <2>2
<1> QED
  BY <1>7, <1>8, <1>9, PairKept

(***************************************************************************)
(* Steps that open no assignment, put no run under way and leave the       *)
(* status of every worker alone.                                           *)
(***************************************************************************)
LEMMA QuietPair ==
    ASSUME TypeOK, PickedOne, Paired, RowsStay,
           \A r \in Run : run'[r].status = "IN_PROGRESS" => run[r].status = "IN_PROGRESS",
           \A w \in Worker : worker'[w].status = worker[w].status,
           \A t \in Ticker : At(t, "assign")' => tick'[t] = tick[t]
    PROVE  Paired'
<1>1. Active' \subseteq Active /\ \A a \in Active' : asg'[a].worker = asg[a].worker
  BY RowsOfActive DEF TypeOK
<1>2. \A a \in Active : asg[a].worker \in Worker
  BY DEF TypeOK, StoreTypeOK, AsgRow, Active, Open
<1>3. \A t \in Ticker : At(t, "assign") => tick[t].pick \in Worker
  BY DEF PickedOne, At
<1> QED
  BY <1>1, <1>2, <1>3, PairKept DEF Paired, At

LEMMA PhasesPair ==
    ASSUME TypeOK, PickedOne, Paired, UNCHANGED <<worker, asg>>,
           \A r \in Run : run'[r].status = run[r].status,
           NEW t \in Ticker, NEW new, new.pc # "assign", tick' = [tick EXCEPT ![t] = new]
    PROVE  Paired'
<1>1. RowsStay
  BY DEF RowsStay, Open
<1>2. \A u \in Ticker : At(u, "assign")' => tick'[u] = tick[u]
  BY DEF TypeOK, At
<1> QED
  BY <1>1, <1>2, QuietPair

LEMMA ExecsPair ==
    ASSUME TypeOK, PickedOne, Paired, NEW a \in DOMAIN exec, Sound(exec[a].run), ExecStep(a)
    PROVE  Paired'
<1>1. ASSUME NEW res \in Result, OnBuildCompleted(exec[a].run, res), UNCHANGED tick
      PROVE  Paired'
  BY <1>1, CompletedPair
<1>2. ASSUME NEW b \in BuildNo, ExecStarted(a, b)
      PROVE  Paired'
  <2>1. PICK q \in Run : q = exec[a].run
    BY DEF TypeOK, Execution
  <2>2. RowsStay
    BY <1>2, <2>1, StartedRows DEF TypeOK, ExecStarted
  <2>3. run[q].status = "IN_PROGRESS"
    BY <2>1 DEF Sound, ExecsOf
  <2>4. \A r \in Run \ {q} : run'[r] = run[r]
    BY <1>2, <2>1 DEF ExecStarted, OnBuildStarted, TypeOK, StoreTypeOK
  <2> QED
    BY <1>2, <2>2, <2>3, <2>4, QuietPair DEF ExecStarted, OnBuildStarted
<1>3. CASE UNCHANGED storeVars /\ UNCHANGED tick
  BY <1>3 DEF storeVars, Paired, Active, Open, At
<1>4. "FAILURE" \in Result
  BY DEF Result
<1> QED
  BY <1>1, <1>2, <1>3, <1>4
     DEF ExecStep, ExecTriggerFails, ExecFinished, ExecExhausted

LEMMA OthersPair ==
    ASSUME TypeOK, PickedOne, Paired,
           \/ \E r \in Run : Submit(r) \/ BackoffElapses(r)
           \/ OverdueStep
           \/ \E a \in DOMAIN exec : ExecDies(a)
    PROVE  Paired'
<1>1. UNCHANGED <<asg, tick>> /\ RowsStay
  BY DEF Submit, SchedulePipeline, BackoffElapses, OverdueStep, HeartbeatAges, StartAges,
         ExecDies, storeVars, RowsStay, Open
<1>2. ASSUME NEW r \in Run, run'[r].status = "IN_PROGRESS"
      PROVE  run[r].status = "IN_PROGRESS"
  <2>1. run[r] \in RunRow
    BY DEF TypeOK, StoreTypeOK
  <2>2. ASSUME NEW q \in Run, Submit(q) \/ BackoffElapses(q) \/ StartAges(q)
        PROVE  run[r].status = "IN_PROGRESS"
    BY <1>2, <2>1, <2>2 DEF Submit, SchedulePipeline, BackoffElapses, StartAges, TypeOK,
                            StoreTypeOK, RunRow
  <2> QED
    BY <1>2, <2>2 DEF OverdueStep, HeartbeatAges, ExecDies, storeVars
<1>3. ASSUME NEW w \in Worker
      PROVE  worker'[w].status = worker[w].status
  <2>1. worker[w] \in WorkerRow
    BY DEF TypeOK, StoreTypeOK
  <2> QED
    BY <2>1 DEF Submit, SchedulePipeline, BackoffElapses, OverdueStep, HeartbeatAges, StartAges,
                ExecDies, storeVars, TypeOK, StoreTypeOK, WorkerRow
<1> QED
  BY <1>1, <1>2, <1>3, QuietPair

LEMMA NextPair ==
    ASSUME SchedulerAssumption, OneTicker, TypeOK, PickedOne, ClaimInv, PairInv,
           [MortalNext]_vars
    PROVE  PairInv'
<1> SUFFICES ASSUME NoneRetried'
             PROVE  Paired'
  BY DEF PairInv
<1>1. NoneRetried
  BY AttemptsGrow DEF NoneRetried
<1>2. Paired /\ \A r \in Run : Sound(r)
  BY <1>1 DEF PairInv, ClaimInv, NoneRetried
<1>3. ASSUME NEW t \in Ticker, TickSelect(t) \/ TickScan(t) \/ TickDies(t) \/ TickRetry(t)
      PROVE  Paired'
  <2>1. PICK pc, todo, snap :
           /\ pc \in {"idle", "scan", "claim", "retry"}
           /\ tick' = [tick EXCEPT ![t] = TickAt(pc, todo, snap)]
    BY <1>3 DEF TickSelect, TickScan, TickDies, TickRetry, IdleTick
  <2>2. TickAt(pc, todo, snap).pc # "assign"
    BY <2>1 DEF TickAt
  <2>3. UNCHANGED <<worker, asg>>
    BY <1>3 DEF TickSelect, TickScan, TickDies, TickRetry, storeVars
  <2>4. ASSUME NEW r \in Run
        PROVE  run'[r].status = run[r].status
    <3>1. CASE ~TickRetry(t)
      BY <1>3, <3>1 DEF TickSelect, TickScan, TickDies, storeVars
    <3>2. CASE TickRetry(t)
      <4>1. run'[r].retries = 0
        BY DEF NoneRetried, FirstAttempt
      <4> QED
        BY <3>2, <4>1, RetriedRow
    <3> QED
      BY <3>1, <3>2
  <2> QED
    BY <1>2, <2>1, <2>2, <2>3, <2>4, PhasesPair
<1>4. ASSUME NEW t \in Ticker, TickStep(t)
      PROVE  Paired'
  BY <1>2, <1>3, <1>4, RecoverPair, TicksPair DEF TickStep
<1>5. ASSUME NEW a \in DOMAIN exec, ExecStep(a)
      PROVE  Paired'
  <2>1. exec[a].run \in Run
    BY DEF TypeOK, Execution
  <2> QED
    BY <1>2, <1>5, <2>1, ExecsPair
<1>6. CASE UNCHANGED vars
  BY <1>2, <1>6 DEF vars, Paired, Active, Open, At
<1> QED
  BY <1>2, <1>3, <1>4, <1>5, <1>6, OthersPair DEF MortalNext, QuietNext, DeathStep

LEMMA InitPair == ASSUME Init PROVE PairInv
<1>1. Active = {} /\ \A t \in Ticker : ~At(t, "assign")
  BY DEF Init, StoreInit, Active, Open, IdleTick, TickAt, At
<1> QED
  BY <1>1 DEF PairInv, Paired

-----------------------------------------------------------------------------
(* The lifecycle *)

(***************************************************************************)
(* What the only ticker read in its retry phase is still so when it        *)
(* writes: nothing else counts retries, and a first attempt that failed    *)
(* stays failed.                                                           *)
(***************************************************************************)
SnapInv ==
    \A t \in Ticker : \A f \in tick[t].snap :
        /\ f.retries = run[f.run].retries
        /\ f.retries = 0 => run[f.run].status = "FAILED"

(***************************************************************************)
(* A first attempt that failed is in nobody's hands.                       *)
(***************************************************************************)
LEMMA FailureStays ==
    ASSUME SchedulerAssumption, OneTicker, TypeOK, ClaimInv, [MortalNext]_vars,
           \A t \in Ticker : ~TickRetry(t),
           NEW r \in Run, FirstAttempt(r), run[r].status = "FAILED"
    PROVE  run'[r].status = "FAILED"
<1> USE DEF TypeOK, StoreTypeOK
<1>0. run[r] \in RunRow /\ Sound(r)
  BY DEF ClaimInv
<1>1. ExecsOf(r) = {} /\ HeldBy(r) = {}
  BY <1>0 DEF Sound
<1>2. ASSUME NEW t \in Ticker, TickStep(t)
      PROVE  run'[r].status = "FAILED"
  <2>1. CASE TickRecover(t)
    BY <2>1 DEF TickRecover, RecoverStaleWorkers, StaleRuns, OrphanRuns
  <2>2. CASE TickSelect(t) \/ TickScan(t)
    BY <2>2 DEF TickSelect, TickScan, storeVars
  <2>3. ASSUME NEW q \in Run, TickClaim(t, q) \/ TickSkip(t, q) \/ TickPick(t, q)
                                \/ TickAssign(t, q)
        PROVE  run'[r].status = "FAILED"
    BY <2>3 DEF TickClaim, TickSkip, TickPick, TickAssign, storeVars
  <2>4. ASSUME NEW q \in Run, TickRevert(t, q)
        PROVE  run'[r].status = "FAILED"
    <3>1. t \in HeldBy(q)
      BY <2>4 DEF TickRevert, At, HeldBy, Working
    <3> QED
      BY <1>1, <2>4, <3>1 DEF TickRevert
  <2> QED
    BY <1>2, <2>1, <2>2, <2>3, <2>4 DEF TickStep
<1>3. ASSUME NEW a \in DOMAIN exec, ExecStep(a)
      PROVE  run'[r].status = "FAILED"
  <2>1. exec[a].run # r
    BY <1>1 DEF ExecsOf
  <2> QED
    BY <1>3, <2>1 DEF ExecStep, ExecTriggerFails, ExecStarted, ExecFinished,
                      ExecExhausted, OnBuildStarted, OnBuildCompleted, storeVars
<1>4. ASSUME NEW q \in Run, Submit(q) \/ BackoffElapses(q) \/ StartAges(q)
      PROVE  run'[r].status = "FAILED"
  BY <1>0, <1>4 DEF Submit, SchedulePipeline, BackoffElapses, StartAges, RunRow
<1>5. CASE QuietNext
  BY <1>2, <1>3, <1>4, <1>5 DEF QuietNext
<1>6. CASE OverdueStep \/ DeathStep \/ UNCHANGED vars
  BY <1>4, <1>6 DEF OverdueStep, HeartbeatAges, DeathStep, ExecDies, TickDies, storeVars, vars
<1> QED
  BY <1>5, <1>6 DEF MortalNext

LEMMA NextSnap ==
    ASSUME SchedulerAssumption, OneTicker, TypeOK, ClaimInv, SnapInv, [MortalNext]_vars
    PROVE  SnapInv'
<1>1. ASSUME NEW t \in Ticker, TickRetry(t)
      PROVE  SnapInv'
  BY <1>1 DEF TickRetry, IdleTick, TickAt, TypeOK, OneTicker, SnapInv
<1>2. ASSUME NEW t \in Ticker, TickScan(t)
      PROVE  SnapInv'
  <2>1. tick'[t].snap = {FailureOf(r) : r \in {q \in Run : Retryable(q)}} /\ run' = run
    BY <1>2 DEF TickScan, TickAt, TypeOK, storeVars
  <2>2. \A f \in tick'[t].snap : /\ f.run \in Run /\ f.retries = run[f.run].retries
                                /\ run[f.run].status = "FAILED"
    BY <2>1 DEF FailureOf, Retryable
  <2> QED
    BY <2>1, <2>2 DEF SnapInv, OneTicker
<1>3. ASSUME \A t \in Ticker : ~TickRetry(t) /\ ~TickScan(t)
      PROVE  SnapInv'
  <2>1. ASSUME NEW t \in Ticker
        PROVE  tick'[t].snap \subseteq tick[t].snap
    <3>1. tick[t] \in TickState
      BY DEF TypeOK
    <3>2. ASSUME NEW u \in Ticker, TickStep(u)
          PROVE  tick'[t].snap \subseteq tick[t].snap
      <4>1. CASE TickRecover(u) \/ TickSelect(u)
        BY <3>1, <4>1 DEF TickRecover, TickSelect, TickAt, TypeOK, TickState
      <4>2. ASSUME NEW q \in Run, TickClaim(u, q) \/ TickPick(u, q)
            PROVE  tick'[t].snap \subseteq tick[t].snap
        <5>1. ASSUME NEW pc, tick' = [tick EXCEPT ![u].pc = pc]
              PROVE  tick'[t].snap \subseteq tick[t].snap
          BY <3>1, <5>1 DEF TypeOK, TickState
        <5>2. ASSUME NEW w, tick' = [tick EXCEPT ![u].pc = "assign", ![u].pick = w,
                                                 ![u].load = worker[w].load]
              PROVE  tick'[t].snap \subseteq tick[t].snap
          BY <3>1, <5>2 DEF TypeOK, TickState
        <5> QED
          BY <4>2, <5>1, <5>2 DEF TickClaim, TickPick
      <4>3. ASSUME NEW q \in Run, DoneWith(u, q)
            PROVE  tick'[t].snap \subseteq tick[t].snap
        <5>1. \A pc, todo : TickAt(pc, todo, {}).snap = {}
          BY DEF TickAt
        <5>2. PICK pc, todo : tick' = [tick EXCEPT ![u] = TickAt(pc, todo, {})]
          BY <4>3 DEF DoneWith
        <5>3. tick'[t] = tick[t] \/ tick'[t] = TickAt(pc, todo, {})
          BY <5>2 DEF TypeOK
        <5> QED
          BY <5>1, <5>3
      <4> QED
        BY <1>3, <3>2, <4>1, <4>2, <4>3 DEF TickStep, TickSkip, TickAssign, TickRevert
    <3>3. ASSUME NEW u \in Ticker, TickDies(u)
          PROVE  tick'[t].snap \subseteq tick[t].snap
      BY <3>1, <3>3 DEF TickDies, IdleTick, TickAt, TypeOK, TickState
    <3>4. CASE UNCHANGED tick
      BY <3>4
    <3>5. ASSUME NEW a \in DOMAIN exec, ExecStep(a)
          PROVE  UNCHANGED tick
      BY <3>5 DEF ExecStep, ExecTriggerFails, ExecStarted, ExecFinished, ExecExhausted
    <3> QED
      BY <3>2, <3>3, <3>4, <3>5 DEF MortalNext, QuietNext, Submit, BackoffElapses, OverdueStep,
           HeartbeatAges, StartAges, DeathStep, ExecDies, vars
  <2>2. ASSUME NEW t \in Ticker, NEW f \in tick[t].snap
        PROVE  /\ f.retries = run'[f.run].retries
               /\ f.retries = 0 => run'[f.run].status = "FAILED"
    <3>1. f.run \in Run
      BY DEF TypeOK, TickState, Failure
    <3> QED
      BY <1>3, <3>1, CountKept, FailureStays DEF SnapInv, FirstAttempt
  <2> QED
    BY <2>1, <2>2 DEF SnapInv
<1> QED
  BY <1>1, <1>2, <1>3

(***************************************************************************)
(* The refinement mapping, and how a step moves under it: a step that      *)
(* writes the status of one run and no count.                              *)
(***************************************************************************)
Statuses == [r \in Run |-> run[r].status]
Attempts == [r \in Run |-> run[r].retries]

OneMoved(q) ==
    /\ q \in Run
    /\ \A r \in Run \ {q} : run'[r].status = run[r].status
    /\ \A r \in Run : run'[r].retries = run[r].retries

LEMMA Moved ==
    ASSUME NEW q, OneMoved(q)
    PROVE  Statuses' = [Statuses EXCEPT ![q] = run'[q].status] /\ Attempts' = Attempts
BY DEF OneMoved, Statuses, Attempts

LEMMA Unmoved ==
    ASSUME NEW q, OneMoved(q), run'[q].status = run[q].status
    PROVE  UNCHANGED Lifecycle!vars
<1>1. Statuses' = Statuses /\ Attempts' = Attempts
  BY DEF OneMoved, Statuses, Attempts
<1> QED
  BY <1>1 DEF Lifecycle!vars, Statuses, Attempts

(***************************************************************************)
(* Whatever a step does to a run that was retried before is interference.  *)
(***************************************************************************)
LEMMA Interfered ==
    ASSUME TypeOK, NEW q, OneMoved(q), ~FirstAttempt(q),
           run'[q].status \in RunStatus \ {"ABSENT"}
    PROVE  Lifecycle!Next
<1>1. q \in Run /\ run[q].retries > 0
  BY DEF OneMoved, TypeOK, StoreTypeOK, RunRow, FirstAttempt
<1>2. Statuses' = [Statuses EXCEPT ![q] = run'[q].status] /\ Attempts' = Attempts
  BY Moved
<1>3. Lifecycle!Interfere(q)
  BY <1>1, <1>2 DEF Lifecycle!Interfere, Lifecycle!Retried, RunStatus, Statuses, Attempts
<1> QED
  BY <1>1, <1>3 DEF Lifecycle!Next

(***************************************************************************)
(* Submission, claim and the end of an execution.                          *)
(***************************************************************************)
LEMMA Advanced ==
    ASSUME TypeOK, NEW q, OneMoved(q),
           \/ run[q].status = "ABSENT" /\ run'[q].status = "QUEUED"
           \/ run[q].status = "QUEUED" /\ run'[q].status = "IN_PROGRESS"
           \/ run[q].status = "IN_PROGRESS" /\ run'[q].status \in TerminalStatus
    PROVE  Lifecycle!Next
<1>1. q \in Run /\ Statuses[q] = run[q].status
  BY DEF OneMoved, Statuses
<1>2. Statuses' = [Statuses EXCEPT ![q] = run'[q].status] /\ Attempts' = Attempts
  BY Moved
<1>3. Lifecycle!Submit(q) \/ Lifecycle!Start(q) \/ Lifecycle!Finish(q)
  BY <1>1, <1>2 DEF Lifecycle!Submit, Lifecycle!Start, Lifecycle!Finish, Lifecycle!Move,
                    TerminalStatus, Statuses, Attempts
<1> QED
  BY <1>1, <1>3 DEF Lifecycle!Next

(***************************************************************************)
(* Runs taken back from whoever was lost, in one transaction.              *)
(***************************************************************************)
LEMMA TakenBack ==
    ASSUME TypeOK, NEW lost \in SUBSET Run, \A r \in lost : run[r].status = "IN_PROGRESS",
           \A r \in Run : /\ run'[r].status = IF r \in lost THEN "QUEUED" ELSE run[r].status
                          /\ run'[r].retries = run[r].retries
    PROVE  Lifecycle!Next
<1>1. /\ Statuses' = [r \in Run |-> IF r \in lost \cup {} THEN "QUEUED" ELSE Statuses[r]]
      /\ Attempts' = [r \in Run |-> IF r \in {} THEN Attempts[r] + 1 ELSE Attempts[r]]
  BY DEF Statuses, Attempts
<1>2. Lifecycle!Requeue(lost, {})
  BY <1>1 DEF Lifecycle!Requeue, Statuses, Attempts
<1> QED
  BY <1>2 DEF Lifecycle!Next

(***************************************************************************)
(* The retry phase: what it counts was failed, or retried before.          *)
(***************************************************************************)
LEMMA RetriesMap ==
    ASSUME IInv, SnapInv, NEW t \in Ticker, TickRetry(t)
    PROVE  Lifecycle!Next
<1>0. TypeOK
  BY DEF IInv
<1> PICK failed \in SUBSET Run : failed = {r \in Run : run'[r].retries # run[r].retries}
  OBVIOUS
<1>1. ASSUME NEW r \in Run
      PROVE  /\ run[r].retries \in Nat
             /\ run'[r].retries = run[r].retries => run'[r].status = run[r].status
             /\ run'[r].retries # run[r].retries =>
                  /\ run'[r].status = "QUEUED" /\ run'[r].retries = run[r].retries + 1
                  /\ run[r].retries < MaxRetries
                  /\ run[r].status = "FAILED" \/ run[r].retries > 0
  <2>1. run[r].retries \in Nat
    BY <1>0 DEF TypeOK, StoreTypeOK, RunRow
  <2>2. CASE run'[r].retries = run[r].retries /\ run'[r].status = run[r].status
    BY <2>1, <2>2
  <2>3. ASSUME NEW f \in tick[t].snap, f.run = r, run'[r].status = "QUEUED",
               f.retries \in Nat, run'[r].retries = f.retries + 1
        PROVE  /\ run'[r].status = "QUEUED" /\ run'[r].retries = run[r].retries + 1
               /\ run[r].retries < MaxRetries
               /\ run[r].status = "FAILED" \/ run[r].retries > 0
    BY <2>1, <2>3 DEF SnapInv, IInv, Spare
  <2> QED
    BY <1>0, <2>1, <2>2, <2>3, RetriedRow
<1>2. /\ Statuses' = [r \in Run |-> IF r \in {} \cup failed THEN "QUEUED" ELSE Statuses[r]]
      /\ Attempts' = [r \in Run |-> IF r \in failed THEN Attempts[r] + 1 ELSE Attempts[r]]
  BY <1>1 DEF Statuses, Attempts
<1>3. \A r \in failed : /\ Attempts[r] < MaxRetries
                        /\ Statuses[r] = "FAILED" \/ Attempts[r] > 0
  BY <1>1 DEF Statuses, Attempts
<1>4. Lifecycle!Requeue({}, failed)
  BY <1>2, <1>3 DEF Lifecycle!Requeue, Lifecycle!Retried, Statuses, Attempts
<1> QED
  BY <1>4 DEF Lifecycle!Next

LEMMA TickMap ==
    ASSUME SchedulerAssumption, IInv, ClaimInv, SnapInv, NEW t \in Ticker, TickStep(t)
    PROVE  Lifecycle!Next \/ UNCHANGED Lifecycle!vars
<1>0. TypeOK /\ StoreTypeOK
  BY DEF IInv, TypeOK
<1>1. CASE TickRecover(t)
  <2>1. \A r \in StaleRuns \cup OrphanRuns : r \in Run /\ run[r].status = "IN_PROGRESS"
    BY DEF StaleRuns, OrphanRuns
  <2>2. ASSUME NEW r \in Run
        PROVE  /\ run'[r].status = IF r \in StaleRuns \cup OrphanRuns THEN "QUEUED"
                                  ELSE run[r].status
               /\ run'[r].retries = run[r].retries
    <3>1. run[r] \in RunRow
      BY <1>0 DEF StoreTypeOK
    <3> QED
      BY <1>1, <3>1 DEF TickRecover, RecoverStaleWorkers, RunRow
  <2>3. PICK lost \in SUBSET Run : lost = StaleRuns \cup OrphanRuns
    BY <2>1
  <2> QED
    BY <1>0, <2>1, <2>2, <2>3, TakenBack
<1>2. CASE UNCHANGED run
  BY <1>2 DEF Lifecycle!vars
<1>3. ASSUME NEW q \in Run, TickClaim(t, q)
      PROVE  Lifecycle!Next
  <2>1. run[q] \in RunRow
    BY <1>0 DEF StoreTypeOK
  <2>2. OneMoved(q) /\ run[q].status = "QUEUED" /\ run'[q].status = "IN_PROGRESS"
    BY <1>0, <1>3, <2>1 DEF TickClaim, OneMoved, StoreTypeOK, RunRow
  <2> QED
    BY <1>0, <2>2, Advanced
<1>4. ASSUME NEW q \in Run, TickRevert(t, q)
      PROVE  Lifecycle!Next
  <2>1. run[q] \in RunRow
    BY <1>0 DEF StoreTypeOK
  <2>2. OneMoved(q) /\ run'[q].status = "QUEUED"
    BY <1>0, <1>4, <2>1 DEF TickRevert, OneMoved, StoreTypeOK, RunRow
  <2>3. CASE ~FirstAttempt(q)
    BY <1>0, <2>2, <2>3, Interfered DEF RunStatus
  <2>4. CASE FirstAttempt(q)
    <3>1. t \in HeldBy(q)
      BY <1>4 DEF TickRevert, At, HeldBy, Working
    <3>2. run[q].status = "IN_PROGRESS"
      BY <2>4, <3>1 DEF ClaimInv, Sound
    <3>3. \A r \in Run : /\ run'[r].status = IF r \in {q} THEN "QUEUED" ELSE run[r].status
                         /\ run'[r].retries = run[r].retries
      BY <2>2 DEF OneMoved
    <3> QED
      BY <1>0, <3>2, <3>3, TakenBack
  <2> QED
    BY <2>3, <2>4
<1>5. CASE TickRetry(t)
  BY <1>5, RetriesMap
<1> QED
  BY <1>1, <1>2, <1>3, <1>4, <1>5
     DEF TickStep, TickSelect, TickScan, TickSkip, TickPick, TickAssign, storeVars

LEMMA ExecMap ==
    ASSUME TypeOK, ClaimInv, NEW a \in DOMAIN exec, ExecStep(a)
    PROVE  Lifecycle!Next \/ UNCHANGED Lifecycle!vars
<1>0. PICK q \in Run : q = exec[a].run
  BY DEF TypeOK, Execution
<1>1. run[q] \in RunRow /\ StoreTypeOK
  BY DEF TypeOK, StoreTypeOK
<1>2. FirstAttempt(q) => run[q].status = "IN_PROGRESS"
  <2>1. a \in ExecsOf(q)
    BY <1>0 DEF ExecsOf
  <2> QED
    BY <2>1 DEF ClaimInv, Sound
<1>3. ASSUME NEW res, OnBuildCompleted(q, res)
      PROVE  Lifecycle!Next
  <2>1. OneMoved(q) /\ run'[q].status \in TerminalStatus
    <3>1. StatusFor(res) \in TerminalStatus
      BY DEF StatusFor, TerminalStatus
    <3> QED
      BY <1>1, <1>3, <3>1 DEF OnBuildCompleted, OneMoved, StoreTypeOK, RunRow
  <2> QED
    BY <1>2, <2>1, Advanced, Interfered DEF TerminalStatus, RunStatus
<1>4. ASSUME NEW b, OnBuildStarted(q, b)
      PROVE  Lifecycle!Next \/ UNCHANGED Lifecycle!vars
  <2>1. OneMoved(q) /\ run'[q].status = "IN_PROGRESS"
    BY <1>1, <1>4 DEF OnBuildStarted, OneMoved, StoreTypeOK, RunRow
  <2> QED
    BY <1>2, <2>1, Unmoved, Interfered DEF RunStatus
<1>5. CASE UNCHANGED storeVars
  BY <1>5 DEF storeVars, Lifecycle!vars
<1> QED
  BY <1>0, <1>3, <1>4, <1>5
     DEF ExecStep, ExecTriggerFails, ExecStarted, ExecFinished, ExecExhausted

LEMMA NextMap ==
    ASSUME SchedulerAssumption, IInv, ClaimInv, SnapInv, [MortalNext]_vars
    PROVE  Lifecycle!Next \/ UNCHANGED Lifecycle!vars
<1>0. TypeOK /\ StoreTypeOK
  BY DEF IInv, TypeOK
<1>1. ASSUME NEW q \in Run, Submit(q)
      PROVE  Lifecycle!Next
  <2>1. run[q] \in RunRow
    BY <1>0 DEF StoreTypeOK
  <2>2. OneMoved(q) /\ run[q].status = "ABSENT" /\ run'[q].status = "QUEUED"
    BY <1>0, <1>1, <2>1 DEF Submit, SchedulePipeline, OneMoved, StoreTypeOK, RunRow
  <2> QED
    BY <1>0, <2>2, Advanced
<1>2. ASSUME NEW q \in Run, BackoffElapses(q) \/ StartAges(q)
      PROVE  UNCHANGED Lifecycle!vars
  <2>1. run[q] \in RunRow
    BY <1>0 DEF StoreTypeOK
  <2>2. OneMoved(q) /\ run'[q].status = run[q].status
    BY <1>0, <1>2, <2>1 DEF BackoffElapses, StartAges, OneMoved, StoreTypeOK, RunRow
  <2> QED
    BY <2>2, Unmoved
<1>3. CASE UNCHANGED run
  BY <1>3 DEF Lifecycle!vars
<1> QED
  BY <1>0, <1>1, <1>2, <1>3, TickMap, ExecMap
     DEF MortalNext, QuietNext, OverdueStep, HeartbeatAges, DeathStep, ExecDies, TickDies,
         storeVars, vars

LEMMA InitMap == ASSUME Init PROVE Lifecycle!Init /\ SnapInv
BY DEF Init, StoreInit, NewRun, IdleTick, TickAt, SnapInv, Lifecycle!Init

-----------------------------------------------------------------------------
(* Theorems *)

(***************************************************************************)
(* Through any number of losses and retries the claim keeps what ClaimInv  *)
(* says of every first attempt.                                            *)
(***************************************************************************)
THEOREM ClaimInvariance == MortalSpec => [](IInv /\ ClaimInv)
<1>1. Init => IInv /\ ClaimInv
  BY StoreAssumption, SchedulerAssumption, InitIInv, InitClaimInv
<1>2. IInv /\ ClaimInv /\ [MortalNext]_vars => (IInv /\ ClaimInv)'
  <2>1. [MortalNext]_vars => [Next]_vars
    BY DEF Next
  <2> QED
    BY <2>1, StoreAssumption, SchedulerAssumption, NextIInv, NextClaim DEF IInv
<1> QED
  BY <1>1, <1>2, PTL DEF MortalSpec

(***************************************************************************)
(* The first attempt at a run never runs twice at a time, for any number   *)
(* of processes that tick and any number that die (the guarded UPDATE of   *)
(* the claim, and the recovery).                                           *)
(***************************************************************************)
THEOREM ClaimIsExclusive == MortalSpec => []AtMostOneExecution
<1>1. ClaimInv => AtMostOneExecution
  BY DEF ClaimInv, Sound, ExecsOf, HeldBy, AtMostOneExecution, Executing
<1> QED
  BY <1>1, ClaimInvariance, PTL

(***************************************************************************)
(* With one process that ticks, what it finds by two separate reads stays  *)
(* so until it writes.                                                     *)
(***************************************************************************)
THEOREM PairInvariance ==
    ASSUME OneTicker
    PROVE  MortalSpec => [](PairInv /\ SnapInv)
<1>1. Init => PairInv /\ SnapInv
  BY InitPair, InitMap
<1>2. IInv /\ ClaimInv /\ PairInv /\ SnapInv /\ [MortalNext]_vars => (PairInv /\ SnapInv)'
  BY SchedulerAssumption, NextPair, NextSnap DEF IInv
<1> QED
  BY <1>1, <1>2, ClaimInvariance, PTL DEF MortalSpec

(***************************************************************************)
(* As long as nothing is retried, no two executions share a worker, for    *)
(* any number of runs, workers and losses: with one process that ticks,    *)
(* assign_worker never takes a worker that is at work.                     *)
(***************************************************************************)
THEOREM WorkersAreNotShared ==
    ASSUME OneTicker
    PROVE  MortalSpec => []OneRunPerWorker
<1>1. IInv /\ ClaimInv /\ PairInv => OneRunPerWorker
  <2> SUFFICES ASSUME IInv, ClaimInv, PairInv, NoneRetried,
                      NEW a \in DOMAIN exec \cap Open, NEW b \in DOMAIN exec \cap Open,
                      asg[a].worker = asg[b].worker
               PROVE  a = b
    BY DEF OneRunPerWorker
  <2>1. ASSUME NEW c \in DOMAIN exec \cap Open
        PROVE  c \in Active
    <3>1. exec[c].run \in Run /\ asg[c].run = exec[c].run
      BY DEF IInv, TypeOK, Execution, ClaimInv, RowsKnown
    <3>2. run[exec[c].run].status = "IN_PROGRESS"
      BY <3>1 DEF NoneRetried, ClaimInv, Sound, ExecsOf
    <3> QED
      BY <3>1, <3>2 DEF Active
  <2> QED
    BY <2>1 DEF PairInv, Paired
<1> QED
  BY <1>1, ClaimInvariance, PairInvariance, PTL

(***************************************************************************)
(* The refinement: under one ticker, through any number of losses, the     *)
(* rows move as RunLifecycle allows.                                       *)
(***************************************************************************)
THEOREM LifecycleIsImplemented ==
    ASSUME OneTicker
    PROVE  MortalSpec => ImplementsLifecycle
<1>1. Init => Lifecycle!Init
  BY InitMap
<1>2. IInv /\ ClaimInv /\ SnapInv /\ [MortalNext]_vars => [Lifecycle!Next]_(Lifecycle!vars)
  BY SchedulerAssumption, NextMap
<1> QED
  BY <1>1, <1>2, ClaimInvariance, PairInvariance, PTL
     DEF MortalSpec, ImplementsLifecycle, Lifecycle!Spec

-----------------------------------------------------------------------------
(* Nobody is stranded *)

(***************************************************************************)
(* A run that Jenkins has acknowledged is in somebody's hands, or an       *)
(* assignment of it is open: phase 2 of the recovery does not look for it, *)
(* so phase 1 has to find it through its worker.                           *)
(***************************************************************************)
Traced(r) ==
    run[r].status = "IN_PROGRESS" /\ run[r].build # NoBuild
        => ExecsOf(r) \cup HeldBy(r) \cup OpenOf(r) # {}

TraceInv == \A r \in Run : FirstAttempt(r) => Traced(r)

LEMMA StaysTraced ==
    ASSUME NEW r \in Run, Traced(r),
           run'[r].status = "IN_PROGRESS" =>
              run[r].status = "IN_PROGRESS" /\ run'[r].build = run[r].build,
           run'[r].status = "IN_PROGRESS" =>
              /\ ExecsOf(r) \subseteq ExecsOf(r)' /\ HeldBy(r) \subseteq HeldBy(r)'
              /\ OpenOf(r) \subseteq OpenOf(r)'
    PROVE  Traced(r)'
BY DEF Traced

(***************************************************************************)
(* The recovery closes assignments only of runs that it takes back.        *)
(***************************************************************************)
LEMMA RecoverTrace ==
    ASSUME TypeOK, NEW t \in Ticker, TickRecover(t), NEW r \in Run, Traced(r)
    PROVE  Traced(r)'
<1>1. StoreTypeOK /\ RecoverStaleWorkers /\ UNCHANGED exec /\ run[r] \in RunRow
  BY DEF TypeOK, StoreTypeOK, TickRecover
<1>2. RowsStay /\ Open' = Open \ (StaleAsgs \cup OrphanAsgs)
  BY <1>1, RecoveredRows
<1>3. ASSUME run'[r].status = "IN_PROGRESS"
      PROVE  run[r].status = "IN_PROGRESS" /\ run'[r] = run[r]
             /\ r \notin StaleRuns \cup OrphanRuns
  BY <1>1, <1>3 DEF RecoverStaleWorkers, RunRow
<1>4. ASSUME run'[r].status = "IN_PROGRESS"
      PROVE  OpenOf(r) \subseteq OpenOf(r)'
  <2>1. ASSUME NEW a \in OpenOf(r)
        PROVE  a \notin StaleAsgs \cup OrphanAsgs
    BY <1>3, <1>4 DEF OpenOf, StaleRuns, OrphanAsgs
  <2> QED
    BY <1>2, <2>1 DEF OpenOf, RowsStay, Open
<1>5. HeldBy(r) \subseteq HeldBy(r)' /\ ExecsOf(r)' = ExecsOf(r)
  BY <1>1 DEF TickRecover, TypeOK, At, HeldBy, Working, Current, ExecsOf
<1> QED
  BY <1>3, <1>4, <1>5, StaysTraced

(***************************************************************************)
(* A tick lets go of a run by putting it into an execution or back into    *)
(* the queue.                                                              *)
(***************************************************************************)
LEMMA TicksTrace ==
    ASSUME SchedulerAssumption, TypeOK, RowsKnown, NEW t \in Ticker, NEW q \in Run,
           \/ TickClaim(t, q) \/ TickSkip(t, q) \/ TickPick(t, q)
           \/ TickAssign(t, q) \/ TickRevert(t, q),
           NEW r \in Run, Traced(r)
    PROVE  Traced(r)'
<1>0. tick[t] \in TickState /\ run[q] \in RunRow /\ StoreTypeOK
  BY DEF TypeOK, StoreTypeOK
<1>1. Current(t, q) /\ (Current(t, r) => r = q)
  BY OneCurrent DEF TickClaim, TickSkip, TickPick, TickAssign, TickRevert
<1>2. CASE TickClaim(t, q)
  <2>1. HeldBy(r) \subseteq HeldBy(r)' /\ t \in HeldBy(q)'
    BY <1>0, <1>1, <1>2 DEF TickClaim, At, HeldBy, Working, Current, TypeOK, TickState
  <2>2. UNCHANGED <<asg, exec>> /\ \A p \in Run \ {q} : run'[p] = run[p]
    BY <1>0, <1>2 DEF TickClaim, StoreTypeOK
  <2>3. ExecsOf(r)' = ExecsOf(r) /\ OpenOf(r)' = OpenOf(r)
    BY <2>2 DEF ExecsOf, OpenOf, Open
  <2>4. CASE r = q
    BY <2>1, <2>4 DEF Traced
  <2>5. CASE r # q
    BY <2>1, <2>2, <2>3, <2>5, StaysTraced
  <2> QED
    BY <2>4, <2>5
<1>3. CASE TickSkip(t, q)
  <2>1. t \notin HeldBy(r) /\ UNCHANGED <<run, asg, exec>>
    BY <1>3 DEF TickSkip, At, HeldBy, Working, storeVars
  <2>2. HeldBy(r)' = HeldBy(r) \ {t}
    BY <1>3, DoneHandsOff DEF TickSkip
  <2>3. ExecsOf(r)' = ExecsOf(r) /\ OpenOf(r)' = OpenOf(r)
    BY <2>1 DEF ExecsOf, OpenOf, Open
  <2> QED
    BY <2>1, <2>2, <2>3, StaysTraced
<1>4. CASE TickPick(t, q)
  <2>1. UNCHANGED <<run, asg, exec>>
    BY <1>4 DEF TickPick, storeVars
  <2>2. \A u \in Ticker : tick'[u].todo = tick[u].todo
          /\ (tick[u].pc \in {"pick", "assign", "revert"}
                => tick'[u].pc \in {"pick", "assign", "revert"})
    <3>1. CASE tick' = [tick EXCEPT ![t].pc = "revert"]
      BY <1>0, <3>1 DEF TypeOK, TickState
    <3>2. ASSUME NEW w \in BestWorkers(q),
                 tick' = [tick EXCEPT ![t].pc = "assign", ![t].pick = w,
                                      ![t].load = worker[w].load]
          PROVE  \A u \in Ticker : tick'[u].todo = tick[u].todo
                   /\ (tick[u].pc \in {"pick", "assign", "revert"}
                         => tick'[u].pc \in {"pick", "assign", "revert"})
      BY <1>0, <3>2 DEF TypeOK, TickState
    <3> QED
      BY <1>4, <3>1, <3>2 DEF TickPick
  <2>3. HeldBy(r) \subseteq HeldBy(r)'
    BY <2>2 DEF HeldBy, Working, Current
  <2>4. ExecsOf(r)' = ExecsOf(r) /\ OpenOf(r)' = OpenOf(r)
    BY <2>1 DEF ExecsOf, OpenOf, Open
  <2> QED
    BY <2>1, <2>3, <2>4, StaysTraced
<1>5. CASE TickAssign(t, q)
  <2>1. PICK a \in AsgId :
          exec' = [e \in DOMAIN exec \cup {a} |->
                     IF e = a
                     THEN [run |-> q, pc |-> "trigger", build |-> NoBuild,
                           threaded |-> t \in Threaded]
                     ELSE exec[e]]
          /\ AssignWorker(q, tick[t].pick, tick[t].load, a)
    BY <1>5 DEF TickAssign
  <2>2. a \in DOMAIN exec' /\ exec'[a].run = q
    BY <2>1
  <2>3. CASE r = q
    BY <2>2, <2>3 DEF Traced, ExecsOf
  <2>4. CASE r # q
    <3>1. run' = run /\ HeldBy(r)' = HeldBy(r)
      BY <1>1, <1>5, <2>4, DoneHandsOff DEF TickAssign, HeldBy, Working
    <3>2. a \notin DOMAIN asg /\ \A b \in DOMAIN asg : b \in DOMAIN asg' /\ asg'[b] = asg[b]
      BY <2>1 DEF AssignWorker, IsNextId
    <3>3. OpenOf(r) \subseteq OpenOf(r)'
      BY <3>2 DEF OpenOf, Open
    <3>4. ExecsOf(r) \subseteq ExecsOf(r)'
      BY <2>1, <3>2 DEF RowsKnown, ExecsOf
    <3> QED
      BY <3>1, <3>2, <3>3, <3>4, StaysTraced
  <2> QED
    BY <2>3, <2>4
<1>6. CASE TickRevert(t, q)
  <2>1. run'[q].status = "QUEUED" /\ \A p \in Run \ {q} : run'[p] = run[p]
    BY <1>0, <1>6 DEF TickRevert, StoreTypeOK, RunRow
  <2>2. UNCHANGED <<asg, exec>> /\ DoneWith(t, q)
    BY <1>6 DEF TickRevert
  <2>3. ExecsOf(r)' = ExecsOf(r) /\ OpenOf(r)' = OpenOf(r)
    BY <2>2 DEF ExecsOf, OpenOf, Open
  <2>4. r # q => HeldBy(r) \subseteq HeldBy(r)'
    BY <1>1, <2>2, DoneHandsOff DEF HeldBy, Working
  <2> QED
    BY <2>1, <2>3, <2>4, StaysTraced
<1> QED
  BY <1>2, <1>3, <1>4, <1>5, <1>6

(***************************************************************************)
(* An execution that ends takes its run out of IN_PROGRESS; it closes no   *)
(* assignment of another run.                                              *)
(***************************************************************************)
LEMMA ExecsTrace ==
    ASSUME TypeOK, NEW a \in DOMAIN exec, ExecStep(a), NEW r \in Run, Traced(r)
    PROVE  Traced(r)'
<1>0. PICK q \in Run : q = exec[a].run
  BY DEF TypeOK, Execution
<1>1. StoreTypeOK /\ run[q] \in RunRow /\ HeldBy(r)' = HeldBy(r)
  BY DEF TypeOK, StoreTypeOK, ExecStep, ExecTriggerFails, ExecStarted, ExecFinished, ExecExhausted,
         HeldBy, Working, Current
<1>2. EndExec(a) /\ r # q => ExecsOf(r) \subseteq ExecsOf(r)'
  BY <1>0 DEF EndExec, ExecsOf
<1>3. ASSUME NEW res \in Result, OnBuildCompleted(q, res), EndExec(a)
      PROVE  Traced(r)'
  <2>1. run'[q].status # "IN_PROGRESS" /\ \A p \in Run \ {q} : run'[p] = run[p]
    BY <1>1, <1>3 DEF OnBuildCompleted, StatusFor, StoreTypeOK, RunRow
  <2>2. RowsStay /\ \A b \in Open \ Open' : asg[b].run = q
    BY <1>1, <1>3, CompletedRows
  <2>3. r # q => OpenOf(r)' = OpenOf(r)
    BY <2>2, OpenElsewhere
  <2> QED
    BY <1>1, <1>2, <1>3, <2>1, <2>3, StaysTraced
<1>4. ASSUME NEW b \in BuildNo, ExecStarted(a, b)
      PROVE  Traced(r)'
  <2>1. OnBuildStarted(q, b) /\ exec' = [exec EXCEPT ![a].pc = "poll", ![a].build = b]
    BY <1>0, <1>4 DEF ExecStarted
  <2>2. Open' = Open /\ RowsStay
    BY <1>1, <2>1, StartedRows
  <2>3. OpenOf(r)' = OpenOf(r)
    BY <2>2 DEF OpenOf, RowsStay, Open
  <2>4. ExecsOf(r)' = ExecsOf(r) /\ a \in ExecsOf(q)
    BY <1>0, <2>1 DEF ExecsOf, TypeOK, Execution
  <2>5. \A p \in Run \ {q} : run'[p] = run[p]
    BY <1>1, <2>1 DEF OnBuildStarted, StoreTypeOK
  <2>6. CASE r = q
    BY <2>4, <2>6 DEF Traced
  <2>7. CASE r # q
    BY <1>1, <2>3, <2>4, <2>5, <2>7, StaysTraced
  <2> QED
    BY <2>6, <2>7
<1>5. ASSUME UNCHANGED storeVars, EndExec(a), run[q].status # "IN_PROGRESS"
      PROVE  Traced(r)'
  <2>1. UNCHANGED <<run, asg>> /\ OpenOf(r)' = OpenOf(r)
    BY <1>5 DEF storeVars, OpenOf, Open
  <2> QED
    BY <1>1, <1>2, <1>5, <2>1, StaysTraced
<1>6. "FAILURE" \in Result
  BY DEF Result
<1> QED
  BY <1>0, <1>3, <1>4, <1>5, <1>6
     DEF ExecStep, ExecTriggerFails, ExecFinished, ExecExhausted

(***************************************************************************)
(* When an execution is lost its assignment stays open.  A tick that is    *)
(* lost has no acknowledged run in hand: that is what RecoverableDeath     *)
(* leaves out.                                                             *)
(***************************************************************************)
LEMMA DeathTrace ==
    ASSUME TypeOK, RecoverableDeath, NEW r \in Run, Sound(r), Traced(r)
    PROVE  Traced(r)'
<1>1. ASSUME NEW a \in DOMAIN exec, ExecDies(a)
      PROVE  Traced(r)'
  <2>1. UNCHANGED <<run, asg, tick>> /\ EndExec(a)
    BY <1>1 DEF ExecDies, storeVars
  <2>2. OpenOf(r)' = OpenOf(r) /\ HeldBy(r)' = HeldBy(r)
    BY <2>1 DEF OpenOf, Open, HeldBy, Working, Current
  <2>3. CASE a \in ExecsOf(r)
    BY <2>2, <2>3 DEF Sound, Traced
  <2>4. CASE a \notin ExecsOf(r)
    <3>1. ExecsOf(r) \subseteq ExecsOf(r)'
      BY <2>1, <2>4 DEF EndExec, ExecsOf
    <3> QED
      BY <2>1, <2>2, <3>1, StaysTraced
  <2> QED
    BY <2>3, <2>4
<1>2. ASSUME NEW t \in Ticker, TickDies(t)
      PROVE  Traced(r)'
  <2>1. UNCHANGED <<run, asg, exec>> /\ tick' = [tick EXCEPT ![t] = IdleTick]
    BY <1>2 DEF TickDies, storeVars
  <2>2. ExecsOf(r)' = ExecsOf(r) /\ OpenOf(r)' = OpenOf(r)
    BY <2>1 DEF ExecsOf, OpenOf, Open
  <2>3. CASE run[r].build = NoBuild
    BY <2>1, <2>3 DEF Traced
  <2>4. CASE run[r].build # NoBuild
    <3>1. \A u \in HeldBy(r) : tick'[u] = tick[u]
      BY <2>4 DEF RecoverableDeath, HeldBy
    <3>2. HeldBy(r) \subseteq HeldBy(r)'
      BY <3>1 DEF HeldBy, Working, Current
    <3> QED
      BY <2>1, <2>2, <3>2, StaysTraced
  <2> QED
    BY <2>3, <2>4
<1> QED
  BY <1>1, <1>2 DEF RecoverableDeath, DeathStep

(***************************************************************************)
(* Everything else takes no run out of anybody's hands.                    *)
(***************************************************************************)
LEMMA OthersTrace ==
    ASSUME TypeOK, NEW r \in Run, Traced(r), FirstAttempt(r)',
           \/ \E q \in Run : Submit(q) \/ BackoffElapses(q)
           \/ \E t \in Ticker : TickSelect(t) \/ TickScan(t) \/ TickRetry(t)
           \/ OverdueStep
           \/ UNCHANGED vars
    PROVE  Traced(r)'
<1>0. run[r] \in RunRow
  BY DEF TypeOK, StoreTypeOK
<1>1. UNCHANGED <<asg, exec>>
  BY DEF Submit, SchedulePipeline, BackoffElapses, TickSelect, TickScan, TickRetry, OverdueStep,
         HeartbeatAges, StartAges, storeVars, vars
<1>2. ExecsOf(r)' = ExecsOf(r) /\ OpenOf(r)' = OpenOf(r)
  BY <1>1 DEF ExecsOf, OpenOf, Open
<1>3. ASSUME NEW t \in Ticker, TickSelect(t) \/ TickScan(t) \/ TickRetry(t)
      PROVE  HeldBy(r) \subseteq HeldBy(r)'
  BY <1>3 DEF TickSelect, TickScan, TickRetry, At, HeldBy, Working, Current, TypeOK
<1>4. ASSUME UNCHANGED tick
      PROVE  HeldBy(r) = HeldBy(r)'
  BY <1>4 DEF HeldBy, Working, Current
<1>5. HeldBy(r) \subseteq HeldBy(r)'
  BY <1>3, <1>4 DEF Submit, SchedulePipeline, BackoffElapses, OverdueStep, HeartbeatAges,
                    StartAges, vars
<1>6. ASSUME NEW t \in Ticker, TickRetry(t), run'[r].status = "IN_PROGRESS"
      PROVE  run[r].status = "IN_PROGRESS" /\ run'[r].build = run[r].build
  <2>1. CASE run'[r] = run[r]
    BY <1>6, <2>1
  <2>2. ASSUME NEW f \in tick[t].snap, f.run = r, run'[r] = Rewritten(f)
        PROVE  run[r].status = "IN_PROGRESS" /\ run'[r].build = run[r].build
    <3>1. f \in Failure
      BY DEF TypeOK, TickState
    <3> QED
      BY <1>0, <1>6, <2>2, <3>1 DEF Rewritten, Requeued, Failure, RunRow
  <2> QED
    BY <1>6, <2>1, <2>2 DEF TickRetry
<1>7. ASSUME run'[r].status = "IN_PROGRESS"
      PROVE  run[r].status = "IN_PROGRESS" /\ run'[r].build = run[r].build
  <2>1. ASSUME NEW q \in Run, Submit(q) \/ BackoffElapses(q) \/ StartAges(q)
        PROVE  run[r].status = "IN_PROGRESS" /\ run'[r].build = run[r].build
    BY <1>0, <1>7, <2>1 DEF Submit, SchedulePipeline, BackoffElapses, StartAges, TypeOK,
                            StoreTypeOK, RunRow
  <2> QED
    BY <1>6, <1>7, <2>1 DEF TickSelect, TickScan, OverdueStep, HeartbeatAges, storeVars, vars
<1> QED
  BY <1>2, <1>5, <1>7, StaysTraced

LEMMA NextTrace ==
    ASSUME SchedulerAssumption, TypeOK, ClaimInv, TraceInv, [RecoverableNext]_vars
    PROVE  TraceInv'
<1> SUFFICES ASSUME NEW r \in Run, FirstAttempt(r)'
             PROVE  Traced(r)'
  BY DEF TraceInv
<1>1. [MortalNext]_vars
  BY DEF RecoverableNext, RecoverableDeath, MortalNext
<1>2. FirstAttempt(r)
  BY <1>1, AttemptsGrow
<1>3. Sound(r) /\ Traced(r) /\ RowsKnown
  BY <1>2 DEF ClaimInv, TraceInv
<1>4. ASSUME NEW t \in Ticker, TickStep(t)
      PROVE  Traced(r)'
  BY <1>3, <1>4, RecoverTrace, TicksTrace, OthersTrace DEF TickStep
<1>5. ASSUME NEW a \in DOMAIN exec, ExecStep(a)
      PROVE  Traced(r)'
  BY <1>3, <1>5, ExecsTrace
<1>6. ASSUME NEW q \in Run, Submit(q) \/ BackoffElapses(q)
      PROVE  Traced(r)'
  BY <1>3, <1>6, OthersTrace
<1>7. CASE OverdueStep \/ UNCHANGED vars
  BY <1>3, <1>7, OthersTrace
<1>8. CASE RecoverableDeath
  BY <1>3, <1>8, DeathTrace
<1> QED
  BY <1>4, <1>5, <1>6, <1>7, <1>8 DEF RecoverableNext, QuietNext

(***************************************************************************)
(* The safety half of RunSettles.  Whatever recoverable losses there are,  *)
(* as long as nothing was retried a run that is IN_PROGRESS is on its way: *)
(* a tick or an execution has it in hand, or its worker is BUSY with an    *)
(* open assignment, which phase 1 of the recovery takes back once the      *)
(* heartbeat has expired, or Jenkins never acknowledged it, and phase 2    *)
(* takes it back.  (_recover_stale_workers)                                *)
(***************************************************************************)
THEOREM NobodyIsStranded ==
    ASSUME OneTicker
    PROVE  LiveSpec => [](NoneRetried => GhostIsRecoverable)
<1>1. Init => TraceInv
  BY DEF Init, StoreInit, NewRun, TraceInv, Traced
<1>2. IInv /\ ClaimInv /\ TraceInv /\ [RecoverableNext]_vars => TraceInv'
  BY SchedulerAssumption, NextTrace DEF IInv
<1>3. LiveSpec => MortalSpec /\ [][RecoverableNext]_vars
  <2>1. [RecoverableNext]_vars => [MortalNext]_vars
    BY DEF RecoverableNext, RecoverableDeath, MortalNext
  <2> QED
    BY <2>1, PTL DEF LiveSpec, MortalSpec
<1>4. IInv /\ PairInv /\ TraceInv => (NoneRetried => GhostIsRecoverable)
  <2> SUFFICES ASSUME IInv, PairInv, TraceInv, NoneRetried, NEW r \in Run, Ghost(r),
                      run[r].build # NoBuild
               PROVE  FALSE
    BY DEF GhostIsRecoverable
  <2>1. ExecsOf(r) = {} /\ HeldBy(r) = {} /\ run[r].status = "IN_PROGRESS"
    BY DEF Ghost, Executing, ExecsOf, HeldBy
  <2>2. PICK a \in OpenOf(r) : TRUE
    BY <2>1 DEF TraceInv, Traced, NoneRetried
  <2>3. a \in Active
    BY <2>1 DEF OpenOf, Active
  <2> QED
    BY <2>3 DEF PairInv, Paired, Ghost
<1> QED
  BY <1>1, <1>2, <1>3, <1>4, ClaimInvariance, PairInvariance, PTL DEF MortalSpec
=============================================================================
