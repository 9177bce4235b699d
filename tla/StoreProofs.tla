----------------------------- MODULE StoreProofs -----------------------------
(***************************************************************************)
(* What the transactions of PipelineStore do to the three tables, once and *)
(* for every part that runs them: they keep the types of the rows, and no  *)
(* assignment row changes hands or is opened again.                        *)
(***************************************************************************)
EXTENDS PipelineStore, TLAPS

-----------------------------------------------------------------------------
(* Types *)

LEMMA StartedTypes ==
    ASSUME StoreTypeOK, NEW r \in Run, NEW b \in BuildNo, OnBuildStarted(r, b)
    PROVE  StoreTypeOK'
<1>1. run' \in [Run -> RunRow]
  <2>1. run[r] \in RunRow
    BY DEF StoreTypeOK
  <2>2. [run[r] EXCEPT !.status = "IN_PROGRESS", !.build = b, !.started = "recent"] \in RunRow
    BY <2>1 DEF RunRow, RunStatus
  <2>3. run' = [run EXCEPT ![r] = [run[r] EXCEPT !.status = "IN_PROGRESS",
                                                !.build = b, !.started = "recent"]]
    BY DEF StoreTypeOK, OnBuildStarted
  <2> QED
    BY <2>2, <2>3 DEF StoreTypeOK
<1>2. DOMAIN asg' = DOMAIN asg /\ asg' \in [DOMAIN asg -> AsgRow]
  <2>1. CASE UNCHANGED asg
    BY <2>1 DEF StoreTypeOK
  <2>2. ASSUME NEW a \in OpenOf(r), asg' = [asg EXCEPT ![a].status = "RUNNING"]
        PROVE  DOMAIN asg' = DOMAIN asg /\ asg' \in [DOMAIN asg -> AsgRow]
    BY <2>2 DEF StoreTypeOK, OpenOf, Open, AsgRow, AsgStatus
  <2> QED
    BY <2>1, <2>2 DEF OnBuildStarted
<1> QED
  BY <1>1, <1>2 DEF StoreTypeOK, OnBuildStarted

LEMMA ReleasedTypes ==
    ASSUME StoreTypeOK, NEW w \in Worker, NEW r \in Run, NEW success, ReleaseWorker(w, r, success)
    PROVE  /\ worker' \in [Worker -> WorkerRow]
           /\ worker'[w].status = "IDLE"
           /\ \A v \in Worker \ {w} : worker'[v] = worker[v]
           /\ DOMAIN asg' = DOMAIN asg
           /\ asg' \in [DOMAIN asg -> AsgRow]
<1>1. worker[w] \in WorkerRow /\ worker[w].load \in 0..2
  BY DEF StoreTypeOK, WorkerRow
<1>2. Less(worker[w].load) \in 0..2
  BY <1>1 DEF Less
<1>3. [worker[w] EXCEPT !.status = "IDLE", !.load = Less(worker[w].load), !.stale = FALSE]
        \in WorkerRow
  BY <1>1, <1>2 DEF WorkerRow
<1>4. worker' = [worker EXCEPT ![w] = [worker[w] EXCEPT !.status = "IDLE",
                                                       !.load = Less(worker[w].load),
                                                       !.stale = FALSE]]
  BY DEF StoreTypeOK, ReleaseWorker
<1>5. /\ worker' \in [Worker -> WorkerRow]
      /\ worker'[w].status = "IDLE"
      /\ \A v \in Worker \ {w} : worker'[v] = worker[v]
  BY <1>1, <1>3, <1>4 DEF StoreTypeOK, WorkerRow
<1>6. PICK a \in RowsOf(r, w) :
         asg' = [asg EXCEPT ![a].status = IF success THEN "DONE" ELSE "FAILED"]
  BY DEF ReleaseWorker
<1>7. DOMAIN asg' = DOMAIN asg /\ asg' \in [DOMAIN asg -> AsgRow]
  BY <1>6 DEF StoreTypeOK, RowsOf, AsgRow, AsgStatus
<1> QED
  BY <1>5, <1>7

LEMMA CompletedTypes ==
    ASSUME StoreTypeOK, NEW r \in Run, NEW res, OnBuildCompleted(r, res)
    PROVE  StoreTypeOK'
<1>1. run' \in [Run -> RunRow]
  BY DEF StoreTypeOK, OnBuildCompleted, RunRow, RunStatus, StatusFor
<1>2. CASE UNCHANGED <<worker, asg>>
  BY <1>1, <1>2 DEF StoreTypeOK
<1>3. ASSUME NEW a \in OpenOf(r), ReleaseWorker(asg[a].worker, r, res = "SUCCESS")
      PROVE  StoreTypeOK'
  <2>1. asg[a].worker \in Worker
    BY DEF StoreTypeOK, OpenOf, Open, AsgRow
  <2> QED
    BY <1>1, <1>3, <2>1, ReleasedTypes DEF StoreTypeOK
<1> QED
  BY <1>2, <1>3 DEF OnBuildCompleted

LEMMA Back ==
    ASSUME NEW row \in RunRow
    PROVE  [row EXCEPT !.status = "QUEUED", !.started = "null"] \in RunRow
BY DEF RunRow, RunStatus

LEMMA RecoveredTypes ==
    ASSUME StoreTypeOK, RecoverStaleWorkers
    PROVE  StoreTypeOK'
<1>1. run' \in [Run -> RunRow]
  BY Back DEF StoreTypeOK, RecoverStaleWorkers
<1>2. worker' \in [Worker -> WorkerRow]
  <2>1. NewWorker \in WorkerRow
    BY DEF NewWorker, WorkerRow
  <2>2. ASSUME NEW w \in Worker
        PROVE  [status |-> "IDLE", load |-> Less(worker[w].load), stale |-> FALSE] \in WorkerRow
    BY DEF StoreTypeOK, WorkerRow, Less
  <2> QED
    BY <2>1, <2>2 DEF StoreTypeOK, RecoverStaleWorkers
<1>3. DOMAIN asg' = DOMAIN asg /\ asg' \in [DOMAIN asg -> AsgRow]
  BY DEF StoreTypeOK, RecoverStaleWorkers, Close, AsgRow, AsgStatus
<1> QED
  BY <1>1, <1>2, <1>3 DEF StoreTypeOK

LEMMA AssignedTypes ==
    ASSUME StoreTypeOK, NEW r \in Run, NEW w \in Worker, NEW n \in 0..2, NEW a \in AsgId,
           AssignWorker(r, w, n, a), UNCHANGED run
    PROVE  StoreTypeOK'
<1>1. worker' \in [Worker -> WorkerRow]
  BY DEF StoreTypeOK, AssignWorker, WorkerRow, More
<1>2. DOMAIN asg' = DOMAIN asg \cup {a} /\ asg' \in [DOMAIN asg' -> AsgRow]
  BY DEF StoreTypeOK, AssignWorker, AsgRow, AsgStatus
<1> QED
  BY <1>1, <1>2 DEF StoreTypeOK

LEMMA ResetTypes ==
    ASSUME StoreTypeOK, NEW w \in Worker, ResetWorker(w)
    PROVE  StoreTypeOK'
<1>1. run' \in [Run -> RunRow]
  BY Back DEF StoreTypeOK, ResetWorker
<1>2. worker' \in [Worker -> WorkerRow]
  <2>1. NewWorker \in WorkerRow
    BY DEF NewWorker, WorkerRow
  <2> QED
    BY <2>1 DEF StoreTypeOK, ResetWorker
<1>3. DOMAIN asg' = DOMAIN asg /\ asg' \in [DOMAIN asg -> AsgRow]
  BY DEF StoreTypeOK, ResetWorker, Close, AsgRow, AsgStatus
<1> QED
  BY <1>1, <1>2, <1>3 DEF StoreTypeOK

LEMMA RecoverRetries ==
    ASSUME StoreTypeOK, RecoverStaleWorkers, NEW r \in Run
    PROVE  run'[r].retries = run[r].retries
<1>1. run[r] \in RunRow
  BY DEF StoreTypeOK
<1>2. [run[r] EXCEPT !.status = "QUEUED", !.started = "null"].retries = run[r].retries
  BY <1>1 DEF RunRow
<1> QED
  BY <1>2 DEF RecoverStaleWorkers

-----------------------------------------------------------------------------
(* Assignment rows *)

(***************************************************************************)
(* No transaction but assign_worker makes a row, none gives a row away and *)
(* none opens a closed one.                                                *)
(***************************************************************************)
RowsStay ==
    /\ DOMAIN asg' = DOMAIN asg
    /\ \A a \in DOMAIN asg : asg'[a].run = asg[a].run /\ asg'[a].worker = asg[a].worker
    /\ Open' \subseteq Open

LEMMA StartedRows ==
    ASSUME StoreTypeOK, NEW r \in Run, NEW b \in BuildNo, OnBuildStarted(r, b)
    PROVE  RowsStay /\ Open' = Open
<1>1. CASE UNCHANGED asg
  BY <1>1 DEF RowsStay, Open
<1>2. CASE \E a \in OpenOf(r) : asg' = [asg EXCEPT ![a].status = "RUNNING"]
  <2>1. PICK a \in OpenOf(r) : asg' = [asg EXCEPT ![a].status = "RUNNING"]
    BY <1>2
  <2>2. a \in DOMAIN asg /\ asg[a] \in AsgRow /\ asg[a].status \in OpenStatus
    BY DEF OpenOf, Open, StoreTypeOK
  <2>3. DOMAIN asg' = DOMAIN asg
    BY <2>1
  <2>4. \A b1 \in DOMAIN asg : /\ asg'[b1].run = asg[b1].run
                               /\ asg'[b1].worker = asg[b1].worker
                               /\ asg'[b1].status = IF b1 = a THEN "RUNNING"
                                                    ELSE asg[b1].status
    BY <2>1, <2>2 DEF StoreTypeOK, AsgRow
  <2> QED
    BY <2>2, <2>3, <2>4 DEF RowsStay, Open, OpenStatus
<1> QED
  BY <1>1, <1>2 DEF OnBuildStarted

LEMMA CompletedRows ==
    ASSUME StoreTypeOK, NEW r \in Run, NEW res, OnBuildCompleted(r, res)
    PROVE  /\ RowsStay
           /\ \A a \in Open \ Open' : asg[a].run = r
<1>1. CASE UNCHANGED asg
  BY <1>1 DEF RowsStay, Open
<1>2. CASE \E b \in OpenOf(r) : ReleaseWorker(asg[b].worker, r, res = "SUCCESS")
  <2>1. PICK b \in OpenOf(r) : ReleaseWorker(asg[b].worker, r, res = "SUCCESS")
    BY <1>2
  <2>2. PICK a \in RowsOf(r, asg[b].worker), closed \in {"DONE", "FAILED"} :
           asg' = [asg EXCEPT ![a].status = closed]
    BY <2>1 DEF ReleaseWorker
  <2>3. a \in DOMAIN asg /\ asg[a] \in AsgRow /\ asg[a].run = r
    BY DEF RowsOf, StoreTypeOK
  <2>4. DOMAIN asg' = DOMAIN asg
    BY <2>2
  <2>5. \A b1 \in DOMAIN asg : /\ asg'[b1].run = asg[b1].run
                               /\ asg'[b1].worker = asg[b1].worker
                               /\ asg'[b1].status = IF b1 = a THEN closed
                                                    ELSE asg[b1].status
    BY <2>2, <2>3 DEF StoreTypeOK, AsgRow
  <2>6. closed \notin OpenStatus
    BY DEF OpenStatus
  <2> QED
    BY <2>3, <2>4, <2>5, <2>6 DEF RowsStay, Open
<1> QED
  BY <1>1, <1>2 DEF OnBuildCompleted

LEMMA RecoveredRows ==
    ASSUME StoreTypeOK, RecoverStaleWorkers
    PROVE  /\ RowsStay
           /\ Open' = Open \ (StaleAsgs \cup OrphanAsgs)
<1>1. DOMAIN asg' = DOMAIN asg
  BY DEF RecoverStaleWorkers, Close
<1>2. \A a \in DOMAIN asg :
        /\ asg'[a].run = asg[a].run
        /\ asg'[a].worker = asg[a].worker
        /\ asg'[a].status = IF a \in StaleAsgs \cup OrphanAsgs THEN "FAILED"
                            ELSE asg[a].status
  BY DEF RecoverStaleWorkers, Close, StoreTypeOK, AsgRow
<1> QED
  BY <1>1, <1>2 DEF RowsStay, Open, OpenStatus

LEMMA AssignedRows ==
    ASSUME StoreTypeOK, NEW r \in Run, NEW w \in Worker, NEW n, NEW a \in AsgId,
           AssignWorker(r, w, n, a)
    PROVE  /\ a \notin DOMAIN asg
           /\ DOMAIN asg' = DOMAIN asg \cup {a}
           /\ \A b \in DOMAIN asg : asg'[b] = asg[b]
           /\ asg'[a].run = r /\ asg'[a].worker = w
           /\ Open' = Open \cup {a}
<1>1. /\ a \notin DOMAIN asg
      /\ DOMAIN asg' = DOMAIN asg \cup {a}
      /\ \A b \in DOMAIN asg : asg'[b] = asg[b]
      /\ asg'[a] = [run |-> r, worker |-> w, status |-> "ASSIGNED"]
  BY DEF AssignWorker, IsNextId
<1> QED
  BY <1>1 DEF Open, OpenStatus
=============================================================================
