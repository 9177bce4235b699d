--------------------------- MODULE DispatchProofs ---------------------------
(***************************************************************************)
(* Proofs about Intake and Dispatch, for every set of deliveries, workers  *)
(* and tickers and every value of the bounds: what the priority policy,    *)
(* the restart and the Jenkinsfile lookup compute, TypeOK, BusyAccounted,  *)
(* RestartOnlyDemotes and BoundedOvertaking.                               *)
(***************************************************************************)
EXTENDS Dispatch, FiniteSetTheorems, TLAPS

-----------------------------------------------------------------------------
(* The priority policy and the Jenkinsfile lookup *)

(***************************************************************************)
(* The priority computed from a branch and its changed files is never      *)
(* behind the one a restart computes from the branch alone.                *)
(* (calculate_pipeline_priority against the UPDATE in lifespan)            *)
(***************************************************************************)
THEOREM PolicyWithinBackfill ==
    ASSUME NEW b \in Branch, NEW files
    PROVE  /\ Calculate(b, files) \in 1..6
           /\ Backfill(b) \in 1..6
           /\ Calculate(b, files) <= Backfill(b)
<1>1. Calculate(b, files) \in 1..6 /\ Backfill(b) \in 1..6
  BY DEF Calculate, Backfill
<1>2. CASE ~b.lower
  BY <1>1, <1>2 DEF Backfill
<1>3. CASE b.lower
  <2>1. b.kind \in BranchKind
    BY DEF Branch
  <2> QED
    BY <1>1, <1>3, <2>1 DEF Calculate, Backfill, BranchKind
<1> QED
  BY <1>1, <1>2, <1>3

(***************************************************************************)
(* More changed files never move a run back.                               *)
(* (calculate_pipeline_priority)                                           *)
(***************************************************************************)
THEOREM FilesOnlyPromote ==
    ASSUME NEW b \in Branch, NEW files, NEW more, files \subseteq more
    PROVE  Calculate(b, more) <= Calculate(b, files)
BY DEF Calculate

(***************************************************************************)
(* A Jenkinsfile is found exactly when it is there and either public or    *)
(* covered by the token: a token the host rejects hides nothing.           *)
(* (fetch_jenkinsfile)                                                     *)
(***************************************************************************)
THEOREM InvalidTokenHidesNothing ==
    ASSUME NEW repo \in Repository
    PROVE  FetchJenkinsfile(repo) <=> repo.holds /\ (repo.public \/ repo.token = "valid")
BY DEF FetchJenkinsfile, HostReply, Repository

-----------------------------------------------------------------------------
(* Transactions on the tables *)

(***************************************************************************)
(* Row ids are handed out without gaps, so a new row is the last one of    *)
(* its worker; and a BUSY worker's last row is open or its run is gone.    *)
(***************************************************************************)
NoGaps == \A a \in DOMAIN asg, b \in AsgId : b < a => b \in DOMAIN asg

BusyLast ==
    \A w \in Worker : worker[w].status = "BUSY" =>
      \E a \in AsgId : /\ LastOn(w, a)
                       /\ asg[a].status \in OpenStatus \/ ~Exists(asg[a].run)

StoreInv == StoreTypeOK /\ NoGaps /\ BusyLast

(***************************************************************************)
(* A transaction that neither inserts nor deletes runs or rows.            *)
(***************************************************************************)
SameRows ==
    /\ \A r \in Run : Exists(r)' <=> Exists(r)
    /\ DOMAIN asg' = DOMAIN asg
    /\ \A a \in DOMAIN asg : asg'[a].run = asg[a].run /\ asg'[a].worker = asg[a].worker

LEMMA StoreStep ==
    ASSUME StoreInv, SameRows,
           run' \in [Run -> RunRow], worker' \in [Worker -> WorkerRow],
           asg' \in [DOMAIN asg -> AsgRow],
           \A w \in Worker, a \in DOMAIN asg :
              /\ worker'[w].status = "BUSY" /\ asg[a].worker = w
              /\ asg[a].status \in OpenStatus
              => asg'[a].status \in OpenStatus,
           \A w \in Worker : worker'[w].status = "BUSY" => worker[w].status = "BUSY"
    PROVE  StoreInv'
<1>1. StoreTypeOK' /\ NoGaps'
  BY DEF StoreInv, StoreTypeOK, SameRows, NoGaps
<1>2. ASSUME NEW w \in Worker, worker'[w].status = "BUSY"
      PROVE  \E a \in AsgId : /\ LastOn(w, a)'
                              /\ asg'[a].status \in OpenStatus \/ ~(run'[asg'[a].run].status # "ABSENT")
  <2>1. worker[w].status = "BUSY"
    BY <1>2
  <2>2. PICK a \in AsgId : LastOn(w, a) /\ (asg[a].status \in OpenStatus \/ ~Exists(asg[a].run))
    BY <2>1 DEF StoreInv, BusyLast
  <2>3. LastOn(w, a)'
    BY <2>2 DEF LastOn, SameRows
  <2>4. a \in DOMAIN asg /\ asg[a].worker = w /\ asg[a].run \in Run
    BY <2>2 DEF LastOn, StoreInv, StoreTypeOK, AsgRow
  <2>5. asg'[a].run = asg[a].run
        /\ (run'[asg[a].run].status # "ABSENT" <=> Exists(asg[a].run))
    BY <2>4 DEF SameRows, Exists
  <2>6. asg'[a].status \in OpenStatus \/ ~(run'[asg'[a].run].status # "ABSENT")
    BY <1>2, <2>2, <2>4, <2>5
  <2> QED
    BY <2>3, <2>6
<1> QED
  BY <1>1, <1>2 DEF StoreInv, BusyLast, Exists

LEMMA RowUpdate ==
    ASSUME NEW row \in RunRow,
           NEW st \in RunStatus, NEW when \in {"null", "recent", "old"}, NEW b \in BuildNo \cup {NoBuild}
    PROVE  /\ [row EXCEPT !.status = st, !.started = when] \in RunRow
           /\ [row EXCEPT !.status = st, !.build = b, !.started = when] \in RunRow
           /\ [row EXCEPT !.status = st] \in RunRow
           /\ [row EXCEPT !.started = when] \in RunRow
BY DEF RunRow

(***************************************************************************)
(* A transaction that changes the row of one run that exists.              *)
(***************************************************************************)
LEMMA RunOnly ==
    ASSUME StoreInv, NEW r \in Run, NEW row \in RunRow, run' = [run EXCEPT ![r] = row],
           row.status # "ABSENT", Exists(r), UNCHANGED <<worker, asg>>
    PROVE  StoreInv' /\ SameRows
<1>1. run' \in [Run -> RunRow] /\ SameRows
  BY DEF StoreInv, StoreTypeOK, SameRows, Exists
<1> QED
  BY <1>1, StoreStep DEF StoreInv, StoreTypeOK

LEMMA StartedStore ==
    ASSUME StoreInv, NEW r \in Run, Exists(r), NEW b \in BuildNo, OnBuildStarted(r, b)
    PROVE  StoreInv' /\ SameRows
<1> DEFINE row == [run[r] EXCEPT !.status = "IN_PROGRESS", !.build = b, !.started = "recent"]
<1>1. row \in RunRow /\ row.status = "IN_PROGRESS"
  <2>1. run[r] \in RunRow /\ "IN_PROGRESS" \in RunStatus
    BY DEF StoreInv, StoreTypeOK, RunStatus
  <2>2. row.status = "IN_PROGRESS"
    BY <2>1 DEF RunRow
  <2> QED
    BY <2>1, <2>2, RowUpdate
<1>2. run' = [run EXCEPT ![r] = row]
  BY DEF StoreInv, StoreTypeOK, OnBuildStarted
<1>3. run' \in [Run -> RunRow] /\ \A q \in Run : Exists(q)' <=> Exists(q)
  BY <1>1, <1>2 DEF StoreInv, StoreTypeOK, Exists
<1>4. /\ DOMAIN asg' = DOMAIN asg
      /\ asg' \in [DOMAIN asg -> AsgRow]
      /\ \A a \in DOMAIN asg : /\ asg'[a].run = asg[a].run /\ asg'[a].worker = asg[a].worker
                               /\ asg[a].status \in OpenStatus => asg'[a].status \in OpenStatus
  <2>1. CASE UNCHANGED asg
    BY <2>1 DEF StoreInv, StoreTypeOK
  <2>2. CASE \E a \in OpenOf(r) : asg' = [asg EXCEPT ![a].status = "RUNNING"]
    BY <2>2 DEF StoreInv, StoreTypeOK, OpenOf, Open, AsgRow, AsgStatus, OpenStatus
  <2> QED
    BY <2>1, <2>2 DEF OnBuildStarted
<1>5. SameRows
  BY <1>3, <1>4 DEF SameRows, Exists
<1> QED
  <2>1. worker' = worker /\ worker \in [Worker -> WorkerRow]
    BY DEF StoreInv, StoreTypeOK, OnBuildStarted
  <2> QED
    BY <1>3, <1>4, <1>5, <2>1, StoreStep

LEMMA ReleaseStore ==
    ASSUME StoreInv, NEW w \in Worker, NEW r \in Run, NEW success, ReleaseWorker(w, r, success)
    PROVE  /\ worker' \in [Worker -> WorkerRow]
           /\ DOMAIN asg' = DOMAIN asg
           /\ asg' \in [DOMAIN asg -> AsgRow]
           /\ worker'[w].status = "IDLE"
           /\ \A v \in Worker : v # w => worker'[v] = worker[v]
           /\ \A a \in DOMAIN asg : /\ asg'[a].run = asg[a].run /\ asg'[a].worker = asg[a].worker
                                    /\ asg[a].worker # w => asg'[a] = asg[a]
<1>1. PICK a \in RowsOf(r, w) :
         asg' = [asg EXCEPT ![a].status = IF success THEN "DONE" ELSE "FAILED"]
  BY DEF ReleaseWorker
<1>2. worker[w] \in WorkerRow /\ Less(worker[w].load) \in 0..2
  BY DEF StoreInv, StoreTypeOK, WorkerRow, Less
<1>3. worker' = [worker EXCEPT ![w] = [worker[w] EXCEPT !.status = "IDLE",
                                                       !.load = Less(worker[w].load),
                                                       !.stale = FALSE]]
  BY DEF StoreInv, StoreTypeOK, ReleaseWorker
<1>4. /\ [worker[w] EXCEPT !.status = "IDLE", !.load = Less(worker[w].load), !.stale = FALSE]
            \in WorkerRow
      /\ [worker[w] EXCEPT !.status = "IDLE", !.load = Less(worker[w].load), !.stale = FALSE].status
            = "IDLE"
  BY <1>2 DEF WorkerRow
<1>5. /\ worker' \in [Worker -> WorkerRow] /\ worker'[w].status = "IDLE"
      /\ \A v \in Worker : v # w => worker'[v] = worker[v]
  BY <1>3, <1>4 DEF StoreInv, StoreTypeOK
<1>6. /\ DOMAIN asg' = DOMAIN asg /\ asg' \in [DOMAIN asg -> AsgRow]
      /\ \A b \in DOMAIN asg : /\ asg'[b].run = asg[b].run /\ asg'[b].worker = asg[b].worker
                               /\ asg[b].worker # w => asg'[b] = asg[b]
  BY <1>1 DEF StoreInv, StoreTypeOK, RowsOf, AsgRow, AsgStatus
<1> QED
  BY <1>5, <1>6

LEMMA CompletedStore ==
    ASSUME StoreInv, NEW r \in Run, Exists(r), NEW res \in Result, OnBuildCompleted(r, res)
    PROVE  StoreInv' /\ SameRows
<1> DEFINE row == [run[r] EXCEPT !.status = StatusFor(res)]
<1>1. row \in RunRow /\ row.status # "ABSENT"
  <2>1. StatusFor(res) \in RunStatus /\ StatusFor(res) # "ABSENT"
    BY DEF StatusFor, RunStatus
  <2> QED
    BY <2>1 DEF StoreInv, StoreTypeOK, RunRow
<1>2. run' = [run EXCEPT ![r] = row]
  BY DEF StoreInv, StoreTypeOK, OnBuildCompleted
<1>3. run' \in [Run -> RunRow] /\ \A q \in Run : Exists(q)' <=> Exists(q)
  BY <1>1, <1>2 DEF StoreInv, StoreTypeOK, Exists
<1>4. CASE UNCHANGED <<worker, asg>>
  BY <1>1, <1>2, <1>4, RunOnly
<1>5. CASE \E a \in OpenOf(r) : ReleaseWorker(asg[a].worker, r, res = "SUCCESS")
  <2>1. PICK a \in OpenOf(r) : ReleaseWorker(asg[a].worker, r, res = "SUCCESS")
    BY <1>5
  <2> DEFINE w == asg[a].worker
  <2>2. w \in Worker
    BY DEF StoreInv, StoreTypeOK, OpenOf, Open, AsgRow
  <2>3. /\ worker' \in [Worker -> WorkerRow]
        /\ DOMAIN asg' = DOMAIN asg
        /\ asg' \in [DOMAIN asg -> AsgRow]
        /\ worker'[w].status = "IDLE"
        /\ \A v \in Worker : v # w => worker'[v] = worker[v]
        /\ \A b \in DOMAIN asg : /\ asg'[b].run = asg[b].run /\ asg'[b].worker = asg[b].worker
                                 /\ asg[b].worker # w => asg'[b] = asg[b]
    BY <2>1, <2>2, ReleaseStore
  <2>4. SameRows
    BY <1>3, <2>3 DEF SameRows, Exists
  <2> HIDE DEF w
  <2>5. \A v \in Worker : worker'[v].status = "BUSY" => v # w /\ worker[v].status = "BUSY"
    BY <2>3
  <2> QED
    <3>1. \A v \in Worker, b \in DOMAIN asg :
             /\ worker'[v].status = "BUSY" /\ asg[b].worker = v
             /\ asg[b].status \in OpenStatus
             => asg'[b].status \in OpenStatus
      BY <2>3, <2>5
    <3> QED
      BY <1>3, <2>3, <2>4, <2>5, <3>1, StoreStep
<1> QED
  BY <1>4, <1>5 DEF OnBuildCompleted

LEMMA RecoverRows ==
    ASSUME StoreInv, RecoverStaleWorkers
    PROVE  StoreInv' /\ SameRows
<1>1. /\ run' \in [Run -> RunRow]
      /\ \A q \in Run : Exists(q)' <=> Exists(q)
  <2>1. \A q \in Run : [run[q] EXCEPT !.status = "QUEUED", !.started = "null"] \in RunRow
    BY RowUpdate DEF StoreInv, StoreTypeOK, RunStatus
  <2>2. \A q \in Run : run'[q] = IF q \in StaleRuns \cup OrphanRuns
                                THEN [run[q] EXCEPT !.status = "QUEUED", !.started = "null"]
                                ELSE run[q]
    BY DEF RecoverStaleWorkers
  <2>3. \A q \in StaleRuns \cup OrphanRuns : run[q].status = "IN_PROGRESS"
    BY DEF StaleRuns, OrphanRuns
  <2> QED
    BY <2>1, <2>2, <2>3 DEF StoreInv, StoreTypeOK, RecoverStaleWorkers, Exists, RunRow
<1>2. worker' \in [Worker -> WorkerRow]
  <2>1. NewWorker \in WorkerRow
    BY DEF NewWorker, WorkerRow
  <2>2. \A w \in Worker :
          [status |-> "IDLE", load |-> Less(worker[w].load), stale |-> FALSE] \in WorkerRow
    BY DEF StoreInv, StoreTypeOK, WorkerRow, Less
  <2> QED
    BY <2>1, <2>2 DEF StoreInv, StoreTypeOK, RecoverStaleWorkers
<1>3. /\ DOMAIN asg' = DOMAIN asg
      /\ asg' \in [DOMAIN asg -> AsgRow]
      /\ \A a \in DOMAIN asg :
            /\ asg'[a].run = asg[a].run /\ asg'[a].worker = asg[a].worker
            /\ a \notin StaleAsgs \cup OrphanAsgs => asg'[a] = asg[a]
  BY DEF StoreInv, StoreTypeOK, RecoverStaleWorkers, Close, AsgRow, AsgStatus
<1>4. SameRows
  BY <1>1, <1>3 DEF SameRows
<1>5. \A w \in Worker : worker'[w].status = "BUSY" =>
        worker[w].status = "BUSY" /\ w \notin StaleWorkers /\ w \notin OrphanWorkers
  BY DEF RecoverStaleWorkers, NewWorker
<1>6. ASSUME NEW w \in Worker, NEW a \in DOMAIN asg, worker'[w].status = "BUSY",
             asg[a].worker = w, asg[a].status \in OpenStatus
      PROVE  asg'[a].status \in OpenStatus
  <2>1. a \notin StaleAsgs /\ a \notin OrphanAsgs
    BY <1>5, <1>6 DEF StaleAsgs, OrphanAsgs, OrphanWorkers, Open
  <2> QED
    BY <1>3, <1>6, <2>1
<1> QED
  BY <1>1, <1>2, <1>3, <1>4, <1>5, <1>6, StoreStep

LEMMA AssignRows ==
    ASSUME StoreAssumption, StoreInv, NEW r \in Run, NEW w \in Worker,
           NEW n \in 0..2, NEW a \in AsgId,
           AssignWorker(r, w, n, a), UNCHANGED run
    PROVE  /\ StoreInv'
           /\ DOMAIN asg' = DOMAIN asg \cup {a}
           /\ asg'[a].run = r
           /\ \A b \in DOMAIN asg : asg'[b] = asg[b]
<1>1. worker' \in [Worker -> WorkerRow] /\ \A v \in Worker : v # w => worker'[v] = worker[v]
  BY DEF StoreInv, StoreTypeOK, AssignWorker, WorkerRow, More
<1>2. /\ a \notin DOMAIN asg /\ \A b \in AsgId : b < a => b \in DOMAIN asg
      /\ DOMAIN asg' = DOMAIN asg \cup {a} /\ asg' \in [DOMAIN asg' -> AsgRow]
      /\ \A b \in DOMAIN asg : asg'[b] = asg[b]
      /\ asg'[a].run = r /\ asg'[a].worker = w /\ asg'[a].status = "ASSIGNED"
  BY DEF StoreInv, StoreTypeOK, AssignWorker, IsNextId, AsgRow, AsgStatus
<1>3. DOMAIN asg \subseteq AsgId /\ AsgId \subseteq Nat
  BY StoreAssumption DEF StoreInv, StoreTypeOK, AsgId
<1>4. \A b \in DOMAIN asg : b < a
  BY <1>2, <1>3 DEF StoreInv, NoGaps
<1>5. StoreTypeOK' /\ NoGaps'
  BY <1>1, <1>2, <1>3, <1>4 DEF StoreInv, StoreTypeOK, NoGaps
<1>6. ASSUME NEW v \in Worker, worker'[v].status = "BUSY"
      PROVE  \E b \in AsgId : /\ LastOn(v, b)'
                              /\ asg'[b].status \in OpenStatus \/ ~(run'[asg'[b].run].status # "ABSENT")
  <2>1. CASE v = w
    <3>1. LastOn(v, a)'
      BY <1>2, <1>3, <1>4, <2>1 DEF LastOn
    <3> QED
      BY <1>2, <3>1 DEF OpenStatus
  <2>2. CASE v # w
    <3>1. PICK b \in AsgId : LastOn(v, b) /\ (asg[b].status \in OpenStatus \/ ~Exists(asg[b].run))
      BY <1>1, <1>6, <2>2 DEF StoreInv, BusyLast
    <3>2. b \in DOMAIN asg /\ asg'[b] = asg[b] /\ LastOn(v, b)'
      BY <1>2, <2>2, <3>1 DEF LastOn
    <3> QED
      BY <3>1, <3>2 DEF Exists
  <2> QED
    BY <2>1, <2>2
<1> QED
  BY <1>2, <1>5, <1>6 DEF StoreInv, BusyLast, Exists

(***************************************************************************)
(* Deleting runs, and closing their rows in place of deleting them.        *)
(***************************************************************************)
LEMMA DeleteRows ==
    ASSUME StoreAssumption, StoreInv, NEW S \in SUBSET Run,
           run' = [r \in Run |-> IF r \in S THEN NewRun ELSE run[r]],
           Close({a \in DOMAIN asg : asg[a].run \in S}), UNCHANGED worker
    PROVE  /\ StoreInv'
           /\ \A r \in Run : Exists(r)' => Exists(r)
           /\ DOMAIN asg' = DOMAIN asg
           /\ \A a \in DOMAIN asg : asg'[a].run = asg[a].run
<1>1. /\ run' \in [Run -> RunRow] /\ \A r \in S : run'[r].status = "ABSENT"
      /\ \A r \in Run : Exists(r)' => Exists(r)
  BY StoreAssumption DEF StoreInv, StoreTypeOK, NewRun, RunRow, RunStatus, Exists
<1>2. /\ DOMAIN asg' = DOMAIN asg
      /\ asg' \in [DOMAIN asg -> AsgRow]
      /\ \A a \in DOMAIN asg :
            /\ asg'[a].run = asg[a].run /\ asg'[a].worker = asg[a].worker
            /\ asg[a].run \notin S => asg'[a] = asg[a]
  BY DEF StoreInv, StoreTypeOK, Close, AsgRow, AsgStatus
<1>3. ASSUME NEW w \in Worker, worker'[w].status = "BUSY"
      PROVE  \E a \in AsgId : /\ LastOn(w, a)'
                              /\ asg'[a].status \in OpenStatus \/ ~(run'[asg'[a].run].status # "ABSENT")
  <2>1. PICK a \in AsgId : LastOn(w, a) /\ (asg[a].status \in OpenStatus \/ ~Exists(asg[a].run))
    BY <1>3 DEF StoreInv, BusyLast
  <2>2. a \in DOMAIN asg /\ asg[a].run \in Run /\ LastOn(w, a)'
    BY <1>2, <2>1 DEF StoreInv, StoreTypeOK, AsgRow, LastOn
  <2> QED
    BY <1>1, <1>2, <2>1, <2>2 DEF Exists
<1> QED
  BY <1>1, <1>2, <1>3 DEF StoreInv, StoreTypeOK, NoGaps, BusyLast, Exists

-----------------------------------------------------------------------------
(* The inductive invariant *)

CalculateOf(r) == Calculate(BranchFor(PayloadOf[r]), FilesFor(PayloadOf[r]))
BackfillOf(r)  == Backfill(BranchFor(PayloadOf[r]))

(***************************************************************************)
(* A tick that is past its selection has runs left, and one about to       *)
(* assign has picked a worker.                                             *)
(***************************************************************************)
Ready ==
    \A t \in Ticker :
      /\ tick[t].pc \notin {"idle", "select"} => tick[t].todo # <<>>
      /\ tick[t].pc = "assign" => tick[t].pick \in Worker

TickInv == tick \in [Ticker -> TickState] /\ Ready

ExecInv == DOMAIN exec \subseteq AsgId /\ exec \in [DOMAIN exec -> Execution]

(***************************************************************************)
(* Whatever refers to a run refers to one that has been inserted, and      *)
(* deliveries are inserted once: a deleted run does not come back.         *)
(***************************************************************************)
Inserted ==
    /\ \A r \in Run : Exists(r) => delivery[r] = "enqueued"
    /\ \A r \in flush : delivery[r] = "enqueued"
    /\ \A a \in DOMAIN asg : delivery[asg[a].run] = "enqueued"

PriorityKnown == \A r \in Run : Exists(r) => prio[r] \in {CalculateOf(r), BackfillOf(r)}

OwnInv ==
    /\ delivery \in [Run -> {"sent", "accepted", "enqueued", "lost"}]
    /\ prio \in [Run -> 1..6]
    /\ flush \subseteq Run
    /\ Inserted
    /\ PriorityKnown

DInv == StoreInv /\ TickInv /\ ExecInv /\ OwnInv

LEMMA PriorityOf ==
    ASSUME DispatchAssumption, NEW r \in Run
    PROVE  CalculateOf(r) \in 1..6 /\ BackfillOf(r) \in 1..6 /\ CalculateOf(r) <= BackfillOf(r)
<1>1. BranchFor(PayloadOf[r]) \in Branch
  <2>1. PayloadOf[r] \in Payload
    BY DEF DispatchAssumption
  <2>2. PayloadOf[r].head \in Branch
    BY <2>1 DEF Payload
  <2>3. [PayloadOf[r].head EXCEPT !.kind = "other"] \in Branch
    BY <2>2 DEF Branch, BranchKind
  <2> QED
    BY <2>2, <2>3 DEF BranchFor
<1> QED
  BY <1>1, PolicyWithinBackfill DEF CalculateOf, BackfillOf

LEMMA InitDInv ==
    ASSUME StoreAssumption, DispatchAssumption, Init
    PROVE  DInv
<1>1. NewRun \in RunRow /\ NewWorker \in WorkerRow
  BY StoreAssumption DEF NewRun, RunRow, RunStatus, NewWorker, WorkerRow
<1>2. StoreInv
  BY <1>1 DEF Init, StoreInit, StoreInv, StoreTypeOK, NoGaps, BusyLast, NewWorker
<1>3. <<>> \in Seq(Run)
  OBVIOUS
<1>4. IdleTick \in TickState /\ IdleTick.pc = "idle"
  BY <1>3 DEF IdleTick, TickAt, TickState
<1>5. TickInv
  BY <1>4 DEF Init, TickInv, Ready
<1>6. ExecInv
  BY DEF Init, ExecInv
<1>7. OwnInv
  BY DEF Init, StoreInit, NewRun, OwnInv, Inserted, PriorityKnown, Exists
<1> QED
  BY <1>2, <1>5, <1>6, <1>7 DEF DInv

(***************************************************************************)
(* What a step has to keep when it leaves deliveries and priorities alone. *)
(***************************************************************************)
LEMMA QuietOwn ==
    ASSUME DInv, UNCHANGED <<delivery, prio>>, flush' \subseteq flush,
           \A r \in Run : Exists(r)' => Exists(r),
           \A a \in DOMAIN asg' : delivery[asg'[a].run] = "enqueued"
    PROVE  OwnInv'
BY DEF DInv, OwnInv, Inserted, PriorityKnown, Exists, CalculateOf, BackfillOf

LEMMA SameRowsOwn ==
    ASSUME DInv, UNCHANGED <<delivery, prio>>, flush' \subseteq flush, SameRows
    PROVE  OwnInv'
<1>1. \A a \in DOMAIN asg' : delivery[asg'[a].run] = "enqueued"
  BY DEF SameRows, DInv, OwnInv, Inserted
<1>2. \A r \in Run : Exists(r)' => Exists(r)
  BY DEF SameRows, Exists
<1> QED
  BY <1>1, <1>2, QuietOwn

LEMMA StoreUnchanged ==
    ASSUME StoreInv, UNCHANGED storeVars
    PROVE  StoreInv' /\ SameRows
BY DEF storeVars, StoreInv, StoreTypeOK, NoGaps, BusyLast, LastOn, Exists, SameRows

-----------------------------------------------------------------------------
(* Control of the ticks *)

LEMMA Selected ==
    ASSUME NEW b \in Batches
    PROVE  b \in Seq(Run)
<1>1. PICK n \in 0..MaxExec : b \in [1..n -> Queued]
  BY DEF Batches
<1> QED
  BY <1>1, DispatchAssumption DEF Queued

LEMMA TickTo ==
    ASSUME TickInv, NEW t \in Ticker, NEW new \in TickState,
           new.pc \notin {"idle", "select"} => new.todo # <<>>,
           new.pc = "assign" => new.pick \in Worker,
           tick' = [tick EXCEPT ![t] = new]
    PROVE  TickInv'
BY DEF TickInv, Ready

LEMMA MoveOn ==
    ASSUME TickInv, NEW t \in Ticker, ~At(t, "idle"), ~At(t, "select"),
           tick' = [tick EXCEPT ![t] = NextRun(t)]
    PROVE  TickInv'
<1>1. tick[t].todo \in Seq(Run) /\ tick[t].todo # <<>>
  BY DEF TickInv, Ready, At, TickState
<1>2. Tail(tick[t].todo) \in Seq(Run) /\ <<>> \in Seq(Run)
  BY <1>1
<1>3. CASE Tail(tick[t].todo) = <<>>
  <2>1. IdleTick \in TickState /\ IdleTick.pc = "idle"
    BY <1>2 DEF IdleTick, TickAt, TickState
  <2> QED
    BY <1>3, <2>1, TickTo DEF NextRun
<1>4. CASE Tail(tick[t].todo) # <<>>
  <2> DEFINE new == TickAt("claim", Tail(tick[t].todo))
  <2>1. new \in TickState /\ new.pc = "claim" /\ new.todo # <<>>
    BY <1>2, <1>4 DEF TickAt, TickState
  <2>2. tick' = [tick EXCEPT ![t] = new]
    BY <1>4 DEF NextRun
  <2> QED
    BY <2>1, <2>2, TickTo
<1> QED
  BY <1>3, <1>4

LEMMA CurrentIsRun ==
    ASSUME TickInv, NEW t \in Ticker, ~At(t, "idle"), ~At(t, "select")
    PROVE  Current(t) \in Run
<1>1. tick[t].todo \in Seq(Run) /\ tick[t].todo # <<>>
  BY DEF TickInv, Ready, At, TickState
<1> QED
  BY <1>1 DEF Current

LEMMA ToPc ==
    ASSUME TickInv, NEW t \in Ticker, NEW pc \in {"select", "pick", "revert"},
           pc # "select" => ~At(t, "idle") /\ ~At(t, "select"),
           tick' = [tick EXCEPT ![t].pc = pc]
    PROVE  TickInv'
<1> DEFINE new == [tick[t] EXCEPT !.pc = pc]
<1>1. tick[t] \in TickState
  BY DEF TickInv
<1>2. new \in TickState /\ new.pc = pc /\ new.todo = tick[t].todo
  BY <1>1 DEF TickState
<1>3. tick' = [tick EXCEPT ![t] = new]
  BY DEF TickInv
<1>4. new.pc \notin {"idle", "select"} => new.todo # <<>>
  BY <1>2 DEF TickInv, Ready, At
<1> QED
  BY <1>2, <1>3, <1>4, TickTo

LEMMA TickKeeps ==
    ASSUME DInv, NEW t \in Ticker, TickStep(t)
    PROVE  DInv'
<1> USE StoreAssumption, DispatchAssumption
<1>1. StoreInv /\ TickInv /\ ExecInv
  BY DEF DInv
<1>2. UNCHANGED <<delivery, prio>> /\ flush' \subseteq flush
  BY DEF TickStep, TickRecover, TickSelect, TickClaim, TickPick, TickAssign, TickRevert, Quiet
<1>3. CASE TickRecover(t)
  <2>1. StoreInv' /\ SameRows
    BY <1>1, <1>3, RecoverRows DEF TickRecover
  <2>2. TickInv'
    BY <1>1, <1>3, ToPc DEF TickRecover
  <2> QED
    BY <1>1, <1>2, <1>3, <2>1, <2>2, SameRowsOwn DEF TickRecover, DInv, ExecInv
<1>4. CASE TickSelect(t)
  <2>1. PICK b \in Batches :
          tick' = [tick EXCEPT ![t] = IF b = <<>> THEN IdleTick ELSE TickAt("claim", b)]
    BY <1>4 DEF TickSelect
  <2>2. b \in Seq(Run) /\ <<>> \in Seq(Run)
    BY Selected
  <2>3. ASSUME b = <<>>
        PROVE  TickInv'
    <3>1. IdleTick \in TickState /\ IdleTick.pc = "idle"
      BY <2>2 DEF IdleTick, TickAt, TickState
    <3> QED
      BY <1>1, <2>1, <2>3, <3>1, TickTo
  <2>4. ASSUME b # <<>>
        PROVE  TickInv'
    <3> DEFINE new == TickAt("claim", b)
    <3>1. new \in TickState /\ new.pc = "claim" /\ new.todo # <<>>
      BY <2>2, <2>4 DEF TickAt, TickState
    <3>2. tick' = [tick EXCEPT ![t] = new]
      BY <2>1, <2>4
    <3> QED
      BY <1>1, <3>1, <3>2, TickTo
  <2>5. TickInv'
    BY <2>3, <2>4
  <2>6. StoreInv' /\ SameRows
    BY <1>1, <1>4, StoreUnchanged DEF TickSelect
  <2> QED
    BY <1>1, <1>2, <1>4, <2>5, <2>6, SameRowsOwn DEF TickSelect, DInv, ExecInv
<1>5. CASE TickClaim(t)
  <2>1. ~At(t, "idle") /\ ~At(t, "select") /\ Current(t) \in Run
    BY <1>1, <1>5, CurrentIsRun DEF TickClaim, At
  <2>2. CASE run[Current(t)].status = "QUEUED"
    <3> DEFINE row == [run[Current(t)] EXCEPT !.status = "IN_PROGRESS", !.started = "recent"]
    <3>1. run[Current(t)] \in RunRow /\ "IN_PROGRESS" \in RunStatus
      BY <1>1, <2>1 DEF StoreInv, StoreTypeOK, RunStatus
    <3>2. row \in RunRow /\ row.status = "IN_PROGRESS"
      BY <3>1, RowUpdate DEF RunRow
    <3>3. run' = [run EXCEPT ![Current(t)] = row]
      BY <1>1, <1>5, <2>1, <2>2 DEF TickClaim, StoreInv, StoreTypeOK
    <3>4. Exists(Current(t)) /\ UNCHANGED <<worker, asg>>
      BY <1>5, <2>2 DEF TickClaim, Exists
    <3>5. StoreInv' /\ SameRows
      BY <1>1, <2>1, <3>2, <3>3, <3>4, RunOnly
    <3>6. TickInv'
      BY <1>1, <1>5, <2>1, <2>2, ToPc DEF TickClaim
    <3> QED
      BY <1>1, <1>2, <1>5, <3>5, <3>6, SameRowsOwn DEF TickClaim, DInv, ExecInv
  <2>3. CASE run[Current(t)].status # "QUEUED"
    <3>1. UNCHANGED storeVars /\ tick' = [tick EXCEPT ![t] = NextRun(t)] /\ UNCHANGED exec
      BY <1>5, <2>3 DEF TickClaim, storeVars
    <3>2. TickInv' /\ StoreInv' /\ SameRows
      BY <1>1, <2>1, <3>1, MoveOn, StoreUnchanged
    <3> QED
      BY <1>1, <1>2, <3>1, <3>2, SameRowsOwn DEF DInv, ExecInv
  <2> QED
    BY <2>2, <2>3
<1>6. CASE TickPick(t)
  <2>1. ~At(t, "idle") /\ ~At(t, "select")
    BY <1>6 DEF TickPick, At
  <2>2. ASSUME tick' = [tick EXCEPT ![t].pc = "revert"]
        PROVE  TickInv'
    BY <1>1, <2>1, <2>2, ToPc
  <2>3. ASSUME NEW w \in BestWorkers(Current(t)),
               tick' = [tick EXCEPT ![t].pc = "assign", ![t].pick = w,
                                    ![t].load = worker[w].load]
        PROVE  TickInv'
    <3> DEFINE new == [tick[t] EXCEPT !.pc = "assign", !.pick = w, !.load = worker[w].load]
    <3>1. w \in Worker
      BY DEF BestWorkers, Candidates, IdleWorkers
    <3>2. worker[w].load \in 0..2 /\ tick[t] \in TickState
      BY <1>1, <3>1 DEF StoreInv, StoreTypeOK, WorkerRow, TickInv
    <3>3. new \in TickState /\ new.pc = "assign" /\ new.pick = w /\ new.todo = tick[t].todo
      BY <3>1, <3>2 DEF TickState
    <3>4. tick' = [tick EXCEPT ![t] = new]
      BY <1>1, <2>3 DEF TickInv
    <3>5. new.todo # <<>>
      BY <1>1, <2>1, <3>3 DEF TickInv, Ready, At
    <3> QED
      BY <1>1, <3>1, <3>3, <3>4, <3>5, TickTo
  <2>4. TickInv'
    BY <1>6, <2>2, <2>3 DEF TickPick
  <2>5. StoreInv' /\ SameRows
    BY <1>1, <1>6, StoreUnchanged DEF TickPick
  <2> QED
    BY <1>1, <1>2, <1>6, <2>4, <2>5, SameRowsOwn DEF TickPick, DInv, ExecInv
<1>7. CASE TickAssign(t)
  <2>1. ~At(t, "idle") /\ ~At(t, "select") /\ Current(t) \in Run
    BY <1>1, <1>7, CurrentIsRun DEF TickAssign, At
  <2>2. CASE Exists(Current(t))
    <3>1. tick[t].pick \in Worker /\ tick[t].load \in 0..2
      BY <1>1, <1>7 DEF TickAssign, At, TickInv, Ready, TickState
    <3>2. PICK a \in AsgId :
            /\ AssignWorker(Current(t), tick[t].pick, tick[t].load, a)
            /\ exec' = [e \in DOMAIN exec \cup {a} |->
                          IF e = a THEN [run |-> Current(t), threaded |-> t = Web]
                          ELSE exec[e]]
      BY <1>7, <2>2 DEF TickAssign
    <3>3. UNCHANGED run /\ tick' = [tick EXCEPT ![t] = NextRun(t)]
      BY <1>7, <2>2 DEF TickAssign
    <3>4. /\ StoreInv'
          /\ DOMAIN asg' = DOMAIN asg \cup {a}
          /\ asg'[a].run = Current(t)
          /\ \A b \in DOMAIN asg : asg'[b] = asg[b]
      BY <1>1, <2>1, <3>1, <3>2, <3>3, AssignRows
    <3>5. TickInv'
      BY <1>1, <2>1, <3>3, MoveOn
    <3>6. ExecInv'
      BY <1>1, <2>1, <3>2 DEF ExecInv, Execution
    <3>7. delivery[Current(t)] = "enqueued"
      BY <2>1, <2>2 DEF DInv, OwnInv, Inserted
    <3>8. \A b \in DOMAIN asg' : delivery[asg'[b].run] = "enqueued"
      BY <3>4, <3>7 DEF DInv, OwnInv, Inserted
    <3>9. \A r \in Run : Exists(r)' => Exists(r)
      BY <3>3 DEF Exists
    <3> QED
      BY <1>2, <3>4, <3>5, <3>6, <3>8, <3>9, QuietOwn DEF DInv
  <2>3. CASE ~Exists(Current(t))
    <3>1. UNCHANGED storeVars /\ tick' = [tick EXCEPT ![t] = IdleTick] /\ UNCHANGED exec
      BY <1>7, <2>3 DEF TickAssign, storeVars
    <3>2. IdleTick \in TickState /\ IdleTick.pc = "idle"
      BY DEF IdleTick, TickAt, TickState
    <3>3. TickInv' /\ StoreInv' /\ SameRows
      BY <1>1, <3>1, <3>2, TickTo, StoreUnchanged
    <3> QED
      BY <1>1, <1>2, <3>1, <3>3, SameRowsOwn DEF DInv, ExecInv
  <2> QED
    BY <2>2, <2>3
<1>8. CASE TickRevert(t)
  <2>1. ~At(t, "idle") /\ ~At(t, "select") /\ Current(t) \in Run
    BY <1>1, <1>8, CurrentIsRun DEF TickRevert, At
  <2>2. TickInv'
    BY <1>1, <1>8, <2>1, MoveOn DEF TickRevert
  <2>3. ASSUME Exists(Current(t))
        PROVE  StoreInv' /\ SameRows
    <3> DEFINE row == [run[Current(t)] EXCEPT !.status = "QUEUED", !.started = "null"]
    <3>1. run[Current(t)] \in RunRow /\ "QUEUED" \in RunStatus
      BY <1>1, <2>1 DEF StoreInv, StoreTypeOK, RunStatus
    <3>2. row \in RunRow /\ row.status = "QUEUED"
      BY <3>1, RowUpdate DEF RunRow
    <3>3. run' = [run EXCEPT ![Current(t)] = row] /\ UNCHANGED <<worker, asg>>
      BY <1>1, <1>8, <2>1, <2>3 DEF TickRevert, StoreInv, StoreTypeOK
    <3> QED
      BY <1>1, <2>1, <2>3, <3>2, <3>3, RunOnly
  <2>4. ASSUME ~Exists(Current(t))
        PROVE  StoreInv' /\ SameRows
    BY <1>1, <1>8, <2>4, StoreUnchanged DEF TickRevert, storeVars
  <2> QED
    BY <1>1, <1>2, <1>8, <2>2, <2>3, <2>4, SameRowsOwn DEF TickRevert, DInv, ExecInv
<1> QED
  BY <1>3, <1>4, <1>5, <1>6, <1>7, <1>8 DEF TickStep

-----------------------------------------------------------------------------
(* Executions, deliveries, the flush, the web process and time *)

LEMMA ExecKeeps ==
    ASSUME DInv, NEW a \in DOMAIN exec, ExecStep(a)
    PROVE  DInv'
<1> USE DispatchAssumption
<1>1. StoreInv /\ TickInv /\ ExecInv /\ exec[a].run \in Run
  BY DEF DInv, ExecInv, Execution
<1>2. UNCHANGED <<delivery, prio, flush, tick>>
  BY DEF ExecStep, ExecStarted, ExecEnds, Quiet
<1>3. ExecInv'
  <2>1. CASE UNCHANGED exec
    BY <1>1, <2>1 DEF ExecInv
  <2>2. CASE EndExec({a})
    BY <1>1, <2>2 DEF EndExec, ExecInv
  <2> QED
    BY <2>1, <2>2 DEF ExecStep, ExecStarted, ExecEnds
<1>4. StoreInv' /\ SameRows
  <2>1. CASE \E b \in BuildNo : ExecStarted(a, b)
    <3>1. PICK b \in BuildNo : ExecStarted(a, b)
      BY <2>1
    <3> QED
      BY <1>1, <3>1, StartedStore DEF ExecStarted
  <2>2. CASE ExecEnds(a)
    <3>1. CASE Exists(exec[a].run)
      <4>1. PICK res \in Outcome : OnBuildCompleted(exec[a].run, res)
        BY <2>2, <3>1 DEF ExecEnds
      <4>2. res \in Result
        OBVIOUS
      <4> QED
        BY <1>1, <3>1, <4>1, <4>2, CompletedStore
    <3>2. CASE ~Exists(exec[a].run)
      BY <1>1, <2>2, <3>2, StoreUnchanged DEF ExecEnds
    <3> QED
      BY <3>1, <3>2
  <2> QED
    BY <2>1, <2>2 DEF ExecStep
<1>5. OwnInv'
  BY <1>2, <1>4, SameRowsOwn
<1> QED
  BY <1>1, <1>2, <1>3, <1>4, <1>5 DEF DInv, TickInv, Ready

(***************************************************************************)
(* A new run: nothing refers to it yet.                                    *)
(***************************************************************************)
LEMMA EnqueueKeeps ==
    ASSUME DInv, NEW r \in Run, Enqueue(r)
    PROVE  DInv'
<1> USE StoreAssumption, DispatchAssumption
<1> DEFINE row == [run[r] EXCEPT !.status = "QUEUED"]
<1>1. StoreInv /\ TickInv /\ ExecInv
  BY DEF DInv
<1>2. run[r].status = "ABSENT" /\ run' = [run EXCEPT ![r] = row] /\ UNCHANGED <<worker, asg>>
  BY <1>1 DEF Enqueue, SchedulePipeline, StoreInv, StoreTypeOK
<1>3. row \in RunRow /\ row.status = "QUEUED"
  BY <1>1 DEF StoreInv, StoreTypeOK, RunRow, RunStatus
<1>4. StoreTypeOK' /\ NoGaps'
  BY <1>1, <1>2, <1>3 DEF StoreInv, StoreTypeOK, NoGaps
<1>5. \A a \in DOMAIN asg : asg[a].run \in Run /\ asg[a].run # r
  <2>1. delivery[r] # "enqueued"
    BY DEF Enqueue
  <2> QED
    BY <1>1, <2>1 DEF DInv, OwnInv, Inserted, StoreInv, StoreTypeOK, AsgRow
<1>6. BusyLast'
  BY <1>1, <1>2, <1>5 DEF StoreInv, StoreTypeOK, BusyLast, LastOn, Exists
<1>7. \A q \in Run : q # r => run'[q] = run[q] /\ prio'[q] = prio[q] /\ delivery'[q] = delivery[q]
  BY <1>1, <1>2 DEF DInv, OwnInv, StoreInv, StoreTypeOK, Enqueue
<1>8. delivery'[r] = "enqueued" /\ prio'[r] = CalculateOf(r)
  BY DEF DInv, OwnInv, Enqueue, CalculateOf
<1>9. /\ delivery' \in [Run -> {"sent", "accepted", "enqueued", "lost"}]
      /\ prio' \in [Run -> 1..6]
  BY PriorityOf DEF DInv, OwnInv, Enqueue, CalculateOf
<1>10. Inserted'
  <2>1. flush' = flush /\ flush \subseteq Run
    BY DEF DInv, OwnInv, Enqueue
  <2> QED
    BY <1>2, <1>5, <1>7, <1>8, <2>1 DEF DInv, OwnInv, Inserted, Exists
<1>11. PriorityKnown'
  BY <1>7, <1>8 DEF DInv, OwnInv, PriorityKnown, Exists, CalculateOf, BackfillOf
<1>12. OwnInv'
  BY <1>9, <1>10, <1>11 DEF DInv, OwnInv, Enqueue
<1> QED
  BY <1>1, <1>4, <1>6, <1>12 DEF DInv, StoreInv, TickInv, Ready, ExecInv, Enqueue

LEMMA DeliveryKeeps ==
    ASSUME DInv, NEW r \in Run, Accept(r) \/ Refuse(r)
    PROVE  DInv'
<1>1. /\ UNCHANGED <<storeVars, prio, tick, exec, flush>>
      /\ delivery' \in [Run -> {"sent", "accepted", "enqueued", "lost"}]
      /\ \A q \in Run : delivery[q] = "enqueued" => delivery'[q] = "enqueued"
  BY DEF Accept, Refuse, DInv, OwnInv
<1>2. StoreInv'
  BY <1>1, StoreUnchanged DEF DInv
<1>3. \A a \in DOMAIN asg : asg[a].run \in Run
  BY DEF DInv, StoreInv, StoreTypeOK, AsgRow
<1>4. OwnInv'
  BY <1>1, <1>3 DEF DInv, OwnInv, Inserted, PriorityKnown, Exists, storeVars,
                    CalculateOf, BackfillOf
<1> QED
  BY <1>1, <1>2, <1>4 DEF DInv, TickInv, Ready, ExecInv

LEMMA FlushKeeps ==
    ASSUME DInv, FlushRead \/ FlushWrite \/ FlushFails
    PROVE  DInv'
<1> USE StoreAssumption
<1>1. UNCHANGED <<delivery, prio, tick, exec>>
  BY DEF FlushRead, FlushWrite, FlushFails
<1>2. CASE FlushRead
  <2>1. StoreInv'
    BY <1>2, StoreUnchanged DEF FlushRead, DInv
  <2>2. OwnInv'
    BY <1>1, <1>2 DEF FlushRead, storeVars, DInv, OwnInv, Inserted, PriorityKnown, Exists, Queued,
                      CalculateOf, BackfillOf
  <2> QED
    BY <1>1, <2>1, <2>2 DEF DInv, TickInv, Ready, ExecInv
<1>3. CASE FlushWrite
  <2>1. flush \in SUBSET Run
    BY DEF DInv, OwnInv
  <2>2. /\ StoreInv'
        /\ \A r \in Run : Exists(r)' => Exists(r)
        /\ DOMAIN asg' = DOMAIN asg
        /\ \A a \in DOMAIN asg : asg'[a].run = asg[a].run
    BY <1>3, <2>1, DeleteRows DEF FlushWrite, DInv
  <2>3. \A a \in DOMAIN asg' : delivery[asg'[a].run] = "enqueued"
    BY <2>2 DEF DInv, OwnInv, Inserted
  <2>4. OwnInv'
    BY <1>1, <1>3, <2>2, <2>3, QuietOwn DEF FlushWrite
  <2> QED
    BY <1>1, <2>2, <2>4 DEF DInv, TickInv, Ready, ExecInv
<1>4. CASE FlushFails
  <2>1. StoreInv' /\ SameRows
    BY <1>4, StoreUnchanged DEF FlushFails, DInv
  <2>2. OwnInv'
    BY <1>1, <1>4, <2>1, SameRowsOwn DEF FlushFails
  <2> QED
    BY <1>1, <2>1, <2>2 DEF DInv, TickInv, Ready, ExecInv
<1> QED
  BY <1>2, <1>3, <1>4

LEMMA RestartKeeps ==
    ASSUME DInv, Restart
    PROVE  DInv'
<1> USE DispatchAssumption
<1>1. StoreInv' /\ SameRows /\ UNCHANGED storeVars
  BY StoreUnchanged DEF Restart, DInv
<1>2. TickInv'
  <2>1. <<>> \in Seq(Run)
    OBVIOUS
  <2>2. IdleTick \in TickState /\ IdleTick.pc = "idle"
    BY <2>1 DEF IdleTick, TickAt, TickState
  <2> QED
    BY <2>2, TickTo DEF Restart, DInv
<1>3. ExecInv'
  BY DEF Restart, EndExec, DInv, ExecInv
<1>4. /\ delivery' \in [Run -> {"sent", "accepted", "enqueued", "lost"}]
      /\ \A r \in Run : delivery[r] = "enqueued" => delivery'[r] = "enqueued"
  BY DEF Restart, DInv, OwnInv
<1>5. /\ prio' \in [Run -> 1..6]
      /\ \A r \in Run : Exists(r) => prio'[r] = BackfillOf(r)
  <2>1. prio' = [r \in Run |-> IF Exists(r) THEN BackfillOf(r) ELSE prio[r]]
    BY DEF Restart, BackfillOf
  <2> QED
    BY <2>1, PriorityOf DEF DInv, OwnInv
<1>6. \A a \in DOMAIN asg : asg[a].run \in Run
  BY DEF DInv, StoreInv, StoreTypeOK, AsgRow
<1>7. Inserted' /\ PriorityKnown' /\ flush' = {}
  BY <1>1, <1>4, <1>5, <1>6 DEF Restart, DInv, OwnInv, Inserted, PriorityKnown, Exists, storeVars,
                                CalculateOf, BackfillOf
<1> QED
  BY <1>1, <1>2, <1>3, <1>4, <1>5, <1>7 DEF DInv, OwnInv

LEMMA OverdueKeeps ==
    ASSUME DInv, OverdueStep
    PROVE  DInv'
<1>1. StoreInv /\ TickInv /\ ExecInv
  BY DEF DInv
<1>2. UNCHANGED <<delivery, prio, flush, tick, exec, asg>>
  BY DEF OverdueStep, HeartbeatAges, StartAges, Quiet
<1>3. StoreInv' /\ SameRows
  <2>1. ASSUME NEW w \in Worker, HeartbeatAges(w)
        PROVE  StoreInv' /\ SameRows
    <3>1. worker' = [worker EXCEPT ![w] = [worker[w] EXCEPT !.stale = TRUE]] /\ UNCHANGED <<run, asg>>
      BY <1>1, <2>1 DEF HeartbeatAges, StoreInv, StoreTypeOK
    <3>2. /\ [worker[w] EXCEPT !.stale = TRUE] \in WorkerRow
          /\ [worker[w] EXCEPT !.stale = TRUE].status = worker[w].status
      BY <1>1 DEF StoreInv, StoreTypeOK, WorkerRow
    <3>3. SameRows
      BY <3>1 DEF SameRows, Exists
    <3>4. worker' \in [Worker -> WorkerRow] /\ \A v \in Worker : worker'[v].status = worker[v].status
      BY <1>1, <3>1, <3>2 DEF StoreInv, StoreTypeOK
    <3> QED
      BY <1>1, <3>1, <3>3, <3>4, StoreStep DEF StoreInv, StoreTypeOK
  <2>2. ASSUME NEW r \in Run, StartAges(r)
        PROVE  StoreInv' /\ SameRows
    <3> DEFINE row == [run[r] EXCEPT !.started = "old"]
    <3>1. run' = [run EXCEPT ![r] = row] /\ UNCHANGED <<worker, asg>>
      BY <1>1, <2>2 DEF StartAges, StoreInv, StoreTypeOK
    <3>2. run[r] \in RunRow /\ run[r].status = "IN_PROGRESS"
      BY <1>1, <2>2 DEF StartAges, StoreInv, StoreTypeOK
    <3>3. row \in RunRow /\ row.status = "IN_PROGRESS"
      BY <3>2 DEF RunRow
    <3>4. Exists(r)
      BY <3>2 DEF Exists
    <3> QED
      BY <1>1, <3>1, <3>3, <3>4, RunOnly
  <2> QED
    BY <2>1, <2>2 DEF OverdueStep
<1>4. OwnInv'
  BY <1>2, <1>3, SameRowsOwn
<1> QED
  BY <1>1, <1>2, <1>3, <1>4 DEF DInv, TickInv, Ready, ExecInv

LEMMA ModeKeeps ==
    ASSUME DInv, NEW m \in Mode, SetMode(m)
    PROVE  DInv'
<1>1. UNCHANGED <<storeVars, delivery, prio, tick, exec, flush>>
  BY DEF SetMode
<1>2. StoreInv' /\ SameRows
  BY <1>1, StoreUnchanged DEF DInv
<1>3. OwnInv'
  BY <1>1, <1>2, SameRowsOwn
<1> QED
  BY <1>1, <1>2, <1>3 DEF DInv, TickInv, Ready, ExecInv

LEMMA StepKeeps ==
    ASSUME DInv, Step
    PROVE  DInv'
BY TickKeeps, ExecKeeps, EnqueueKeeps, DeliveryKeeps, FlushKeeps, RestartKeeps, ModeKeeps,
   OverdueKeeps DEF Step

LEMMA NextKeeps ==
    ASSUME DInv, [Next]_vars
    PROVE  DInv'
<1>1. CASE Next
  BY <1>1, StepKeeps DEF Next
<1>2. CASE UNCHANGED vars
  <2>1. UNCHANGED <<storeVars, delivery, prio, tick, exec, flush>>
    BY <1>2 DEF vars, ownVars
  <2>2. StoreInv' /\ SameRows
    BY <2>1, StoreUnchanged DEF DInv
  <2>3. OwnInv'
    BY <2>1, <2>2, SameRowsOwn
  <2> QED
    BY <2>1, <2>2, <2>3 DEF DInv, TickInv, Ready, ExecInv
<1> QED
  BY <1>1, <1>2

LEMMA Invariance == Spec => []DInv
<1>1. Init => DInv
  BY InitDInv, StoreAssumption, DispatchAssumption
<1>2. DInv /\ [Next]_vars => DInv'
  BY NextKeeps
<1> QED
  BY <1>1, <1>2, PTL DEF Spec

-----------------------------------------------------------------------------
(* Types *)

RestInv ==
    /\ mode \in [Ticker -> Mode]
    /\ arrived \in [Run -> Nat]
    /\ upsets \in 0..MaxUpsets
    /\ passed \in [Ticker -> [Run -> Nat]]

LEMMA StepKeepsRest ==
    ASSUME RestInv, Step
    PROVE  /\ mode' \in [Ticker -> Mode]
           /\ arrived' \in [Run -> Nat]
           /\ upsets' \in 0..MaxUpsets
<1> USE DispatchAssumption
<1>1. ASSUME Upset
      PROVE  upsets' \in 0..MaxUpsets
  BY <1>1 DEF Upset, RestInv
<1>2. CASE UNCHANGED <<mode, arrived, upsets>>
  BY <1>2 DEF RestInv
<1>3. ASSUME NEW r \in Run, Enqueue(r)
      PROVE  arrived' \in [Run -> Nat] /\ UNCHANGED <<mode, upsets>>
  <2>1. IsFiniteSet({q \in Run : delivery[q] = "enqueued"})
    BY FS_Subset
  <2>2. 1 + Cardinality({q \in Run : delivery[q] = "enqueued"}) \in Nat
    BY <2>1, FS_CardinalityType
  <2> QED
    BY <1>3, <2>2 DEF Enqueue, RestInv
<1>4. CASE Restart
  BY <1>1, <1>4 DEF Restart, RestInv, Mode
<1>5. ASSUME NEW m \in Mode, SetMode(m)
      PROVE  mode' \in [Ticker -> Mode] /\ upsets' \in 0..MaxUpsets /\ arrived' = arrived
  BY <1>1, <1>5 DEF SetMode, RestInv
<1>6. CASE FlushRead
  BY <1>1, <1>6 DEF FlushRead, RestInv
<1>7. \/ UNCHANGED <<mode, arrived, upsets>> \/ Restart \/ FlushRead
      \/ \E r \in Run : Enqueue(r)
      \/ \E m \in Mode : SetMode(m)
  BY DEF Step, Accept, Refuse, TickStep, TickRecover, TickSelect, TickClaim, TickPick,
         TickAssign, TickRevert, Quiet, ExecStep, ExecStarted, ExecEnds,
         FlushWrite, FlushFails, OverdueStep, HeartbeatAges, StartAges
<1> QED
  BY <1>2, <1>3, <1>4, <1>5, <1>6, <1>7 DEF RestInv

LEMMA ObserveTyped ==
    ASSUME RestInv, Observe
    PROVE  passed' \in [Ticker -> [Run -> Nat]]
<1> DEFINE count(t, r) == IF \/ run'[r].status # "QUEUED"
                             \/ \E q \in Run : Exists(q) /\ Reordered(t, q) THEN 0
                          ELSE IF /\ passed[t][r] <= MaxExec
                                  /\ \E q \in Queued : Takes(t, q) /\ Ahead(t, r, q)
                          THEN passed[t][r] + 1
                          ELSE passed[t][r]
<1>1. passed' = [t \in Ticker |-> [r \in Run |-> count(t, r)]]
  BY DEF Observe
<1>2. \A t \in Ticker, r \in Run : count(t, r) \in Nat
  BY DEF RestInv
<1> HIDE DEF count
<1> QED
  BY <1>1, <1>2

LEMMA RestInvariance == Spec => []RestInv
<1>1. Init => RestInv
  BY DispatchAssumption DEF Init, RestInv, Mode
<1>2. RestInv /\ [Next]_vars => RestInv'
  <2>1. CASE Next
    BY <2>1, StepKeepsRest, ObserveTyped DEF Next, RestInv
  <2>2. CASE UNCHANGED vars
    BY <2>2 DEF vars, ownVars, RestInv
  <2> QED
    BY <2>1, <2>2
<1> QED
  BY <1>1, <1>2, PTL DEF Spec

(***************************************************************************)
(* Deliveries, priorities, ticks, executions and the tables only ever hold *)
(* what they are declared to hold: in particular the queue's priorities    *)
(* stay within 1..6 and a load between 0 and 1, whatever fails or restarts.*)
(***************************************************************************)
THEOREM TypeCorrect == Spec => []TypeOK
<1>1. DInv /\ RestInv => TypeOK
  BY DEF DInv, StoreInv, TickInv, ExecInv, OwnInv, RestInv, TypeOK
<1> QED
  BY <1>1, Invariance, RestInvariance, PTL

-----------------------------------------------------------------------------
(* The theorems *)

(***************************************************************************)
(* A worker is BUSY only for an open assignment or for one whose run was   *)
(* deleted under it: every other transaction that closes rows frees the    *)
(* worker, whatever ticks, executions, flushes and restarts interleave.    *)
(***************************************************************************)
THEOREM BusyIsAccountedFor == Spec => []BusyAccounted
<1>1. DInv => BusyAccounted
  <2> SUFFICES ASSUME DInv, NEW w \in Worker, worker[w].status = "BUSY"
               PROVE  \/ OpenOn(w) # {}
                      \/ \E a \in AsgId : LastOn(w, a) /\ Deleted(asg[a].run)
    BY DEF BusyAccounted
  <2>1. PICK a \in AsgId : LastOn(w, a) /\ (asg[a].status \in OpenStatus \/ ~Exists(asg[a].run))
    BY DEF DInv, StoreInv, BusyLast
  <2>2. a \in DOMAIN asg /\ asg[a].worker = w
    BY <2>1 DEF LastOn
  <2>3. CASE asg[a].status \in OpenStatus
    BY <2>2, <2>3 DEF OpenOn, Open
  <2>4. CASE ~Exists(asg[a].run)
    BY <2>1, <2>2, <2>4 DEF DInv, OwnInv, Inserted, Deleted
  <2> QED
    BY <2>1, <2>3, <2>4
<1> QED
  BY <1>1, Invariance, PTL

(***************************************************************************)
(* A row of the queue never moves forward: only a restart rewrites         *)
(* priorities, and never to a smaller one.                                 *)
(***************************************************************************)
LEMMA StepDemotes ==
    ASSUME DInv, [Next]_vars, NEW r \in Run, Exists(r)
    PROVE  prio'[r] >= prio[r]
<1> USE DispatchAssumption
<1>1. prio[r] \in {CalculateOf(r), BackfillOf(r)} /\ prio[r] \in 1..6
  BY DEF DInv, OwnInv, PriorityKnown
<1>2. CASE UNCHANGED prio
  BY <1>1, <1>2
<1>3. CASE Restart
  <2>1. prio'[r] = BackfillOf(r)
    BY <1>3 DEF Restart, BackfillOf
  <2> QED
    BY <1>1, <2>1, PriorityOf
<1>4. ASSUME NEW q \in Run, Enqueue(q)
      PROVE  prio'[r] >= prio[r]
  <2>1. q # r
    BY <1>4 DEF Enqueue, SchedulePipeline, Exists
  <2>2. prio'[r] = prio[r]
    BY <1>4, <2>1 DEF Enqueue, DInv, OwnInv
  <2> QED
    BY <1>1, <2>2
<1>5. CASE Next
  <2>1. \/ UNCHANGED prio \/ Restart \/ \E q \in Run : Enqueue(q)
    BY <1>5 DEF Next, Step, Accept, Refuse, TickStep, TickRecover, TickSelect, TickClaim, TickPick,
                TickAssign, TickRevert, Quiet, ExecStep, ExecStarted, ExecEnds, FlushRead,
                FlushWrite, FlushFails, SetMode, OverdueStep, HeartbeatAges, StartAges
  <2> QED
    BY <1>2, <1>3, <1>4, <2>1
<1>6. CASE UNCHANGED vars
  BY <1>2, <1>6 DEF vars, ownVars
<1> QED
  BY <1>5, <1>6

THEOREM RestartsOnlyDemote == Spec => RestartOnlyDemotes
<1>1. DInv /\ [Next]_vars
        => [\A r \in Run : Exists(r) /\ Exists(r)' => prio'[r] >= prio[r]]_vars
  BY StepDemotes
<1> QED
  BY <1>1, Invariance, PTL DEF Spec, RestartOnlyDemotes

-----------------------------------------------------------------------------
(* The queue's order *)

(***************************************************************************)
(* The runs of its batch that a ticker has yet to come to.                 *)
(***************************************************************************)
Left(t) ==
    IF tick[t].pc \in {"idle", "select"} THEN <<>>
    ELSE IF tick[t].pc = "claim" THEN tick[t].todo ELSE Tail(tick[t].todo)

\* No run behind r is taken before r.
InFront(t, r) ==
    \A i \in 1..Len(Left(t)) : Ahead(t, r, Left(t)[i]) => \E j \in 1..i : Left(t)[j] = r

(***************************************************************************)
(* A ticker never has more than a batch ahead of it, of runs that have been*)
(* inserted, so that their places in the order are fixed.                  *)
(***************************************************************************)
BatchInv(t) ==
    /\ Left(t) \in Seq(Run) /\ Len(Left(t)) <= MaxExec
    /\ \A i \in 1..Len(Left(t)) : delivery[Left(t)[i]] = "enqueued"

(***************************************************************************)
(* A waiting run is in front of what is left of a ticker's batch, or has   *)
(* been passed over by no more than has gone from it: it came, or came     *)
(* back, after the batch was read.                                         *)
(***************************************************************************)
WaitInv(t, r) ==
    /\ run[r].status # "QUEUED" => passed[t][r] = 0
    /\ passed[t][r] <= MaxExec
    /\ InFront(t, r) \/ passed[t][r] + Len(Left(t)) <= MaxExec

OrderInv == \A t \in Ticker : BatchInv(t) /\ \A r \in Run : WaitInv(t, r)

LEMMA InitOrder == Init => OrderInv
<1> SUFFICES ASSUME Init PROVE OrderInv
  OBVIOUS
<1>1. ASSUME NEW t \in Ticker PROVE Left(t) = <<>>
  BY DEF Init, IdleTick, TickAt, Left
<1>2. <<>> \in Seq(Run) /\ Len(<<>>) = 0
  OBVIOUS
<1>3. MaxExec \in Nat
  BY DispatchAssumption DEF DispatchAssumption
<1>4. ASSUME NEW t \in Ticker PROVE BatchInv(t)
  <2>1. Left(t) \in Seq(Run) /\ Len(Left(t)) = 0
    BY <1>1, <1>2
  <2> QED
    BY <1>3, <2>1 DEF BatchInv
<1>5. ASSUME NEW t \in Ticker, NEW r \in Run PROVE WaitInv(t, r)
  <2>1. passed[t][r] = 0
    BY DEF Init
  <2> QED
    BY <1>1, <1>2, <1>3, <2>1 DEF WaitInv
<1> QED
  BY <1>4, <1>5 DEF OrderInv

\* What is left of a sequence without its first member.
LEMMA ShorterByOne ==
    ASSUME NEW S, NEW s \in Seq(S), s # <<>>
    PROVE  /\ Tail(s) \in Seq(S) /\ Len(s) \in Nat /\ Len(s) >= 1
           /\ Head(s) = s[1] /\ Len(Tail(s)) = Len(s) - 1
           /\ \A i \in 1..(Len(s) - 1) : Tail(s)[i] = s[i + 1]
<1>1. Len(s) \in Nat /\ Len(s) >= 1 /\ Head(s) = s[1]
  OBVIOUS
<1>2. Tail(s) \in Seq(S) /\ Len(Tail(s)) = Len(s) - 1
  OBVIOUS
<1>3. \A i \in 1..(Len(s) - 1) : Tail(s)[i] = s[i + 1]
  OBVIOUS
<1> QED
  BY <1>1, <1>2, <1>3

\* A batch in progress is not empty.
LEMMA AtWork ==
    ASSUME TickInv, NEW t \in Ticker, ~At(t, "idle"), ~At(t, "select")
    PROVE  tick[t].todo \in Seq(Run) /\ tick[t].todo # <<>>
BY DEF TickInv, Ready, At, TickState

\* A ticker that moves on leaves the run it was at.
LEMMA NextLeft ==
    ASSUME NEW t \in Ticker, tick'[t] = NextRun(t)
    PROVE  Left(t)' = Tail(tick[t].todo) /\ tick'[t].pc # "pick"
<1> DEFINE rest == Tail(tick[t].todo)
<1>1. CASE rest = <<>>
  <2>1. tick'[t].pc = "idle"
    BY <1>1 DEF NextRun, IdleTick, TickAt
  <2> QED
    BY <1>1, <2>1 DEF Left
<1>2. CASE rest # <<>>
  <2>1. tick'[t].pc = "claim" /\ tick'[t].todo = rest
    BY <1>2 DEF NextRun, TickAt
  <2> QED
    BY <2>1 DEF Left
<1> QED
  BY <1>1, <1>2

\* A ticker that claims comes to the first run it has left.
LEMMA ClaimMoves ==
    ASSUME DInv, NEW t \in Ticker, TickClaim(t)
    PROVE  /\ Left(t) \in Seq(Run) /\ Left(t) # <<>> /\ Left(t)' = Tail(Left(t))
           /\ Current(t) = Left(t)[1]
           /\ \A r \in Run : run'[r].status = "QUEUED" => run[r].status = "QUEUED" /\ Left(t)[1] # r
           /\ delivery' = delivery
<1>1. TickInv /\ At(t, "claim") /\ run \in [Run -> RunRow] /\ delivery' = delivery
  BY DEF DInv, StoreInv, StoreTypeOK, TickClaim, Quiet
<1>2. ~At(t, "idle") /\ ~At(t, "select")
  BY <1>1 DEF At
<1>3. tick[t].todo \in Seq(Run) /\ tick[t].todo # <<>> /\ Current(t) \in Run
  BY <1>1, <1>2, AtWork, CurrentIsRun
<1>4. Left(t) = tick[t].todo
  BY <1>1 DEF At, Left
<1>5. Current(t) = Left(t)[1]
  BY <1>3, <1>4, ShorterByOne DEF Current
<1>6. CASE run[Current(t)].status = "QUEUED"
  <2>1. /\ run' = [run EXCEPT ![Current(t)].status = "IN_PROGRESS", ![Current(t)].started = "recent"]
        /\ tick' = [tick EXCEPT ![t].pc = "pick"]
    BY <1>6 DEF TickClaim
  <2>2. Left(t)' = Tail(Left(t))
    <3>1. tick'[t].pc = "pick" /\ tick'[t].todo = tick[t].todo
      BY <1>1, <2>1 DEF TickInv, TickState
    <3> QED
      BY <1>4, <3>1 DEF Left
  <2>3. ASSUME NEW r \in Run, run'[r].status = "QUEUED"
        PROVE  run[r].status = "QUEUED" /\ Left(t)[1] # r
    <3>1. r # Current(t)
      BY <1>1, <1>3, <2>1, <2>3 DEF RunRow
    <3> QED
      BY <1>1, <1>3, <1>5, <2>1, <2>3, <3>1
  <2> QED
    BY <1>1, <1>3, <1>4, <1>5, <2>2, <2>3
<1>7. CASE run[Current(t)].status # "QUEUED"
  <2>1. run' = run /\ tick' = [tick EXCEPT ![t] = NextRun(t)]
    BY <1>7 DEF TickClaim
  <2>2. Left(t)' = Tail(Left(t))
    <3>1. tick'[t] = NextRun(t)
      BY <1>1, <2>1 DEF TickInv
    <3> QED
      BY <1>4, <3>1, NextLeft
  <2> QED
    BY <1>1, <1>3, <1>4, <1>5, <1>7, <2>1, <2>2
<1> QED
  BY <1>6, <1>7

\* A new batch is of queued runs, in their order.
LEMMA SelectMoves ==
    ASSUME DInv, NEW t \in Ticker, TickSelect(t)
    PROVE  /\ Left(t)' \in Seq(Queued) /\ Len(Left(t)') <= MaxExec
           /\ Left(t)' = <<>> \/ IsBatch(t, Left(t)')
           /\ ~At(t, "claim")
           /\ UNCHANGED <<run, delivery, prio, arrived, mode>>
<1>1. TickInv /\ At(t, "select") /\ MaxExec \in Nat /\ UNCHANGED <<run, delivery, prio, arrived, mode>>
  BY DispatchAssumption DEF DInv, TickSelect, DispatchAssumption, Quiet, storeVars
<1>2. PICK b \in Batches :
        /\ IF Room THEN IsBatch(t, b) ELSE b = <<>>
        /\ tick' = [tick EXCEPT ![t] = IF b = <<>> THEN IdleTick ELSE TickAt("claim", b)]
  BY DEF TickSelect
<1>3. b \in Seq(Queued) /\ Len(b) <= MaxExec
  <2>1. PICK n \in 0..MaxExec : b \in [1..n -> Queued]
    BY DEF Batches
  <2>2. n \in Nat /\ n <= MaxExec
    BY <1>1
  <2> QED
    BY <2>1, <2>2
<1>4. Left(t)' = b
  <2>1. tick'[t] = IF b = <<>> THEN IdleTick ELSE TickAt("claim", b)
    BY <1>1, <1>2 DEF TickInv
  <2> QED
    BY <2>1 DEF Left, IdleTick, TickAt
<1> QED
  BY <1>1, <1>2, <1>3, <1>4 DEF At

\* No other step gives a ticker new runs, or makes it take one.
LEMMA LeftStays ==
    ASSUME DInv, Step, NEW t \in Ticker, ~TickClaim(t), ~TickSelect(t)
    PROVE  /\ Left(t)' = Left(t) \/ Left(t)' = <<>>
           /\ ~(At(t, "claim") /\ tick'[t].pc = "pick")
<1>1. TickInv /\ tick \in [Ticker -> TickState] /\ Web \in Ticker
  BY DispatchAssumption DEF DInv, TickInv, DispatchAssumption
<1>2. ASSUME tick'[t] = tick[t]
      PROVE  Left(t)' = Left(t) /\ ~(At(t, "claim") /\ tick'[t].pc = "pick")
  BY <1>2 DEF Left, At
<1>3. ASSUME tick'[t] = IdleTick
      PROVE  Left(t)' = <<>> /\ ~(At(t, "claim") /\ tick'[t].pc = "pick")
  BY <1>3 DEF Left, At, IdleTick, TickAt
<1>4. ASSUME NEW u \in Ticker, TickStep(u), u # t
      PROVE  tick'[t] = tick[t]
  BY <1>1, <1>4 DEF TickStep, TickRecover, TickSelect, TickClaim, TickPick, TickAssign, TickRevert
<1>5. CASE TickRecover(t)
  <2>1. tick[t].pc = "idle" /\ tick'[t].pc = "select"
    BY <1>1, <1>5 DEF TickRecover, At
  <2> QED
    BY <2>1 DEF Left, At
<1>6. CASE TickPick(t)
  <2>1. /\ tick[t].pc = "pick" /\ tick'[t].pc \in {"assign", "revert"}
        /\ tick'[t].todo = tick[t].todo
    <3>1. tick[t].pc = "pick" /\ tick[t] \in TickState
      BY <1>1, <1>6 DEF TickPick, At
    <3>2. ASSUME tick' = [tick EXCEPT ![t].pc = "revert"]
          PROVE  tick'[t].pc = "revert" /\ tick'[t].todo = tick[t].todo
      BY <1>1, <3>1, <3>2 DEF TickState
    <3>3. ASSUME NEW w, tick' = [tick EXCEPT ![t].pc = "assign", ![t].pick = w, ![t].load = worker[w].load]
          PROVE  tick'[t].pc = "assign" /\ tick'[t].todo = tick[t].todo
      BY <1>1, <3>1, <3>3 DEF TickState
    <3> QED
      BY <1>6, <3>1, <3>2, <3>3 DEF TickPick
  <2> QED
    BY <2>1 DEF Left, At
<1>7. ASSUME tick[t].pc \in {"assign", "revert"}, tick'[t] = NextRun(t)
      PROVE  Left(t)' = Left(t) /\ ~(At(t, "claim") /\ tick'[t].pc = "pick")
  BY <1>7, NextLeft DEF Left
<1>8. CASE TickAssign(t)
  <2>1. tick[t].pc = "assign" /\ (tick'[t] = NextRun(t) \/ tick'[t] = IdleTick)
    BY <1>1, <1>8 DEF TickAssign, At
  <2> QED
    BY <1>3, <1>7, <2>1
<1>9. CASE TickRevert(t)
  <2>1. tick[t].pc = "revert" /\ tick'[t] = NextRun(t)
    BY <1>1, <1>9 DEF TickRevert, At
  <2> QED
    BY <1>7, <2>1
<1>10. CASE Restart
  <2>1. tick'[t] = IF t = Web THEN IdleTick ELSE tick[t]
    BY <1>1, <1>10 DEF Restart
  <2> QED
    BY <1>2, <1>3, <2>1
<1>11. CASE UNCHANGED tick
  BY <1>2, <1>11
<1>12. \/ UNCHANGED tick \/ Restart \/ \E u \in Ticker : TickStep(u)
  BY DEF Step, Accept, Enqueue, Refuse, ExecStep, ExecStarted, ExecEnds, FlushRead,
         FlushWrite, FlushFails, SetMode, OverdueStep, HeartbeatAges, StartAges
<1>13. TickStep(t) => TickRecover(t) \/ TickPick(t) \/ TickAssign(t) \/ TickRevert(t)
  BY DEF TickStep
<1> QED
  BY <1>2, <1>4, <1>5, <1>6, <1>8, <1>9, <1>10, <1>11, <1>12, <1>13

\* A run that was inserted keeps its place, unless a restart ranks it again.
LEMMA PlacesKept ==
    ASSUME DInv, RestInv, Step, NEW q \in Run, delivery[q] = "enqueued"
    PROVE  /\ delivery'[q] = "enqueued" /\ arrived'[q] = arrived[q]
           /\ prio'[q] = prio[q] \/ Exists(q)
<1>1. delivery \in [Run -> {"sent", "accepted", "enqueued", "lost"}] /\ prio \in [Run -> 1..6]
      /\ arrived \in [Run -> Nat]
  BY DEF DInv, OwnInv, RestInv
<1>2. ASSUME NEW r \in Run, Accept(r) \/ Refuse(r)
      PROVE  delivery'[q] = "enqueued" /\ UNCHANGED <<prio, arrived>>
  BY <1>1, <1>2 DEF Accept, Refuse
<1>3. ASSUME NEW r \in Run, Enqueue(r)
      PROVE  delivery'[q] = "enqueued" /\ arrived'[q] = arrived[q] /\ prio'[q] = prio[q]
  <2>1. r # q
    BY <1>3 DEF Enqueue
  <2> QED
    BY <1>1, <1>3, <2>1 DEF Enqueue
<1>4. CASE Restart
  BY <1>1, <1>4 DEF Restart
<1>5. CASE UNCHANGED <<delivery, prio, arrived>>
  BY <1>5
<1>6. \/ UNCHANGED <<delivery, prio, arrived>> \/ Restart
      \/ \E r \in Run : Enqueue(r) \/ Accept(r) \/ Refuse(r)
  BY DEF Step, TickStep, TickRecover, TickSelect, TickClaim, TickPick,
         TickAssign, TickRevert, Quiet, ExecStep, ExecStarted, ExecEnds, FlushRead,
         FlushWrite, FlushFails, SetMode, OverdueStep, HeartbeatAges, StartAges
<1> QED
  BY <1>2, <1>3, <1>4, <1>5, <1>6

\* Of two runs at most one is ahead of the other.
LEMMA AheadOneWay ==
    ASSUME DInv, RestInv, NEW t \in Ticker, NEW a \in Run, NEW b \in Run, Ahead(t, a, b)
    PROVE  ~Ahead(t, b, a)
<1>1. prio[a] \in Nat /\ prio[b] \in Nat /\ arrived[a] \in Nat /\ arrived[b] \in Nat
  BY DEF DInv, OwnInv, RestInv
<1> QED
  BY <1>1 DEF Ahead

\* Each batch is taken in the queue's order.
LEMMA BatchInFront ==
    ASSUME DInv, RestInv, NEW t \in Ticker, NEW r \in Run, run[r].status = "QUEUED", TickSelect(t)
    PROVE  InFront(t, r)'
<1> DEFINE b == Left(t)'
<1>1. /\ b \in Seq(Queued) /\ (b = <<>> \/ IsBatch(t, b)) /\ UNCHANGED <<prio, arrived, mode>>
      /\ r \in Queued /\ Queued \subseteq Run
  BY SelectMoves DEF Queued
<1> SUFFICES ASSUME NEW i \in 1..Len(b), Ahead(t, r, b[i])
             PROVE  \E j \in 1..i : b[j] = r
  BY <1>1 DEF InFront, Ahead
<1> HIDE DEF b
<1>2. Len(b) \in Nat /\ DOMAIN b = 1..Len(b) /\ b[i] \in Run /\ b # <<>>
  BY <1>1
<1>3. \A k, j \in 1..Len(b) : k < j => Ahead(t, b[k], b[j])
  BY <1>1, <1>2 DEF IsBatch
<1>4. \A k \in 1..Len(b), q \in Queued \ Chosen(b) : Ahead(t, b[k], q)
  BY <1>1, <1>2 DEF IsBatch
<1>5. ~Ahead(t, b[i], r)
  BY <1>2, AheadOneWay
<1>6. r \in Chosen(b)
  BY <1>1, <1>4, <1>5
<1>7. PICK j \in 1..Len(b) : b[j] = r
  BY <1>2, <1>6 DEF Chosen
<1>8. ~(i < j)
  BY <1>3, <1>5, <1>7
<1> QED
  BY <1>2, <1>7, <1>8

LEMMA BatchKept ==
    ASSUME DInv, RestInv, OrderInv, Step, NEW t \in Ticker
    PROVE  BatchInv(t)'
<1>1. BatchInv(t) /\ MaxExec \in Nat
  BY DispatchAssumption DEF OrderInv, DispatchAssumption
<1> DEFINE s == Left(t)
           u == Left(t)'
<1>a. s \in Seq(Run) /\ Len(s) <= MaxExec /\ \A i \in 1..Len(s) : s[i] \in Run /\ delivery[s[i]] = "enqueued"
  BY <1>1 DEF BatchInv
<1>2. \A q \in Run : delivery[q] = "enqueued" => delivery'[q] = "enqueued"
  BY PlacesKept
<1>3. ASSUME u \in Seq(Run), Len(u) <= MaxExec,
             \A i \in 1..Len(u) : u[i] \in Run /\ delivery[u[i]] = "enqueued"
      PROVE  BatchInv(t)'
  BY <1>2, <1>3 DEF BatchInv
<1>4. CASE TickClaim(t)
  <2>1. s # <<>> /\ u = Tail(s)
    BY <1>4, ClaimMoves
  <2> HIDE DEF s, u
  <2>2. Len(s) \in Nat /\ u \in Seq(Run) /\ Len(u) = Len(s) - 1 /\ Len(s) >= 1
        /\ \A i \in 1..(Len(s) - 1) : u[i] = s[i + 1]
    BY <1>a, <2>1, ShorterByOne
  <2>3. \A i \in 1..Len(u) : i + 1 \in 1..Len(s) /\ u[i] = s[i + 1]
    BY <2>2
  <2>4. Len(u) <= MaxExec
    BY <1>1, <1>a, <2>2
  <2> QED
    BY <1>3, <1>a, <2>2, <2>3, <2>4 DEF u
<1>5. CASE TickSelect(t)
  <2>1. u \in Seq(Queued) /\ Len(u) <= MaxExec
    BY <1>5, SelectMoves
  <2> HIDE DEF u
  <2>2. u \in Seq(Run) /\ \A i \in 1..Len(u) : u[i] \in Queued
    BY <2>1 DEF Queued
  <2>3. \A q \in Queued : q \in Run /\ delivery[q] = "enqueued"
    BY DEF DInv, OwnInv, Inserted, Queued, Exists
  <2> QED
    BY <1>3, <2>1, <2>2, <2>3 DEF u
<1>6. CASE u = s
  <2> HIDE DEF s, u
  <2> QED
    BY <1>3, <1>a, <1>6 DEF u
<1>7. CASE u = <<>>
  <2> HIDE DEF u
  <2>1. u \in Seq(Run) /\ Len(u) = 0
    BY <1>7
  <2> QED
    BY <1>1, <1>3, <2>1 DEF u
<1> QED
  BY <1>4, <1>5, <1>6, <1>7, LeftStays

LEMMA WaitKept ==
    ASSUME DInv, RestInv, OrderInv, Step, Observe, NEW t \in Ticker, NEW r \in Run
    PROVE  WaitInv(t, r)'
<1> DEFINE s == Left(t)
           n == passed[t][r]
           m == passed'[t][r]
           still == run'[r].status = "QUEUED" /\ ~\E q \in Run : Exists(q) /\ Reordered(t, q)
           taken == \E q \in Queued : Takes(t, q) /\ Ahead(t, r, q)
<1>0. PICK u : u = Left(t)'
  OBVIOUS
<1>1. /\ MaxExec \in Nat /\ n \in Nat /\ n <= MaxExec
      /\ run[r].status # "QUEUED" => n = 0
      /\ InFront(t, r) \/ n + Len(s) <= MaxExec
      /\ s \in Seq(Run) /\ Len(s) \in Nat
      /\ \A i \in 1..Len(s) : s[i] \in Run /\ delivery[s[i]] = "enqueued"
  BY DispatchAssumption DEF OrderInv, WaitInv, BatchInv, DispatchAssumption, RestInv
<1>2. u \in Seq(Run) /\ Len(u) \in Nat /\ Len(u) <= MaxExec
  BY <1>0, BatchKept DEF BatchInv
<1>3. m = IF ~still THEN 0 ELSE IF n <= MaxExec /\ taken THEN n + 1 ELSE n
  BY DEF Observe
<1>4. SUFFICES /\ run'[r].status # "QUEUED" => m = 0
               /\ m <= MaxExec
               /\ InFront(t, r)' \/ m + Len(u) <= MaxExec
  BY <1>0 DEF WaitInv
<1> HIDE DEF n, m
<1>5. CASE ~still
  <2>1. m = 0
    BY <1>3, <1>5
  <2> QED
    BY <1>1, <1>2, <2>1
<1>6. ASSUME still, run[r].status # "QUEUED" PROVE m = 0
  <2>1. ~taken
    <3> SUFFICES ASSUME At(t, "claim"), tick'[t].pc = "pick" PROVE FALSE
      BY DEF Takes
    <3>1. CASE TickClaim(t)
      BY <1>6, <3>1, ClaimMoves
    <3>2. CASE TickSelect(t)
      BY <3>2, SelectMoves
    <3> QED
      BY <3>1, <3>2, LeftStays
  <2> QED
    BY <1>1, <1>3, <1>6, <2>1
<1>7. CASE still /\ run[r].status # "QUEUED"
  <2>1. m = 0
    BY <1>6, <1>7
  <2> QED
    BY <1>1, <1>2, <1>7, <2>1
<1>8. CASE still /\ run[r].status = "QUEUED"
  <2>1. Exists(r) /\ delivery[r] = "enqueued"
    BY <1>8 DEF Exists, DInv, OwnInv, Inserted
  <2>2. mode'[t] = mode[t]
    BY <1>8, <2>1 DEF Reordered
  <2>3. ASSUME NEW q \in Run, delivery[q] = "enqueued"
        PROVE  prio'[q] = prio[q] /\ arrived'[q] = arrived[q]
    BY <1>8, <2>3, PlacesKept DEF Reordered
  <2>4. ASSUME NEW q \in Run, delivery[q] = "enqueued"
        PROVE  Ahead(t, r, q)' <=> Ahead(t, r, q)
    BY <2>1, <2>2, <2>3, <2>4 DEF Ahead
  <2>5. CASE TickClaim(t)
    <3>1. /\ s # <<>> /\ u = Tail(s) /\ Current(t) = s[1] /\ s[1] # r
      BY <1>0, <1>8, <2>5, ClaimMoves
    <3> DEFINE first == Current(t)
    <3>2. taken => Ahead(t, r, s[1])
      BY <3>1 DEF Takes
    <3> HIDE DEF taken, s
    <3>3. Len(s) >= 1 /\ Len(u) = Len(s) - 1 /\ \A i \in 1..(Len(s) - 1) : u[i] = s[i + 1]
      BY <1>1, <3>1, ShorterByOne
    <3>4. ASSUME taken PROVE ~InFront(t, r)
      <4> SUFFICES ASSUME InFront(t, r) PROVE FALSE
        OBVIOUS
      <4>1. 1 \in 1..Len(s) /\ Ahead(t, r, s[1])
        BY <1>1, <3>2, <3>3, <3>4
      <4>2. \E j \in 1..1 : s[j] = r
        BY <4>1 DEF InFront, s
      <4> QED
        BY <3>1, <4>2
    <3>5. ASSUME InFront(t, r) PROVE InFront(t, r)'
      <4> SUFFICES ASSUME NEW i \in 1..Len(u), Ahead(t, r, u[i])'
                   PROVE  \E j \in 1..i : u[j] = r
        BY <1>0 DEF InFront
      <4>1. i + 1 \in 1..Len(s) /\ u[i] = s[i + 1]
        BY <1>1, <3>3
      <4>2. Ahead(t, r, s[i + 1])
        BY <1>1, <2>4, <4>1
      <4>3. PICK j \in 1..(i + 1) : s[j] = r
        BY <3>5, <4>1, <4>2 DEF InFront, s
      <4>4. j # 1
        BY <3>1, <4>3
      <4>5. j - 1 \in 1..i /\ j - 1 \in 1..(Len(s) - 1)
        BY <1>1, <4>1, <4>3, <4>4
      <4>6. u[j - 1] = s[(j - 1) + 1]
        BY <3>3, <4>5
      <4> QED
        BY <4>3, <4>5, <4>6
    <3>6. CASE taken
      BY <1>1, <1>3, <1>8, <3>3, <3>4, <3>6
    <3>7. CASE ~taken
      <4>1. m = n
        BY <1>3, <1>8, <3>7
      <4> QED
        BY <1>1, <1>8, <3>3, <3>5, <4>1
    <3> QED
      BY <3>6, <3>7
  <2>6. ASSUME ~TickClaim(t) PROVE m = n
    <3>1. ~(At(t, "claim") /\ tick'[t].pc = "pick")
      BY <2>6, LeftStays, SelectMoves
    <3> QED
      BY <1>3, <1>8, <3>1 DEF Takes
  <2>7. CASE TickSelect(t)
    <3>1. InFront(t, r)'
      BY <1>8, <2>7, BatchInFront
    <3>2. ~TickClaim(t)
      BY <2>7 DEF TickSelect, TickClaim, At
    <3> QED
      BY <1>1, <1>8, <2>6, <3>1, <3>2
  <2>8. CASE ~TickClaim(t) /\ u = s
    <3>1. InFront(t, r) => InFront(t, r)'
      <4> SUFFICES ASSUME InFront(t, r), NEW i \in 1..Len(u), Ahead(t, r, u[i])'
                   PROVE  \E j \in 1..i : u[j] = r
        BY <1>0 DEF InFront
      <4>1. Ahead(t, r, s[i])
        BY <1>1, <2>4, <2>8
      <4> QED
        BY <2>8, <4>1 DEF InFront
    <3> QED
      BY <1>1, <1>8, <2>6, <2>8, <3>1
  <2>9. CASE ~TickClaim(t) /\ u = <<>>
    <3>1. InFront(t, r)'
      BY <1>0, <2>9 DEF InFront
    <3> QED
      BY <1>1, <1>8, <2>6, <2>9, <3>1
  <2> QED
    BY <1>0, <2>5, <2>7, <2>8, <2>9, LeftStays
<1> QED
  BY <1>5, <1>7, <1>8

LEMMA OrderKept ==
    ASSUME DInv, RestInv, OrderInv, [Next]_vars
    PROVE  OrderInv'
<1>1. CASE Next
  BY <1>1, BatchKept, WaitKept DEF Next, OrderInv
<1>2. CASE UNCHANGED vars
  <2>1. UNCHANGED <<run, delivery, prio, arrived, mode, tick, passed>>
    BY <1>2 DEF vars, storeVars, ownVars
  <2>2. \A t \in Ticker : Left(t)' = Left(t)
    BY <2>1 DEF Left
  <2>3. \A t \in Ticker, r, q \in Run : Ahead(t, r, q)' <=> Ahead(t, r, q)
    BY <2>1 DEF Ahead
  <2>4. ASSUME NEW t \in Ticker PROVE BatchInv(t)'
    BY <2>1, <2>2 DEF OrderInv, BatchInv
  <2>5. ASSUME NEW t \in Ticker, NEW r \in Run PROVE InFront(t, r)' <=> InFront(t, r)
    <3>1. \A i \in 1..Len(Left(t)) : Left(t)[i] \in Run
      BY DEF OrderInv, BatchInv
    <3> QED
      BY <2>2, <2>3, <3>1 DEF InFront
  <2>6. ASSUME NEW t \in Ticker, NEW r \in Run PROVE WaitInv(t, r)'
    BY <2>1, <2>2, <2>5 DEF OrderInv, WaitInv
  <2> QED
    BY <2>4, <2>6 DEF OrderInv
<1> QED
  BY <1>1, <1>2

(***************************************************************************)
(* For any number of runs, tickers and any batch size: a ticker takes at   *)
(* most one batch of runs behind a waiting one, however many arrive, are   *)
(* deleted, recovered or given back by the others.                         *)
(* (the queue query of _scheduler_tick_async against its stale batch)      *)
(***************************************************************************)
THEOREM NobodyIsPassedForLong == Spec => []BoundedOvertaking
<1>1. OrderInv => BoundedOvertaking
  BY DEF OrderInv, WaitInv, BoundedOvertaking
<1>2. DInv /\ RestInv /\ OrderInv /\ [Next]_vars => OrderInv'
  BY OrderKept
<1> QED
  BY <1>1, <1>2, InitOrder, Invariance, RestInvariance, PTL DEF Spec
=============================================================================
