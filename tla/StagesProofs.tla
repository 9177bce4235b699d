---------------------------- MODULE StagesProofs ----------------------------
(***************************************************************************)
(* For any number of stages, pollers and other completions: no stage row   *)
(* claims an outcome no build reported, and the run is left without open   *)
(* stages once everybody has completed it.                                 *)
(***************************************************************************)
EXTENDS Stages, TLAPS

-----------------------------------------------------------------------------
(* Types *)

LEMMA NextTypeOK ==
    ASSUME TypeOK, [Next]_vars
    PROVE  TypeOK'
<1> USE DEF TypeOK
<1>1. OpenRows \subseteq Stage
  BY DEF OpenRows
<1>2. \A S \in SUBSET Stage : Skipped(S) \in [Stage -> StageStatus]
  BY DEF Skipped, StageStatus
<1>3. CASE JenkinsStep
  <2>1. PICK p \in Poller : (\E s \in Stage : StageStarts(p, s) \/ StageEnds(p, s)) \/ BuildEnds(p)
    BY <1>3 DEF JenkinsStep
  <2>2. jenkins[p] \in Build
    OBVIOUS
  <2>3. ASSUME NEW s \in Stage, NEW st \in JenkinsStatus,
               jenkins' = [jenkins EXCEPT ![p].stages[s] = st]
        PROVE  jenkins' \in [Poller -> Build]
    <3>1. [jenkins[p] EXCEPT !.stages[s] = st] \in Build
      BY <2>2 DEF Build
    <3> QED
      BY <2>3, <3>1
  <2>4. ASSUME NEW s \in Stage, StageStarts(p, s)
        PROVE  jenkins' \in [Poller -> Build]
    BY <2>3, <2>4 DEF StageStarts, JenkinsStatus
  <2>5. ASSUME NEW s \in Stage, StageEnds(p, s)
        PROVE  jenkins' \in [Poller -> Build]
    BY <2>3, <2>5 DEF StageEnds, JenkinsStatus
  <2>6. CASE BuildEnds(p)
    <3>1. [jenkins[p] EXCEPT !.over = TRUE] \in Build
      BY <2>2 DEF Build
    <3>2. jenkins' \in [Poller -> Build]
      BY <2>6, <3>1 DEF BuildEnds
    <3> QED
      BY <2>6, <3>2 DEF BuildEnds
  <2> QED
    BY <2>1, <2>4, <2>5, <2>6 DEF StageStarts, StageEnds
<1>4. ASSUME NEW p \in Poller, NEW q \in PollState, poller' = [poller EXCEPT ![p] = q]
      PROVE  poller' \in [Poller -> PollState]
  BY <1>4
<1>5. \A p \in Poller : ToSkip(p) => poller' \in [Poller -> PollState]
  BY <1>1, <1>4 DEF ToSkip, PollState
<1>6. ASSUME NEW p \in Poller, Start(p) \/ GiveUp(p) \/ Dies(p)
      PROVE  TypeOK'
  <2>1. CASE Start(p)
    BY <2>1 DEF Start, PollState
  <2>2. CASE GiveUp(p)
    BY <1>5, <2>2 DEF GiveUp, PollState
  <2>3. CASE Dies(p)
    BY <2>3 DEF Dies, PollState
  <2> QED
    BY <1>6, <2>1, <2>2, <2>3
<1>7. ASSUME NEW p \in Poller, SyncStep(p)
      PROVE  TypeOK'
  <2>1. CASE Describe(p)
    <3>1. {<<s, jenkins[p].stages[s]>> : s \in Stage} \cap Report \in SUBSET Report
      OBVIOUS
    <3>2. jenkins[p].over \in BOOLEAN
      BY DEF Build
    <3> HIDE DEF TypeOK
    <3>3. poller \in [Poller -> PollState]
      BY DEF TypeOK
    <3>4. poller' \in [Poller -> PollState]
      BY <2>1, <3>1, <3>2, <3>3 DEF Describe, PollState
    <3> QED
      BY <2>1, <3>4 DEF Describe, TypeOK
  <2>2. CASE NextPoll(p)
    BY <2>2 DEF NextPoll, PollState
  <2>3. CASE ReadOpen(p)
    BY <1>5, <2>3 DEF ReadOpen
  <2>4. CASE SkipOpen(p)
    BY <1>2, <2>4 DEF SkipOpen, PollState
  <2>5. ASSUME NEW s \in Stage, NEW st \in JenkinsStatus, WriteStage(p, s, st)
        PROVE  TypeOK'
    <3>1. RowFor(st) \in StageStatus
      BY DEF RowFor, StageStatus
    <3>2. poller' \in [Poller -> PollState]
      BY <2>5 DEF WriteStage, PollState
    <3> QED
      BY <2>5, <3>1, <3>2 DEF WriteStage
  <2> QED
    BY <1>7, <2>1, <2>2, <2>3, <2>4, <2>5 DEF SyncStep
<1>8. ASSUME NEW c \in Completer, CompleteRead(c) \/ CompleteWrite(c)
      PROVE  TypeOK'
  <2>1. CASE CompleteRead(c)
    BY <1>1, <2>1 DEF CompleteRead, Completion
  <2>2. CASE CompleteWrite(c)
    BY <1>2, <2>2 DEF CompleteWrite, Completion
  <2> QED
    BY <1>8, <2>1, <2>2
<1>9. ASSUME NEW s \in Stage, StageEvent(s)
      PROVE  TypeOK'
  BY <1>9 DEF StageEvent, StageStatus
<1>10. CASE UNCHANGED vars
  BY <1>10 DEF vars
<1> QED
  BY <1>3, <1>6, <1>7, <1>8, <1>9, <1>10 DEF Next

(***************************************************************************)
(* Rows, builds and everybody's local state keep their types.              *)
(***************************************************************************)
THEOREM TypeCorrect == Spec => []TypeOK
<1>1. Init => TypeOK
  <2> SUFFICES ASSUME Init PROVE TypeOK
    OBVIOUS
  <2>1. [stages |-> [s \in Stage |-> "none"], over |-> FALSE] \in Build
    BY DEF Build, JenkinsStatus
  <2>2. [pc |-> "off", todo |-> {}, over |-> FALSE, seen |-> {}] \in PollState
    BY DEF PollState
  <2>3. [pc |-> "idle", seen |-> {}] \in Completion
    BY DEF Completion
  <2> QED
    BY <2>1, <2>2, <2>3 DEF Init, TypeOK, StageStatus
<1>2. TypeOK /\ [Next]_vars => TypeOK'
  BY NextTypeOK
<1> QED
  BY <1>1, <1>2, PTL DEF Spec

-----------------------------------------------------------------------------
(* Truthful *)

(***************************************************************************)
(* A report that is still to be written may be stale only where the stage  *)
(* was running when it was read: an outcome is final.                      *)
(***************************************************************************)
Outcome == {"SUCCESS", "FAILED", "UNSTABLE"}

ReportsHold ==
    \A p \in Poller, s \in Stage, st \in Outcome :
      <<s, st>> \in poller[p].todo => jenkins[p].stages[s] = st

TruthInv == Truthful /\ ReportsHold

LEMMA JenkinsTruth ==
    ASSUME TypeOK, TruthInv, JenkinsStep
    PROVE  TruthInv'
<1>1. \A p \in Poller, s \in Stage :
        jenkins[p].stages[s] \in Outcome => jenkins'[p].stages[s] = jenkins[p].stages[s]
  <2>1. PICK q \in Poller : (\E s \in Stage : StageStarts(q, s) \/ StageEnds(q, s)) \/ BuildEnds(q)
    BY DEF JenkinsStep
  <2>2. ASSUME NEW t \in Stage, NEW st, jenkins[q].stages[t] \notin Outcome,
               jenkins' = [jenkins EXCEPT ![q].stages[t] = st]
        PROVE  \A p \in Poller, s \in Stage :
                 jenkins[p].stages[s] \in Outcome => jenkins'[p].stages[s] = jenkins[p].stages[s]
    BY <2>2 DEF TypeOK, Build
  <2>3. CASE \E s \in Stage : StageStarts(q, s)
    BY <2>2, <2>3 DEF StageStarts, Outcome
  <2>4. CASE \E s \in Stage : StageEnds(q, s)
    BY <2>2, <2>4 DEF StageEnds, Outcome
  <2>5. CASE BuildEnds(q)
    BY <2>5 DEF BuildEnds, TypeOK, Build
  <2> QED
    BY <2>1, <2>3, <2>4, <2>5
<1>2. UNCHANGED <<rows, poller, touched>>
  BY DEF JenkinsStep, StageStarts, StageEnds, BuildEnds
<1>3. ReportsHold'
  BY <1>1, <1>2 DEF TruthInv, ReportsHold
<1>4. Truthful'
  <2> SUFFICES ASSUME NEW s \in Stage \ touched, rows[s] \in {"SUCCESS", "FAILED"}
               PROVE  \E p \in Poller : Backed(rows[s], jenkins'[p].stages[s])
    BY <1>2 DEF Truthful, Backed
  <2>1. PICK p \in Poller : Backed(rows[s], jenkins[p].stages[s])
    BY DEF TruthInv, Truthful
  <2> QED
    BY <1>1, <2>1 DEF Backed, Outcome
<1> QED
  BY <1>3, <1>4 DEF TruthInv

(***************************************************************************)
(* Steps that write no outcome into an untouched row and leave the reports *)
(* alone, or drop some.                                                    *)
(***************************************************************************)
LEMMA NoOutcome ==
    ASSUME TypeOK, TruthInv, UNCHANGED jenkins, touched \subseteq touched',
           \A s \in Stage \ touched' : rows'[s] = rows[s] \/ rows'[s] \notin {"SUCCESS", "FAILED"},
           \A p \in Poller : poller'[p].todo \subseteq poller[p].todo
    PROVE  TruthInv'
BY DEF TruthInv, Truthful, ReportsHold, Backed

LEMMA NextTruth ==
    ASSUME TypeOK, TruthInv, [Next]_vars
    PROVE  TruthInv'
<1>1. \A S \in SUBSET Stage : rows' = Skipped(S) =>
        \A s \in Stage : rows'[s] = rows[s] \/ rows'[s] \notin {"SUCCESS", "FAILED"}
  BY DEF Skipped
<1>2. ASSUME NEW p \in Poller, Start(p) \/ GiveUp(p) \/ Dies(p) \/ NextPoll(p) \/ ReadOpen(p)
      PROVE  TruthInv'
  <2>1. UNCHANGED <<rows, jenkins, touched>>
    BY <1>2 DEF Start, GiveUp, Dies, NextPoll, ReadOpen
  <2>2. \A q \in Poller : poller'[q].todo \subseteq poller[q].todo
    BY <1>2 DEF Start, GiveUp, Dies, NextPoll, ReadOpen, ToSkip, TypeOK, PollState
  <2> QED
    BY <2>1, <2>2, NoOutcome
<1>3. ASSUME NEW p \in Poller, SkipOpen(p)
      PROVE  TruthInv'
  <2>1. poller[p].seen \in SUBSET Stage
    BY DEF TypeOK, PollState
  <2>2. \A q \in Poller : poller'[q].todo \subseteq poller[q].todo
    BY <1>3 DEF SkipOpen, TypeOK, PollState
  <2> QED
    BY <1>1, <1>3, <2>1, <2>2, NoOutcome DEF SkipOpen
<1>4. ASSUME NEW p \in Poller, Describe(p)
      PROVE  TruthInv'
  <2>1. Truthful'
    BY <1>4 DEF Describe, TruthInv, Truthful, Backed
  <2>2. poller'[p].todo \subseteq {<<s, jenkins[p].stages[s]>> : s \in Stage}
    <3>1. poller'[p] = [poller[p] EXCEPT
                          !.pc = "write",
                          !.todo = {<<s, jenkins[p].stages[s]>> : s \in Stage} \cap Report,
                          !.over = jenkins[p].over]
      BY <1>4 DEF Describe, TypeOK
    <3>2. poller[p] \in PollState
      BY DEF TypeOK
    <3>3. poller'[p].todo = {<<s, jenkins[p].stages[s]>> : s \in Stage} \cap Report
      BY <3>1, <3>2 DEF PollState
    <3> QED
      BY <3>3
  <2>3. \A q \in Poller \ {p} : poller'[q] = poller[q]
    BY <1>4 DEF Describe, TypeOK
  <2>4. jenkins' = jenkins
    BY <1>4 DEF Describe
  <2>5. ReportsHold'
    BY <2>2, <2>3, <2>4 DEF TruthInv, ReportsHold
  <2> QED
    BY <2>1, <2>5 DEF TruthInv
<1>5. ASSUME NEW p \in Poller, NEW s \in Stage, NEW st \in JenkinsStatus, WriteStage(p, s, st)
      PROVE  TruthInv'
  <2>1. <<s, st>> \in poller[p].todo /\ poller[p].todo \subseteq Report
    BY <1>5 DEF WriteStage, TypeOK, PollState
  <2>2. st = "IN_PROGRESS" \/ st \in Outcome
    BY <2>1 DEF Report, JenkinsStatus, Outcome
  <2>3. rows'[s] \in {"SUCCESS", "FAILED"} => Backed(rows'[s], jenkins[p].stages[s])
    BY <1>5, <2>1, <2>2 DEF WriteStage, RowFor, TruthInv, ReportsHold, Backed, Outcome, TypeOK
  <2>4. \A t \in Stage \ {s} : rows'[t] = rows[t]
    BY <1>5 DEF WriteStage, TypeOK
  <2>5. UNCHANGED <<jenkins, touched>>
    BY <1>5 DEF WriteStage
  <2>6. Truthful'
    BY <2>3, <2>4, <2>5 DEF TruthInv, Truthful, Backed
  <2>7. \A q \in Poller : poller'[q].todo \subseteq poller[q].todo
    BY <1>5 DEF WriteStage, TypeOK, PollState
  <2>8. ReportsHold'
    BY <2>5, <2>7 DEF TruthInv, ReportsHold
  <2> QED
    BY <2>6, <2>8 DEF TruthInv
<1>6. ASSUME NEW c \in Completer, CompleteRead(c) \/ CompleteWrite(c)
      PROVE  TruthInv'
  <2>1. completer[c].seen \in SUBSET Stage
    BY DEF TypeOK, Completion
  <2> QED
    BY <1>1, <1>6, <2>1, NoOutcome DEF CompleteRead, CompleteWrite
<1>7. ASSUME NEW s \in Stage, StageEvent(s)
      PROVE  TruthInv'
  <2>1. \A t \in Stage \ touched' : rows'[t] = rows[t]
    BY <1>7 DEF StageEvent, TypeOK
  <2> QED
    BY <1>7, <2>1, NoOutcome DEF StageEvent
<1>8. CASE UNCHANGED vars
  BY <1>8, NoOutcome DEF vars
<1> QED
  BY <1>2, <1>3, <1>4, <1>5, <1>6, <1>7, <1>8, JenkinsTruth DEF Next, SyncStep

(***************************************************************************)
(* A row that says SUCCESS or FAILED, unless the stage-event endpoint      *)
(* wrote it, repeats what Jenkins says of a build of this run, for any     *)
(* number of pollers writing old reports over each other (_sync_stages).   *)
(***************************************************************************)
THEOREM StagesTellTheTruth == Spec => []Truthful
<1>1. Init => TruthInv
  BY DEF Init, TruthInv, Truthful, ReportsHold
<1>2. TypeOK /\ TruthInv /\ [Next]_vars => TruthInv'
  BY NextTruth
<1>3. TruthInv => Truthful
  BY DEF TruthInv
<1> QED
  BY <1>1, <1>2, <1>3, TypeCorrect, PTL DEF Spec

-----------------------------------------------------------------------------
(* NoStageLeftOpen *)

(***************************************************************************)
(* Somebody will still deal with row s: it polls, or found the row open,   *)
(* or is lost (and Quiet does not hold).                                   *)
(***************************************************************************)
Keeps(p, s) ==
    \/ poller[p].pc \in {"poll", "write", "gone"}
    \/ At(p, "skip") /\ s \in poller[p].seen

Busy(p) == poller[p].pc \in {"poll", "write", "skip", "gone"}

(***************************************************************************)
(* Once somebody has read the rows to complete the run, an open row is     *)
(* somebody's, and a run that is not finished has somebody at work.        *)
(***************************************************************************)
OpenInv ==
    (\E p \in Poller : poller[p].pc \in {"skip", "done"}) =>
      /\ \A s \in OpenRows \ touched : \E p \in Poller : Keeps(p, s)
      /\ finished \/ \E p \in Poller : Busy(p)

(***************************************************************************)
(* A step that takes no keeper away and opens no row.                      *)
(***************************************************************************)
LEMMA KeepersStay ==
    ASSUME TypeOK, OpenInv, OpenRows' \ touched' \subseteq OpenRows \ touched,
           finished => finished',
           \A p \in Poller : poller'[p].pc = poller[p].pc /\ poller'[p].seen = poller[p].seen
    PROVE  OpenInv'
BY DEF OpenInv, Keeps, Busy, At

(***************************************************************************)
(* A step that ends with p polling, writing or lost: p keeps everything.   *)
(***************************************************************************)
LEMMA KeepsAll ==
    ASSUME NEW p \in Poller, poller'[p].pc \in {"poll", "write", "gone"}
    PROVE  OpenInv'
BY DEF OpenInv, Keeps, Busy

(***************************************************************************)
(* A step with which p reads the open rows: p keeps them.                  *)
(***************************************************************************)
LEMMA ReaderKeeps ==
    ASSUME TypeOK, NEW p \in Poller, ToSkip(p), UNCHANGED <<rows, touched>>
    PROVE  OpenInv'
<1>1. poller'[p].pc = "skip" /\ poller'[p].seen = OpenRows /\ OpenRows' = OpenRows
  BY DEF ToSkip, TypeOK, PollState, OpenRows
<1> QED
  BY <1>1 DEF OpenInv, Keeps, Busy, At

LEMMA NextOpenInv ==
    ASSUME TypeOK, OpenInv, [Next]_vars
    PROVE  OpenInv'
<1>1. \A S \in SUBSET Stage : rows' = Skipped(S) =>
        /\ OpenRows' \subseteq OpenRows
        /\ OpenRows' \cap S = {}
  BY DEF Skipped, OpenRows, Unsettled
<1>2. ASSUME NEW p \in Poller, Start(p) \/ Dies(p) \/ Describe(p) \/ NextPoll(p)
      PROVE  OpenInv'
  <2>1. poller'[p].pc \in {"poll", "write", "gone"}
    <3>1. poller[p] \in PollState
      BY DEF TypeOK
    <3>2. CASE Start(p) \/ Dies(p)
      BY <3>1, <3>2 DEF Start, Dies, TypeOK, PollState
    <3>3. CASE Describe(p)
      <4>1. poller'[p] = [poller[p] EXCEPT
                            !.pc = "write",
                            !.todo = {<<s, jenkins[p].stages[s]>> : s \in Stage} \cap Report,
                            !.over = jenkins[p].over]
        BY <3>3 DEF Describe, TypeOK
      <4>2. poller'[p].pc = "write"
        BY <3>1, <4>1 DEF PollState
      <4> QED
        BY <4>2
    <3>4. CASE NextPoll(p)
      BY <3>1, <3>4 DEF NextPoll, TypeOK, PollState
    <3> QED
      BY <1>2, <3>2, <3>3, <3>4
  <2> QED
    BY <2>1, KeepsAll
<1>3. ASSUME NEW p \in Poller, NEW s \in Stage, NEW st \in JenkinsStatus, WriteStage(p, s, st)
      PROVE  OpenInv'
  <2>1. poller'[p].pc = "write"
    BY <1>3 DEF WriteStage, At, TypeOK, PollState
  <2> QED
    BY <2>1, KeepsAll
<1>4. ASSUME NEW p \in Poller, GiveUp(p)
      PROVE  OpenInv'
  <2>1. CASE ToSkip(p)
    BY <1>4, <2>1, ReaderKeeps DEF GiveUp
  <2>2. CASE poller' = [poller EXCEPT ![p].pc = "gone"]
    BY <2>2, KeepsAll DEF TypeOK, PollState
  <2> QED
    BY <1>4, <2>1, <2>2 DEF GiveUp
<1>5. ASSUME NEW p \in Poller, ReadOpen(p)
      PROVE  OpenInv'
  BY <1>5, ReaderKeeps DEF ReadOpen
<1>6. ASSUME NEW p \in Poller, SkipOpen(p)
      PROVE  OpenInv'
  <2>1. poller[p].seen \in SUBSET Stage /\ poller[p].pc = "skip"
    BY <1>6 DEF SkipOpen, At, TypeOK, PollState
  <2>2. OpenRows' \subseteq OpenRows /\ OpenRows' \cap poller[p].seen = {}
    BY <1>1, <1>6, <2>1 DEF SkipOpen
  <2>3. \A q \in Poller \ {p} : poller'[q] = poller[q]
    BY <1>6 DEF SkipOpen, TypeOK
  <2>4. finished' /\ touched' = touched
    BY <1>6 DEF SkipOpen
  <2>5. ASSUME NEW s \in OpenRows' \ touched'
        PROVE  \E q \in Poller : Keeps(q, s)'
    <3>1. s \in OpenRows \ touched /\ s \notin poller[p].seen
      BY <2>2, <2>4
    <3>2. PICK q \in Poller : Keeps(q, s)
      BY <2>1, <3>1 DEF OpenInv
    <3>3. q # p
      BY <2>1, <3>1, <3>2 DEF Keeps
    <3> QED
      BY <2>3, <3>2, <3>3 DEF Keeps, At
  <2> QED
    BY <2>4, <2>5 DEF OpenInv
<1>7. CASE JenkinsStep
  BY <1>7, KeepersStay DEF JenkinsStep, StageStarts, StageEnds, BuildEnds, OpenRows
<1>8. ASSUME NEW c \in Completer, CompleteRead(c) \/ CompleteWrite(c)
      PROVE  OpenInv'
  <2>1. completer[c].seen \in SUBSET Stage
    BY DEF TypeOK, Completion
  <2>2. OpenRows' \subseteq OpenRows
    BY <1>1, <1>8, <2>1 DEF CompleteRead, CompleteWrite, OpenRows
  <2> QED
    BY <1>8, <2>2, KeepersStay DEF CompleteRead, CompleteWrite
<1>9. ASSUME NEW s \in Stage, StageEvent(s)
      PROVE  OpenInv'
  <2>1. OpenRows' \ touched' \subseteq OpenRows \ touched
    BY <1>9 DEF StageEvent, OpenRows, TypeOK
  <2> QED
    BY <1>9, <2>1, KeepersStay DEF StageEvent
<1>10. CASE UNCHANGED vars
  BY <1>10, KeepersStay DEF vars, OpenRows
<1> QED
  BY <1>2, <1>3, <1>4, <1>5, <1>6, <1>7, <1>8, <1>9, <1>10 DEF Next, SyncStep

(***************************************************************************)
(* When every poller that was started has completed the run, it is         *)
(* finished and none of its stages is PENDING or RUNNING, for any number   *)
(* of pollers and completions overlapping in any way (on_build_completed). *)
(***************************************************************************)
THEOREM RunsEndClosed == Spec => []NoStageLeftOpen
<1>1. Init => OpenInv
  BY DEF Init, OpenInv
<1>2. TypeOK /\ OpenInv /\ [Next]_vars => OpenInv'
  BY NextOpenInv
<1>3. OpenInv => NoStageLeftOpen
  BY DEF OpenInv, NoStageLeftOpen, Quiet, Keeps, Busy, At
<1> QED
  BY <1>1, <1>2, <1>3, TypeCorrect, PTL DEF Spec
=============================================================================
