------------------------------- MODULE Stages -------------------------------
(***************************************************************************)
(* The stage rows of one pipeline run (stage_executions): written from     *)
(* what Jenkins says of its builds, from the stage-event endpoint, and     *)
(* closed by whoever completes the run.                                    *)
(*                                                                         *)
(* A submitted run is triggered twice, by the execution the scheduler      *)
(* starts and by the Celery task; each polls a build of its own and writes *)
(* what it sees into the same rows (_sync_stages in app/pipeline_tasks.py).*)
(* One such synchronisation is a reading of Jenkins followed by one        *)
(* transaction per stage, with the download of a log before it, and by     *)
(* on_build_completed when the build is over.  on_build_completed reads    *)
(* the rows and skips what it found open; the Jenkins webhook and a cancel *)
(* call it too.                                                            *)
(***************************************************************************)
EXTENDS Naturals, FiniteSets

CONSTANTS Stage,      \* stage names of the run
          Poller,     \* who triggers and polls a build: the execution, the Celery task
          Silent,     \* pollers that may give up without finalising: the Celery task
          Completer   \* others that complete the run: webhook, cancel

ASSUME StagesAssumption == Silent \subseteq Poller

VARIABLES rows,       \* stage_executions.status
          finished,   \* the run's status is COMPLETED, FAILED or ABORTED
          jenkins,    \* for each poller, what wfapi/describe says of its build
          poller,     \* where each poller is
          completer,  \* and each other completion
          touched     \* rows the stage-event endpoint has written

vars == <<rows, finished, jenkins, poller, completer, touched>>

-----------------------------------------------------------------------------
(* State *)

StageStatus   == {"PENDING", "RUNNING", "SUCCESS", "FAILED", "SKIPPED"}
Unsettled     == {"PENDING", "RUNNING"}
JenkinsStatus == {"none", "IN_PROGRESS", "SUCCESS", "FAILED", "UNSTABLE", "ABORTED"}

Build     == [stages : [Stage -> JenkinsStatus], over : BOOLEAN]
Report    == Stage \X (JenkinsStatus \ {"none", "ABORTED"})
PollState == [pc   : {"off", "poll", "write", "skip", "done", "gone"},
              todo : SUBSET Report,   \* reported stages not written yet
              over : BOOLEAN,         \* the report says the build is over
              seen : SUBSET Stage]    \* rows on_build_completed found unsettled
Completion == [pc : {"idle", "skip"}, seen : SUBSET Stage]

(***************************************************************************)
(* Types of the rows, of Jenkins' builds and of everybody's local state.   *)
(***************************************************************************)
TypeOK ==
    /\ rows \in [Stage -> StageStatus]
    /\ finished \in BOOLEAN
    /\ jenkins \in [Poller -> Build]
    /\ poller \in [Poller -> PollState]
    /\ completer \in [Completer -> Completion]
    /\ touched \subseteq Stage

Init ==
    /\ rows = [s \in Stage |-> "PENDING"]
    /\ finished = FALSE
    /\ jenkins = [p \in Poller |-> [stages |-> [s \in Stage |-> "none"], over |-> FALSE]]
    /\ poller = [p \in Poller |-> [pc |-> "off", todo |-> {}, over |-> FALSE, seen |-> {}]]
    /\ completer = [c \in Completer |-> [pc |-> "idle", seen |-> {}]]
    /\ touched = {}

OpenRows == {s \in Stage : rows[s] \in Unsettled}

At(p, pc) == poller[p].pc = pc

-----------------------------------------------------------------------------
(* Jenkins *)

StageStarts(p, s) ==
    /\ ~At(p, "off") /\ ~jenkins[p].over
    /\ jenkins[p].stages[s] = "none"
    /\ jenkins' = [jenkins EXCEPT ![p].stages[s] = "IN_PROGRESS"]
    /\ UNCHANGED <<rows, finished, poller, completer, touched>>

StageEnds(p, s) ==
    /\ jenkins[p].stages[s] = "IN_PROGRESS"
    /\ \E st \in {"SUCCESS", "FAILED", "UNSTABLE", "ABORTED"} :
         jenkins' = [jenkins EXCEPT ![p].stages[s] = st]
    /\ UNCHANGED <<rows, finished, poller, completer, touched>>

BuildEnds(p) ==
    /\ ~At(p, "off") /\ ~jenkins[p].over
    /\ \A s \in Stage : jenkins[p].stages[s] # "IN_PROGRESS"
    /\ jenkins' = [jenkins EXCEPT ![p].over = TRUE]
    /\ UNCHANGED <<rows, finished, poller, completer, touched>>

JenkinsStep == \E p \in Poller : \/ \E s \in Stage : StageStarts(p, s) \/ StageEnds(p, s)
                                 \/ BuildEnds(p)

-----------------------------------------------------------------------------
(* Pollers *)

(***************************************************************************)
(* The build is triggered and on_build_started puts the run IN_PROGRESS,   *)
(* whatever it was.                                                        *)
(***************************************************************************)
Start(p) ==
    /\ At(p, "off")
    /\ poller' = [poller EXCEPT ![p].pc = "poll"]
    /\ finished' = FALSE
    /\ UNCHANGED <<rows, jenkins, completer, touched>>

(***************************************************************************)
(* GET wfapi/describe.  Stages in other states than these are not written. *)
(* An answer other than 200 changes nothing.                               *)
(***************************************************************************)
Describe(p) ==
    /\ At(p, "poll")
    /\ poller' = [poller EXCEPT
                    ![p].pc = "write",
                    ![p].todo = {<<s, jenkins[p].stages[s]>> : s \in Stage} \cap Report,
                    ![p].over = jenkins[p].over]
    /\ UNCHANGED <<rows, finished, jenkins, completer, touched>>

\* Mutants of RowFor: the status is stored as Jenkins words it; an unstable
\* stage counts as a success.
RowFor_Raw(st) == IF st = "IN_PROGRESS" THEN "RUNNING" ELSE st
RowFor_Lenient(st) ==
    CASE st = "IN_PROGRESS"             -> "RUNNING"
      [] st \in {"SUCCESS", "UNSTABLE"} -> "SUCCESS"
      [] OTHER                          -> "FAILED"

(***************************************************************************)
(* on_stage_started, and on_stage_completed with success = (SUCCESS).      *)
(***************************************************************************)
RowFor(st) ==
    CASE st = "IN_PROGRESS" -> "RUNNING"
      [] st = "SUCCESS"     -> "SUCCESS"
      [] OTHER              -> "FAILED"

WriteStage(p, s, st) ==
    /\ At(p, "write")
    /\ <<s, st>> \in poller[p].todo
    /\ rows' = [rows EXCEPT ![s] = RowFor(st)]
    /\ poller' = [poller EXCEPT ![p].todo = @ \ {<<s, st>>}]
    /\ UNCHANGED <<finished, jenkins, completer, touched>>

(***************************************************************************)
(* Nothing more to write and the build goes on, or a statement raised:     *)
(* there will be another poll.                                             *)
(***************************************************************************)
NextPoll(p) ==
    /\ At(p, "write")
    /\ poller[p].todo = {} => ~poller[p].over
    /\ poller' = [poller EXCEPT ![p].pc = "poll", ![p].todo = {}, ![p].over = FALSE]
    /\ UNCHANGED <<rows, finished, jenkins, completer, touched>>

ToSkip(p) == poller' = [poller EXCEPT ![p].pc = "skip", ![p].over = FALSE, ![p].seen = OpenRows]

(***************************************************************************)
(* The build is over: on_build_completed reads the run with its stages ... *)
(***************************************************************************)
ReadOpen(p) ==
    /\ At(p, "write")
    /\ poller[p].todo = {} /\ poller[p].over
    /\ ToSkip(p)
    /\ UNCHANGED <<rows, finished, jenkins, completer, touched>>

\* Mutant of Skipped: only the stages that never ran.
Skipped_PendingOnly(S) ==
    [s \in Stage |-> IF s \in S /\ rows[s] = "PENDING" THEN "SKIPPED" ELSE rows[s]]

(***************************************************************************)
(* ... and writes the stages it read as unsettled, by id.                  *)
(***************************************************************************)
Skipped(S) == [s \in Stage |-> IF s \in S THEN "SKIPPED" ELSE rows[s]]

SkipOpen(p) ==
    /\ At(p, "skip")
    /\ rows' = Skipped(poller[p].seen)
    /\ finished' = TRUE
    /\ poller' = [poller EXCEPT ![p].pc = "done", ![p].seen = {}]
    /\ UNCHANGED <<jenkins, completer, touched>>

\* Mutant of GiveUp: the run is finalised by its status alone.
GiveUp_StatusOnly(p) ==
    /\ At(p, "poll")
    /\ finished' = TRUE
    /\ poller' = [poller EXCEPT ![p].pc = "done"]
    /\ UNCHANGED <<rows, jenkins, completer, touched>>

(***************************************************************************)
(* The polls are used up.  A run that has not finished is finalised; one   *)
(* that has is left alone, and the Celery task may end without looking.    *)
(***************************************************************************)
GiveUp(p) ==
    /\ At(p, "poll")
    /\ \/ ~finished /\ ToSkip(p)
       \/ /\ finished \/ p \in Silent
          /\ poller' = [poller EXCEPT ![p].pc = "gone"]
    /\ UNCHANGED <<rows, finished, jenkins, completer, touched>>

Dies(p) ==
    /\ poller[p].pc \in {"poll", "write", "skip"}
    /\ poller' = [poller EXCEPT ![p] = [pc |-> "gone", todo |-> {}, over |-> FALSE, seen |-> {}]]
    /\ UNCHANGED <<rows, finished, jenkins, completer, touched>>

SyncStep(p) ==
    \/ Describe(p) \/ NextPoll(p) \/ ReadOpen(p) \/ SkipOpen(p)
    \/ \E s \in Stage, st \in JenkinsStatus : WriteStage(p, s, st)

-----------------------------------------------------------------------------
(* Webhook, cancel, stage events *)

CompleteRead(c) ==
    /\ completer[c].pc = "idle"
    /\ completer' = [completer EXCEPT ![c] = [pc |-> "skip", seen |-> OpenRows]]
    /\ UNCHANGED <<rows, finished, jenkins, poller, touched>>

CompleteWrite(c) ==
    /\ completer[c].pc = "skip"
    /\ rows' = Skipped(completer[c].seen)
    /\ finished' = TRUE
    /\ completer' = [completer EXCEPT ![c] = [pc |-> "idle", seen |-> {}]]
    /\ UNCHANGED <<jenkins, poller, touched>>

(***************************************************************************)
(* POST /jobs/{id}/stage-event: any row, in any state of the run.          *)
(***************************************************************************)
StageEvent(s) ==
    /\ \E st \in {"RUNNING", "SUCCESS", "FAILED"} : rows' = [rows EXCEPT ![s] = st]
    /\ touched' = touched \cup {s}
    /\ UNCHANGED <<finished, jenkins, poller, completer>>

-----------------------------------------------------------------------------
(* Specification *)

Next ==
    \/ JenkinsStep
    \/ \E p \in Poller : Start(p) \/ SyncStep(p) \/ GiveUp(p) \/ Dies(p)
    \/ \E c \in Completer : CompleteRead(c) \/ CompleteWrite(c)
    \/ \E s \in Stage : StageEvent(s)

Spec == Init /\ [][Next]_vars

(***************************************************************************)
(* A synchronisation ends, and so do the polls: 120 of an execution, 60 of *)
(* the Celery task.  Nothing is asked of Jenkins.                          *)
(***************************************************************************)
LiveSpec ==
    /\ Spec
    /\ \A p \in Poller : WF_vars(SyncStep(p)) /\ SF_vars(GiveUp(p))
    /\ \A c \in Completer : WF_vars(CompleteWrite(c))

-----------------------------------------------------------------------------
(* Properties *)

(***************************************************************************)
(* Every poller that was started has completed the run and nobody else is  *)
(* completing it.                                                          *)
(***************************************************************************)
Quiet ==
    /\ \A p \in Poller : poller[p].pc \in {"off", "done"}
    /\ \E p \in Poller : At(p, "done")
    /\ \A c \in Completer : completer[c].pc = "idle"

(***************************************************************************)
(* Then the run is finished and no stage is left PENDING or RUNNING, in    *)
(* whatever order two polls, a webhook and a cancel wrote the rows: the    *)
(* last to read them had written all it would write.                       *)
(***************************************************************************)
NoStageLeftOpen == Quiet => finished /\ OpenRows \subseteq touched

(***************************************************************************)
(* A stage shown as SUCCESS or FAILED is one a build of this run reported  *)
(* so; UNSTABLE is a failure.  Reports are written long after they were    *)
(* read, and over each other.                                              *)
(***************************************************************************)
Backed(row, st) == \/ row = "SUCCESS" /\ st = "SUCCESS"
                   \/ row = "FAILED" /\ st \in {"FAILED", "UNSTABLE"}

Truthful ==
    \A s \in Stage \ touched :
      rows[s] \in {"SUCCESS", "FAILED"} => \E p \in Poller : Backed(rows[s], jenkins[p].stages[s])

(***************************************************************************)
(* However Jenkins behaves, an open stage of a run that is being polled is *)
(* closed in the end, unless a poller is lost or gives up silently.        *)
(***************************************************************************)
StagesClose ==
    \A s \in Stage :
      (s \in OpenRows /\ \E p \in Poller : At(p, "poll"))
        ~> (s \notin OpenRows \/ s \in touched \/ \E p \in Poller : At(p, "gone"))
=============================================================================
