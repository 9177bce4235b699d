-------------------------- MODULE FailureAnalysis --------------------------
(***************************************************************************)
(* What happens to a failed build (app/tasks.py with pattern_store.py and  *)
(* notifier.py): an analysis looks whether the build was analysed before,  *)
(* counts its error signature, records a build event, posts one Slack      *)
(* message and writes down how the delivery went.                          *)
(*                                                                         *)
(* The Jenkins webhook starts one directly; on_build_completed, which the  *)
(* webhook and the poll both call, starts one in a daemon thread.  They    *)
(* run concurrently.  Fetching, parsing and classifying the log and asking *)
(* a language model change nothing and always produce something: they are  *)
(* the time between the guard and the first write.                         *)
(***************************************************************************)
EXTENDS Naturals, FiniteSets

CONSTANTS Analysis,     \* calls of _process_async, named by the event row they may insert
          Build,        \* failed builds: (job_name, build_number)
          Signature,    \* normalised first error lines
          SigOf,        \* the signature of a build's log (SignatureOf of LogPipeline)
          NoSig,        \* the log has no error block
          NoBuild,      \* the call has not been made
          Serial,       \* builds whose paths come one after the other
          SlackConfigured,   \* SLACK_BOT_TOKEN is set
          MaxDeaths     \* bound: analyses that end in an exception or with the process

ASSUME AnalysisAssumption ==
    /\ IsFiniteSet(Analysis)
    /\ NoSig \notin Signature
    /\ NoBuild \notin Build
    /\ SigOf \in [Build -> Signature \cup {NoSig}]
    /\ Serial \subseteq Build
    /\ SlackConfigured \in BOOLEAN
    /\ MaxDeaths \in Nat

VARIABLES calls,     \* every call: its build, where it is, what it read
          patterns,  \* pattern_records.occurrence_count, 0 without a row
          events,    \* build_events.delivery_status, by the call that inserted the row
          posted,    \* calls whose message reached Slack
          deaths

vars == <<calls, patterns, events, posted, deaths>>

-----------------------------------------------------------------------------
(* State *)

Delivery == {"PENDING", "OK", "FAILED"}

Call == [build : Build \cup {NoBuild},
         pc    : {"unborn", "guard", "analyse", "upsert", "record", "notify", "confirm", "over"},
         seen  : Nat,        \* occurrence_count as upsert_pattern read it, 0 for no row
         ok    : BOOLEAN]    \* delivery["slack"] = "OK"

(***************************************************************************)
(* Types of the calls and of the two tables they write.                    *)
(***************************************************************************)
TypeOK ==
    /\ calls \in [Analysis -> Call]
    /\ patterns \in [Signature -> Nat]
    /\ DOMAIN events \subseteq Analysis
    /\ events \in [DOMAIN events -> Delivery]
    /\ posted \subseteq Analysis
    /\ deaths \in 0..MaxDeaths

Init ==
    /\ calls = [i \in Analysis |-> [build |-> NoBuild, pc |-> "unborn", seen |-> 0, ok |-> FALSE]]
    /\ patterns = [s \in Signature |-> 0]
    /\ events = [i \in {} |-> "PENDING"]
    /\ posted = {}
    /\ deaths = 0

CallsOf(b)  == {i \in Analysis : calls[i].build = b}
EventsOf(b) == {i \in DOMAIN events : calls[i].build = b}
Sig(i)      == SigOf[calls[i].build]

At(i, pc)   == calls[i].pc = pc
Goto(i, pc) == calls' = [calls EXCEPT ![i].pc = pc]

-----------------------------------------------------------------------------
(* Actions *)

(***************************************************************************)
(* The webhook, a completed poll, or the webhook delivered again.  Nothing *)
(* keeps these apart in the code; of some builds they do not overlap: one  *)
(* is over before the next comes.                                          *)
(***************************************************************************)
Apart(b) == \A i \in CallsOf(b) : At(i, "over")

Trigger(i, b) ==
    /\ At(i, "unborn")
    /\ b \in Serial => Apart(b)
    /\ calls' = [calls EXCEPT ![i].build = b, ![i].pc = "guard"]
    /\ UNCHANGED <<patterns, events, posted, deaths>>

\* Mutant of Guard: the log's error blocks are not counted.
Guard_SkipsPatterns(i) ==
    /\ At(i, "guard")
    /\ Goto(i, IF EventsOf(calls[i].build) # {} THEN "over" ELSE "record")
    /\ UNCHANGED <<patterns, events, posted, deaths>>

\* Mutant of Guard: no duplicate guard.
Guard_None(i) ==
    /\ At(i, "guard")
    /\ Goto(i, IF Sig(i) = NoSig THEN "record" ELSE "analyse")
    /\ UNCHANGED <<patterns, events, posted, deaths>>

\* Mutant of Guard: it looks for another call instead of an event.
Guard_InFlight(i) ==
    /\ At(i, "guard")
    /\ Goto(i, IF CallsOf(calls[i].build) # {i} THEN "over"
               ELSE IF Sig(i) = NoSig THEN "record" ELSE "analyse")
    /\ UNCHANGED <<patterns, events, posted, deaths>>

(***************************************************************************)
(* The duplicate guard: another path has already analysed this build.      *)
(* Only a log with an error block goes into the pattern store.             *)
(***************************************************************************)
Guard(i) ==
    /\ At(i, "guard")
    /\ Goto(i, IF EventsOf(calls[i].build) # {} THEN "over"
               ELSE IF Sig(i) = NoSig THEN "record" ELSE "analyse")
    /\ UNCHANGED <<patterns, events, posted, deaths>>

(***************************************************************************)
(* upsert_pattern reads the row of the signature ...                       *)
(***************************************************************************)
LookupPattern(i) ==
    /\ At(i, "analyse")
    /\ calls' = [calls EXCEPT ![i].pc = "upsert", ![i].seen = patterns[Sig(i)]]
    /\ UNCHANGED <<patterns, events, posted, deaths>>

\* Mutant of UpsertPattern: a new row starts at one and is counted again.
UpsertPattern_CountsTwice(i) ==
    /\ At(i, "upsert")
    /\ patterns' = [patterns EXCEPT ![Sig(i)] = IF calls[i].seen = 0 THEN 2 ELSE calls[i].seen + 1]
    /\ Goto(i, "record")
    /\ UNCHANGED <<events, posted, deaths>>

(***************************************************************************)
(* ... and writes it: a new row, or the count it read plus one.  Of two    *)
(* that both saw no row the second violates the unique constraint on       *)
(* signature_hash, and its analysis ends there.                            *)
(***************************************************************************)
UpsertPattern(i) ==
    /\ At(i, "upsert")
    /\ IF calls[i].seen = 0 /\ patterns[Sig(i)] # 0
       THEN Goto(i, "over") /\ UNCHANGED patterns
       ELSE /\ patterns' = [patterns EXCEPT ![Sig(i)] = calls[i].seen + 1]
            /\ Goto(i, "record")
    /\ UNCHANGED <<events, posted, deaths>>

RecordEvent(i) ==
    /\ At(i, "record")
    /\ events' = [e \in DOMAIN events \cup {i} |-> IF e = i THEN "PENDING" ELSE events[e]]
    /\ Goto(i, "notify")
    /\ UNCHANGED <<patterns, posted, deaths>>

\* Mutant of Notify: the error is swallowed and reported as a delivery.
Notify_AlwaysOk(i) ==
    /\ At(i, "notify")
    /\ \E delivered \in BOOLEAN : posted' = IF delivered THEN posted \cup {i} ELSE posted
    /\ calls' = [calls EXCEPT ![i].pc = "confirm", ![i].ok = TRUE]
    /\ UNCHANGED <<patterns, events, deaths>>

(***************************************************************************)
(* The Slack call returns, or raises: refused, or delivered with the       *)
(* answer lost.  Without a token nothing is sent, and that counts as OK.   *)
(***************************************************************************)
Notify(i) ==
    /\ At(i, "notify")
    /\ \E ok, delivered \in BOOLEAN :
         /\ IF SlackConfigured THEN ok => delivered ELSE ok /\ ~delivered
         /\ posted' = IF delivered THEN posted \cup {i} ELSE posted
         /\ calls' = [calls EXCEPT ![i].pc = "confirm", ![i].ok = ok]
    /\ UNCHANGED <<patterns, events, deaths>>

\* Mutant of Confirm: only a delivery is written down.
Confirm_OkOnly(i) ==
    /\ At(i, "confirm")
    /\ events' = [events EXCEPT ![i] = IF calls[i].ok THEN "OK" ELSE @]
    /\ Goto(i, "over")
    /\ UNCHANGED <<patterns, posted, deaths>>

\* Mutant of Confirm: the error is written into the status.
Confirm_Raw(i) ==
    /\ At(i, "confirm")
    /\ events' = [events EXCEPT ![i] = IF calls[i].ok THEN "OK" ELSE "ratelimited"]
    /\ Goto(i, "over")
    /\ UNCHANGED <<patterns, posted, deaths>>

Confirm(i) ==
    /\ At(i, "confirm")
    /\ events' = [events EXCEPT ![i] = IF calls[i].ok THEN "OK" ELSE "FAILED"]
    /\ Goto(i, "over")
    /\ UNCHANGED <<patterns, posted, deaths>>

(***************************************************************************)
(* Both callers log an exception and forget the analysis; a daemon thread  *)
(* dies with the process.                                                  *)
(***************************************************************************)
Dies(i) ==
    /\ calls[i].pc \notin {"unborn", "over"}
    /\ deaths < MaxDeaths
    /\ deaths' = deaths + 1
    /\ Goto(i, "over")
    /\ UNCHANGED <<patterns, events, posted>>

ProcessAsync(i) ==
    Guard(i) \/ LookupPattern(i) \/ UpsertPattern(i) \/ RecordEvent(i) \/ Notify(i) \/ Confirm(i)

-----------------------------------------------------------------------------
(* Specifications *)

Next == \E i \in Analysis : \/ \E b \in Build : Trigger(i, b)
                            \/ ProcessAsync(i)
                            \/ Dies(i)

Spec     == Init /\ [][Next]_vars
LiveSpec == Spec /\ \A i \in Analysis : WF_vars(ProcessAsync(i))

-----------------------------------------------------------------------------
(* Properties *)

(***************************************************************************)
(* What the tables say of a delivery is true, whatever dies on the way:    *)
(* only a recorded build is reported to Slack, and an event that says OK   *)
(* has its message there, if there is a Slack to talk to.                  *)
(***************************************************************************)
Accounted ==
    /\ posted \subseteq DOMAIN events
    /\ SlackConfigured => \A i \in DOMAIN events : events[i] = "OK" => i \in posted

(***************************************************************************)
(* A recorded failure with an error block is known to the pattern store,   *)
(* so that find_similar can find it the next time.                         *)
(***************************************************************************)
EventHasPattern ==
    \A i \in DOMAIN events : Sig(i) # NoSig => patterns[Sig(i)] > 0

(***************************************************************************)
(* Concurrent counts may be lost, but none is made up: a signature counts  *)
(* at most the analyses that have counted it.                              *)
(***************************************************************************)
Counted(s) ==
    {i \in Analysis : /\ calls[i].build # NoBuild
                      /\ Sig(i) = s
                      /\ calls[i].pc \in {"record", "notify", "confirm", "over"}}

CountSound == \A s \in Signature : patterns[s] <= Cardinality(Counted(s))

(***************************************************************************)
(* The duplicate guard keeps its promise when the paths of a build come in *)
(* turn: at most one Slack message for it, even if an earlier analysis     *)
(* died anywhere, before or after its message.                             *)
(***************************************************************************)
Messages(b) == posted \cap CallsOf(b)

OneMessageInTurn == \A b \in Serial : Cardinality(Messages(b)) <= 1

(***************************************************************************)
(* What README.md promises: only one Slack message is ever sent per build. *)
(***************************************************************************)
OneMessage == \A b \in Build : Cardinality(Messages(b)) <= 1

(***************************************************************************)
(* Every failed build is analysed: once a path is triggered, an event is   *)
(* recorded, by it or by another one, unless an analysis died or b was     *)
(* outrun: another build failed with the same new error at the same time,  *)
(* and b lost the race for the first row of the signature.                 *)
(***************************************************************************)
Outrun(b) == \E i \in CallsOf(b), j \in Counted(SigOf[b]) : At(i, "over") /\ calls[j].build # b

Reported == \A b \in Build : CallsOf(b) # {} ~> EventsOf(b) # {} \/ deaths > 0 \/ Outrun(b)

(***************************************************************************)
(* No event stays PENDING unless an analysis died.                         *)
(***************************************************************************)
EventSettles ==
    \A i \in Analysis :
      i \in DOMAIN events ~> (i \in DOMAIN events /\ events[i] # "PENDING") \/ deaths > 0
=============================================================================
