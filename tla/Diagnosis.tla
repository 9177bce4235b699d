----------------------------- MODULE Diagnosis -----------------------------
(***************************************************************************)
(* What an analysis of FailureAnalysis has worked out when it records its  *)
(* event (tasks.py): the errors of the build's log, their kind, the most   *)
(* similar failures and the answer of root_cause.py.  None of it changes   *)
(* anything, so the logs, the records and the replies it may have met are  *)
(* constants here.                                                         *)
(***************************************************************************)
EXTENDS FailureAnalysis, RootCause

CONSTANTS Line,      \* the lines of console logs
          Logs,      \* the logs of failed builds
          Served,    \* what Jenkins may answer when it is asked for one
          Records,   \* pattern_records as find_similar may read them
          Replies    \* what a language model may reply

ASSUME DiagnosisAssumption ==
    /\ \A log \in Logs : log \in Seq(Line)
    /\ \A reply \in Served \ {NoLog} : reply \in Seq(Line)
    /\ \A records \in Records : records \in Seq([similarity : Nat, resolution : Text \cup {NoText}])
    /\ \A reply \in Replies \ {NotAsked} : reply \in Reply

\* What classify may answer.
Kinds == {Rules[k].type : k \in DOMAIN Rules} \cup {"unknown"}

(***************************************************************************)
(* A call that is about to record its event has read a log and analysed it *)
(* (any of Logs).                                                          *)
(***************************************************************************)
Analysed == \E i \in Analysis : At(i, "record")

EndsAreAnalysed     == \A replies \in [1..Attempts -> Served] : EndIsAnalysed(replies)
ErrorsAreFound      == \A log \in Logs : ErrorsFoundOnce(log)
ErrorsAreClassified == \A log \in Logs : CountedErrorIsClassified(log)
BestMatchesAreFirst == \A records \in Records : BestMatchFirst(records)

AnswersAreSound ==
    \A category \in Kinds, groq, anthropic \in Replies :
    \A matches \in {Resolutions(FindSimilar(records)) : records \in Records} :
        AnswerSound(category, matches, groq, anthropic)

(***************************************************************************)
(* An analysis has worked on the end of what Jenkins sent, and found every *)
(* error of it.  (fetch_console_log, parse)                                *)
(***************************************************************************)
EveryErrorFound == Analysed => EndsAreAnalysed /\ ErrorsAreFound

(***************************************************************************)
(* No error under which a build is counted has escaped the classifier.     *)
(* (the excerpt of _process_async, classify)                               *)
(***************************************************************************)
EveryErrorClassified == Analysed => ErrorsAreClassified

(***************************************************************************)
(* An analysis has an answer for every build, whatever the models replied, *)
(* and offers the best resolution it knows.  (analyse, find_similar)       *)
(***************************************************************************)
EveryAnswerSound == Analysed => BestMatchesAreFirst /\ AnswersAreSound
=============================================================================
