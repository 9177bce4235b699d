------------------------- MODULE MCFailureAnalysis -------------------------
(***************************************************************************)
(* Values for model checking Diagnosis: the logs from which the signatures *)
(* of FailureAnalysis come, and the inputs over which the functions of     *)
(* LogPipeline and RootCause are checked.                                  *)
(***************************************************************************)
EXTENDS Diagnosis, TLC

CONSTANTS b1, b2, b3, s1, s2

Symmetric == Permutations(Analysis)

-----------------------------------------------------------------------------
(* Logs *)

\* e1 and e1b differ in a path only.
MCAnchor == {"e1", "e1b", "e2", Unavailable}
MCNormal == [text \in MCAnchor |-> IF text \in {"e1", "e1b"} THEN s1 ELSE s2]

\* cmd is a command that two rules know, one of them a rule that was added.
MCRules == <<[type |-> "flaky_test",     hits |-> {"e1", "cmd"}],
             [type |-> "infrastructure", hits |-> {"e2"}],
             [type |-> "custom",         hits |-> {"cmd"}]>>

MCLine == [stamp : {"", "10:00"}, text : {"e1", "e2", "cmd", "ok"}]
MCLogs == BoundedSeq(MCLine, 4)

\* Two builds that fail with the same error at other times and in other
\* places, the first after a failed attempt to fetch its log; a third whose
\* log contains no error.
LogOf(b) ==
    CASE b = b1 -> RawLog(<<>>, <<NoLog, <<[stamp |-> "10:00", text |-> "e1"]>>, NoLog>>)
      [] b = b2 -> RawLog(<<Bare("ok"), [stamp |-> "11:00", text |-> "e1b"]>>, <<NoLog, NoLog, NoLog>>)
      [] b = b3 -> RawLog(<<Bare("ok")>>, <<NoLog, NoLog, NoLog>>)

Signatures     == [b \in Build |-> SignatureOf(LogOf(b))]
SignatureOfLog == Signatures

\* What Jenkins may answer: logs shorter and longer than what is kept.
MCServed == {NoLog, <<Bare("ok")>>} \cup [1..2 -> {Bare("ok"), Bare("e1")}]
                                    \cup {<<Bare("ok"), Bare("ok"), Bare("e1")>>}

-----------------------------------------------------------------------------
(* Models *)

MCSummaryTemplate == [c \in Category |-> "template"]
MCFixTemplate     == [c \in Category |-> <<"do this", "do that", "escalate">>]

MCReplies == [kind : {"failed", "empty", "prose"}, summary : {NoText}, fixes : {<<>>}]
             \cup [kind : {"loose", "json"},
                   summary : {"diagnosis", NoText, Junk},
                   fixes : {<<>>, <<"advice">>, <<Junk, "advice", NoText>>,
                            <<"advice", "advice", Junk, "advice", "advice">>}]
             \cup {NotAsked}

\* Pattern records, with and without a resolution.
MCRecords == BoundedSeq([similarity : 1..4, resolution : {NoText, "resolution"}], 3)
=============================================================================
