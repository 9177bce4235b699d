---------------------------- MODULE Dashboard ------------------------------
(***************************************************************************)
(* What open dashboards make the server do, in one event loop and beside   *)
(* one collector: the streams of LiveFeed and the polls of MetricsHistory. *)
(***************************************************************************)
EXTENDS LiveFeed, MetricsHistory

vars == <<feedVars, histVars>>

Init == FeedInit /\ HistInit

Next ==
    \/ FeedNext /\ UNCHANGED histVars
    \/ HistNext /\ UNCHANGED feedVars

Spec     == Init /\ [][Next]_vars
LiveSpec == Init /\ [][Next]_vars /\ FeedFairness

TypeOK == FeedTypeOK /\ HistTypeOK
=============================================================================
