---------------------------- MODULE MCScheduler ----------------------------
(***************************************************************************)
(* Values for model checking Scheduler.  Runs and workers are numbered, as *)
(* in the database; a run's number is its place in the queue query.        *)
(***************************************************************************)
EXTENDS Scheduler

MCBuildNo == {0, 1}
MCRank    == [r \in Run |-> r]

MCLanguage == {"PYTHON", "NODE", "JAVA", "GO"}

\* Worker 1 speaks Python, the others are generic; run 1 needs Python.
MCLangOf     == [w \in Worker |-> IF w = 1 THEN "PYTHON" ELSE "GENERIC"]
MCLangNeeded == [r \in Run |-> IF r = 1 THEN "PYTHON" ELSE "GENERIC"]

\* Every run needs Python: the second one has to take a generic worker.
MCPython == [r \in Run |-> "PYTHON"]
=============================================================================
