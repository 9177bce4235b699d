-------------------------- MODULE MCBuildTracking --------------------------
(***************************************************************************)
(* Values for model checking BuildTracking: runs are numbered, workers     *)
(* alike; every run has a job of its own.                                  *)
(***************************************************************************)
EXTENDS BuildTracking

CONSTANTS j1, j2

MCBuildNo == 0..MaxBuilds
MCAlike   == [w \in Worker |-> "GENERIC"]
MCAny     == [r \in Run |-> "GENERIC"]

MCOwnJob  == [r \in Run |-> IF r = 1 THEN j1 ELSE j2]
=============================================================================
