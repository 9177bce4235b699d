----------------------------- MODULE MCDispatch -----------------------------
(***************************************************************************)
(* Values for model checking Dispatch: a push to a feature branch that     *)
(* touches production code goes before a pull request from develop until   *)
(* a restart forgets the files.  The first repository is public, but the   *)
(* token the server has is no longer good.                                 *)
(***************************************************************************)
EXTENDS Dispatch

MCPayload(event, kind, files) ==
    [signed |-> TRUE, event |-> event, repo |-> TRUE, files |-> files,
     head   |-> [kind |-> kind, lower |-> TRUE, security |-> FALSE]]

MCPayloadOf == [r \in Run |-> IF r = 1 THEN MCPayload("push branch", "feature", {"prod"})
                              ELSE MCPayload("pull_request opened", "develop", {})]

MCRepoOf == [r \in Run |-> [public |-> TRUE, holds |-> TRUE,
                            token |-> IF r = 1 THEN "invalid" ELSE "none"]]

MCLangOf     == [w \in Worker |-> "GENERIC"]
MCLangNeeded == [r \in Run |-> "GENERIC"]
=============================================================================
