---------------------------- MODULE MCOpsAlerts ----------------------------
(***************************************************************************)
(* OpsAlerts for model checking: all watchdogs, two checks at a time.      *)
(***************************************************************************)
EXTENDS OpsAlerts
=============================================================================
