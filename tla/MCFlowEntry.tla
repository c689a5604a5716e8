----------------------------- MODULE MCFlowEntry ----------------------------
(***************************************************************************)
(* FlowEntry on two contacts, so that with pages of one a walk can be cut  *)
(* in the middle.  The answers of the other re-entry modes are among those   *)
(* of once_per_n_days.                                                     *)
(***************************************************************************)
EXTENDS FlowEntry
=============================================================================
