--------------------------- MODULE MCSendDispatch ---------------------------
(***************************************************************************)
(* Small instances of SendDispatch for TLC.                                *)
(***************************************************************************)
EXTENDS SendDispatch, TLC

CONSTANTS c1, c2, a1, a2

Slots == Permutations({a1, a2})

Recipients == Permutations({c1, c2}) \cup Permutations({a1, a2})
=============================================================================
