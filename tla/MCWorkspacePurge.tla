-------------------------- MODULE MCWorkspacePurge --------------------------
(***************************************************************************)
(* WorkspacePurge on two tables, a child and the parent it refers to.      *)
(***************************************************************************)
EXTENDS WorkspacePurge

MCTableOrder == <<"sends", "contacts">>
=============================================================================
