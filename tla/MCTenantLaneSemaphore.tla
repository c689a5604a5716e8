------------------------ MODULE MCTenantLaneSemaphore -----------------------
(***************************************************************************)
(* A small instance of TenantLaneSemaphore for TLC.                        *)
(***************************************************************************)
EXTENDS TenantLaneSemaphore

CONSTANTS t1, t2, t3
=============================================================================
