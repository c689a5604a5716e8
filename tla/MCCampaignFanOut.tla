-------------------------- MODULE MCCampaignFanOut --------------------------
(***************************************************************************)
(* Small instances of CampaignFanOut for TLC.                              *)
(***************************************************************************)
EXTENDS CampaignFanOut

CONSTANTS x, y
=============================================================================
