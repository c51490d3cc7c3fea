-------------------------- MODULE MCCanaryCampaign --------------------------
(* The campaign with one process to spare, two terminals and one change by *)
(* the owner.                                                              *)
EXTENDS CanaryCampaign
=============================================================================
