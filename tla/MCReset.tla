------------------------------ MODULE MCReset ------------------------------
(* An instance of the reset of the application's data for TLC.             *)
EXTENDS ResetProperties
=============================================================================
