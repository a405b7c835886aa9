------------------------------ MODULE MCHelper ------------------------------
(* An instance of the supervision of the helper for TLC.                   *)
EXTENDS HelperProperties

CONSTANT r1
=============================================================================
