-------------------------- MODULE MCRequestEscrow --------------------------
(***************************************************************************)
(* Instances of RequestEscrow for TLC; their constants are in the cfgs.    *)
(***************************************************************************)
EXTENDS RequestEscrow
=============================================================================
