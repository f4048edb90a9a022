------------------------------ MODULE MCOrders ------------------------------
(***************************************************************************)
(* Instances of Orders for TLC; their constants are given in the cfgs.     *)
(***************************************************************************)
EXTENDS Orders
=============================================================================
