----------------------------- MODULE MCTimelock -----------------------------
(***************************************************************************)
(* An instance of Timelock for TLC.  The cfg gives the constants, but for  *)
(* the appointments: the deployer's and the timelock's to administer roles *)
(* and to control the stores, and the multisig's, which the deployer may   *)
(* share or take over.                                                     *)
(***************************************************************************)
EXTENDS Timelock

CONSTANTS deployer, multisig, timelock

Posts ==
  {deployer, timelock} \X {"ROLE_ADMIN", "CONTROLLER"}
  \cup {deployer, multisig} \X {"TIMELOCK_MULTISIG"}
  \cup {<<deployer, "TIMELOCK_ADMIN">>}
=============================================================================
