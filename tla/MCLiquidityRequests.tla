------------------------ MODULE MCLiquidityRequests ------------------------
(***************************************************************************)
(* Instances of LiquidityRequests for TLC.  The cfgs, one for each run,    *)
(* give the constants; sets of flags, which a cfg cannot write, are here.  *)
(***************************************************************************)
EXTENDS LiquidityRequests

MixedFlags == {<<"cancel", "deposit">>, <<"cancel", "withdrawal">>,
               <<"execute", "withdrawal">>}
=============================================================================
