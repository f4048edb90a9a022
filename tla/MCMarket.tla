------------------------------ MODULE MCMarket ------------------------------
(***************************************************************************)
(* Instances of Market for TLC.                                            *)
(***************************************************************************)
EXTENDS Market

Key(t, isLong) == [collateralToken |-> t, isLong |-> isLong]

\* A long whose profit is in its collateral token, and a short whose profit is not.
LongAndShort == <<Key(LongToken, TRUE), Key(LongToken, FALSE)>>

\* Two longs of two accounts, which share their sums.
TwoLongs == <<Key(LongToken, TRUE), Key(LongToken, TRUE)>>

Even == [min |-> 1, max |-> 1]
Wide == [min |-> 1, max |-> 2]
EvenOnly == {Even}
WideOnly == {Wide}

OneProfit   == {1}
WinOrLose   == {-1, 1}
LargeProfit == {-1, 0, 2}

NoFees      == [forPool |-> 0, forReceiver |-> 0, ui |-> 0, affiliate |-> 0]
ReceiverFee == [forPool |-> 0, forReceiver |-> 1, ui |-> 0, affiliate |-> 0]
OtherFees   == [forPool |-> 1, forReceiver |-> 0, ui |-> 0, affiliate |-> 1]
OnlyNoFees      == {NoFees}
OnlyReceiverFee == {ReceiverFee}
NoneOrOtherFees == {NoFees, OtherFees}

FreeSwap     == [forPool |-> 0, forReceiver |-> 0, ui |-> 0, impact |-> 0]
ImpactedSwap == [forPool |-> 1, forReceiver |-> 0, ui |-> 0, impact |-> 1]
CostlySwap   == [forPool |-> 0, forReceiver |-> 1, ui |-> 0, impact |-> -1]
FreeOnly == {FreeSwap}
TwoSwaps == {CostlySwap, ImpactedSwap}

UpTo(long, short) == [t \in Tokens |-> IF t = LongToken THEN long ELSE short]
UpTo31 == UpTo(3, 1)
UpTo40 == UpTo(4, 0)
UpTo33 == UpTo(3, 3)
=============================================================================
