------------------------------- MODULE Market -------------------------------
(***************************************************************************)
(* One market: the tokens that its market token contract holds, and the    *)
(* books in the DataStore that say whose they are.  Deposits, withdrawals, *)
(* swaps, positions and claims all pay into and out of the same balance,   *)
(* and each books its part by itself: nothing but the sum of what they do  *)
(* keeps the market able to pay everybody.                                 *)
(*                                                                         *)
(* Prices, profits, fees and price impact are free choices, conversions    *)
(* between dollars and tokens, with their rounding, are not.  The market   *)
(* has two different tokens.  Tokens that a path of swaps brings from or   *)
(* takes to other markets come from and go to the outside; a leg of such a *)
(* path through this market is a Swap, before or after the step it is for. *)
(*                                                                         *)
(* A definition F_Slip is F with one slip that its code could have; no     *)
(* action uses it.  It is there to see that a property notices the slip.   *)
(***************************************************************************)
EXTENDS Integers, Sequences, LedgerSum

CONSTANTS
  LongToken, ShortToken,
  PositionKeys,     \* the keys of positions: account is left out, see below
  Amounts,          \* amounts of tokens that come in or are asked for, positive
  Gifts,            \* amounts of tokens that strangers send, positive
  Sizes,            \* sizes of orders in dollars, positive
  ExecutionPrices,  \* of one index token, in dollars
  OrderKinds,       \* of "trader", "liquidation" and "adl"
  Profits,          \* dollars that a decrease realises, negative for a loss
  ImpactDiffs,      \* dollars of price impact above the cap
  PriceRanges,      \* the minimum and maximum of a token's price
  FeeChoices,       \* fees of a position order, see FeeRecords
  SwapChoices,      \* fees and price impact of a swap, see SwapRecords
  NoSwap,           \* instead of them: there is no swap, or it fails
  MinCollateralUsd, \* a position with less left can be liquidated
  MaxBalance,       \* bound: of each token, what the market holds
  MaxSurplus,       \* bound: tokens that are nobody's, for gifts to be made
  MaxSize,          \* bound: dollars of open interest of each kind
  MaxFunding        \* bound: tokens of funding a position owes or is owed,
                    \* and of those claimed ahead of being paid

Tokens == {LongToken, ShortToken}

NumPositions == Len(PositionKeys)
Positions == 1..NumPositions

FeeRecords  == [forPool : Nat, forReceiver : Nat, ui : Nat, affiliate : Nat]
SwapRecords == [forPool : Nat, forReceiver : Nat, ui : Nat, impact : Int]

ASSUME MarketAssumption ==
  /\ LongToken # ShortToken
  /\ PositionKeys \in Seq([collateralToken : Tokens, isLong : BOOLEAN])
  /\ Amounts \subseteq Nat \ {0}
  /\ Gifts \subseteq Nat \ {0}
  /\ Sizes \subseteq Nat \ {0}
  /\ ExecutionPrices \subseteq Nat \ {0}
  /\ OrderKinds \subseteq {"trader", "liquidation", "adl"}
  /\ Profits \subseteq Int
  /\ ImpactDiffs \subseteq Nat
  /\ PriceRanges \subseteq {r \in [min : Nat \ {0}, max : Nat \ {0}] : r.min <= r.max}
  /\ FeeChoices \subseteq FeeRecords
  /\ SwapChoices \subseteq SwapRecords /\ NoSwap \notin SwapRecords
  /\ MinCollateralUsd \in Nat
  /\ MaxBalance \in [Tokens -> Nat] /\ MaxSurplus \in Nat /\ MaxSize \in Nat /\ MaxFunding \in Nat

(***************************************************************************)
(* books[b][t] is the value under the key b of token t.  "balance" is the  *)
(* token's own record of what the market holds.  Two have no key of their  *)
(* own in the code: the collateral sums are told apart by side, and        *)
(* "funding", which nothing in the code records, is what positions have    *)
(* paid for funding less what was claimed of it.  Funding may be claimed   *)
(* before those who owe it have paid, so it may be negative.               *)
(***************************************************************************)
ClaimBuckets == {"claimableFee", "claimableUiFee", "affiliateReward", "claimableCollateral"}
Recorded     == ClaimBuckets \cup {"balance", "pool", "swapImpactPool",
                  "longCollateral", "shortCollateral", "claimableFunding"}
Buckets      == Recorded \cup {"funding"}

VARIABLES
  books,                 \* as above
  openInterest,          \* dollars, by collateral token and side
  openInterestInTokens,  \* index tokens, by collateral token and side
  sizeInUsd, sizeInTokens, collateralAmount,  \* of each position
  fundingDue             \* what a position owes in each token, negative if it is owed

positionVars == <<openInterest, openInterestInTokens, sizeInUsd, sizeInTokens, collateralAmount, fundingDue>>
vars == <<books, positionVars>>

CollateralToken(p) == PositionKeys[p].collateralToken
IsLong(p)  == PositionKeys[p].isLong
PnlToken(p) == IF IsLong(p) THEN LongToken ELSE ShortToken
CollateralSum(p) == IF IsLong(p) THEN "longCollateral" ELSE "shortCollateral"
Opposite(t) == IF t = LongToken THEN ShortToken ELSE LongToken

AtLeastZero(x) == IF x > 0 THEN x ELSE 0
Lesser(x, y)   == IF x < y THEN x ELSE y
RoundUpDivision(x, y) == (x + y - 1) \div y

Credit(m, b, t, x) == [m EXCEPT ![b][t] = @ + x]

(***************************************************************************)
(* What the market holds and owes to nobody.                               *)
(***************************************************************************)
Surplus(m, t) ==
  m["balance"][t] - (m["pool"][t] + m["swapImpactPool"][t] + m["claimableFee"][t]
    + m["claimableUiFee"][t] + m["affiliateReward"][t] + m["claimableCollateral"][t]
    + m["longCollateral"][t] + m["shortCollateral"][t] + m["funding"][t])

(***************************************************************************)
(* The check at the end of every transaction, and its way of booking: a    *)
(* value that would fall below zero, or a transfer of more than there is,  *)
(* reverts.                                                                *)
(***************************************************************************)
ValidateMarketTokenBalance(m, t) ==
  LET balance == m["balance"][t]
  IN  /\ balance >= m["pool"][t] + m["swapImpactPool"][t] + m["claimableCollateral"][t]
                      + m["claimableFee"][t] + m["claimableUiFee"][t] + m["affiliateReward"][t]
      /\ balance >= m["longCollateral"][t] + m["shortCollateral"][t]
      /\ balance >= m["claimableFunding"][t]

Book(m) ==
  /\ \A b \in Recorded, t \in Tokens : m[b][t] >= 0
  /\ \A t \in Tokens : ValidateMarketTokenBalance(m, t)
  /\ books' = m

HasRoom(t, x) == books["balance"][t] + x <= MaxBalance[t]

-----------------------------------------------------------------------------
(* Swaps, deposits and withdrawals *)

(***************************************************************************)
(* The fees are of the token that comes in.  An impact above zero is paid  *)
(* from the impact pool of the token that goes out, as far as that goes,   *)
(* one below zero is kept in the impact pool of the token that comes in.   *)
(***************************************************************************)
PaySwapFees(m, t, s) ==
  Credit(Credit(m, "claimableFee", t, s.forReceiver), "claimableUiFee", t, s.ui)

AmountAfterFees(amount, s) == amount - (s.forReceiver + s.forPool) - s.ui
PositiveImpact(m, t, s) == IF s.impact > 0 THEN Lesser(s.impact, m["swapImpactPool"][t]) ELSE 0
NegativeImpact(s) == AtLeastZero(-s.impact)

SwapIn(amount, s) == AmountAfterFees(amount, s) - NegativeImpact(s)
PoolAmountOut(amount, s, prices, t) ==
  (SwapIn(amount, s) * prices[t].min) \div prices[Opposite(t)].max
SwapOut(m, t, amount, s, prices) ==
  PoolAmountOut(amount, s, prices, t) + PositiveImpact(m, Opposite(t), s)

CanSwap(m, t, amount, s, prices) ==
  /\ AmountAfterFees(amount, s) >= 0
  /\ SwapIn(amount, s) > 0 \/ s.impact > 0
  /\ m["pool"][Opposite(t)] >= PoolAmountOut(amount, s, prices, t)

SwapBooks_ImpactPoolKept(m, t, amount, s, prices) ==
  LET u  == Opposite(t)
      m1 == Credit(PaySwapFees(m, t, s), "swapImpactPool", t, NegativeImpact(s))
      m2 == Credit(m1, "pool", t, SwapIn(amount, s) + s.forPool)
  IN  Credit(m2, "pool", u, -PoolAmountOut(amount, s, prices, t))

SwapBooks(m, t, amount, s, prices) ==
  LET u  == Opposite(t)
      m1 == PaySwapFees(m, t, s)
      m2 == Credit(m1, "swapImpactPool", t, NegativeImpact(s))
      m3 == Credit(m2, "swapImpactPool", u, -PositiveImpact(m, u, s))
      m4 == Credit(m3, "pool", t, SwapIn(amount, s) + s.forPool)
  IN  Credit(m4, "pool", u, -PoolAmountOut(amount, s, prices, t))

Swap(t, amount, s, prices) ==
  /\ HasRoom(t, amount)
  /\ CanSwap(books, t, amount, s, prices)
  /\ LET received == Credit(books, "balance", t, amount)
         swapped  == SwapBooks(received, t, amount, s, prices)
     IN  Book(Credit(swapped, "balance", Opposite(t), -SwapOut(books, t, amount, s, prices)))
  /\ UNCHANGED positionVars

(***************************************************************************)
(* A deposit of amount of t, one of up to two that a request makes.  A     *)
(* positive impact moves tokens from the impact pool to the pool.          *)
(***************************************************************************)
DepositBooks(m, t, amount, s) ==
  IF amount = 0 THEN m ELSE
  LET u  == Opposite(t)
      m1 == PaySwapFees(Credit(m, "balance", t, amount), t, s)
      m2 == Credit(m1, "swapImpactPool", u, -PositiveImpact(m, u, s))
      m3 == Credit(m2, "pool", u, PositiveImpact(m, u, s))
      m4 == Credit(m3, "swapImpactPool", t, NegativeImpact(s))
  IN  Credit(m4, "pool", t, SwapIn(amount, s) + s.forPool)

CanDeposit(amount, s) == amount = 0 \/ SwapIn(amount, s) >= 0

ExecuteDeposit(longAmount, shortAmount, s) ==
  /\ longAmount + shortAmount > 0
  /\ HasRoom(LongToken, longAmount) /\ HasRoom(ShortToken, shortAmount)
  /\ CanDeposit(longAmount, s) /\ CanDeposit(shortAmount, s)
  /\ Book(DepositBooks(DepositBooks(books, LongToken, longAmount, s),
                       ShortToken, shortAmount, s))
  /\ UNCHANGED positionVars

(***************************************************************************)
(* A withdrawal takes amounts of both tokens out of the pool; the pool     *)
(* keeps its part of the fees.                                             *)
(***************************************************************************)
WithdrawBooks(m, t, amount, s) ==
  IF amount = 0 THEN m ELSE
  LET m1 == PaySwapFees(m, t, s)
      m2 == Credit(m1, "pool", t, -(amount - s.forPool))
  IN  Credit(m2, "balance", t, -AmountAfterFees(amount, s))

CanWithdraw(amount, s) == amount = 0 \/ AmountAfterFees(amount, s) >= 0

ExecuteWithdrawal(longAmount, shortAmount, s) ==
  /\ longAmount + shortAmount > 0
  /\ longAmount <= books["pool"][LongToken] /\ shortAmount <= books["pool"][ShortToken]
  /\ CanWithdraw(longAmount, s) /\ CanWithdraw(shortAmount, s)
  /\ Book(WithdrawBooks(WithdrawBooks(books, LongToken, longAmount, s),
                        ShortToken, shortAmount, s))
  /\ UNCHANGED positionVars

-----------------------------------------------------------------------------
(* Positions: what an increase and a decrease share *)

Matches(p, t, isLong) == CollateralToken(p) = t /\ IsLong(p) = isLong

TotalFees(f) == f.forPool + f.forReceiver + f.ui + f.affiliate
FundingFee(p) == AtLeastZero(fundingDue[p][CollateralToken(p)])
ClaimableFunding(p, t) == AtLeastZero(-fundingDue[p][t])

PayFees(m, t, f) ==
  Credit(Credit(Credit(Credit(m, "pool", t, f.forPool), "claimableFee", t, f.forReceiver),
    "claimableUiFee", t, f.ui), "affiliateReward", t, f.affiliate)

(***************************************************************************)
(* What the position is owed becomes claimable, whoever owes it.           *)
(***************************************************************************)
IncrementClaimableFunding(m, p) ==
  Credit(Credit(m, "claimableFunding", LongToken, ClaimableFunding(p, LongToken)),
    "claimableFunding", ShortToken, ClaimableFunding(p, ShortToken))

FundingSettled(p) == [fundingDue EXCEPT ![p] = [t \in Tokens |-> 0]]

OpenInterestOf(interest, p) == interest[CollateralToken(p)][IsLong(p)]
OpenInterestPlus(interest, p, x) ==
  [interest EXCEPT ![CollateralToken(p)][IsLong(p)] = @ + x]

UpdateOpenInterest_ReturnsEarly(p, size, tokens) ==
  /\ OpenInterestOf(openInterest, p) + size >= 0
  /\ OpenInterestOf(openInterestInTokens, p) + tokens >= 0
  /\ openInterest' = OpenInterestPlus(openInterest, p, IF tokens = 0 THEN 0 ELSE size)
  /\ openInterestInTokens' = OpenInterestPlus(openInterestInTokens, p, tokens)

UpdateOpenInterest(p, size, tokens) ==
  /\ OpenInterestOf(openInterest, p) + size >= 0
  /\ OpenInterestOf(openInterestInTokens, p) + tokens >= 0
  /\ openInterest' = OpenInterestPlus(openInterest, p, size)
  /\ openInterestInTokens' = OpenInterestPlus(openInterestInTokens, p, IF size = 0 THEN 0 ELSE tokens)

-----------------------------------------------------------------------------
(* Increasing a position *)

IncreaseBooks_SumBeforeFees(p, received, fees) ==
  LET t  == CollateralToken(p)
      m1 == PayFees(Credit(books, "balance", t, received), t, fees)
      m2 == Credit(m1, "funding", t, FundingFee(p))
      m3 == Credit(m2, CollateralSum(p), t, received)
  IN  IncrementClaimableFunding(m3, p)

IncreaseBooks(p, received, fees) ==
  LET t  == CollateralToken(p)
      m1 == PayFees(Credit(books, "balance", t, received), t, fees)
      m2 == Credit(m1, "funding", t, FundingFee(p))
      m3 == Credit(m2, CollateralSum(p), t, received - TotalFees(fees) - FundingFee(p))
  IN  IncrementClaimableFunding(m3, p)

SizeIncreaseInTokens(p, size, price) ==
  IF IsLong(p) THEN size \div price ELSE RoundUpDivision(size, price)

IncreasePosition(p, received, size, price, fees) ==
  LET collateral == collateralAmount[p] + received - TotalFees(fees) - FundingFee(p)
      tokens     == SizeIncreaseInTokens(p, size, price)
  IN  /\ HasRoom(CollateralToken(p), received)
      /\ collateral >= 0 /\ (size > 0 => collateral > 0)
      /\ OpenInterestOf(openInterest, p) + size <= MaxSize
      /\ sizeInUsd[p] + size > 0
      /\ sizeInTokens[p] + tokens > 0
      /\ Book(IncreaseBooks(p, received, fees))
      /\ sizeInUsd' = [sizeInUsd EXCEPT ![p] = @ + size]
      /\ sizeInTokens' = [sizeInTokens EXCEPT ![p] = @ + tokens]
      /\ collateralAmount' = [collateralAmount EXCEPT ![p] = collateral]
      /\ fundingDue' = FundingSettled(p)
      /\ UpdateOpenInterest(p, size, tokens)

-----------------------------------------------------------------------------
(* Decreasing a position.  d is the order with what the market makes of    *)
(* it: the position, whether it is a trader's order, a liquidation or an   *)
(* ADL, the size and the collateral it is for once the code has adjusted   *)
(* them, the profit, the impact above the cap, the fees, the prices, and   *)
(* how the swap of the profit into the collateral token goes if there is   *)
(* one and it does not fail.                                               *)

Token(d) == CollateralToken(d.position)
Collateral(d) == collateralAmount[d.position]
Closes(d) == d.size = sizeInUsd[d.position]

SizeDeltaInTokens(d) ==
  LET product == sizeInTokens[d.position] * d.size
  IN  CASE Closes(d)          -> sizeInTokens[d.position]
        [] ~Closes(d) /\ IsLong(d.position) -> RoundUpDivision(product, sizeInUsd[d.position])
        [] OTHER              -> product \div sizeInUsd[d.position]

(***************************************************************************)
(* The impact above the cap is taken from the profit first, and then from  *)
(* the collateral.                                                         *)
(***************************************************************************)
AdjustedPnl(d) == IF d.pnl > 0 THEN AtLeastZero(d.pnl - d.impactDiff) ELSE d.pnl
AdjustedDiff(d) == IF d.pnl > 0 THEN AtLeastZero(d.impactDiff - d.pnl) ELSE d.impactDiff
DiffAmount(d) == AdjustedDiff(d) \div d.prices[Token(d)].max

PnlPrice(d) == d.prices[PnlToken(d.position)].max
DeductionForPool(d) == IF AdjustedPnl(d) > 0 THEN d.pnl \div PnlPrice(d) ELSE 0
PnlForUser(d) == AtLeastZero(AdjustedPnl(d)) \div PnlPrice(d)
Loss(d) == AtLeastZero(-d.pnl) \div d.prices[Token(d)].min

TakeProfit(m, d) ==
  LET u == PnlToken(d.position)
  IN  Credit(Credit(m, "claimableCollateral", u, DeductionForPool(d) - PnlForUser(d)),
        "pool", u, -DeductionForPool(d))

IsSwapped(d) == d.swap # NoSwap /\ PnlToken(d.position) # Token(d) /\ PnlForUser(d) > 0

SwapProfit(m, d) ==
  IF IsSwapped(d) THEN SwapBooks(m, PnlToken(d.position), PnlForUser(d), d.swap, d.prices)
  ELSE m

(***************************************************************************)
(* What the order pays out before costs: of the collateral token, and of   *)
(* the other token if the profit is in it and was not swapped.             *)
(***************************************************************************)
Output(d) ==
  CASE IsSwapped(d) -> SwapOut(TakeProfit(books, d), PnlToken(d.position), PnlForUser(d), d.swap, d.prices)
    [] ~IsSwapped(d) /\ PnlToken(d.position) = Token(d) -> PnlForUser(d)
    [] OTHER -> 0
SecondaryOutput(d) ==
  IF ~IsSwapped(d) /\ PnlToken(d.position) # Token(d) THEN PnlForUser(d) ELSE 0

CanTakeProfit(d) ==
  /\ books["pool"][PnlToken(d.position)] >= DeductionForPool(d)
  /\ IsSwapped(d) => CanSwap(TakeProfit(books, d), PnlToken(d.position), PnlForUser(d), d.swap, d.prices)

(***************************************************************************)
(* Costs are paid from the output, then from the collateral.               *)
(***************************************************************************)
TotalNetCost(d) == TotalFees(d.fees) + FundingFee(d.position)
OutputAfterCost(d) == AtLeastZero(Output(d) - TotalNetCost(d))
CollateralCost(d) == AtLeastZero(TotalNetCost(d) - Output(d))
PendingCollateralDeduction(d) == CollateralCost(d) + Loss(d)

IsPositionLiquidatable(d) ==
  (Collateral(d) - (TotalNetCost(d) - d.fees.ui)) * d.prices[Token(d)].min + d.pnl
     < (IF MinCollateralUsd > 1 THEN MinCollateralUsd ELSE 1)

(***************************************************************************)
(* There is enough collateral: losses go to the pool, the rest of the      *)
(* impact above the cap becomes claimable, and the trader gets what was    *)
(* asked for, or everything if the position is closed.  Rounding may close *)
(* it before its last dollar.                                              *)
(***************************************************************************)
LeftAfterCosts(d) == Collateral(d) - PendingCollateralDeduction(d)
CappedDiff(d) == Lesser(DiffAmount(d), LeftAfterCosts(d))
IsClosed_InDollars(d) == Closes(d)
IsClosed(d) == Closes(d) \/ SizeDeltaInTokens(d) = sizeInTokens[d.position]
RequestedCollateral(d) == AtLeastZero(d.withdraw - DiffAmount(d))
RemainingCollateral_NotCapped(d) ==
  IF IsClosed(d) THEN 0 ELSE LeftAfterCosts(d) - CappedDiff(d) - RequestedCollateral(d)

RemainingCollateral(d) ==
  LET left == LeftAfterCosts(d) - CappedDiff(d)
  IN  IF IsClosed(d) THEN 0 ELSE left - Lesser(RequestedCollateral(d), left)

SettledBooks(d) ==
  LET t    == Token(d)
      u    == PnlToken(d.position)
      diff == CappedDiff(d)
      remaining == RemainingCollateral(d)
      m1 == SwapProfit(TakeProfit(books, d), d)
      m2 == Credit(m1, "pool", t, Loss(d))
      m3 == Credit(PayFees(m2, t, d.fees), "funding", t, FundingFee(d.position))
      m4 == Credit(m3, "claimableCollateral", t, diff)
      m5 == Credit(m4, CollateralSum(d.position), t, remaining - Collateral(d))
      m6 == Credit(m5, "balance", t, -(OutputAfterCost(d) + LeftAfterCosts(d) - diff - remaining))
  IN  Credit(m6, "balance", u, -SecondaryOutput(d))

(***************************************************************************)
(* There is not: a liquidation or an ADL of the whole position pays what   *)
(* it can.  Funding comes first, the rest of the collateral goes to the    *)
(* pool.  If the profit is in the other token it pays what is left of      *)
(* both, funding through the holding address, which claims it to top up    *)
(* the pool.  Fees are given up.                                           *)
(***************************************************************************)
FundingPaid_Last(d) ==
  Lesser(FundingFee(d.position), AtLeastZero(Collateral(d) - TotalFees(d.fees) - Loss(d)))
FundingPaid(d) == Lesser(FundingFee(d.position), Collateral(d))
UnpaidFunding(d) == FundingFee(d.position) - FundingPaid(d)
CollateralForPool_WithoutFees(d) ==
  AtLeastZero(Collateral(d) - FundingPaid(d) - TotalFees(d.fees))
CollateralForPool(d) == Collateral(d) - FundingPaid(d)
CostWithoutFunding(d) == PendingCollateralDeduction(d) - FundingFee(d.position)
UnpaidCost(d) == AtLeastZero(CostWithoutFunding(d) - CollateralForPool(d))

InSecondary(d, amount) ==
  (amount * d.prices[Token(d)].max) \div d.prices[PnlToken(d.position)].min
SecondaryForFunding(d) == Lesser(InSecondary(d, UnpaidFunding(d)), SecondaryOutput(d))
SecondaryForPool(d) ==
  Lesser(InSecondary(d, UnpaidCost(d)), SecondaryOutput(d) - SecondaryForFunding(d))

ForceClosedBooks(d) ==
  LET t  == Token(d)
      u  == PnlToken(d.position)
      m1 == SwapProfit(TakeProfit(books, d), d)
      m2 == Credit(m1, "funding", t, FundingPaid(d))
      m3 == Credit(m2, "pool", t, CollateralForPool(d))
      m4 == Credit(m3, CollateralSum(d.position), t, -Collateral(d))
      m5 == Credit(m4, "claimableCollateral", u, SecondaryForFunding(d))
      m6 == Credit(m5, "pool", u, SecondaryForPool(d))
  IN  Credit(m6, "balance", u,
        -(SecondaryOutput(d) - SecondaryForFunding(d) - SecondaryForPool(d)))

HasEnoughCollateral(d) == PendingCollateralDeduction(d) <= Collateral(d)
CanForceClose(d) == Closes(d) /\ d.kind # "trader" /\ CostWithoutFunding(d) >= 0

PayCosts(d) ==
  \/ /\ HasEnoughCollateral(d)
     /\ Book(IncrementClaimableFunding(SettledBooks(d), d.position))
     /\ collateralAmount' = [collateralAmount EXCEPT ![d.position] = RemainingCollateral(d)]
  \/ /\ ~HasEnoughCollateral(d) /\ CanForceClose(d)
     /\ Book(IncrementClaimableFunding(ForceClosedBooks(d), d.position))
     /\ collateralAmount' = [collateralAmount EXCEPT ![d.position] = 0]

DecreasePosition(d) ==
  LET p == d.position
  IN  /\ sizeInUsd[p] > 0
      /\ d.size <= sizeInUsd[p]
      /\ d.swap # NoSwap => IsSwapped(d)
      /\ d.kind = "liquidation" => Closes(d) /\ IsPositionLiquidatable(d)
      /\ d.withdraw > 0 => ~Closes(d) /\ d.withdraw < Collateral(d)
      /\ SizeDeltaInTokens(d) = 0 => d.pnl = 0
      /\ d.size = 0 => d.impactDiff = 0
      /\ CanTakeProfit(d)
      /\ PayCosts(d)
      /\ sizeInUsd' = [sizeInUsd EXCEPT ![p] = IF IsClosed(d) THEN 0 ELSE @ - d.size]
      /\ sizeInTokens' = [sizeInTokens EXCEPT ![p] = @ - SizeDeltaInTokens(d)]
      /\ fundingDue' = FundingSettled(p)
      /\ UpdateOpenInterest(p, -d.size, -SizeDeltaInTokens(d))

-----------------------------------------------------------------------------
(* Funding, claims, and transfers by strangers *)

(***************************************************************************)
(* Time passes: p comes to owe funding in its collateral token, and q, on  *)
(* the other side, comes to be owed it.  The fee is rounded up, and what   *)
(* can be claimed down.                                                    *)
(***************************************************************************)
AccrueFunding(p, q, owed) ==
  LET t == CollateralToken(p)
  IN  /\ sizeInUsd[p] > 0 /\ sizeInUsd[q] > 0
      /\ IsLong(p) # IsLong(q)
      /\ owed \in 0..1
      /\ fundingDue[p][t] < MaxFunding /\ fundingDue[q][t] > -MaxFunding
      /\ fundingDue' = [fundingDue EXCEPT ![p][t] = @ + 1, ![q][t] = @ - owed]
      /\ UNCHANGED <<books, openInterest, openInterestInTokens, sizeInUsd, sizeInTokens, collateralAmount>>

(***************************************************************************)
(* Somebody's share of a claimable amount is paid out, and of the fees all *)
(* of it.  Whose share is how large is left open.                          *)
(***************************************************************************)
Claim(bucket, t, amount) ==
  /\ bucket = "claimableFee" => amount = books[bucket][t]
  /\ Book(Credit(Credit(books, bucket, t, -amount), "balance", t, -amount))
  /\ UNCHANGED positionVars

ClaimFundingFees(t, amount) ==
  /\ books["funding"][t] - amount >= -MaxFunding
  /\ Book(Credit(Credit(Credit(books, "claimableFunding", t, -amount),
            "funding", t, -amount), "balance", t, -amount))
  /\ UNCHANGED positionVars

DirectTransfer(t, amount) ==
  /\ HasRoom(t, amount) /\ Surplus(books, t) + amount <= MaxSurplus
  /\ books' = Credit(books, "balance", t, amount)
  /\ UNCHANGED positionVars

-----------------------------------------------------------------------------
Init ==
  /\ books = [b \in Buckets |-> [t \in Tokens |-> 0]]
  /\ openInterest = [t \in Tokens |-> [isLong \in BOOLEAN |-> 0]]
  /\ openInterestInTokens = [t \in Tokens |-> [isLong \in BOOLEAN |-> 0]]
  /\ sizeInUsd = [p \in Positions |-> 0]
  /\ sizeInTokens = [p \in Positions |-> 0]
  /\ collateralAmount = [p \in Positions |-> 0]
  /\ fundingDue = [p \in Positions |-> [t \in Tokens |-> 0]]

Prices == [Tokens -> PriceRanges]

(***************************************************************************)
(* Any decrease of p.  An ADL of a part of the position does what a        *)
(* trader's order does.                                                    *)
(***************************************************************************)
OrdersOfSize(p, size) ==
  LET whole == size = sizeInUsd[p]
  IN  [position : {p}, size : {size}, fees : FeeChoices, prices : Prices,
       kind : IF whole THEN OrderKinds ELSE OrderKinds \cap {"trader"},
       withdraw : IF whole THEN {0} ELSE Amounts \cup {0},
       pnl : IF size = 0 THEN {0} ELSE Profits,
       impactDiff : IF size = 0 THEN {0} ELSE ImpactDiffs,
       swap : SwapChoices \cup {NoSwap}]

DecreaseSome(p) ==
  /\ sizeInUsd[p] > 0
  /\ \E size \in {x \in Sizes \cup {0} : x <= sizeInUsd[p]} :
       \E d \in OrdersOfSize(p, size) : DecreasePosition(d)

Next ==
  \/ \E t \in Tokens, amount \in Amounts, s \in SwapChoices, prices \in Prices :
       Swap(t, amount, s, prices)
  \/ \E longAmount, shortAmount \in Amounts \cup {0}, s \in SwapChoices :
       ExecuteDeposit(longAmount, shortAmount, s)
  \/ \E longAmount, shortAmount \in Amounts \cup {0}, s \in SwapChoices :
       ExecuteWithdrawal(longAmount, shortAmount, s)
  \/ \E p \in Positions, received \in Amounts \cup {0}, size \in Sizes \cup {0},
        price \in ExecutionPrices, fees \in FeeChoices :
       IncreasePosition(p, received, size, price, fees)
  \/ \E p \in Positions : DecreaseSome(p)
  \/ \E p, q \in Positions, owed \in 0..1 : AccrueFunding(p, q, owed)
  \/ \E bucket \in ClaimBuckets, t \in Tokens : \E amount \in 1..books[bucket][t] :
       Claim(bucket, t, amount)
  \/ \E t \in Tokens : \E amount \in 1..books["claimableFunding"][t] : ClaimFundingFees(t, amount)
  \/ \E t \in Tokens, amount \in Gifts : DirectTransfer(t, amount)

Spec == Init /\ [][Next]_vars

-----------------------------------------------------------------------------
(* Properties *)

TypeOK ==
  /\ books \in [Buckets -> [Tokens -> Int]]
  /\ \A b \in Recorded, t \in Tokens : books[b][t] >= 0
  /\ openInterest \in [Tokens -> [BOOLEAN -> Nat]]
  /\ openInterestInTokens \in [Tokens -> [BOOLEAN -> Nat]]
  /\ sizeInUsd \in [Positions -> Nat]
  /\ sizeInTokens \in [Positions -> Nat]
  /\ collateralAmount \in [Positions -> Nat]
  /\ fundingDue \in [Positions -> [Tokens -> Int]]

(***************************************************************************)
(* No transaction takes more out of the market than it takes off the       *)
(* books, whatever prices, fees, impact and errors of swaps it meets: what *)
(* the market holds for nobody never shrinks, so that it can pay everybody *)
(* (up to funding that was claimed ahead).                                 *)
(***************************************************************************)
NothingLeaks == [][\A t \in Tokens : Surplus(books', t) >= Surplus(books, t)]_books

(***************************************************************************)
(* And none leaves tokens in the market that are nobody's, apart from      *)
(* strangers' gifts and one path of the code: closing by force a position  *)
(* whose profit was paid in, or swapped into, its collateral token.  That  *)
(* profit leaves the pool to pay for costs, and then goes to nobody.       *)
(***************************************************************************)
CloseOf(p) == sizeInUsd[p] > 0 /\ sizeInUsd'[p] = 0

StrandsProfit(d) ==
  /\ DecreasePosition(d) /\ ~HasEnoughCollateral(d) /\ Output(d) > 0
  /\ Surplus(books', Token(d)) = Surplus(books, Token(d)) + Output(d)
  /\ Surplus(books', Opposite(Token(d))) = Surplus(books, Opposite(Token(d)))

ForcedClose(p, kind, pnl, impactDiff, fees, prices, swap) ==
  [position |-> p, kind |-> kind, size |-> sizeInUsd[p], withdraw |-> 0, pnl |-> pnl,
   impactDiff |-> impactDiff, fees |-> fees, prices |-> prices, swap |-> swap]

NothingStranded ==
  [][\/ \A t \in Tokens : Surplus(books', t) = Surplus(books, t)
     \/ \E t \in Tokens, amount \in Gifts : DirectTransfer(t, amount)
     \/ \E p \in Positions : CloseOf(p) /\
          \E kind \in OrderKinds, pnl \in Profits, impactDiff \in ImpactDiffs, fees \in FeeChoices,
             prices \in Prices, swap \in SwapChoices \cup {NoSwap} :
            StrandsProfit(ForcedClose(p, kind, pnl, impactDiff, fees, prices, swap))
    ]_vars

(***************************************************************************)
(* The collateral sums of the market are the sums over its positions: each *)
(* handler updates them by a difference, through many paths.               *)
(***************************************************************************)
SumOver(f, t, isLong) ==
  SumTo([p \in Positions |-> IF Matches(p, t, isLong) THEN f[p] ELSE 0], NumPositions)

CollateralSumsMatch ==
  \A t \in Tokens :
    /\ books["longCollateral"][t] = SumOver(collateralAmount, t, TRUE)
    /\ books["shortCollateral"][t] = SumOver(collateralAmount, t, FALSE)

(***************************************************************************)
(* The open interest is at least that of the positions, and in tokens just *)
(* that of the positions: no position can be kept from closing by what     *)
(* others have done to the sums.                                           *)
(***************************************************************************)
OpenInterestSuffices ==
  \A t \in Tokens, isLong \in BOOLEAN :
    /\ openInterest[t][isLong] >= SumOver(sizeInUsd, t, isLong)
    /\ openInterestInTokens[t][isLong] = SumOver(sizeInTokens, t, isLong)

(***************************************************************************)
(* A position is open in dollars if and only if it is open in tokens,      *)
(* however partial decreases were rounded, and a closed one has neither    *)
(* collateral nor funding to settle.                                       *)
(***************************************************************************)
ClosedIsEmpty ==
  \A p \in Positions :
    /\ sizeInUsd[p] = 0 <=> sizeInTokens[p] = 0
    /\ sizeInUsd[p] = 0 => collateralAmount[p] = 0 /\ \A t \in Tokens : fundingDue[p][t] = 0

(***************************************************************************)
(* What is claimable of funding is backed by what was paid and by what     *)
(* positions still owe less what they are still owed, and stays so, except *)
(* when a position is closed by force with less collateral than it owes.   *)
(***************************************************************************)
FundingBacking(due, m, t) ==
  SumTo([p \in Positions |-> due[p][t]], NumPositions) + m["funding"][t] - m["claimableFunding"][t]

FundingBacked ==
  [][\/ \A t \in Tokens :
          FundingBacking(fundingDue', books', t) >= FundingBacking(fundingDue, books, t)
     \/ \E p \in Positions : CloseOf(p) /\ FundingFee(p) > collateralAmount[p]]_vars

(***************************************************************************)
(* "If the position has insufficient / negative collateral a liquidation   *)
(* transaction should still complete while a manual close transaction      *)
(* should revert" (DecreasePositionUtils.sol:295-297).                     *)
(***************************************************************************)
LiquidationCompletes ==
  \A p \in Positions, pnl \in Profits, fees \in FeeChoices, prices \in Prices :
    LET d == ForcedClose(p, "liquidation", pnl, 0, fees, prices, NoSwap)
    IN  sizeInUsd[p] > 0 /\ IsPositionLiquidatable(d) /\ CanTakeProfit(d)
          => HasEnoughCollateral(d) \/ CanForceClose(d)

=============================================================================
