CONSTANTS
  LongToken = weth
  ShortToken = usdc
  PositionKeys <- TwoLongs
  Amounts = {1, 2}
  Gifts = {1}
  MaxSurplus = 1
  Sizes = {1, 2}
  ExecutionPrices = {1, 2}
  OrderKinds = {"trader", "liquidation", "adl"}
  Profits <- LargeProfit
  ImpactDiffs = {0, 1}
  PriceRanges <- WideOnly
  FeeChoices <- NoneOrOtherFees
  SwapChoices <- FreeOnly
  NoSwap = NoSwap
  MinCollateralUsd = 0
  MaxBalance <- UpTo40
  MaxSize = 4
  MaxFunding = 1
SPECIFICATION Spec
INVARIANTS TypeOK CollateralSumsMatch OpenInterestSuffices ClosedIsEmpty
CHECK_DEADLOCK FALSE
