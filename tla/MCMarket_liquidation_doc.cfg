CONSTANTS
  LongToken = weth
  ShortToken = usdc
  PositionKeys <- LongAndShort
  Amounts = {1}
  Gifts = {1}
  MaxSurplus = 1
  Sizes = {2}
  ExecutionPrices = {2}
  OrderKinds = {"trader", "liquidation", "adl"}
  Profits <- OneProfit
  ImpactDiffs = {0}
  PriceRanges <- EvenOnly
  FeeChoices <- OnlyNoFees
  SwapChoices <- FreeOnly
  NoSwap = NoSwap
  MinCollateralUsd = 0
  MaxBalance <- UpTo33
  MaxSize = 2
  MaxFunding = 3
SPECIFICATION Spec
INVARIANTS LiquidationCompletes
CHECK_DEADLOCK FALSE
