CONSTANTS
  LongToken = weth
  ShortToken = usdc
  PositionKeys <- LongAndShort
  Amounts = {1, 2}
  Gifts = {}
  MaxSurplus = 0
  Sizes = {2}
  ExecutionPrices = {2}
  OrderKinds = {"trader", "adl"}
  Profits <- WinOrLose
  ImpactDiffs = {0, 1}
  PriceRanges <- EvenOnly
  FeeChoices <- OnlyReceiverFee
  SwapChoices <- TwoSwaps
  NoSwap = NoSwap
  MinCollateralUsd = 0
  MaxBalance <- UpTo31
  MaxSize = 2
  MaxFunding = 1
SPECIFICATION Spec
PROPERTIES NothingLeaks NothingStranded 
CHECK_DEADLOCK FALSE
