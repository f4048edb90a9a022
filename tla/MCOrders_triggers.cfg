\* Market, limit and trigger orders against prices that move while owners update them and liquidations and other orders change positions.
CONSTANTS
  Accounts = {alice}
  OrderKeepers = {keeper, frozenKeeper}
  FrozenKeepers = {frozenKeeper}
  LiquidationKeepers = {liquidator}
  Tokens = {wnt}
  Wnt = wnt
  OrderTypes = {"MarketIncrease", "LimitIncrease", "LimitDecrease", "StopLossDecrease"}
  Sides = {TRUE}
  Sizes = {1}
  Amounts = {1}
  Prices = {1, 2}
  Features = {}
  MinExecutionFee = 0
  RequestExpirationAge = 1
  MaxOraclePriceAge = 1
  AmpleGas = TRUE
  Donations = {}
  MaxPositionSize = 2
  Supply = 0
  MaxRequests = 2
  MaxBlock = 3
  LastRequestBlock = 2
SPECIFICATION Spec
 
PROPERTIES FilledAfterIncrease FrozenOnCurrentTerms
CHECK_DEADLOCK FALSE
