\* Shows a market order that its owner has cancelled.
CONSTANTS
  Accounts = {alice}
  OrderKeepers = {keeper}
  FrozenKeepers = {}
  LiquidationKeepers = {}
  Tokens = {wnt}
  Wnt = wnt
  OrderTypes = {"MarketIncrease"}
  Sides = {TRUE}
  Sizes = {1}
  Amounts = {1}
  Prices = {1}
  Features = {}
  MinExecutionFee = 1
  RequestExpirationAge = 1
  MaxOraclePriceAge = 0
  AmpleGas = TRUE
  Donations = {}
  MaxPositionSize = 2
  Supply = 3
  MaxRequests = 2
  MaxBlock = 3
  LastRequestBlock = 2
SPECIFICATION Spec
INVARIANTS OwnersCancelNoMarketOrder
CHECK_DEADLOCK FALSE
