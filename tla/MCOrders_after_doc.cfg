\* Shows a limit order filled on prices of the block it was created in.
CONSTANTS
  Accounts = {alice}
  OrderKeepers = {keeper}
  FrozenKeepers = {}
  LiquidationKeepers = {}
  Tokens = {wnt}
  Wnt = wnt
  OrderTypes = {"LimitIncrease"}
  Sides = {TRUE}
  Sizes = {1}
  Amounts = {1}
  Prices = {1}
  Features = {}
  MinExecutionFee = 1
  RequestExpirationAge = 1
  MaxOraclePriceAge = 0
  AmpleGas = TRUE
  Donations = {}
  MaxPositionSize = 2
  Supply = 3
  MaxRequests = 2
  MaxBlock = 3
  LastRequestBlock = 2
SPECIFICATION Spec
INVARIANTS FilledAfterItsBlock
CHECK_DEADLOCK FALSE
