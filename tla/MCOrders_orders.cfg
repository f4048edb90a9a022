\* Market orders and swaps: the vault, which strangers send one of its tokens to, owners who keep trying to get out of orders, keepers who skimp on gas or do not act at all, and cancelling switched off now and then.
CONSTANTS
  Accounts = {alice}
  OrderKeepers = {keeper, frozenKeeper}
  FrozenKeepers = {frozenKeeper}
  LiquidationKeepers = {}
  Tokens = {wnt, usdc}
  Wnt = wnt
  OrderTypes = {"MarketSwap", "MarketIncrease", "MarketDecrease", "LimitSwap"}
  Sides = {TRUE}
  Sizes = {0, 1, 2}
  Amounts = {1}
  Prices = {1}
  Features = {"cancel"}
  MinExecutionFee = 1
  RequestExpirationAge = 1
  MaxOraclePriceAge = 1
  AmpleGas = FALSE
  Donations = {usdc}
  MaxPositionSize = 2
  Supply = 2
  MaxRequests = 2
  MaxBlock = 2
  LastRequestBlock = 1
SPECIFICATION FairSpec
INVARIANTS TypeOK Solvent NothingStranded  OwnerWaits
PROPERTIES EscrowSpec OwnerGetsOut
CHECK_DEADLOCK FALSE
