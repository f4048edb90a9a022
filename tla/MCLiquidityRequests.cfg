\* Requests against the blocks of the reports and their expiry, market tokens sent to both vaults by strangers, owners who keep trying to get out, and features switched off now and then.
CONSTANTS
  Keepers = {keeper}
  Tokens = {wnt, usdc, gm}
  Wnt = wnt
  MarketToken = gm
  Amounts = {1}
  MintAmounts = {0, 1}
  Features <- MixedFlags
  MinExecutionFee = 1
  RequestExpirationAge = 1
  MaxOraclePriceAge = 1
  AmpleGas = TRUE
  Donations = {gm}
  Supply = 2
  MaxRequests = 2
  MaxBlock = 3
  LastRequestBlock = 2
SPECIFICATION FairSpec
INVARIANTS TypeOK Solvent NothingStranded MarketTokenSupply  OwnerWaits
PROPERTIES OwnerGetsOut DepositEscrowSpec WithdrawalEscrowSpec
CHECK_DEADLOCK FALSE
