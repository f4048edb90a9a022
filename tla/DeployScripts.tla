--------------------------- MODULE DeployScripts ---------------------------
(* The deployment scripts, deploy/*.ts, and the sequence of steps a run of   *)
(* all of them is. A step is one transaction with the reads that decide      *)
(* whether it is sent; MODULE Deployment says what each kind does:           *)
(*   deploy  put a contract on chain unless the recorded one is this one,    *)
(*   grant   enter an address in a registry of permissions,                  *)
(*   set     give a key of a contract's storage a value,                     *)
(*   read    add what a market holds to the total a fix script computes,     *)
(*   fix     give a virtual inventory that total,                            *)
(*   finish  record that a script must never run again,                      *)
(*   throw   fail.                                                           *)
(* A step with a set "listed" fails if no market of the set is on chain.     *)
EXTENDS DeployConfig, SequencesExt

(***************************************************************************)
(* Steps. "by" is the role the called contract demands of the deployer.     *)
(***************************************************************************)
(* utils/keys.ts: a key hashes a constant, one per name, with its arguments. *)
Key(name, args) == <<"DataStore", name>> \o args

(* Four keys hash the constant, which is a hash, once more. *)
RehashedKey(name) == Key("hash", <<name>>)

(* setUintIfDifferent and its siblings: read, compare, then set. *)
Set(key, value) ==
  [op |-> "set", key |-> key, value |-> value, by |-> "CONTROLLER", listed |-> {}]

(* The same for a setting of a market, which must be in the list of markets  *)
(* on chain that the script has read.                                        *)
SetFor(market, name, args, value) ==
  [Set(Key(name, <<market>> \o args), value) EXCEPT !.listed = {market}]

Grant(registry, account, role) ==
  [op |-> "grant", at |-> registry, account |-> account, role |-> role,
   by |-> IF registry = "RoleStore" THEN "ROLE_ADMIN" ELSE "none"]

Throw == [op |-> "throw"]

(* A list of optional steps: the ones whose condition holds. *)
If(condition, steps) == IF condition THEN steps ELSE <<>>

(* The steps of every element of a set, in some fixed order. *)
ForEach(S, Steps(_)) == FoldSet(LAMBDA x, steps : steps \o Steps(x), <<>>, S)

(* The steps of every element of a sequence. *)
ForAll(seq, Steps(_)) ==
  LET join[i \in 1..Len(seq), j \in 0..Len(seq)] ==
        IF i > j THEN <<>>
        ELSE IF i = j THEN Steps(seq[i])
        ELSE join[i, (i + j) \div 2] \o join[(i + j) \div 2 + 1, j]
  IN  IF seq = <<>> THEN <<>> ELSE join[1, Len(seq)]

(***************************************************************************)
(* Scripts. A script runs after the scripts that carry the tags it needs.   *)
(***************************************************************************)
Script(tag, needs, steps) ==
  [tag |-> tag, needs |-> needs, steps |-> steps, skip |-> FALSE, atTheEnd |-> FALSE]

(* createDeployFunction: the contract is linked to the recorded libraries,   *)
(* takes the recorded contracts as arguments, and needs the scripts of both. *)
(* The storage contract calls none of the libraries its script lists, so its *)
(* code does not change with them.                                           *)
Contract(name, args, libraries, after) ==
  Script(name, args \o libraries,
         << [op |-> "deploy", name |-> name,
             uses |-> ToSet(args) \cup (IF name = "DataStore" THEN {} ELSE ToSet(libraries))] >>
           \o after)

Library(name, libraries) == Contract(name, <<>>, libraries, <<>>)

Controller(name) == Grant("RoleStore", name, "CONTROLLER")

AlsoNeeds(script, tag) == [script EXCEPT !.needs = Append(@, tag)]

(* Libraries, and contracts that read only. *)
AdlUtilsScript == Library("AdlUtils", <<"MarketStoreUtils", "PositionStoreUtils",
    "OrderStoreUtils", "OrderEventUtils">>)
BaseOrderUtilsScript == Library("BaseOrderUtils", <<>>)
DecreaseOrderUtilsScript == Library("DecreaseOrderUtils", <<"SwapUtils", "PositionStoreUtils",
    "DecreasePositionUtils", "OrderStoreUtils">>)
DecreasePositionCollateralUtilsScript == Library("DecreasePositionCollateralUtils",
    <<"FeeUtils", "MarketEventUtils", "PositionUtils", "PositionPricingUtils",
    "PositionEventUtils", "OrderEventUtils", "DecreasePositionSwapUtils">>)
DecreasePositionSwapUtilsScript == Library("DecreasePositionSwapUtils", <<>>)
DecreasePositionUtilsScript == Library("DecreasePositionUtils", <<"MarketUtils",
    "MarketEventUtils", "PositionUtils", "PositionStoreUtils", "PositionEventUtils",
    "OrderEventUtils", "PositionPricingUtils", "ReferralEventUtils",
    "DecreasePositionCollateralUtils", "DecreasePositionSwapUtils">>)
DepositEventUtilsScript == Library("DepositEventUtils", <<>>)
DepositStoreUtilsScript == Library("DepositStoreUtils", <<>>)
DepositUtilsScript == Library("DepositUtils", <<"GasUtils", "FeeUtils", "MarketStoreUtils",
    "MarketEventUtils", "DepositStoreUtils", "DepositEventUtils">>)
ExecuteDepositUtilsScript == Library("ExecuteDepositUtils", <<"GasUtils", "FeeUtils",
    "MarketUtils", "MarketStoreUtils", "MarketEventUtils", "DepositStoreUtils",
    "DepositEventUtils", "SwapUtils">>)
FeeUtilsScript == Library("FeeUtils", <<>>)
GasUtilsScript == Library("GasUtils", <<>>)
IncreaseOrderUtilsScript == Library("IncreaseOrderUtils", <<"SwapUtils", "PositionStoreUtils",
    "IncreasePositionUtils", "OrderStoreUtils", "MarketEventUtils">>)
IncreasePositionUtilsScript == Library("IncreasePositionUtils", <<"FeeUtils", "MarketUtils",
    "MarketStoreUtils", "MarketEventUtils", "PositionUtils", "PositionStoreUtils",
    "PositionEventUtils", "PositionPricingUtils", "ReferralEventUtils">>)
LiquidationUtilsScript == Library("LiquidationUtils", <<"PositionStoreUtils", "OrderStoreUtils",
    "OrderEventUtils">>)
MarketEventUtilsScript == Library("MarketEventUtils", <<>>)
MarketStoreUtilsScript == Library("MarketStoreUtils", <<>>)
MarketUtilsScript == Library("MarketUtils", <<"MarketEventUtils", "MarketStoreUtils">>)
OrderEventUtilsScript == Library("OrderEventUtils", <<>>)
OrderStoreUtilsScript == Library("OrderStoreUtils", <<>>)
OrderUtilsScript == Library("OrderUtils", <<"BaseOrderUtils", "MarketStoreUtils", "MarketUtils",
    "OrderStoreUtils", "OrderEventUtils", "IncreaseOrderUtils", "DecreaseOrderUtils",
    "SwapOrderUtils", "GasUtils">>)
PositionEventUtilsScript == Library("PositionEventUtils", <<>>)
PositionPricingUtilsScript == Library("PositionPricingUtils", <<>>)
PositionStoreUtilsScript == Library("PositionStoreUtils", <<>>)
PositionUtilsScript == Library("PositionUtils", <<"MarketStoreUtils", "PositionPricingUtils">>)
ReaderScript == Library("Reader", <<"MarketUtils", "MarketStoreUtils", "DepositStoreUtils",
    "WithdrawalStoreUtils", "PositionStoreUtils", "OrderStoreUtils", "ReaderUtils">>)
ReaderUtilsScript == Library("ReaderUtils", <<"MarketStoreUtils", "PositionStoreUtils",
    "PositionPricingUtils">>)
ReferralEventUtilsScript == Library("ReferralEventUtils", <<>>)
SwapOrderUtilsScript == Library("SwapOrderUtils", <<"OrderStoreUtils", "SwapUtils">>)
SwapUtilsScript == Library("SwapUtils", <<"FeeUtils", "MarketEventUtils", "MarketStoreUtils">>)
WithdrawalEventUtilsScript == Library("WithdrawalEventUtils", <<>>)
WithdrawalStoreUtilsScript == Library("WithdrawalStoreUtils", <<>>)
WithdrawalUtilsScript == Library("WithdrawalUtils", <<"GasUtils", "FeeUtils", "MarketUtils",
    "MarketStoreUtils", "MarketEventUtils", "WithdrawalStoreUtils", "WithdrawalEventUtils",
    "SwapUtils">>)
(* Contracts. *)
AdlHandlerScript == Contract("AdlHandler", <<"RoleStore", "DataStore", "EventEmitter",
    "OrderVault", "Oracle", "SwapHandler", "ReferralStorage">>, <<"GasUtils", "OrderUtils",
    "AdlUtils", "MarketStoreUtils", "PositionStoreUtils", "OrderStoreUtils">>,
    <<Controller("AdlHandler")>>)
DataStoreScript == Contract("DataStore", <<"RoleStore">>, <<"GasUtils", "OrderUtils",
    "AdlUtils", "PositionStoreUtils", "OrderStoreUtils">>, <<>>)
ConfigScript == Contract("Config", <<"RoleStore", "DataStore", "EventEmitter">>, <<>>,
    <<Controller("Config")>>)
DepositHandlerScript == Contract("DepositHandler", <<"RoleStore", "DataStore", "EventEmitter",
    "DepositVault", "Oracle">>, <<"DepositUtils", "ExecuteDepositUtils", "DepositStoreUtils",
    "GasUtils">>, <<Controller("DepositHandler")>>)
DepositVaultScript == Contract("DepositVault", <<"RoleStore", "DataStore">>, <<>>, <<>>)
EventEmitterScript == Contract("EventEmitter", <<"RoleStore">>, <<>>, <<>>)
ExchangeRouterScript == Contract("ExchangeRouter", <<"Router", "RoleStore", "DataStore",
    "EventEmitter", "DepositHandler", "WithdrawalHandler", "OrderHandler">>,
    <<"DepositStoreUtils", "WithdrawalStoreUtils", "OrderStoreUtils", "MarketStoreUtils",
    "MarketUtils", "MarketEventUtils", "ReferralEventUtils">>, <<Controller("ExchangeRouter"),
    Grant("RoleStore", "ExchangeRouter", "ROUTER_PLUGIN")>>)
FeeHandlerScript == Contract("FeeHandler", <<"RoleStore", "DataStore", "EventEmitter">>,
    <<"MarketUtils">>, <<Controller("FeeHandler")>>)
LiquidationHandlerScript == Contract("LiquidationHandler", <<"RoleStore", "DataStore",
    "EventEmitter", "OrderVault", "Oracle", "SwapHandler", "ReferralStorage">>, <<"OrderUtils",
    "LiquidationUtils", "MarketStoreUtils", "PositionStoreUtils", "OrderStoreUtils">>,
    <<Controller("LiquidationHandler")>>)
MarketFactoryScript == Contract("MarketFactory", <<"RoleStore", "DataStore", "EventEmitter">>,
    <<"MarketStoreUtils">>, <<Controller("MarketFactory")>>)
OracleModuleTestScript == Contract("OracleModuleTest", <<>>, <<>>,
    <<Controller("OracleModuleTest")>>)
OracleStoreScript == Contract("OracleStore", <<"RoleStore", "EventEmitter">>, <<>>,
    <<Controller("OracleStore")>>)
OrderVaultScript == Contract("OrderVault", <<"RoleStore", "DataStore">>, <<>>, <<>>)
ReferralStorageScript == Contract("ReferralStorage", <<>>, <<>>, <<>>)
RouterScript == Contract("Router", <<"RoleStore">>, <<>>, <<>>)
SwapHandlerScript == Contract("SwapHandler", <<"RoleStore">>, <<"SwapUtils">>,
    <<Controller("SwapHandler")>>)
TimelockScript == Contract("Timelock", <<"RoleStore", "DataStore", "EventEmitter",
    "OracleStore">>, <<>>, <<Controller("Timelock"), Grant("RoleStore", "Timelock",
    "ROLE_ADMIN")>>)
WithdrawalHandlerScript == Contract("WithdrawalHandler", <<"RoleStore", "DataStore",
    "EventEmitter", "WithdrawalVault", "Oracle">>, <<"WithdrawalUtils", "WithdrawalStoreUtils",
    "GasUtils">>, <<Controller("WithdrawalHandler")>>)
WithdrawalVaultScript == Contract("WithdrawalVault", <<"RoleStore", "DataStore">>, <<>>, <<>>)
Multicall3Script == [Library("Multicall3", <<>>) EXCEPT !.tag = "Multicall"]

(* The role store, and the roles of the network's keepers. A network without *)
(* a list of roles makes the script fail after it has deployed the store.    *)
RoleStoreScript(network) ==
  AlsoNeeds(
    Contract("RoleStore", <<>>, <<>>,
      ForAll(Roles(network),
             LAMBDA entry : [i \in DOMAIN entry.roles |->
                               Grant("RoleStore", entry.account, entry.roles[i])])
      \o If(Roles(network) = <<>>, <<Throw>>)),
    "FundAccounts")

(* The order handler is entered in the referral storage, whose governor the  *)
(* deployer is, before it is given its role.                                 *)
OrderHandlerScript ==
  Contract("OrderHandler",
    <<"RoleStore", "DataStore", "EventEmitter", "OrderVault", "Oracle", "SwapHandler",
      "ReferralStorage">>,
    <<"MarketStoreUtils", "OrderUtils", "OrderStoreUtils", "OrderEventUtils">>,
    <<Grant("ReferralStorage", "OrderHandler", "handler"), Controller("OrderHandler")>>)

(* The oracle gets its role after the limits on the prices it accepts. *)
OracleScript(oracle) ==
  AlsoNeeds(
    Contract("Oracle", <<"RoleStore", "OracleStore">>, <<>>,
      << Set(Key("MIN_ORACLE_BLOCK_CONFIRMATIONS", <<>>), oracle.minOracleBlockConfirmations),
         Set(Key("MAX_ORACLE_PRICE_AGE", <<>>), oracle.maxOraclePriceAge),
         Set(Key("MAX_ORACLE_REF_PRICE_DEVIATION_FACTOR", <<>>), oracle.maxRefPriceDeviationFactor),
         Controller("Oracle") >>),
    "Tokens")

(* The test tokens, the gas limit of every token that has a contract, and    *)
(* the wrapped native token, without which the script fails.                 *)
TokensScript(tokens) ==
  LET Kind(kinds) == {s \in DOMAIN tokens : tokens[s].kind \in kinds}
      wrapped == {s \in DOMAIN tokens : tokens[s].wrappedNative}
  IN  Script("Tokens", <<"DataStore">>,
        ForEach(Kind({"deploy"}), LAMBDA s : << [op |-> "deploy", name |-> s, uses |-> {}] >>)
        \o ForEach(Kind({"deploy", "given"}),
             LAMBDA s : << Set(Key("TOKEN_TRANSFER_GAS_LIMIT", <<s>>), tokens[s].transferGasLimit) >>)
        \o (IF wrapped = {} THEN <<Throw>> ELSE << Set(Key("WNT", <<>>), 1) >>))

FeedName(s) == s \o "PriceFeed"

(* The answer is set whatever it was; anybody may set it. *)
PriceFeedsScript(oracle) ==
  Script("PriceFeeds", <<"Tokens", "DataStore">>,
    ForEach({s \in DOMAIN oracle.feeds : oracle.feeds[s].deploy},
      LAMBDA s : << [op |-> "deploy", name |-> FeedName(s), uses |-> {}],
                    [Set(<<FeedName(s), "answer">>, 1) EXCEPT !.by = "none"] >>))

(* One oracle type for every token; a feed, its multiplier and its heartbeat *)
(* for the tokens that have one. The multiplier is a power of ten.           *)
ConfigurePriceFeedsScript(tokens, oracle) ==
  Script("ConfigurePriceFeeds", <<"Tokens", "PriceFeeds", "DataStore">>,
    ForEach(DOMAIN tokens,
      LAMBDA s :
        << Set(Key("ORACLE_TYPE", <<s>>), 1) >>
        \o If(s \in DOMAIN oracle.feeds,
              << Set(Key("PRICE_FEED", <<s>>), 1),
                 Set(Key("PRICE_FEED_MULTIPLIER", <<s>>), 60 - oracle.feeds[s].decimals - tokens[s].decimals),
                 Set(Key("PRICE_FEED_HEARTBEAT_DURATION", <<s>>), oracle.feeds[s].heartbeat) >>)))

ConfigureVirtualTokenIdScript(tokens) ==
  Script("ConfigureVirtualTokenId", <<"Tokens", "DataStore">>,
    ForEach(DOMAIN tokens, LAMBDA s : << Set(Key("VIRTUAL_TOKEN_ID", <<s>>), tokens[s].virtualTokenId) >>))

(* The signers to add come before the ones to remove, which are the signers  *)
(* on chain that are not configured; "anyone" is every account that may be.  *)
OracleSignersScript(oracle, anyone) ==
  LET SignerStep(signer, is) == << Set(<<"OracleStore", "signer", signer>>, is) >>
  IN  Script("OracleSigners", <<"RoleStore", "OracleStore", "DataStore">>,
        ForAll(oracle.signers, LAMBDA s : SignerStep(s, 1))
        \o ForEach(anyone \ ToSet(oracle.signers), LAMBDA s : SignerStep(s, 0))
        \o << Set(Key("MIN_ORACLE_SIGNERS", <<>>), oracle.minOracleSigners) >>)

GeneralSettingsScript(general) ==
  Script("GeneralSettings", <<"DataStore">>,
    << Set(Key("FEE_RECEIVER", <<>>), general.feeReceiver),
       Set(Key("HOLDING_ADDRESS", <<>>), general.holdingAddress),
       Set(Key("MIN_HANDLE_EXECUTION_ERROR_GAS", <<>>), general.minHandleExecutionErrorGas),
       Set(Key("MAX_CALLBACK_GAS_LIMIT", <<>>), general.maxCallbackGasLimit),
       Set(Key("MAX_SWAP_PATH_LENGTH", <<>>), general.maxSwapPathLength),
       Set(Key("MIN_COLLATERAL_USD", <<>>), general.minCollateralUsd),
       Set(Key("MIN_POSITION_SIZE_USD", <<>>), general.minPositionSizeUsd),
       Set(Key("CLAIMABLE_COLLATERAL_TIME_DIVISOR", <<>>), general.claimableCollateralTimeDivisor),
       Set(Key("DEPOSIT_GAS_LIMIT", <<"single">>), general.depositGasLimitSingle),
       Set(Key("DEPOSIT_GAS_LIMIT", <<"multiple">>), general.depositGasLimitMultiple),
       Set(Key("WITHDRAWAL_GAS_LIMIT", <<"single">>), general.withdrawalGasLimitSingle),
       Set(Key("WITHDRAWAL_GAS_LIMIT", <<"multiple">>), general.withdrawalGasLimitMultiple),
       Set(RehashedKey("SINGLE_SWAP_GAS_LIMIT"), general.singleSwapGasLimit),
       Set(RehashedKey("INCREASE_ORDER_GAS_LIMIT"), general.increaseOrderGasLimit),
       Set(RehashedKey("DECREASE_ORDER_GAS_LIMIT"), general.decreaseOrderGasLimit),
       Set(RehashedKey("SWAP_ORDER_GAS_LIMIT"), general.swapOrderGasLimit),
       Set(Key("NATIVE_TOKEN_TRANSFER_GAS_LIMIT", <<>>), general.nativeTokenTransferGasLimit),
       Set(Key("ESTIMATED_GAS_FEE_BASE_AMOUNT", <<>>), general.estimatedGasFeeBaseAmount),
       Set(Key("ESTIMATED_GAS_FEE_MULTIPLIER_FACTOR", <<>>), general.estimatedGasFeeMultiplierFactor),
       Set(Key("EXECUTION_GAS_FEE_BASE_AMOUNT", <<>>), general.executionGasFeeBaseAmount),
       Set(Key("EXECUTION_GAS_FEE_MULTIPLIER_FACTOR", <<>>), general.executionGasFeeMultiplierFactor) >>)

(***************************************************************************)
(* Markets                                                                  *)
(***************************************************************************)
(* getMarketKey: a market goes by its tokens. *)
MarketName(entry) == entry.tokens[1] \o ":" \o entry.tokens[2] \o ":" \o entry.tokens[3]

SwapOnly(entry) == entry.tokens[1] = "none"

OnChain(market) == <<"DataStore", "MARKET_LIST", market>>

CreateMarket(entry) == [Set(OnChain(MarketName(entry)), 1) EXCEPT !.by = "MARKET_KEEPER"]

(* A setting for the long and for the short side of a market. *)
PerSide(market, name, args, long, short) ==
  << SetFor(market, name, args \o <<"long">>, long), SetFor(market, name, args \o <<"short">>, short) >>

(* The scripts pass over a value that is absent or zero. *)
IfSet(market, name, args, value) == If(value # 0, << SetFor(market, name, args, value) >>)

(* What every market needs: the caps on the two tokens of its pool open it   *)
(* to deposits. If both tokens are one, the two caps are one key.            *)
PoolSettings(entry) ==
  LET m == MarketName(entry)
      f == entry.fields
  IN  << SetFor(m, "MAX_POOL_AMOUNT", <<entry.tokens[2]>>, f.maxLongTokenPoolAmount),
         SetFor(m, "MAX_POOL_AMOUNT", <<entry.tokens[3]>>, f.maxShortTokenPoolAmount) >>
      \o IfSet(m, "SWAP_FEE_FACTOR", <<>>, f.swapFeeFactor)
      \o IfSet(m, "SWAP_IMPACT_EXPONENT_FACTOR", <<>>, f.swapImpactExponentFactor)
      \o IfSet(m, "SWAP_IMPACT_FACTOR", <<"positive">>, f.positiveSwapImpactFactor)
      \o IfSet(m, "SWAP_IMPACT_FACTOR", <<"negative">>, f.negativeSwapImpactFactor)
      \o << SetFor(m, "VIRTUAL_MARKET_ID", <<>>, entry.virtualMarketId) >>

(* What a market with positions needs: the reserve factors, the first of     *)
(* which opens it, come after the collateral and open interest limits.       *)
PositionLimits(entry) ==
  LET m == MarketName(entry)
      f == entry.fields
      Pnl(kind, long, short) == PerSide(m, "MAX_PNL_FACTOR", <<kind>>, long, short)
  IN  << SetFor(m, "MIN_COLLATERAL_FACTOR", <<>>, f.minCollateralFactor) >>
      \o PerSide(m, "MAX_OPEN_INTEREST", <<>>, f.maxOpenInterestForLongs, f.maxOpenInterestForShorts)
      \o PerSide(m, "RESERVE_FACTOR", <<>>, f.reserveFactorLongs, f.reserveFactorShorts)
      \o Pnl("traders", f.maxPnlFactorForTradersLongs, f.maxPnlFactorForTradersShorts)
      \o Pnl("adl", f.maxPnlFactorForAdlLongs, f.maxPnlFactorForAdlShorts)
      \o Pnl("afterAdl", f.minPnlFactorAfterAdlLongs, f.minPnlFactorAfterAdlShorts)
      \o Pnl("deposits", f.maxPnlFactorForDepositsLongs, f.maxPnlFactorForDepositsShorts)
      \o Pnl("withdrawals", f.maxPnlFactorForWithdrawalsLongs, f.maxPnlFactorForWithdrawalsShorts)

(* The gas limit of the market token, fees, funding, borrowing and impact. *)
PositionFactors(entry, general) ==
  LET m == MarketName(entry)
      f == entry.fields
  IN  << SetFor(m, "TOKEN_TRANSFER_GAS_LIMIT", <<>>, general.tokenTransferGasLimit) >>
      \o IfSet(m, "POSITION_FEE_FACTOR", <<>>, f.positionFeeFactor)
      \o IfSet(m, "POSITION_IMPACT_EXPONENT_FACTOR", <<>>, f.positionImpactExponentFactor)
      \o IfSet(m, "FUNDING_FACTOR", <<>>, f.fundingFactor)
      \o IfSet(m, "BORROWING_FACTOR", <<"long">>, f.borrowingFactorForLongs)
      \o IfSet(m, "FUNDING_EXPONENT_FACTOR", <<>>, f.fundingExponentFactor)
      \o IfSet(m, "BORROWING_FACTOR", <<"short">>, f.borrowingFactorForShorts)
      \o IfSet(m, "BORROWING_EXPONENT_FACTOR", <<"long">>, f.borrowingExponentFactorForLongs)
      \o IfSet(m, "BORROWING_EXPONENT_FACTOR", <<"short">>, f.borrowingExponentFactorForShorts)
      \o IfSet(m, "POSITION_IMPACT_FACTOR", <<"positive">>, f.positivePositionImpactFactor)
      \o IfSet(m, "POSITION_IMPACT_FACTOR", <<"negative">>, f.negativePositionImpactFactor)
      \o IfSet(m, "MAX_POSITION_IMPACT_FACTOR_FOR_LIQUIDATIONS", <<>>,
               f.maxPositionImpactFactorForLiquidations)
      \o IfSet(m, "MAX_POSITION_IMPACT_FACTOR", <<"positive">>, f.positiveMaxPositionImpactFactor)
      \o IfSet(m, "MAX_POSITION_IMPACT_FACTOR", <<"negative">>, f.negativeMaxPositionImpactFactor)

MarketSettings(entry, general) ==
  PoolSettings(entry)
    \o If(~SwapOnly(entry), PositionLimits(entry) \o PositionFactors(entry, general))

(* Every missing market is created before any market is configured. *)
MarketsScript(markets, general) ==
  [Script("Markets", <<"MarketFactory", "Tokens", "DataStore">>,
     [i \in DOMAIN markets |-> CreateMarket(markets[i])]
       \o ForAll(markets, LAMBDA entry : MarketSettings(entry, general)))
   EXCEPT !.skip = (markets = <<>>), !.atTheEnd = TRUE]

(***************************************************************************)
(* Scripts of one network that run once                                     *)
(***************************************************************************)
Read(id, kind, virtualId, market, listed) ==
  [op |-> "read", id |-> id, of |-> <<kind, virtualId>>, market |-> market, listed |-> listed]

Fix(id, kind, virtualId) == [op |-> "fix", id |-> id, of |-> <<kind, virtualId>>]

Once(network, id, needs, steps) ==
  [Script(id, needs, steps \o << [op |-> "finish", id |-> id] >>)
     EXCEPT !.skip = (network # "avalancheFuji")]

(* The net open interest of every market on chain whose index token has the  *)
(* virtual token id; there must be one.                                      *)
FixPositionsScript(network, tokens, markets) ==
  LET id == "fixVirtualInventoryForPositions"
      Ids == {tokens[s].virtualTokenId : s \in DOMAIN tokens} \ {0}
      Named(v) == {MarketName(markets[i]) : i \in {j \in DOMAIN markets :
                     ~SwapOnly(markets[j]) /\ tokens[markets[j].tokens[1]].virtualTokenId = v}}
  IN  Once(network, id, <<>>,
        ForEach(Ids,
          LAMBDA v : ForEach(Named(v), LAMBDA m : << Read(id, "positions", v, m, Named(v)) >>)
                       \o << Fix(id, "positions", v) >>))

(* The pool of every configured market with the virtual market id; each of   *)
(* them must be on chain. Of the totals the script keeps for each token of   *)
(* these markets, the model has the one of their long token.                 *)
FixSwapsScript(network, markets) ==
  LET id == "fixVirtualInventoryForSwaps"
      Ids == {markets[i].virtualMarketId : i \in DOMAIN markets} \ {0}
      Named(v) == {MarketName(markets[i]) : i \in {j \in DOMAIN markets : markets[j].virtualMarketId = v}}
  IN  Once(network, id, <<>>,
        ForEach(Ids,
          LAMBDA v : ForEach(Named(v), LAMBDA m : << Read(id, "swaps", v, m, {m}) >>)
                       \o << Fix(id, "swaps", v) >>))

DisableOldTestMarketScript(network) ==
  Once(network, "DisableOldTestMarketOnAvalancheFuji", <<"DataStore">>,
       << Set(Key("IS_MARKET_DISABLED", <<"oldTestMarket">>), 1) >>)

(* Gives the deployer of a local network a balance. *)
FundAccountsScript(network) ==
  [Script("FundAccounts", <<>>, <<>>) EXCEPT !.skip = (network \in LiveNetworks)]

(***************************************************************************)
(* A run of all the scripts                                                 *)
(***************************************************************************)
(* The scripts in the order of their files' names. *)
AllScripts(c) ==
  << GeneralSettingsScript(c.general), OracleSignersScript(c.oracle, c.anyone),
     ConfigurePriceFeedsScript(c.tokens, c.oracle), ConfigureVirtualTokenIdScript(c.tokens),
     AdlHandlerScript, AdlUtilsScript, DataStoreScript, MarketsScript(c.markets, c.general),
     BaseOrderUtilsScript, ConfigScript, DecreaseOrderUtilsScript,
     DecreasePositionCollateralUtilsScript, DecreasePositionSwapUtilsScript,
     DecreasePositionUtilsScript, DepositEventUtilsScript, DepositHandlerScript,
     DepositStoreUtilsScript, DepositUtilsScript, DepositVaultScript, EventEmitterScript,
     ExchangeRouterScript, ExecuteDepositUtilsScript, FeeHandlerScript, FeeUtilsScript,
     GasUtilsScript, IncreaseOrderUtilsScript, IncreasePositionUtilsScript,
     LiquidationHandlerScript, LiquidationUtilsScript, MarketEventUtilsScript,
     MarketFactoryScript, MarketStoreUtilsScript, MarketUtilsScript, Multicall3Script,
     OracleScript(c.oracle), OracleModuleTestScript, OracleStoreScript, OrderEventUtilsScript,
     OrderHandlerScript, OrderStoreUtilsScript, OrderUtilsScript, OrderVaultScript,
     PositionEventUtilsScript, PositionPricingUtilsScript, PositionStoreUtilsScript,
     PositionUtilsScript, ReaderScript, ReaderUtilsScript, ReferralEventUtilsScript,
     ReferralStorageScript, RoleStoreScript(c.network), RouterScript, SwapHandlerScript,
     SwapOrderUtilsScript, SwapUtilsScript, PriceFeedsScript(c.oracle), TokensScript(c.tokens),
     TimelockScript, WithdrawalEventUtilsScript, WithdrawalHandlerScript,
     WithdrawalStoreUtilsScript, WithdrawalUtilsScript, WithdrawalVaultScript,
     FixPositionsScript(c.network, c.tokens, c.markets), FixSwapsScript(c.network, c.markets),
     FundAccountsScript(c.network), DisableOldTestMarketScript(c.network) >>

(* hardhat-deploy runs a script after the scripts with the tags it needs, in *)
(* the order it lists them, and leaves out the ones that ask to be skipped.  *)
ScriptOrder(scripts) ==
  LET Tagged(tag) == CHOOSE k \in DOMAIN scripts : scripts[k].tag = tag
      needs == [k \in DOMAIN scripts |->
                  [n \in DOMAIN scripts[k].needs |-> Tagged(scripts[k].needs[n])]]
      visit[list \in Seq(Nat), order \in Seq(Nat)] ==
        IF list = <<>> THEN order
        ELSE IF Len(list) > 1
               THEN LET half == Len(list) \div 2
                    IN  visit[SubSeq(list, half + 1, Len(list)), visit[SubSeq(list, 1, half), order]]
        ELSE IF Head(list) \in ToSet(order) THEN order
        ELSE Append(visit[needs[Head(list)], order], Head(list))
  IN  visit[[k \in DOMAIN scripts |-> k], <<>>]

(* Scripts that ask to run at the end do, in the order they were reached. *)
StepsOf(scripts) ==
  LET order == ScriptOrder(scripts)
      Run(atTheEnd) ==
        ForAll(SelectSeq(order, LAMBDA i : scripts[i].atTheEnd = atTheEnd /\ ~scripts[i].skip),
               LAMBDA i : scripts[i].steps)
  IN  Run(FALSE) \o Run(TRUE)

PlanOf(c) == StepsOf(AllScripts(c))

Configuration(network) ==
  [network |-> network, tokens |-> Tokens(network), markets |-> Markets(network),
   general |-> General(network), oracle |-> OracleTable[network],
   anyone |-> ToSet(OracleTable[network].signers)]
=============================================================================
