--------------------------- MODULE DeployConfig ---------------------------
(* The configuration the deployment scripts read, per network: config/*.ts  *)
(* Numbers keep what the scripts tell apart, which is whether a value is    *)
(* zero or absent and whether it differs from the one on chain: a factor is *)
(* written in steps of 10^-7, an amount of tokens or dollars in billions, a *)
(* gas limit in thousands, an address or a hash as a name or an index. Zero *)
(* stands for the zero address, the zero hash and an absent optional value. *)
EXTENDS Integers, Sequences, TLC

Networks == {"hardhat", "localhost", "arbitrumGoerli", "avalancheFuji",
             "arbitrum", "avalanche"}

(* The networks whose state outlives the process. *)
LiveNetworks == Networks \ {"hardhat", "localhost"}

(* decimalToFloat(value, decimals) in steps of 10^-7. *)
Float(value, decimals) == value * 10^(7 - decimals)

(***************************************************************************)
(* config/tokens.ts: a token has an address of its own, is deployed by the  *)
(* scripts, or is synthetic, a symbol with prices and no contract.          *)
(***************************************************************************)
Token(kind, decimals) ==
  [kind |-> kind, decimals |-> decimals, wrappedNative |-> FALSE,
   virtualTokenId |-> 0, transferGasLimit |-> IF kind = "synthetic" THEN 0 ELSE 200]

Wrapped(token) == [token EXCEPT !.wrappedNative = TRUE]

(* hardhat and localhost configure the same four tokens. *)
LocalTokens ==
  "WETH" :> Wrapped(Token("deploy", 18)) @@ "WBTC" :> Token("deploy", 8)
    @@ "USDC" :> Token("deploy", 6) @@ "SOL" :> Token("synthetic", 18)

TokenTable ==
  "arbitrum" :> ("WETH" :> Wrapped(Token("given", 18)) @@ "WBTC" :> Token("given", 8)
                   @@ "USDC" :> Token("given", 6))
  @@ "arbitrumGoerli" :> ("WETH" :> Wrapped(Token("given", 18)) @@ "WBTC" :> Token("deploy", 8)
                   @@ "USDC" :> Token("deploy", 6) @@ "TEST" :> Token("synthetic", 18))
  @@ "avalanche" :> ("WAVAX" :> Token("given", 18))
  @@ "avalancheFuji" :> ("WAVAX" :> Wrapped(Token("given", 18)) @@ "TEST" :> Token("synthetic", 18)
                   @@ "SOL" :> Token("synthetic", 18) @@ "USDC" :> Token("given", 6)
                   @@ "USDT" :> Token("deploy", 6) @@ "DAI" :> Token("deploy", 6)
                   @@ "WETH" :> [Token("given", 18) EXCEPT !.virtualTokenId = 1]
                   @@ "BNB" :> Token("synthetic", 18) @@ "DOGE" :> Token("synthetic", 8)
                   @@ "LINK" :> Token("synthetic", 18))
  @@ "hardhat" :> LocalTokens @@ "localhost" :> LocalTokens

(* Off the live networks every token is marked for deployment, which the    *)
(* scripts honour for the ones that are not synthetic.                      *)
Tokens(network) ==
  [s \in DOMAIN TokenTable[network] |->
     LET token == TokenTable[network][s]
     IN  IF network \in LiveNetworks \/ token.kind = "synthetic" THEN token
         ELSE [token EXCEPT !.kind = "deploy"]]

(***************************************************************************)
(* config/markets.ts                                                        *)
(***************************************************************************)
(* The fields both default configurations set, to the same values. *)
CommonMarketConfig ==
  [reserveFactorLongs |-> Float(5, 1), reserveFactorShorts |-> Float(5, 1),
   minCollateralFactor |-> Float(1, 2),
   maxLongTokenPoolAmount |-> 1, maxShortTokenPoolAmount |-> 1,
   maxOpenInterestForLongs |-> 1, maxOpenInterestForShorts |-> 1,
   maxPnlFactorForTradersLongs |-> Float(5, 1), maxPnlFactorForTradersShorts |-> Float(5, 1),
   maxPnlFactorForAdlLongs |-> Float(45, 2), maxPnlFactorForAdlShorts |-> Float(45, 2),
   minPnlFactorAfterAdlLongs |-> Float(4, 1), minPnlFactorAfterAdlShorts |-> Float(4, 1),
   maxPnlFactorForDepositsLongs |-> Float(6, 1), maxPnlFactorForDepositsShorts |-> Float(6, 1),
   maxPnlFactorForWithdrawalsLongs |-> Float(3, 1), maxPnlFactorForWithdrawalsShorts |-> Float(3, 1),
   positiveMaxPositionImpactFactor |-> Float(2, 2), negativeMaxPositionImpactFactor |-> Float(2, 2),
   maxPositionImpactFactorForLiquidations |-> Float(1, 2)]

(* The fees, impact, borrowing and funding factors, which the default of    *)
(* the hardhat network leaves out.                                          *)
FeeMarketConfig ==
  [positionFeeFactor |-> Float(5, 4),
   positivePositionImpactFactor |-> Float(1, 7), negativePositionImpactFactor |-> Float(2, 7),
   positionImpactExponentFactor |-> Float(2, 0),
   swapFeeFactor |-> Float(5, 4),
   positiveSwapImpactFactor |-> Float(1, 5), negativeSwapImpactFactor |-> Float(2, 5),
   swapImpactExponentFactor |-> Float(2, 0),
   borrowingFactorForLongs |-> Float(1, 5), borrowingFactorForShorts |-> Float(1, 5),
   borrowingExponentFactorForLongs |-> Float(1, 0), borrowingExponentFactorForShorts |-> Float(1, 0),
   fundingFactor |-> Float(1, 6), fundingExponentFactor |-> Float(1, 0)]

baseMarketConfig == CommonMarketConfig @@ FeeMarketConfig

hardhatBaseMarketConfig == CommonMarketConfig @@ [field \in DOMAIN FeeMarketConfig |-> 0]

(* A market is named by its tokens; a swap-only market has no index token.  *)
MarketEntry(index, long, short) ==
  [tokens |-> <<index, long, short>>, virtualMarketId |-> 0, own |-> <<>>]

SwapOnlyEntry(long, short) == MarketEntry("none", long, short)

WithVirtualId(entry) == [entry EXCEPT !.virtualMarketId = 1]

MarketTable ==
  "arbitrum" :> <<>> @@ "avalanche" :> <<>>
  @@ "arbitrumGoerli" :>
       << MarketEntry("WETH", "WETH", "USDC"), MarketEntry("WBTC", "WBTC", "USDC"),
          MarketEntry("TEST", "WETH", "USDC") >>
  @@ "avalancheFuji" :>
       << MarketEntry("WAVAX", "WAVAX", "USDC"),
          WithVirtualId(MarketEntry("WETH", "WETH", "USDC")),
          MarketEntry("WETH", "USDC", "USDC"),
          WithVirtualId(MarketEntry("SOL", "WETH", "USDC")),
          SwapOnlyEntry("USDC", "USDT"),
          [MarketEntry("TEST", "WETH", "USDC") EXCEPT !.own =
             [positivePositionImpactFactor |-> Float(25, 6),
              negativePositionImpactFactor |-> Float(5, 5),
              positionImpactExponentFactor |-> Float(2, 0),
              positiveSwapImpactFactor |-> Float(1, 5), negativeSwapImpactFactor |-> Float(2, 5),
              swapImpactExponentFactor |-> Float(2, 0)]],
          MarketEntry("DOGE", "WETH", "DAI"), MarketEntry("LINK", "WETH", "DAI"),
          MarketEntry("BNB", "WETH", "DAI") >>
  @@ "hardhat" :>
       << MarketEntry("WETH", "WETH", "USDC"), SwapOnlyEntry("WETH", "USDC"),
          MarketEntry("WBTC", "WBTC", "USDC"), MarketEntry("SOL", "WETH", "USDC"),
          MarketEntry("WETH", "USDC", "USDC") >>
  @@ "localhost" :>
       << MarketEntry("WETH", "WETH", "USDC"), SwapOnlyEntry("WETH", "USDC"),
          MarketEntry("SOL", "WETH", "USDC") >>

(* Every market takes the default of each field it does not set itself. *)
Markets(network) ==
  LET default == IF network = "hardhat" THEN hardhatBaseMarketConfig ELSE baseMarketConfig
  IN  [i \in DOMAIN MarketTable[network] |->
         LET entry == MarketTable[network][i]
         IN  [tokens |-> entry.tokens, virtualMarketId |-> entry.virtualMarketId,
              fields |-> entry.own @@ default]]

(***************************************************************************)
(* config/general.ts, config/oracle.ts, config/roles.ts                     *)
(***************************************************************************)
General(network) ==
  LET own == network # "hardhat"
      limit == IF own THEN 10 ELSE 0
  IN  [feeReceiver |-> IF own THEN 1 ELSE 0, holdingAddress |-> IF own THEN 1 ELSE 0,
       minHandleExecutionErrorGas |-> 1000,
       depositGasLimitSingle |-> limit, depositGasLimitMultiple |-> limit,
       withdrawalGasLimitSingle |-> limit, withdrawalGasLimitMultiple |-> limit,
       singleSwapGasLimit |-> limit, increaseOrderGasLimit |-> limit,
       decreaseOrderGasLimit |-> limit, swapOrderGasLimit |-> limit,
       tokenTransferGasLimit |-> 200, nativeTokenTransferGasLimit |-> 50,
       estimatedGasFeeBaseAmount |-> limit, estimatedGasFeeMultiplierFactor |-> IF own THEN 1 ELSE 0,
       executionGasFeeBaseAmount |-> limit, executionGasFeeMultiplierFactor |-> IF own THEN 1 ELSE 0,
       maxSwapPathLength |-> 5, maxCallbackGasLimit |-> 2000,
       minCollateralUsd |-> 1, minPositionSizeUsd |-> 1, claimableCollateralTimeDivisor |-> 60]

(* A price feed the scripts deploy, or one that is already on chain. *)
DeployedFeed == [deploy |-> TRUE, decimals |-> 8, heartbeat |-> 24]
GivenFeed == [deploy |-> FALSE, decimals |-> 8, heartbeat |-> 24]

(* The two networks that are not listed have no oracle configuration. *)
OracleTable ==
  LET Config(signers, min, age, feeds) ==
        [signers |-> signers, minOracleSigners |-> min, minOracleBlockConfirmations |-> 255,
         maxOraclePriceAge |-> age, maxRefPriceDeviationFactor |-> Float(5, 1), feeds |-> feeds]
  IN  "localhost" :> Config(<<"t1", "t2">>, 0, 24, <<>>)
      @@ "hardhat" :> Config(<<"t1", "t2">>, 0, 1, "USDC" :> DeployedFeed)
      @@ "arbitrumGoerli" :> Config(<<"s1", "s2">>, 1, 1, "USDC" :> GivenFeed)
      @@ "avalancheFuji" :> Config(<<"s1", "s2">>, 1, 1, "USDC" :> GivenFeed
                                     @@ "USDT" :> GivenFeed @@ "DAI" :> GivenFeed)

(* The keepers' and administrators' accounts. The deployer of a live        *)
(* network is taken to be one of the two: no other account could run the    *)
(* scripts, which call functions only those roles may call. Networks that   *)
(* the file does not list have none.                                        *)
Deployer == "deployer"

Roles(network) ==
  LET granted == <<"CONTROLLER", "ORDER_KEEPER", "LIQUIDATION_KEEPER", "MARKET_KEEPER",
                   "FROZEN_ORDER_KEEPER">>
  IN  CASE network = "hardhat" -> << [account |-> Deployer, roles |-> granted] >>
        [] network \in {"arbitrumGoerli", "avalancheFuji"} ->
             << [account |-> Deployer, roles |-> granted], [account |-> "keeper", roles |-> granted] >>
        [] OTHER -> <<>>
=============================================================================
