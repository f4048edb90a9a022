---------------------------- MODULE MCReleases ----------------------------
(* The releases that MODULE MCDeployment deploys, and what the constants of  *)
(* MODULE Deployment are for them. All is computed from the scripts and the  *)
(* tables, so TLC finds the assumption of Deployment to be true of what the  *)
(* scripts do. The module is apart because it must not depend on Deployment: *)
(* TLC evaluates definitions in the order of EXTENDS, and the assumption     *)
(* last.                                                                     *)
EXTENDS DeployScripts

(* The configurations of two networks, each with a part of its markets: the  *)
(* first without the market that the second has too, so that trades are of   *)
(* the second alone. Four accounts may be oracle signers.                    *)
Everyone == {"s1", "s2", "s3", "s4"}
Goerli ==
  LET c == Configuration("arbitrumGoerli")
  IN  [c EXCEPT !.anyone = Everyone, !.markets = SubSeq(@, 2, Len(@))]
Fuji ==
  LET c == Configuration("avalancheFuji")
  IN  [c EXCEPT !.anyone = Everyone, !.markets = SubSeq(@, 2, 5)]

(* Other signers, another guard of a market's positions, a new market like   *)
(* an old one with other tokens.                                             *)
Edited(c) ==
  [c EXCEPT !.oracle.signers = <<"s3", "s4">>,
            !.markets = Append([c.markets EXCEPT ![1].fields.minCollateralFactor = Float(2, 2)],
                               [c.markets[1] EXCEPT !.tokens = <<"WBTC", "WETH", "USDC">>])]

(* Releases are named by the network, or by the contract that changes. *)
Config ==
  LET edited == Edited(Goerli)
  IN  "goerli" :> Goerli @@ "library" :> edited @@ "oracle" :> edited
      @@ "fuji" :> Fuji

(* TLC computes a definition once, but what a constant stands for each time  *)
(* the constant is used: a constant stands for the name of a definition.     *)
TheReleases == {"goerli", "library", "oracle", "fuji"}
Changed(r) ==
  CASE r = "library" -> {"MarketUtils"} [] r = "oracle" -> {"OracleStore"} [] OTHER -> {}

ThePlan == [r \in TheReleases |-> PlanOf(Config[r])]
AllSteps == UNION {ToSet(ThePlan[r]) : r \in TheReleases}
TheContracts == {s.name : s \in {t \in AllSteps : t.op = "deploy"}}
TheCode == [r \in TheReleases |-> [n \in TheContracts |-> IF n \in Changed(r) THEN 2 ELSE 1]]

(* contracts/data/Keys.sol, singleSwapGasLimitKey to swapOrderGasLimitKey,   *)
(* depositGasLimitKey and withdrawalGasLimitKey.                             *)
TheEstimateKeys ==
  {Key(n, <<>>) : n \in {"SINGLE_SWAP_GAS_LIMIT", "INCREASE_ORDER_GAS_LIMIT",
                         "DECREASE_ORDER_GAS_LIMIT", "SWAP_ORDER_GAS_LIMIT"}}
    \cup {Key(n, <<which>>) : n \in {"DEPOSIT_GAS_LIMIT", "WITHDRAWAL_GAS_LIMIT"},
                              which \in {"single", "multiple"}}

TheKeys == TheEstimateKeys \cup {s.key : s \in {t \in AllSteps : t.op = "set"}}
TheSuccessors ==
  [r \in TheReleases |-> IF r = "goerli" THEN {"library", "oracle"} ELSE {}]

(* What trades change: two pools that share a virtual id, and the positions *)
(* of two markets whose index token has one.                                 *)
TheHoldings ==
  ({"swaps"} \X {"WETH:WETH:USDC", "SOL:WETH:USDC"})
    \cup ({"positions"} \X {"WETH:WETH:USDC", "WETH:USDC:USDC"})
TheVirtualIds == {<<"swaps", 1>>, <<"positions", 1>>}
TheOpenKey ==
  [h \in TheHoldings |->
     IF h[1] = "swaps" THEN Key("MAX_POOL_AMOUNT", <<h[2], "WETH">>)
     ELSE Key("RESERVE_FACTOR", <<h[2], "long">>)]
TheIdKey ==
  [h \in TheHoldings |->
     IF h[1] = "swaps" THEN Key("VIRTUAL_MARKET_ID", <<h[2]>>) ELSE Key("VIRTUAL_TOKEN_ID", <<"WETH">>)]

(* A token in a pool can be sent, and priced; a market with positions has a  *)
(* minimum collateral and limits of its open interest.                       *)
PoolGuards(m, token) ==
  {Key("MAX_POOL_AMOUNT", <<m, token>>)}
    \X {Key("TOKEN_TRANSFER_GAS_LIMIT", <<token>>), Key("ORACLE_TYPE", <<token>>)}
PositionGuards(m) ==
  {Key("RESERVE_FACTOR", <<m, "long">>), Key("RESERVE_FACTOR", <<m, "short">>)}
    \X {Key("MIN_COLLATERAL_FACTOR", <<m>>), Key("MAX_OPEN_INTEREST", <<m, "long">>),
        Key("MAX_OPEN_INTEREST", <<m, "short">>)}
TheGuards ==
  UNION {PoolGuards(MarketName(e), e.tokens[2]) \cup PoolGuards(MarketName(e), e.tokens[3])
           \cup (IF SwapOnly(e) THEN {} ELSE PositionGuards(MarketName(e)))
         : e \in UNION {ToSet(Config[r].markets) : r \in TheReleases}}
TheNeededKeys ==
  {Key(n, <<>>) :
     n \in {"WNT", "MIN_ORACLE_SIGNERS", "MIN_ORACLE_BLOCK_CONFIRMATIONS", "MAX_ORACLE_PRICE_AGE",
            "MAX_ORACLE_REF_PRICE_DEVIATION_FACTOR", "MIN_HANDLE_EXECUTION_ERROR_GAS",
            "MAX_SWAP_PATH_LENGTH"}}
TheSigners == {<<"OracleStore", "signer", s>> : s \in Everyone}
TheMinSignersKey == Key("MIN_ORACLE_SIGNERS", <<>>)

MCOperator == Deployer
MCPlan == LET value == ThePlan IN value
MCContracts == LET value == TheContracts IN value
MCKeys == LET value == TheKeys IN value
MCCode == LET value == TheCode IN value
MCHoldingKeys == LET value == SetToSeq(TheHoldings) IN value
MCVirtualIds == LET value == TheVirtualIds IN value
MCOpenKey == LET value == TheOpenKey IN value
MCIdKey == LET value == TheIdKey IN value
MCGuards == LET value == TheGuards IN value
MCNeededKeys == LET value == TheNeededKeys IN value
MCEstimateKeys == LET value == TheEstimateKeys IN value
MCSigners == LET value == TheSigners IN value
MCMinSignersKey == LET value == TheMinSignersKey IN value
MCSuccessors == LET value == TheSuccessors IN value
MCReleases == LET value == TheReleases IN value
=============================================================================
