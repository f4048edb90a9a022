# A TLA+ model of the synthetics contracts and their deployment

The contracts of this repository let traders open leveraged positions, swap, and provide
liquidity, in two transactions each: the owner creates a *request* that is kept in a store while
a vault holds its tokens, and later a *keeper* executes it on prices that oracle signers have
signed. The scripts of `deploy/` put the contracts on chain, grant them their roles and write the
configuration of `config/`. This directory models that system, checks the models with TLC and proves
some of their properties with TLAPS.

## The system

State lives in one `DataStore`; the contracts named below are its controllers. `->` is a call.

| part | state | operations | interacts with |
|---|---|---|---|
| Orders (`exchange/OrderHandler`, `order/*`) | the order store, `OrderVault`'s balances and its record of them | create, update, cancel, execute; on an error cancel or freeze | -> vault, oracle, positions, swaps; the keeper is paid from the order's fee |
| Deposits, withdrawals (`exchange/DepositHandler`, `WithdrawalHandler`, `deposit/*`, `withdrawal/*`) | two stores, two vaults | create, cancel, execute; on an error cancel | -> vault, oracle, market token (mint, burn), swaps |
| Vaults (`bank/Bank`, `StrictBank`) | `tokenBalances`, what the vault knows of its own balances | `recordTransferIn`, `transferOut`, `syncTokenBalance` | tokens; owners send first and call afterwards, in one multicall |
| Nonce (`nonce/NonceUtils`) | one counter | `getNextKey` | shared by orders, deposits, withdrawals, liquidations and ADL |
| Oracle (`oracle/*`) | prices of the current transaction | `setPrices`, `clearAllPrices` | signers of `OracleStore`, price feeds |
| Positions (`position/*`) | positions, open interest, collateral sums, borrowing and funding | increase, decrease, liquidate, deleverage | market pool, oracle prices |
| Market pool (`market/*`, `swap/*`, `pricing/*`) | pool amounts, impact pools, claimable fees, funding and collateral | swaps, fees, claims | positions, market token as a bank |
| ADL and liquidation (`adl/*`, `liquidation/*`) | the ADL flag and its block | make and execute an order in one transaction | orders, positions |
| Governance (`config/Timelock`, `role/RoleStore`, `oracle/OracleStore`) | roles, pending actions, signers, settings | signal, act, cancel, revoke at once | every other contract asks the `RoleStore` |
| Config, features (`config/Config`, `feature/*`) | flags and parameters | set one | checked by every handler |
| Deployment (`deploy/*`, `utils/deploy`, `role`, `dataStore`, `market`, `keys`) | hardhat-deploy's record of deployments and of scripts that ran once | deploy a contract, grant a role, set a key, fix an inventory, each unless it is so already | reads `config/*`; -> `RoleStore`, `DataStore`, `OracleStore`, `MarketFactory`; users trade meanwhile |
| Network configuration (`config/*`) | tables for each network | - | read by the scripts |

`Reader`, callbacks, events, mocks, and the helpers with which tests and scripts send requests have no
state that the properties here are about.

What is hard to get right in it, and hard to test:

* A request lives across many transactions. Its owner, any keeper, a config keeper who switches
  features, and strangers who send tokens to a vault may all act in between, in any order.
* The vault does not keep a balance for each request. It keeps one figure for each token, corrected to
  the real balance after every transfer out, and relies on every path of every handler to leave
  enough for all the others.
* Keepers pick the prices, from signed reports over ranges of blocks. The checks of the ranges
  against the block of the request, and of the position's last change, are all that keeps
  somebody from picking a better moment.
* An execution that fails is caught, and the request is cancelled or frozen, by the error it
  failed with, whatever has been rolled back.
* Roles, delays and signals change while signalled actions are pending.
* A deployment is some hundreds of transactions, each sent only if what is on chain differs from what
  it should be. A run may stop after any of them and be started again, perhaps at another version of the
  code, and the exchange it reconfigures is in use.

`PROJECT.json` lists these one by one with their lines, and which property covers each.

## The modules

Each transaction is one step: the chain runs them one at a time, and a transaction that reverts
leaves no trace, so a step is what a whole handler does if it goes through. What could happen in between
two transactions is any other step. Prices are observed block by block; time is the
block number (`Timelock`: a clock of its own).

| module | models | its state in the code |
|---|---|---|
| `LedgerSum` | sums over the entries of a ledger, for all modules | - |
| `RequestEscrow` | *abstract*: what a vault promises to the requests it holds tokens for | store, vault and nonce, without types, prices, keepers |
| `Orders` | orders of all types from creation to execution, cancellation or freezing, with `OrderVault` and the part of positions that block checks read | order store, nonce, positions, `OrderVault.tokenBalances`, feature flags |
| `LiquidityRequests` | deposits and withdrawals, their two vaults, and the supply of the market token | two stores, nonce, two `tokenBalances`, feature flags |
| `Timelock` | signals, delays, roles, and what they govern | `pendingActions`, `timelockDelay`, `roleMembers`, `signers`, `FEE_RECEIVER`, price feeds |
| `Market` | one market: the balance of its market token contract and all books that are paid from it, through deposits, withdrawals, swaps, positions, forced closes and claims | the market's keys in the `DataStore` (pool amounts, swap impact pools, claimable amounts, collateral sums, open interest), its positions, the market token's `tokenBalances` |
| `DeployConfig` | `config/*.ts`: the tables of every network, with the defaults and the overrides that the files compute | - (constant) |
| `DeployScripts` | every script of `deploy/` as the steps it takes, and the order hardhat-deploy runs them in | - (constant) |
| `Deployment` | runs of those steps against the chain, with crashes, new releases and trades | deployments and migrations on disk; `RoleStore`, `DataStore`, `OracleStore` |
| `LedgerSumProofs`, `RequestEscrowProofs`, `OrdersProofs`, `OrdersHistoryProofs`, `LiquidityRequestsProofs`, `TimelockProofs`, `MarketProofs`, `DeploymentProofs` | theorems | - |
| `MC...` | instances for TLC, one `.cfg` for each run; `MCReleases` has the releases that `MCDeployment` deploys | - |

`Orders` and `LiquidityRequests` each use `RequestEscrow` through `INSTANCE ... WITH`, the
latter twice, once for each vault over the same nonce. `MCDeployment` puts the three deployment modules
together: the plan that `DeployScripts` computes from `DeployConfig` (for the releases of `MCReleases`) is the constant `Plan` of `Deployment`.

A definition `F_Slip` stands beside `F` and is `F` with one slip that the code could have had. No
action uses it; substituted for `F` it breaks the property that it is meant to break, which shows that the
property depends on that line of the code.

### Orders

`CreateOrder`, `UpdateOrder`, `CancelOrder`, `ExecuteOrder`, `CancelOnError`, `FreezeOnError` and
`ExecuteLiquidation` are the handlers. An order keeps what the checks read: its type, owner,
token, amount, size, trigger price, fee, block of the last touch, and whether it is frozen.
`vault` is what the vault holds, `recorded` its own figure, and `Received` their difference, as
`_recordTransferIn` computes it; `PayOut` books the whole balance afterwards.

A keeper's report is a range of blocks no older than the oracle allows. What its
minimum and maximum say of a trigger price is said of the prices observed in the range
(`MinAtMost` and the like). `ValidIncreaseOrSwapBlocks`, `ValidDecreaseBlocks` and `ValidTriggerPrice` are the checks of the code,
in its order: what is checked before an error decides whether the order is cancelled, frozen, or
the whole transaction reverts (`CheckedFailures`). Whether the market then grants the fill (price impact, reserves, collateral) is a
free choice, so everything shown holds whatever it decides.

The constant `AmpleGas` says whether keepers send the gas an execution needs. Without it an execution may fail anywhere, with
an error without a selector, and the order is then cancelled or frozen whatever the prices. The README of the repository lists this among its known
issues. What is claimed about prices assumes ample gas; what is claimed about the vault does not.

### LiquidityRequests

The same for deposits and withdrawals, which have no update and no freezing: on an error the
request is cancelled. Both kinds are in one function with their kind; each has a vault
of its own. An executed deposit mints any of `MintAmounts`; an executed withdrawal burns exactly
what the vault held for it.

### Timelock

An action's key is its label with its arguments, as in the code, where it is hashed. `CallStore` is a direct call by a person who is a
role admin or a controller: the stores obey them as they obey the timelock. The timelock logs events, and
the event emitter obeys controllers only, so that a timelock that is no controller can neither signal nor
cancel (`CanLog`): one revocation by the multisig leads there, and if the timelock is the only
role admin, nothing leads back.

### Market

`Orders` and `LiquidityRequests` leave open what an execution does to the market; `Market` models that part by itself, from the
moment the tokens of a request arrive at the market token contract. `books[b][t]` is the value under one key of the `DataStore` for the
token `t`, with `balance` for what the contract holds. Each handler is written as the code is: a sequence of credits and debits, each
to one book (`SwapBooks`, `DepositBooks`, `WithdrawBooks`, `IncreaseBooks`, `SettledBooks`, `ForceClosedBooks`), and a check at the end
(`Book`, with `ValidateMarketTokenBalance`), which compares the balance with groups of books and never with the sum of all.

| actions | code |
|---|---|
| `Swap` | `SwapUtils._swap` |
| `ExecuteDeposit`, `ExecuteWithdrawal` | `ExecuteDepositUtils`, `WithdrawalUtils._executeWithdrawal` |
| `IncreasePosition` | `IncreasePositionUtils` |
| `DecreasePosition` | `DecreasePositionUtils`, `DecreasePositionCollateralUtils` (`SettledBooks` is `processCollateral`, `ForceClosedBooks` is `processForceClose`), for orders, liquidations and ADL |
| `AccrueFunding` | the difference of the funding indices since the position was last touched |
| `Claim`, `ClaimFundingFees` | `FeeUtils.claim...`, `MarketUtils.claimFundingFees`, and the claims of collateral and affiliate rewards |
| `DirectTransfer` | anybody's transfer of tokens to the contract |

What is left open, so that what is shown holds however it comes out: prices (within a minimum and a maximum), the profit that a decrease realises,
fees, price impact, whether a swap of the profit fails, what exactly the sufficiency check adjusts, and whose share a claim is. What is kept: which token each amount is in,
the conversions between tokens and their rounding, the caps, and the order in which costs are paid. Both legs of a deposit take the same
choice of fees. Swaps along a path, also of a withdrawn collateral, are `Swap`s before or after the step they belong to. A liquidation needs a position that falls short of
`MinCollateralUsd`; that leverage can be too high as well is left out, as are the final validation of a position that remains (profit is
free), borrowing, reserves, virtual inventory and the position impact pool, which is in index tokens and paid by nobody's balance.

`funding` is the one book that the code does not keep: what positions paid as funding less what was claimed. Funding becomes claimable when
the position that receives it is touched, whether or not the one that owes it has paid, so the book may be negative; `FundingBacked` says
that then positions still owe it. `Surplus` is the balance less all books. `NothingLeaks` says that it never shrinks, `NothingStranded`
that it never grows, except for gifts and for one path of the code, described below.

### DeployConfig, DeployScripts, Deployment

A *step* is one transaction of a script together with the reads that decide whether it is sent: deploy a contract, grant a role,
set a key, create a market, add a holding to a total, write the total, or record that a script ran. The functions of
`DeployScripts` are named after the scripts and give their steps; `ScriptOrder` sorts the scripts by their tags as hardhat-deploy does.
Numbers are kept as far as scripts tell them apart: zero, absent, different from what is on chain.

| actions | code |
|---|---|
| `Start`, `Pass`, `Deploy`, `Fail`, `RecordMigration` | hardhat-deploy, driven by `createDeployFunction` of `utils/deploy.ts`; a contract is deployed anew if its code, its libraries or its arguments are not those of the recorded instance |
| `GrantRole` | `grantRoleIfNotGranted` of `utils/role.ts` |
| `SetIfDifferent` | `utils/dataStore.ts`, the oracle signers, and the creation of a market |
| `ReadHolding`, `SetInventory` | the scripts `fixVirtualInventoryForPositions` and `...ForSwaps` |
| `Crash` | the process ends between two transactions |
| `NextRelease`, `HandOver` | the team checks out another version; the deployer loses `ROLE_ADMIN`, as the README asks for after setup |
| `Trade` | what users do to the virtual inventories through a router in service (`MarketUtils.applyDeltaToVirtualInventory...`) |

`Pass` skips all the steps with nothing to do at once, since they only read, and what they read only scripts change. Instances of a contract are numbered; roles are
granted to an instance, and a new `DataStore` starts empty, so that an old router goes on working on an old store.
The model links a contract to every library its script lists. hardhat links those that the byte code refers to, and some twenty of the listed ones it does not: the model then deploys anew
in cases where the scripts do not have to. Only for `DataStore`, where this would empty the storage, is it put right.
Of the fix scripts' totals, the model has one for each virtual id.

`Deployment` knows nothing of the scripts but what `DeploymentAssumption` says of a plan, and its parts are what the scripts are careful about:

| condition | where the code sees to it |
|---|---|
| `DeployedBeforeUse` | the dependencies of `createDeployFunction`: a contract is deployed after what it is built on and before it is used |
| `OneValuePerKey` | the tables of `config/`: markets that share a setting, and the two sides of one market, agree on it |
| `RecordedAtTheEnd` | the scripts that run once return `true` at their end |
| `ServedCalls`, `NoAdminGranted` | roles are granted to the deployer and markets created before calls that need them; no script grants `ROLE_ADMIN` |
| `RoutersLast`, `NeededKeysSet` | `deployExchangeRouter` grants the two roles after its dependencies, the handlers, have theirs; the `configure...` scripts come before it by their names |
| `GuardsFirst` | the order of the settings in `deployAndConfigureMarkets` |
| `SignersAddedFirst` | `configureOracleSigners` adds before it removes; no release asks for more signatures than another has signers |
| `ListedToOpen` | `deployAndConfigureMarkets` configures the markets that are on chain, and no script takes one off the list |
| `FixesWhole` | the fix scripts collect the markets of a virtual id (or token) from the configuration, add up all of them, each once, and then write the sum |

TLC evaluates the assumption on the plans that are computed from the scripts and the tables: exchange two lines of a script, drop a dependency, or give two
sides of a market different values under one key, and it is false. From then on only the protocol of the run matters (compare, send, advance, crash, start again),
and the slips that the run `deployment` is tried with are slips of that protocol.

## The runs

| run | question | bounds |
|---|---|---|
| `escrow` | does the abstract vault stay solvent, and settle each request once? | 3 requests |
| `orders` | does `OrderVault` implement the escrow, with stray transfers of one token and too little gas? does it hold exactly what open orders pledged of the other? are market orders no free option? who executes limit swaps and frozen orders? does an owner who keeps trying get out? | 2 orders, 2 tokens, 2 blocks, requests in the first, fairness |
| `triggers` | which prices fill or freeze market increases, limit increases and trigger decreases, with updates and changes of the position, also by liquidation? | 2 orders, 3 blocks, 2 prices, no fees |
| `cancel_doc` | *violated*: owners do cancel market orders, see below | |
| `after_doc` | *violated*: limit orders are filled at their own block, see below | |
| `liquidity` | does each of the two vaults implement the escrow? does nothing stay behind, and are market tokens made and destroyed once? are requests settled at their block's prices, and no free option? does an owner who keeps trying get out? | 2 requests, 3 tokens, 3 blocks, fairness |
| `governance` | is there always a role admin and a multisig? is every grant and every setting announced once the timelock is alone in charge? | 3 accounts, 7 appointments, 1 pending signal, clock up to 3 |
| `market_books` | does every handler take off the books what it takes out of the market, and put on them what stays? is claimable funding backed? | a long and a short on the same collateral, 3 and 1 tokens, size 2, profits of -1 and 1, fees, negative and positive impact, failing swaps, funding up to 1; orders of traders and ADL, which forces what a liquidation forces, without its test |
| `market_positions` | do the collateral sums and the open interest stay those of the positions, whatever is rounded? | two longs on the same sums, 4 tokens, sizes and prices 1 and 2, open interest up to 4, a price range, fees, a gift |
| `liquidation_doc` | *violated*: a liquidation can revert, see below | 1 profit, 3 funding, no fees |
| `deployment` | does a run that ends leave everything as configured, whatever it started from? is a router in service always served, a market always limited before it is open, a price always signable? do the fix scripts leave inventories right? does a run end at all? | all scripts; Goerli from nothing, then a release with new signers, a new market and another setting, with another library or another `OracleStore`; Fuji from nothing and in use; 1 crash; 2 of 4 holdings moved by 1 |
| `gas_doc` | *violated*: gas limits are not where the contracts read them, see below | Goerli from nothing, no crash |

Why these bounds: in `market_books` a balance of 3 holds a collateral, a pool that pays a profit, and a fee or an impact at once, and one unit of the other token is
enough for a profit in it and a swap of it; forced closes that pay funding from the profit in the other token, profit swaps that draw on the impact pool,
and funding claimed ahead of its payment all occur. In `market_positions` sizes that price 2 does not divide make rounding remove a position with dollars left,
and dust stay in the open interest. Elsewhere: two requests are the least with which one can be paid with the tokens of the other, and three blocks the least that have
one before, one at and one after an event. Amounts 0, 1 and 2 tell apart nothing, the minimum fee, and more than it. Two prices
put a trigger between them. Stray transfers and flag switches are unbounded in number, and bounded by the supply and by the set of flags.
That two requests are enough for the vault is not a matter of bounds: it is proved for any number.
In `deployment` the plans have 203 to 278 steps, with three of the markets of Goerli and four of Fuji: the ones that share a virtual id, the one with a single token
for both sides, and the swap-only one are among them. One crash at any step leaves every partial state a run can leave; a second one would leave one that is
a partial run of a partial state, which by `DoneMeansConfigured` a later run repairs as well.

`CHECK_DEADLOCK FALSE` is set because each instance stops at its bounds on the nonce and the clock, and `gas_doc` because without a next
release there is nothing left to do; `deployment` checks for deadlock.

Fairness in `deployment`: a run goes on (`WF(RunStep)`), and one that failed or crashed is started again, which is how hardhat-deploy is
used. `Completes` is then an alternative: runs end again and again, or a script that runs once waits for a market that no run creates before it (`Blocked`), or
the deployer gave up `ROLE_ADMIN` (README.md:446 asks for it) and a later release cannot grant roles.

Fairness in `orders` and `liquidity`: blocks go on being made; a config keeper who disables cancelling enables it again
(the code describes disabling as rare and temporary, `OrderHandler.sol` above `_handleOrderError`); and
an owner who wants out tries again and again, hence strong fairness, since cancelling
may be switched off and on infinitely often. Keepers are asked nothing: that owners do not depend on them is the point.

### Where the code and its documents part

* `cancel_doc`: the comments on `cancelOrder` in `OrderHandler` and `ExchangeRouter` say that
  "the order must not be a market order". The code lets the owner cancel a market order after
  `REQUEST_EXPIRATION_BLOCK_AGE` blocks, which `orders` shows to be safe (`OwnerWaits`), and without which `OwnerGetsOut` would fail.
* `after_doc`: the README says of limit orders that they are executed on prices "after block `n`", `n` being
  the block of creation. The code accepts a report that starts with block `n` itself.
* `liquidation_doc`: the comment in `DecreasePositionUtils` says that a liquidation of a position with insufficient collateral "should still
  complete". In `processForceClose` the remaining cost is the pending deduction less the whole funding fee (line 456), although a profit in the collateral token
  was set against the costs first. A long that made a profit of 1, owes 3 of funding and no other costs, and has collateral 1, has 2 pending, and 2 - 3 reverts:
  the liquidation fails for as long as the profit exceeds the costs other than funding. The position keeps accruing funding that nobody can collect.
* `gas_doc`: `utils/keys.ts` hashes the constants of the gas limits of swaps and orders once more before it writes them; `Keys.sol` reads the
  constants themselves. A complete deployment reports the limits as set, and the contracts find zero, so that the minimum execution fee
  of an order covers the base amount and the callback only, where the README says that fees are "estimated and accounted for on creation of deposit, withdrawal, order requests".
* *Blocked scripts.* `fixVirtualInventoryForSwaps` needs every market with a virtual id on chain, and runs before the script that creates markets at the end of the
  run. On an empty chain, or with a new market of that kind before the script has been recorded as run, no run gets past it. `Completes` names this state.
* *Stranded profit.* In the same function the output in the collateral token, whatever profit was paid there, is dropped: it has left the pool, the costs it was set against are
  given up (fees) or counted as unpaid, and no book gets it. No document says where it should go, so this is not a finding; `NothingStranded` names the
  path (`StrandsProfit`) and shows that it is the only one, and by exactly that amount.
* *Dust.* A position whose size in tokens is rounded away is removed with dollars left, which stay in the open interest for good. `OpenInterestSuffices` shows
  that the error has this sign only, so that no position is kept from closing.

## The proofs

All for every value of the constants that satisfies the named assumptions (finite amounts are not assumed: tokens are any set,
amounts any naturals).

* `LedgerSumProofs`. `SumTo` sums a ledger by a recursive function. What is needed of it (changing an entry changes
  the sum by the difference, a sum of zeros is zero, a sum bounds each entry) needs induction. Induction theorems that take an operator as
  a parameter cannot be instantiated by the provers at hand, so the module proves what it needs
  from the least counterexample (`LeastElement`, `IntervalInduction` over a set instead of an operator).
* `RequestEscrowProofs`. `EscrowTypeOK` and `EscrowSolvent`: `TypeOK /\ Solvent` is inductive, by `SumUpdate`, since a step changes what is owed to one request
  and the books by at least as much. `EscrowSettledOnce` is an action property from `TypeOK`, which bounds open keys by the nonce.
* `OrdersProofs`. `OrdersTypeOK`; then `OrdersImplementEscrow`, that every action of `Orders` is an action of the escrow or a stutter.
  Its inductive invariant is `IInv == TypeOK /\ Backed`, where `Backed` says that the vault has what it has recorded: without it
  a transfer out, which books the real balance, could lower the books by more than it pays. `OrdersSolvent` follows from the two and `EscrowSolvent`: it
  is proved where it is simple, about the abstract vault, and carried over. So is
  `OrdersSettledOnce`: an order that left the store, by whichever handler, is never in it again, and its key goes to no other.
* `OrdersHistoryProofs`. The six properties that compare an order's end with its past: `OrdersFilledOnCurrentTerms`, `OrdersFrozenOnCurrentTerms`,
  `OrdersFilledAfterIncrease`, `OrdersRetriedByFrozenKeeper`, `OrdersOwnerWaits` and `OrdersNothingStranded`. None is inductive: they speak of what the
  history recorded, the checks of the code read the order as it is stored. `HInv` connects the two. `Kept`: an open order has the block, the terms and the
  freezing that its history says. `Past`: nothing was touched later than now. `Tracked`: a position knows the last increase since it was opened, also across orders
  that removed and reopened it. `Exact`: of a token nobody donates, the vault holds what it recorded and owes exactly that. `Told`: each recorded end was a proper one
  (`EndedWell`, an operator of values alone, so that later steps keep it for free).
  `OrdersRefundable`, and `LiquidityRefundable` for the other two vaults, is the safety half of `OwnerGetsOut`: no cancellation fails for want of tokens. What an owner waits for is the
  feature flag and the age of the request; that both come is the liveness that TLC checks.
* `LiquidityRequestsProofs`. All eight safety and refinement properties: types, both refinements of `RequestEscrow` and with them the solvency of
  both vaults, `NothingStranded`, `MarketTokenSupply` (minted less burnt is what owners and vaults hold), `SettledAtRequest` and `OwnerWaits`. The ledgers of
  two vaults and of two kinds of request are columns of one function; a request changes its own column only. `LiquiditySettledOnce` says of both
  kinds what `OrdersSettledOnce` says of orders; that the two stores take their keys from one nonce makes it hold across them.
* `TimelockProofs`. `TypeOK`, `SomeoneInCharge`, `GrantsAnnounced` and `SettingsAnnounced`. A role is granted by an action whose key was pending long
  enough, and a pending key was signalled; that there is always an admin and a multisig needs that the one revocation the code refuses, of the last member, is counted
  on the set before it. `TimelockLockedOut` states a limit of the design: the multisig may take `CONTROLLER` from the timelock itself, and where the timelock is the only role admin
  nothing leads back. Nobody gets a role again, and what was signalled is neither carried out nor cancelled, since each of these logs an event, for which the timelock must be a controller.
* `MarketProofs`. All seven properties of `Market`, and `MarketCoversBooks`, what `NothingLeaks` means for the state: of either token the balance covers all books, at all times. A handler is a chain of credits, and the proofs follow the chains: `CreditMoves` says what one credit does to the
  surplus; `Paid`, `Booked` and `Settled` say what a chain of them comes to, for each handler and each way a cost can stop it (`SwapBooksPaid`, ...,
  `ForceClosedBooksSettled`). Then every step is quiet, a step of one position, or time passing (`StepKinds`), and each property is proved of these three. The
  sums over positions follow by `SumUpdate`. The inductive invariant of the types is `Typed == TypeOK /\ OwesCollateralToken`: a position owes funding in
  its collateral token only, so that paying it out of the collateral pays all of it. That no size turns negative rests on `ShareBounds`: a share
  of a total, rounded up or down, is no more than the total. A forced close may leave an output, never a negative one (`OutputNotNegative`), which is
  the one thing that `MarketNothingStranded` has to except besides gifts.

* `DeploymentProofs`. All safety properties of `Deployment`, for any plan that meets the assumption, any number of releases, contracts, markets and crashes.
  The inductive invariant is `Typed /\ DoneSoFar`. `DoneSoFar` says that the steps the run has behind it would find nothing to do, or are readings of a script whose recording is
  still ahead. It turns the order of a plan into a fact about the chain: what the plan puts before the step that is being taken holds now, whatever was on chain when the run began.
  `DeploymentDoneMeansConfigured` is `DoneSoFar` at the end; `DeploymentMarketsAreGuarded` needs it for the step that opens a market. For
  `DeploymentRoutersAreServed` the step that puts a router in service is the only one to look at (`EntersService`, `ServedByPlan`), because instances never change and roles of contracts are never taken back
  (`StaysOnChain`), and because a contract that was deployed earlier never comes to refer to a new instance (`RecordedBefore`). `DeploymentEnoughSigners` adds
  `SignersKept`: the signers of some release are all there, though which release may change from one transaction to the next. `DeploymentFailsForCause` is the safety half of `Completes`: a run fails where a
  script throws, is `Blocked`, or the deployer gave up `ROLE_ADMIN`, and on nothing that earlier runs left. `DeploymentSettles`: once every step of a release holds, runs of the same release undo nothing.

  `DeploymentInventoryMatches` has a premise besides `Spec`, `[]IdsBeforeTrade`: what users hold in a market is held under the virtual id that the configuration gives it. Without it the
  statement is false of some plans, those of this repository among them: the scripts set the id of a market after the caps that open its pool (the hazard at
  `deployAndConfigureMarkets.ts:117`), and with a new market on an exchange in service what is deposited in between is missing from the inventory. README.md:482 asks the team to see to it
  ("Virtual IDs must be set on market creation / token whitelisting"), and the theorem says that nothing else can go wrong. In the run the premise is met: Fuji in use has its ids, and a run of Fuji from nothing is blocked
  before its markets are made. The invariant is `InventoryInv`. `TotalsRight`: while a script adds up, its total is the sum over the markets it has behind it (`Gathered`), unless users traded under that id meanwhile, and otherwise it is zero, so
  that a script that is started again counts nothing twice. `HoldingsListed`: a market that is open or holds something is on the list, so that no reading leaves it out;
  and pools are not in debt, so that the inventory of swaps, which the code stops at zero, never has to. `InventoryMatches` then follows: a written sum is the sum over the configured markets, which by the premise are those with the id. The sums of
  sets of holdings (`SumOver`) reduce to `SumUpdate` by `SumOverMoves` and `SumOverAdds`.

The assumptions are those of the modules (`OrdersAssumption` and the like): constants have their types, the fee token is a token, and no owner of an order or a
liquidity request is one of its keepers (the properties about who acted tell them apart by name; one address with both parts is two names here). TLC
evaluates them in every run.

Every safety property of the runs is stated by a theorem. Out of the prover's reach, and
so with TLC for good: liveness (`OwnerGetsOut`, `Completes`) and `ENABLED`, and what recursive definitions compute in general (no induction over data).

## Not modelled

* Pricing: the curve of price impact, borrowing and funding rates, the value of the pool, reserves and caps on open interest. In `Orders`,
  `LiquidityRequests` and `Market` the amounts they yield are free choices, so nothing claimed depends on them, and nothing is claimed about them.
* The ADL flag, the oracle's signatures and medians, the factors and shares of claims: the next modules of the plan. The hazards that wait for them are in `PROJECT.json` with a note.
* Gas, except for the lack of it; reentrancy, since every handler holds the global lock; the whitelist of `Config`; tokens that take a fee on transfer.
* Callbacks, which run in a bounded try-catch and change nothing of the exchange's; `Reader`; events.
* The helpers of `utils/*.ts` that build requests, sign prices and compare numbers for tests, and the scripts that print: they keep no state. Of `utils/`, what the deployment
  uses is modelled.

## Plan

Written so far, in this order: `LedgerSum`, `RequestEscrow`, `Orders`, `LiquidityRequests`, `Timelock`, `Market`, the deployment modules, and the proofs above.
Next, the most important first:

1. `Adl`: the flag, its block, and orders that are made on it (`AdlHandler`, `AdlUtils`); stale flags and stale prices.
2. `Claims`: the two factors of claimable collateral, per account and time, and what was claimed already.
3. Borrowing and the funding indices, for a `Market` in which funding is not accrued by choice.
4. `OracleReports`: signers, medians, block ranges, set and clear in one transaction, simulation.
5. `Pricing`: price impact, its cap and sign, as operators against a reference definition over bounded inputs.
6. For `Market` an abstract specification, a bank with liabilities: that its balance covers them is proved (`MarketCoversBooks`), which of its steps may move which of them is not stated yet.
