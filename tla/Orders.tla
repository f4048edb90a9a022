------------------------------- MODULE Orders -------------------------------
(***************************************************************************)
(* The life of an order: OrderHandler, OrderUtils, BaseOrderUtils,         *)
(* ExchangeUtils, GasUtils.payExecutionFee and the OrderVault (a           *)
(* StrictBank), with LiquidationHandler, which passes an order of its own  *)
(* through the same code.                                                  *)
(*                                                                         *)
(* A transaction is one step: the EVM runs it to the end or undoes it, and *)
(* GlobalReentrancyGuard keeps a callback from starting another one.  What *)
(* interleaves are the transactions of owners, of keepers, and of the      *)
(* config keeper, and the blocks whose prices the oracle signers report.   *)
(*                                                                         *)
(* The market the orders trade in is reduced to what the handler can tell: *)
(* whether it is enabled, the size of a position and the blocks at which   *)
(* it changed.  Whether an order that passes every check modelled here can *)
(* be filled (acceptable price, reserves, collateral, swap output) is a    *)
(* free choice of the action.                                              *)
(*                                                                         *)
(* A definition F_Slip is F with one slip that its code could have; no     *)
(* action uses it.  It is there to see that a property notices the slip.   *)
(***************************************************************************)
EXTENDS Integers, Sequences, FiniteSets, LedgerSum

CONSTANTS
  Accounts,        \* owners of orders
  OrderKeepers,    \* accounts with the role ORDER_KEEPER
  FrozenKeepers,   \* those of them that also have FROZEN_ORDER_KEEPER
  LiquidationKeepers, \* accounts with the role LIQUIDATION_KEEPER
  Tokens, Wnt,     \* collateral tokens; Wnt is the token of execution fees
  OrderTypes,      \* the order types users of this instance create
  Sides,           \* values of isLong in use
  Sizes,           \* sizes an order may ask for
  Amounts,         \* amounts an owner may send to the vault at once
  Prices,          \* index prices
  Features,        \* feature flags that may be switched in this instance
  MinExecutionFee, \* what validateExecutionFee demands
  RequestExpirationAge, \* REQUEST_EXPIRATION_BLOCK_AGE
  MaxOraclePriceAge,    \* MAX_ORACLE_PRICE_AGE, in blocks
  AmpleGas,        \* keepers send the gas that an execution needs
  Donations,       \* tokens that anybody may send to the vault without a request
  MaxPositionSize, \* what the open interest cap leaves to one position
  Supply,          \* amount of each token that exists
  MaxRequests,     \* bound on the number of order keys
  MaxBlock,        \* bound on the block number
  LastRequestBlock \* no order is created after this block

MarketTypes == {"MarketSwap", "MarketIncrease", "MarketDecrease"}
SwapTypes == {"MarketSwap", "LimitSwap"}
IncreaseTypes == {"MarketIncrease", "LimitIncrease"}
DecreaseTypes == {"MarketDecrease", "LimitDecrease", "StopLossDecrease"}
TriggerTypes == {"LimitIncrease", "LimitDecrease", "StopLossDecrease"}

ASSUME OrdersAssumption ==
  /\ Wnt \in Tokens
  /\ FrozenKeepers \subseteq OrderKeepers
  /\ Accounts \cap OrderKeepers = {}  \* a keeper's own orders are another account's here
  /\ OrderTypes \subseteq SwapTypes \cup IncreaseTypes \cup DecreaseTypes
  /\ Sides \subseteq BOOLEAN
  /\ Sizes \subseteq Nat /\ Amounts \subseteq Nat /\ Prices \subseteq Nat
  /\ Features \subseteq {"create", "update", "cancel", "execute", "market"}
  /\ MinExecutionFee \in Nat /\ RequestExpirationAge \in Nat
  /\ MaxOraclePriceAge \in Nat /\ MaxPositionSize \in Nat /\ Supply \in Nat
  /\ AmpleGas \in BOOLEAN /\ Donations \subseteq Tokens
  /\ MaxRequests \in Nat /\ MaxBlock \in Nat /\ LastRequestBlock \in Nat

VARIABLES
  priceAt,    \* priceAt[b]: index price at block b; its length is the block
  orders,     \* the order store, by key
  nonce,      \* NONCE in the data store: the last key that was made
  positions,  \* the position store, by account and side
  vault,      \* token balances of the OrderVault
  recorded,   \* StrictBank.tokenBalances of the OrderVault
  outside,    \* token balances of everyone else
  disabled,   \* feature flags that are set, "market": IS_MARKET_DISABLED
  outcome,    \* how an order left the store: who did it, when, on which report
  termsAt,    \* block at which the owner last set the terms of an order
  failed      \* the order was tried and frozen since then

(***************************************************************************)
(* The last three are history: the contracts emit them as events and do    *)
(* not read them.                                                          *)
(***************************************************************************)
history == <<outcome, termsAt, failed>>
tokens == <<vault, recorded, outside>>
vars == <<priceAt, orders, nonce, positions, tokens, disabled, history>>

Requests == 1..MaxRequests
PositionKeys == Accounts \X Sides
Block == Len(priceAt)

NoOrder == [exists |-> FALSE]
NoOutcome == [how |-> "none"]
EmptyPosition == [size |-> 0, increasedAt |-> 0, decreasedAt |-> 0]

OrderRecords ==
  [exists: {TRUE}, account: Accounts, orderType: OrderTypes, isLong: Sides,
   token: Tokens, sizeDelta: Nat, collateral: Nat, fee: Nat,
   triggerPrice: Nat, updatedAt: Nat, isFrozen: BOOLEAN]

IsMarket(o) == o.orderType \in MarketTypes
IsSwap(o) == o.orderType \in SwapTypes
IsIncrease(o) == o.orderType \in IncreaseTypes
IsDecrease(o) == o.orderType \in DecreaseTypes

(***************************************************************************)
(* Decrease orders name a collateral amount to withdraw; swap and increase *)
(* orders bring theirs, and the vault holds it until they are settled.     *)
(***************************************************************************)
HoldsCollateral(o) == IsSwap(o) \/ IsIncrease(o)

CollateralOf(o) ==
  [t \in Tokens |-> IF HoldsCollateral(o) /\ t = o.token THEN o.collateral ELSE 0]
FeeOf(o) == [t \in Tokens |-> IF t = Wnt THEN o.fee ELSE 0]
Plus(a, b) == [t \in Tokens |-> a[t] + b[t]]
Nothing == [t \in Tokens |-> 0]

PledgedBy(o) ==
  IF o.exists THEN Plus(CollateralOf(o), FeeOf(o)) ELSE Nothing

-----------------------------------------------------------------------------
(***************************************************************************)
(* The vault.                                                              *)
(***************************************************************************)

(***************************************************************************)
(* What _recordTransferIn returns after the transaction has sent tokens:   *)
(* all that came in since the books were last written, whoever sent it.    *)
(***************************************************************************)
Received(sent, t) == vault[t] + sent[t] - recorded[t]

TakeIn(sent, booked) ==
  /\ \A t \in Tokens : sent[t] <= outside[t]
  /\ vault' = Plus(vault, sent)
  /\ outside' = [t \in Tokens |-> outside[t] - sent[t]]
  /\ recorded' = [t \in Tokens |-> IF t \in booked THEN vault'[t] ELSE recorded[t]]

(***************************************************************************)
(* Transfers out of the vault.  _afterTransferOut books the whole balance  *)
(* of every token that was transferred, also when the amount is 0; the     *)
(* execution fee is always paid through it.                                *)
(***************************************************************************)
PayOut(amount, booked) ==
  /\ \A t \in Tokens : amount[t] <= vault[t]
  /\ vault' = [t \in Tokens |-> vault[t] - amount[t]]
  /\ outside' = Plus(outside, amount)
  /\ recorded' = [t \in Tokens |-> IF t \in booked THEN vault'[t] ELSE recorded[t]]

(***************************************************************************)
(* Tokens that move when an order is settled: its collateral, to the       *)
(* market or back to the owner, and its fee, to the keeper and the owner.  *)
(***************************************************************************)
SettleTokens_NoFee(o) == PayOut(CollateralOf(o), {Wnt, o.token})

SettleTokens(o) ==
  PayOut(Plus(CollateralOf(o), FeeOf(o)),
         {Wnt} \cup (IF HoldsCollateral(o) /\ o.collateral > 0 THEN {o.token} ELSE {}))

-----------------------------------------------------------------------------
(***************************************************************************)
(* Oracle reports.  A keeper picks the blocks its signed prices cover.     *)
(* The signers are external: their min (max) price is taken to be the      *)
(* lowest (highest) price in those blocks.                                 *)
(***************************************************************************)
Reports ==
  {r \in [lo: 1..Block, hi: 1..Block] :
     r.lo <= r.hi /\ r.hi + MaxOraclePriceAge >= Block}

MaxAtMost(r, p) == \A b \in r.lo..r.hi : priceAt[b] <= p
MinAtLeast(r, p) == \A b \in r.lo..r.hi : priceAt[b] >= p
MinAtMost(r, p) == \E b \in r.lo..r.hi : priceAt[b] <= p
MaxAtLeast(r, p) == \E b \in r.lo..r.hi : priceAt[b] >= p

ValidTriggerPrice(o, r) ==
  \/ o.orderType \notin TriggerTypes
  \/ /\ o.orderType = "LimitIncrease"
     /\ IF o.isLong THEN MaxAtMost(r, o.triggerPrice) ELSE MinAtLeast(r, o.triggerPrice)
  \/ /\ o.orderType = "LimitDecrease"
     /\ IF o.isLong THEN MinAtLeast(r, o.triggerPrice) ELSE MaxAtMost(r, o.triggerPrice)
  \/ /\ o.orderType = "StopLossDecrease"
     /\ IF o.isLong THEN MinAtMost(r, o.triggerPrice) ELSE MaxAtLeast(r, o.triggerPrice)

PositionKey(o) == <<o.account, o.isLong>>

(***************************************************************************)
(* validateOracleBlockNumbers of IncreaseOrderUtils, SwapOrderUtils and    *)
(* DecreaseOrderUtils.                                                     *)
(***************************************************************************)
ValidIncreaseOrSwapBlocks(o, r) ==
  IF IsMarket(o) THEN r.lo <= o.updatedAt /\ o.updatedAt <= r.hi
                 ELSE r.lo >= o.updatedAt

ValidDecreaseBlocks_SinceIncrease(o, pos, r) ==
  IF IsMarket(o) THEN r.lo <= o.updatedAt /\ o.updatedAt <= r.hi
                 ELSE r.lo >= pos.increasedAt

ValidDecreaseBlocks(o, pos, r) ==
  IF IsMarket(o) THEN r.lo <= o.updatedAt /\ o.updatedAt <= r.hi
                 ELSE r.lo >= o.updatedAt /\ r.lo >= pos.increasedAt

ValidLiquidationBlocks(pos, r) ==
  r.lo >= pos.increasedAt /\ r.lo >= pos.decreasedAt

ValidBlocks(o, pos, r) ==
  IF IsDecrease(o) THEN ValidDecreaseBlocks(o, pos, r)
                   ELSE ValidIncreaseOrSwapBlocks(o, r)

-----------------------------------------------------------------------------
(***************************************************************************)
(* Requests of owners.  ExchangeRouter.multicall sends the tokens and      *)
(* creates (updates) the order in one transaction.                         *)
(***************************************************************************)

(***************************************************************************)
(* The collateral and the fee that createOrder puts in a new order, given  *)
(* the values that its caller passed.  The vault reads one amount when the *)
(* collateral is Wnt itself, and splits it.                                *)
(***************************************************************************)
FeeFromCollateral(type, token) == type \in SwapTypes \cup IncreaseTypes /\ token = Wnt

NewCollateral_WithFee(type, token, sent, passed) ==
  IF type \in DecreaseTypes THEN passed.collateral ELSE Received(sent, token)

NewCollateral(type, token, sent, passed) ==
  IF type \in DecreaseTypes THEN passed.collateral
  ELSE IF token = Wnt THEN Received(sent, Wnt) - passed.fee
  ELSE Received(sent, token)

NewFee(type, token, sent, passed) ==
  IF FeeFromCollateral(type, token) THEN passed.fee ELSE Received(sent, Wnt)

CreateOrder(account, type, isLong, token, size, trigger, sent, passed) ==
  LET k == nonce + 1
      o == [exists |-> TRUE, account |-> account, orderType |-> type,
            isLong |-> isLong, token |-> token, sizeDelta |-> size,
            collateral |-> NewCollateral(type, token, sent, passed),
            fee |-> NewFee(type, token, sent, passed),
            triggerPrice |-> trigger, updatedAt |-> Block, isFrozen |-> FALSE]
  IN  /\ k \in Requests /\ Block <= LastRequestBlock
      /\ "create" \notin disabled
      /\ "market" \notin disabled
      /\ Received(sent, IF FeeFromCollateral(type, token) THEN token ELSE Wnt) >= passed.fee
      /\ o.fee >= MinExecutionFee
      /\ o.sizeDelta # 0 \/ o.collateral # 0
      /\ TakeIn(sent, {Wnt} \cup (IF HoldsCollateral(o) THEN {token} ELSE {}))
      /\ nonce' = k
      /\ orders' = [orders EXCEPT ![k] = o]
      /\ termsAt' = [termsAt EXCEPT ![k] = Block]
      /\ UNCHANGED <<priceAt, positions, disabled, outcome, failed>>

(***************************************************************************)
(* The owner sets new terms, which unfreezes the order, and may top up the *)
(* execution fee that a freeze has used up.                                *)
(***************************************************************************)
Amended_NotTouched(o, size, trigger, fee) ==
  [o EXCEPT !.sizeDelta = size, !.triggerPrice = trigger, !.isFrozen = FALSE,
            !.fee = fee]

Amended(o, size, trigger, fee) ==
  [o EXCEPT !.sizeDelta = size, !.triggerPrice = trigger, !.isFrozen = FALSE,
            !.fee = fee, !.updatedAt = Block]

UpdateOrder(k, size, trigger, sent) ==
  LET o == Amended(orders[k], size, trigger, orders[k].fee + Received(sent, Wnt))
  IN  /\ orders[k].exists
      /\ "update" \notin disabled
      /\ ~IsMarket(o)
      /\ o.fee >= MinExecutionFee
      /\ o.sizeDelta # 0 \/ o.collateral # 0
      /\ TakeIn(sent, {Wnt})
      /\ orders' = [orders EXCEPT ![k] = o]
      /\ termsAt' = [termsAt EXCEPT ![k] = Block]
      /\ failed' = [failed EXCEPT ![k] = FALSE]
      /\ UNCHANGED <<priceAt, nonce, positions, disabled, outcome>>

(***************************************************************************)
(* OrderUtils.cancelOrder, and what an order's leaving the store means for *)
(* its history.                                                            *)
(***************************************************************************)
Leave_NotRemoved(k, how, by, report) ==
  /\ orders' = orders
  /\ outcome' = [outcome EXCEPT ![k] =
       [how |-> how, by |-> by, order |-> orders[k],
        lo |-> report.lo, hi |-> report.hi, at |-> Block]]

Leave(k, how, by, report) ==
  /\ orders' = [orders EXCEPT ![k] = NoOrder]
  /\ outcome' = [outcome EXCEPT ![k] =
       [how |-> how, by |-> by, order |-> orders[k],
        lo |-> report.lo, hi |-> report.hi, at |-> Block]]

CancelTo(k, by) ==
  /\ SettleTokens(orders[k])
  /\ Leave(k, "cancelled", by, [lo |-> Block, hi |-> Block])
  /\ UNCHANGED <<priceAt, nonce, positions, disabled, termsAt, failed>>

RequestExpired_BlockEarly(o) == Block - o.updatedAt + 1 >= RequestExpirationAge
RequestExpired(o) == Block - o.updatedAt >= RequestExpirationAge

CancelOrder(k) ==
  /\ orders[k].exists
  /\ "cancel" \notin disabled
  /\ IsMarket(orders[k]) => RequestExpired(orders[k])
  /\ CancelTo(k, orders[k].account)

-----------------------------------------------------------------------------
(***************************************************************************)
(* Execution by a keeper.  executeOrder runs _executeOrder in a try: it    *)
(* either settles the order, or undoes all it did and hands the error to   *)
(* _handleOrderError, which cancels the order, freezes it, or reverts.     *)
(***************************************************************************)

(***************************************************************************)
(* The checks of _executeOrder and executeOrder that come before the order *)
(* is processed; an order that fails one of them makes the call revert.    *)
(***************************************************************************)
Admitted_AnyKeeperSwaps(o, keeper, report) ==
  /\ o.isFrozen => keeper \in FrozenKeepers
  /\ "execute" \notin disabled
  /\ ValidTriggerPrice(o, report)

Admitted(o, keeper, report) ==
  /\ o.isFrozen \/ o.orderType = "LimitSwap" => keeper \in FrozenKeepers
  /\ "execute" \notin disabled
  /\ ValidTriggerPrice(o, report)

PositionOf(o) == positions[PositionKey(o)]

(***************************************************************************)
(* Sizes a position may be left with by a decrease.  A trigger order is    *)
(* capped to the position, a market order is not; a position whose         *)
(* remaining collateral or size is too small is closed.                    *)
(***************************************************************************)
SizesLeft_NotCapped(o, size) == {size - o.sizeDelta, 0}

SizesLeft(o, size) ==
  IF o.sizeDelta < size THEN {size - o.sizeDelta, 0}
  ELSE IF o.sizeDelta = size \/ ~IsMarket(o) THEN {0}
  ELSE {}

IncreaseFills_NotStamped(o, pos) ==
  LET grown == pos.size + o.sizeDelta
  IN  IF grown \in 1..MaxPositionSize THEN {[pos EXCEPT !.size = grown]} ELSE {}

IncreaseFills(o, pos) ==
  LET grown == pos.size + o.sizeDelta
  IN  IF grown \in 1..MaxPositionSize
      THEN {[pos EXCEPT !.size = grown, !.increasedAt = Block]}
      ELSE {}

DecreaseFills(o, pos) ==
  IF pos.size = 0 THEN {}
  ELSE {IF left = 0 THEN EmptyPosition
        ELSE [pos EXCEPT !.size = left, !.decreasedAt = Block] :
        left \in SizesLeft(o, pos.size)}

(***************************************************************************)
(* The positions an execution may lead to, if it goes through.             *)
(***************************************************************************)
Fills(o) ==
  IF IsIncrease(o) THEN IncreaseFills(o, PositionOf(o))
  ELSE IF IsDecrease(o) THEN DecreaseFills(o, PositionOf(o))
  ELSE {EmptyPosition}

ExecuteOrder(k, keeper, report) ==
  LET o == orders[k]
  IN  /\ o.exists
      /\ "market" \notin disabled
      /\ Admitted(o, keeper, report)
      /\ ValidBlocks(o, PositionOf(o), report)
      /\ \E pos \in Fills(o) :
           positions' = IF IsSwap(o) THEN positions
                        ELSE [positions EXCEPT ![PositionKey(o)] = pos]
      /\ SettleTokens(o)
      /\ Leave(k, "executed", keeper, report)
      /\ UNCHANGED <<priceAt, nonce, disabled, termsAt, failed>>

(***************************************************************************)
(* The errors that reach the end of _handleOrderError, in two classes: the *)
(* three by which the order is cancelled whatever its type ("rejected"),   *)
(* and the rest ("unfillable").                                            *)
(*                                                                         *)
(* A disabled market is found before anything else.  An increase order     *)
(* swaps its collateral before its block numbers are checked, so that it   *)
(* may fail on any admitted report; the other types check them first.  A   *)
(* decrease order without a position is an error that only a market order  *)
(* does not revert on.                                                     *)
(***************************************************************************)
CheckedFailures(o, keeper, report) ==
  IF "market" \in disabled THEN {"unfillable"}
  ELSE IF ~Admitted(o, keeper, report) THEN {}
  ELSE IF IsIncrease(o) THEN {"rejected", "unfillable"}
  ELSE IF IsDecrease(o) /\ PositionOf(o).size = 0
       THEN IF IsMarket(o) THEN {"unfillable"} ELSE {}
  ELSE IF ValidBlocks(o, PositionOf(o), report) THEN {"unfillable"}
  ELSE {}

(***************************************************************************)
(* Without the gas for its execution any order fails, at any point, with   *)
(* an error that has no selector.                                          *)
(***************************************************************************)
FailureClasses(o, keeper, report) ==
  CheckedFailures(o, keeper, report) \cup (IF AmpleGas THEN {} ELSE {"unfillable"})

CancelOnError(k, keeper, report) ==
  LET o == orders[k]
  IN  /\ o.exists /\ ~o.isFrozen
      /\ \E class \in FailureClasses(o, keeper, report) :
           IsMarket(o) \/ class = "rejected"
      /\ CancelTo(k, keeper)

(***************************************************************************)
(* OrderUtils.freezeOrder pays the fee and leaves the order without one.   *)
(***************************************************************************)
Frozen_KeepsFee(o) == [o EXCEPT !.isFrozen = TRUE]

Frozen(o) == [o EXCEPT !.fee = 0, !.isFrozen = TRUE]

FreezeOnError(k, keeper, report) ==
  LET o == orders[k]
  IN  /\ o.exists /\ ~o.isFrozen
      /\ ~IsMarket(o)
      /\ "unfillable" \in FailureClasses(o, keeper, report)
      /\ PayOut(FeeOf(o), {Wnt})
      /\ orders' = [orders EXCEPT ![k] = Frozen(@)]
      /\ failed' = [failed EXCEPT ![k] = TRUE]
      /\ UNCHANGED <<priceAt, nonce, positions, disabled, outcome, termsAt>>

(***************************************************************************)
(* A liquidation creates an order of its own for the whole position and    *)
(* executes it in the same transaction: it uses a key, brings no tokens,   *)
(* and has a fee of 0, which is paid out of the vault like any other.      *)
(* Whether the position may be liquidated is a free choice.                *)
(***************************************************************************)
ExecuteLiquidation(p, report) ==
  /\ LiquidationKeepers # {}
  /\ nonce + 1 \in Requests
  /\ positions[p].size > 0
  /\ {"market", "execute"} \cap disabled = {}
  /\ ValidLiquidationBlocks(positions[p], report)
  /\ nonce' = nonce + 1
  /\ positions' = [positions EXCEPT ![p] = EmptyPosition]
  /\ PayOut(Nothing, {Wnt})
  /\ UNCHANGED <<priceAt, orders, disabled, history>>

-----------------------------------------------------------------------------
(***************************************************************************)
(* Everything around the orders.                                           *)
(***************************************************************************)

(***************************************************************************)
(* Tokens sent to the vault without a request, by anybody.                 *)
(***************************************************************************)
DirectTransfer(t) ==
  /\ t \in Donations
  /\ TakeIn([u \in Tokens |-> IF u = t THEN 1 ELSE 0], {})
  /\ UNCHANGED <<priceAt, orders, nonce, positions, disabled, history>>

(***************************************************************************)
(* The config keeper sets or clears a flag that the handlers read.         *)
(***************************************************************************)
SwitchFeature(f) ==
  /\ disabled' = IF f \in disabled THEN disabled \ {f} ELSE disabled \cup {f}
  /\ UNCHANGED <<priceAt, orders, nonce, positions, tokens, history>>

NextBlock(price) ==
  /\ Block < MaxBlock
  /\ priceAt' = Append(priceAt, price)
  /\ UNCHANGED <<orders, nonce, positions, tokens, disabled, history>>

-----------------------------------------------------------------------------
Init ==
  /\ priceAt \in {<<p>> : p \in Prices}
  /\ orders = [k \in Requests |-> NoOrder]
  /\ nonce = 0
  /\ positions = [p \in PositionKeys |-> EmptyPosition]
  /\ vault = Nothing
  /\ recorded = Nothing
  /\ outside = [t \in Tokens |-> Supply]
  /\ disabled = {}
  /\ outcome = [k \in Requests |-> NoOutcome]
  /\ termsAt = [k \in Requests |-> 0]
  /\ failed = [k \in Requests |-> FALSE]

(***************************************************************************)
(* What owners may send along and pass.  Values that the handlers do not   *)
(* look at for a type of order are fixed: the size of a swap, a trigger    *)
(* price that is never compared, a collateral amount that is overwritten   *)
(* with what was received, and a fee that is overwritten likewise.  Tokens *)
(* sent along that the request does not use are a DirectTransfer.          *)
(***************************************************************************)
SentIn(used) == {s \in [Tokens -> Amounts \cup {0}] : \A t \in Tokens \ used : s[t] = 0}

UsedBy(type, token) == IF type \in DecreaseTypes THEN {Wnt} ELSE {token, Wnt}

SizesFor(type) == IF type \in SwapTypes THEN {0} ELSE Sizes
TriggersFor(type) == IF type \in TriggerTypes THEN Prices ELSE {0}
PassedFor(type, token) ==
  [fee: IF FeeFromCollateral(type, token) THEN Amounts \cup {MinExecutionFee}
                                          ELSE {MinExecutionFee},
   collateral: IF type \in DecreaseTypes THEN Amounts \cup {0} ELSE {0}]

CreateSomeOrder ==
  \E account \in Accounts, type \in OrderTypes, isLong \in Sides, token \in Tokens :
    \E size \in SizesFor(type), trigger \in TriggersFor(type),
       sent \in SentIn(UsedBy(type, token)), passed \in PassedFor(type, token) :
      CreateOrder(account, type, isLong, token, size, trigger, sent, passed)

UpdateSomeOrder(k) ==
  /\ orders[k].exists
  /\ \E size \in SizesFor(orders[k].orderType),
        trigger \in TriggersFor(orders[k].orderType), sent \in SentIn({Wnt}) :
       UpdateOrder(k, size, trigger, sent)

Next ==
  \/ CreateSomeOrder
  \/ \E k \in Requests :
       \/ UpdateSomeOrder(k)
       \/ CancelOrder(k)
       \/ \E keeper \in OrderKeepers, report \in Reports :
            \/ ExecuteOrder(k, keeper, report)
            \/ CancelOnError(k, keeper, report)
            \/ FreezeOnError(k, keeper, report)
  \/ \E p \in PositionKeys, report \in Reports : ExecuteLiquidation(p, report)
  \/ \E t \in Tokens : DirectTransfer(t)
  \/ \E f \in Features : SwitchFeature(f)
  \/ \E price \in Prices : NextBlock(price)

Spec == Init /\ [][Next]_vars

(***************************************************************************)
(* Fairness.  Blocks keep being made; the config keeper does not leave     *)
(* cancelling disabled; an owner who wants out tries again whenever the    *)
(* transaction could succeed.  Nothing is asked of keepers.                *)
(***************************************************************************)
Fairness ==
  /\ WF_vars(\E price \in Prices : NextBlock(price))
  /\ WF_vars("cancel" \in disabled /\ SwitchFeature("cancel"))
  /\ \A k \in Requests : SF_vars(CancelOrder(k))

FairSpec == Spec /\ Fairness

-----------------------------------------------------------------------------
Outcomes ==
  [how: {"executed", "cancelled"}, by: Accounts \cup OrderKeepers,
   order: OrderRecords, lo: Nat, hi: Nat, at: Nat]

TypeOK ==
  /\ priceAt \in Seq(Prices)
  /\ orders \in [Requests -> OrderRecords \cup {NoOrder}]
  /\ nonce \in 0..MaxRequests
  /\ \A k \in Requests : orders[k].exists => k <= nonce
  /\ positions \in [PositionKeys -> [size: Nat, increasedAt: Nat, decreasedAt: Nat]]
  /\ vault \in [Tokens -> Nat]
  /\ recorded \in [Tokens -> Nat]
  /\ outside \in [Tokens -> Nat]
  /\ disabled \subseteq Features
  /\ outcome \in [Requests -> Outcomes \cup {NoOutcome}]
  /\ termsAt \in [Requests -> Nat]
  /\ failed \in [Requests -> BOOLEAN]

(***************************************************************************)
(* The abstract specification this module implements: OrderVault's         *)
(* recorded balances are the bank, and an order is owed its collateral and *)
(* its execution fee while it is in the store.                             *)
(***************************************************************************)
openOrders == {k \in Requests : orders[k].exists}
pledges == [k \in Requests |-> PledgedBy(orders[k])]

Escrow == INSTANCE RequestEscrow WITH
  open <- openOrders, held <- pledges, bank <- recorded, Quantities <- Nat

EscrowSpec == Escrow!Spec

(***************************************************************************)
(* Every order can be settled, whatever happens to the others: what the    *)
(* OrderVault has recorded covers the collateral and the fees of all open  *)
(* orders together, and it really has what it has recorded.                *)
(***************************************************************************)
Solvent ==
  /\ Escrow!Solvent
  /\ \A t \in Tokens : vault[t] >= recorded[t]

(***************************************************************************)
(* Nothing is stranded in the vault: of a token that nobody sends to it    *)
(* without a request, it holds exactly what open orders own, and knows it. *)
(***************************************************************************)
NothingStranded ==
  \A t \in Tokens \ Donations :
    vault[t] = recorded[t] /\ vault[t] = Escrow!Owed(t)

(***************************************************************************)
(* Does the price at block b fulfil the trigger of order o?                *)
(***************************************************************************)
Triggered(o, b) ==
  LET below == priceAt[b] <= o.triggerPrice
      above == priceAt[b] >= o.triggerPrice
  IN  CASE o.orderType = "LimitIncrease" -> IF o.isLong THEN below ELSE above
        [] o.orderType = "LimitDecrease" -> IF o.isLong THEN above ELSE below
        [] o.orderType = "StopLossDecrease" -> IF o.isLong THEN below ELSE above

Executed(k) == outcome[k].how = "executed"

(***************************************************************************)
(* No order is filled on prices that were there before its owner set its   *)
(* terms: a market order is filled on a report that covers the block of    *)
(* its creation, any other only on blocks from its last change on, at one  *)
(* of which its trigger was fulfilled.                                     *)
(***************************************************************************)
FilledOnCurrentTerms ==
  \A k \in Requests : Executed(k) =>
    LET f == outcome[k]
    IN  IF IsMarket(f.order)
        THEN f.lo <= termsAt[k] /\ termsAt[k] <= f.hi
        ELSE /\ f.lo >= termsAt[k]
             /\ f.order.orderType \in TriggerTypes =>
                  \E b \in f.lo..f.hi : Triggered(f.order, b)

(***************************************************************************)
(* A trigger decrease order is not filled on prices older than the last    *)
(* increase of the position it decreases, so an owner cannot wait for the  *)
(* price, increase the position, and close it at the old price.            *)
(***************************************************************************)
FilledAfterIncrease ==
  [][\A k, j \in Requests :
       /\ outcome[k] = NoOutcome /\ Executed(k)'
       /\ outcome'[k].order.orderType \in {"LimitDecrease", "StopLossDecrease"}
       /\ Executed(j) /\ IsIncrease(outcome[j].order)
       /\ PositionKey(outcome[j].order) = PositionKey(outcome'[k].order)
       => outcome'[k].lo >= outcome[j].at]_vars

(***************************************************************************)
(* An order that a keeper has frozen is only ever executed by a keeper     *)
(* with the role for it, unless its owner changes its terms first; a limit *)
(* swap always needs that role.                                            *)
(***************************************************************************)
RetriedByFrozenKeeper ==
  \A k \in Requests :
    Executed(k) /\ (failed[k] \/ outcome[k].order.orderType = "LimitSwap")
      => outcome[k].by \in FrozenKeepers

(***************************************************************************)
(* A keeper cannot use up the fee of a trigger decrease order by freezing  *)
(* it, unless the price fulfilled its trigger at some block since its      *)
(* owner set it.  Where the market is disabled, or the keeper sends too    *)
(* little gas, an order freezes whatever the price.  An increase order may *)
(* freeze on older prices: its swap fails before its blocks are checked.   *)
(***************************************************************************)
FrozenOnCurrentTerms ==
  [][\A k \in Requests :
       /\ AmpleGas /\ "market" \notin disabled
       /\ orders[k].exists /\ orders'[k].exists
       /\ ~orders[k].isFrozen /\ orders'[k].isFrozen
       /\ orders[k].orderType \in {"LimitDecrease", "StopLossDecrease"}
       => \E b \in 1..Block : b >= termsAt[k] /\ Triggered(orders[k], b)]_vars

(***************************************************************************)
(* A market order is no free option: its owner cannot withdraw it before   *)
(* REQUEST_EXPIRATION_BLOCK_AGE blocks have gone by since its creation.    *)
(***************************************************************************)
OwnerWaits ==
  \A k \in Requests :
    LET c == outcome[k]
    IN  c.how = "cancelled" /\ c.by \in Accounts /\ IsMarket(c.order)
          => c.at - termsAt[k] >= RequestExpirationAge

(***************************************************************************)
(* An owner can always get out: an order that its owner keeps trying to    *)
(* cancel leaves the store, even when no keeper ever acts.                 *)
(***************************************************************************)
OwnerGetsOut ==
  \A k \in Requests : orders[k].exists ~> ~orders[k].exists

(***************************************************************************)
(* What the doc comment of cancelOrder says: "the order must not be a      *)
(* market order".                                                          *)
(***************************************************************************)
OwnersCancelNoMarketOrder ==
  \A k \in Requests :
    outcome[k].how = "cancelled" /\ outcome[k].by \in Accounts
      => ~IsMarket(outcome[k].order)

(***************************************************************************)
(* What the README says of limit and stop-loss orders: "if the order was   *)
(* created at block n, it should be executed with oracle prices after      *)
(* block n".                                                               *)
(***************************************************************************)
FilledAfterItsBlock ==
  \A k \in Requests :
    Executed(k) /\ ~IsMarket(outcome[k].order) => outcome[k].lo > termsAt[k]

=============================================================================
