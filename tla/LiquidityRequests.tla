------------------------- MODULE LiquidityRequests -------------------------
(***************************************************************************)
(* The life of deposits and withdrawals: DepositHandler, DepositUtils,     *)
(* ExecuteDepositUtils, WithdrawalHandler, WithdrawalUtils, and the two    *)
(* StrictBanks DepositVault and WithdrawalVault.  Both kinds of request    *)
(* take their keys from the one nonce of the data store.                   *)
(*                                                                         *)
(* A transaction is one step.  The market is reduced to its token: an      *)
(* executed deposit mints some, an executed withdrawal burns those that    *)
(* were sent to the vault for it.  How much a deposit mints is a free      *)
(* choice here, and so is whether an execution goes through.               *)
(*                                                                         *)
(* A definition F_Slip is F with one slip that its code could have; no     *)
(* action uses it.                                                         *)
(***************************************************************************)
EXTENDS Integers, FiniteSets, LedgerSum

CONSTANTS
  Keepers,         \* accounts with the role ORDER_KEEPER
  Tokens,          \* the tokens a vault may hold
  Wnt,             \* the token of execution fees
  MarketToken,     \* the token that stands for a share of the market
  Amounts,         \* amounts an owner may send at once
  MintAmounts,     \* amounts a deposit may mint
  Features,        \* feature flags that may be switched in this instance
  MinExecutionFee, \* what validateExecutionFee demands
  RequestExpirationAge, \* REQUEST_EXPIRATION_BLOCK_AGE
  MaxOraclePriceAge,    \* MAX_ORACLE_PRICE_AGE, in blocks
  AmpleGas,        \* keepers send the gas that an execution needs
  Donations,       \* tokens that anybody may send to the vaults without a request
  Supply,          \* amount of each token in circulation at the start
  MaxRequests,     \* bound on the nonce
  MaxBlock,        \* bound on the block number
  LastRequestBlock \* no request is created after this block

Kinds == {"deposit", "withdrawal"}

ASSUME LiquidityAssumption ==
  /\ Wnt \in Tokens /\ MarketToken \in Tokens /\ Wnt # MarketToken
  /\ Amounts \subseteq Nat /\ MintAmounts \subseteq Nat
  /\ Features \subseteq {"create", "cancel", "execute", "market"} \X Kinds
  /\ MinExecutionFee \in Nat /\ RequestExpirationAge \in Nat
  /\ MaxOraclePriceAge \in Nat /\ Supply \in Nat
  /\ AmpleGas \in BOOLEAN /\ Donations \subseteq Tokens
  /\ MaxRequests \in Nat /\ MaxBlock \in Nat /\ LastRequestBlock \in Nat
  /\ "owner" \notin Keepers   \* the name of whoever takes its own request back

VARIABLES
  block,     \* the block number
  requests,  \* the deposit store and the withdrawal store, by key
  nonce,     \* NONCE in the data store
  vault,     \* token balances of the DepositVault and the WithdrawalVault
  recorded,  \* StrictBank.tokenBalances of the two
  outside,   \* token balances of everyone else, markets included
  disabled,  \* feature flags that are set; <<"market", kind>> is IS_MARKET_DISABLED
  outcome    \* history: how a request left the store

tokens == <<vault, recorded, outside>>
vars == <<block, requests, nonce, tokens, disabled, outcome>>

Requests == 1..MaxRequests

NoRequest == [exists |-> FALSE]
NoOutcome == [how |-> "none"]
Nothing == [t \in Tokens |-> 0]

(***************************************************************************)
(* What a request brought: a deposit its initial long and short tokens, a  *)
(* withdrawal its market tokens.  The execution fee is kept apart.         *)
(***************************************************************************)
RequestRecords ==
  [exists: {TRUE}, kind: Kinds, brought: [Tokens -> Nat], fee: Nat, updatedAt: Nat]

Plus(a, b) == [t \in Tokens |-> a[t] + b[t]]
Minus(a, b) == [t \in Tokens |-> a[t] - b[t]]
FeeOf(r) == [t \in Tokens |-> IF t = Wnt THEN r.fee ELSE 0]

-----------------------------------------------------------------------------
(***************************************************************************)
(* The vaults.                                                             *)
(***************************************************************************)

(***************************************************************************)
(* What _recordTransferIn returns once the transaction has sent tokens.    *)
(***************************************************************************)
Received(v, sent, t) == vault[v][t] + sent[t] - recorded[v][t]

Booked(v, booked) ==
  recorded' = [recorded EXCEPT ![v] =
                [t \in Tokens |-> IF t \in booked THEN vault'[v][t] ELSE @[t]]]

TakeIn(v, sent, booked) ==
  /\ \A t \in Tokens : sent[t] <= outside[t]
  /\ vault' = [vault EXCEPT ![v] = Plus(@, sent)]
  /\ outside' = Minus(outside, sent)
  /\ Booked(v, booked)

(***************************************************************************)
(* Transfers out of a vault, of which some may be new market tokens or     *)
(* tokens that are burnt.  _afterTransferOut and syncTokenBalance book the *)
(* whole balance of a token; the fee is paid in Wnt whatever its amount.   *)
(***************************************************************************)
PayOut(v, amount, minted, burnt) ==
  /\ \A t \in Tokens : amount[t] + burnt[t] <= vault[v][t]
  /\ vault' = [vault EXCEPT ![v] = Minus(Minus(@, amount), burnt)]
  /\ outside' = Plus(Plus(outside, amount), minted)
  /\ Booked(v, {Wnt} \cup {t \in Tokens : amount[t] + burnt[t] > 0})

-----------------------------------------------------------------------------
(***************************************************************************)
(* Requests of owners.                                                     *)
(***************************************************************************)
Enabled(flag, kind) == <<flag, kind>> \notin disabled

Add_NonceKept(kind, brought, fee) ==
  /\ nonce + 1 \in Requests /\ block <= LastRequestBlock
  /\ Enabled("create", kind) /\ Enabled("market", kind)
  /\ fee >= MinExecutionFee
  /\ requests' = [requests EXCEPT ![nonce + 1] =
       [exists |-> TRUE, kind |-> kind, brought |-> brought, fee |-> fee,
        updatedAt |-> block]]
  /\ UNCHANGED <<nonce, block, disabled, outcome>>

Add(kind, brought, fee) ==
  /\ nonce + 1 \in Requests /\ block <= LastRequestBlock
  /\ Enabled("create", kind) /\ Enabled("market", kind)
  /\ fee >= MinExecutionFee
  /\ nonce' = nonce + 1
  /\ requests' = [requests EXCEPT ![nonce + 1] =
       [exists |-> TRUE, kind |-> kind, brought |-> brought, fee |-> fee,
        updatedAt |-> block]]
  /\ UNCHANGED <<block, disabled, outcome>>

(***************************************************************************)
(* createDeposit reads the long token before the short one, so that of two *)
(* equal tokens the long side gets everything, and splits the fee off      *)
(* whichever is Wnt; if none is, the fee is what was received of Wnt.      *)
(***************************************************************************)
DepositBrings_FeeTwice(long, short, sent, fee) ==
  [t \in Tokens |-> IF t \in {long, short} THEN Received("deposit", sent, t) ELSE 0]

DepositBrings(long, short, sent, fee) ==
  [t \in Tokens |->
     IF t \in {long, short}
     THEN Received("deposit", sent, t) - (IF t = Wnt THEN fee ELSE 0)
     ELSE 0]

CreateDeposit(long, short, sent, passedFee) ==
  LET fee == IF Wnt \in {long, short} THEN passedFee ELSE Received("deposit", sent, Wnt)
      brought == DepositBrings(long, short, sent, fee)
  IN  /\ passedFee <= Received("deposit", sent, Wnt)
      /\ brought # Nothing
      /\ TakeIn("deposit", sent, {long, short, Wnt})
      /\ Add("deposit", brought, fee)

CreateWithdrawal(sent, passedFee) ==
  LET amount == Received("withdrawal", sent, MarketToken)
      fee == Received("withdrawal", sent, Wnt)
  IN  /\ passedFee <= fee
      /\ amount # 0
      /\ TakeIn("withdrawal", sent, {Wnt, MarketToken})
      /\ Add("withdrawal", [Nothing EXCEPT ![MarketToken] = amount], fee)

(***************************************************************************)
(* A request leaves the store.                                             *)
(***************************************************************************)
Leave(k, how, by, report, minted) ==
  /\ requests' = [requests EXCEPT ![k] = NoRequest]
  /\ outcome' = [outcome EXCEPT ![k] =
       [how |-> how, by |-> by, request |-> requests[k], lo |-> report.lo,
        hi |-> report.hi, at |-> block, minted |-> minted]]
  /\ UNCHANGED <<block, nonce, disabled>>

CancelTo_NoFee(k, by, report) ==
  LET r == requests[k]
  IN  /\ PayOut(r.kind, r.brought, Nothing, Nothing)
      /\ Leave(k, "cancelled", by, report, 0)

CancelTo_NotRemoved(k, by, report) ==
  LET r == requests[k]
  IN  /\ PayOut(r.kind, Plus(r.brought, FeeOf(r)), Nothing, Nothing)
      /\ UNCHANGED <<block, nonce, disabled, requests, outcome>>

CancelTo(k, by, report) ==
  LET r == requests[k]
  IN  /\ PayOut(r.kind, Plus(r.brought, FeeOf(r)), Nothing, Nothing)
      /\ Leave(k, "cancelled", by, report, 0)

RequestExpired_BlockEarly(r) == block - r.updatedAt + 1 >= RequestExpirationAge
RequestExpired(r) == block - r.updatedAt >= RequestExpirationAge

CancelRequest(k) ==
  LET r == requests[k]
  IN  /\ r.exists
      /\ Enabled("cancel", r.kind)
      /\ RequestExpired(r)
      /\ CancelTo(k, "owner", [lo |-> block, hi |-> block])

-----------------------------------------------------------------------------
(***************************************************************************)
(* Execution by a keeper, on a report of prices over some blocks.          *)
(***************************************************************************)
Reports ==
  {r \in [lo: 1..block, hi: 1..block] :
     r.lo <= r.hi /\ r.hi + MaxOraclePriceAge >= block}

Covers_NoUpperBound(report, b) == report.lo <= b
Covers(report, b) == report.lo <= b /\ b <= report.hi

ExecuteDeposit(k, keeper, report) ==
  LET r == requests[k]
  IN  /\ r.exists /\ r.kind = "deposit"
      /\ Enabled("execute", r.kind) /\ Covers(report, r.updatedAt)
      /\ Enabled("market", r.kind)
      /\ \E m \in MintAmounts :
           /\ PayOut(r.kind, Plus(r.brought, FeeOf(r)),
                     [Nothing EXCEPT ![MarketToken] = m], Nothing)
           /\ Leave(k, "executed", keeper, report, m)

ExecuteWithdrawal_NotBurnt(k, keeper, report) ==
  LET r == requests[k]
  IN  /\ r.exists /\ r.kind = "withdrawal"
      /\ Enabled("execute", r.kind) /\ Covers(report, r.updatedAt)
      /\ Enabled("market", r.kind)
      /\ PayOut(r.kind, Plus(r.brought, FeeOf(r)), Nothing, Nothing)
      /\ Leave(k, "executed", keeper, report, 0)

ExecuteWithdrawal(k, keeper, report) ==
  LET r == requests[k]
  IN  /\ r.exists /\ r.kind = "withdrawal"
      /\ Enabled("execute", r.kind) /\ Covers(report, r.updatedAt)
      /\ Enabled("market", r.kind)
      /\ PayOut(r.kind, FeeOf(r), Nothing, r.brought)
      /\ Leave(k, "executed", keeper, report, 0)

(***************************************************************************)
(* _handleDepositError and _handleWithdrawalError cancel the request on    *)
(* every error but a disabled feature and those of the oracle, which are   *)
(* found before anything else.  Without the gas for its execution, a       *)
(* request fails at any point, with an error that has no selector.         *)
(***************************************************************************)
CancelOnError(k, keeper, report) ==
  LET r == requests[k]
  IN  /\ r.exists
      /\ \/ Enabled("execute", r.kind) /\ Covers(report, r.updatedAt)
         \/ ~AmpleGas
      /\ CancelTo(k, keeper, report)

-----------------------------------------------------------------------------
(***************************************************************************)
(* Everything around the requests.                                         *)
(***************************************************************************)
DirectTransfer(v, t) ==
  /\ t \in Donations
  /\ TakeIn(v, [Nothing EXCEPT ![t] = 1], {})
  /\ UNCHANGED <<block, requests, nonce, disabled, outcome>>

SwitchFeature(f) ==
  /\ disabled' = IF f \in disabled THEN disabled \ {f} ELSE disabled \cup {f}
  /\ UNCHANGED <<block, requests, nonce, tokens, outcome>>

NextBlock ==
  /\ block < MaxBlock
  /\ block' = block + 1
  /\ UNCHANGED <<requests, nonce, tokens, disabled, outcome>>

Init ==
  /\ block = 1
  /\ requests = [k \in Requests |-> NoRequest]
  /\ nonce = 0
  /\ vault = [v \in Kinds |-> Nothing]
  /\ recorded = [v \in Kinds |-> Nothing]
  /\ outside = [t \in Tokens |-> Supply]
  /\ disabled = {}
  /\ outcome = [k \in Requests |-> NoOutcome]

(***************************************************************************)
(* Owners send along what the request uses.  Where the fee that the caller *)
(* passed is overwritten with what was received, it is fixed.  A deposit   *)
(* of market tokens, which could only be cancelled, is left out.           *)
(***************************************************************************)
SentIn(used) == {s \in [Tokens -> Amounts \cup {0}] : \A t \in Tokens \ used : s[t] = 0}

CreateSomeDeposit ==
  \E long, short \in Tokens \ {MarketToken} :
    \E sent \in SentIn({long, short, Wnt}),
       passedFee \in IF Wnt \in {long, short} THEN Amounts ELSE {MinExecutionFee} :
      CreateDeposit(long, short, sent, passedFee)

CreateSomeWithdrawal ==
  \E sent \in SentIn({Wnt, MarketToken}) : CreateWithdrawal(sent, MinExecutionFee)

Next ==
  \/ CreateSomeDeposit
  \/ CreateSomeWithdrawal
  \/ \E k \in Requests :
       \/ CancelRequest(k)
       \/ \E keeper \in Keepers, report \in Reports :
            \/ ExecuteDeposit(k, keeper, report)
            \/ ExecuteWithdrawal(k, keeper, report)
            \/ CancelOnError(k, keeper, report)
  \/ \E v \in Kinds, t \in Tokens : DirectTransfer(v, t)
  \/ \E f \in Features : SwitchFeature(f)
  \/ NextBlock

Spec == Init /\ [][Next]_vars

(***************************************************************************)
(* Fairness: blocks keep being made, cancelling does not stay disabled,    *)
(* and an owner who wants out tries again.  Nothing is asked of keepers.   *)
(***************************************************************************)
Fairness ==
  /\ WF_vars(NextBlock)
  /\ \A v \in Kinds : WF_vars(~Enabled("cancel", v) /\ SwitchFeature(<<"cancel", v>>))
  /\ \A k \in Requests : SF_vars(CancelRequest(k))

FairSpec == Spec /\ Fairness

-----------------------------------------------------------------------------
Outcomes ==
  [how: {"executed", "cancelled"}, by: Keepers \cup {"owner"},
   request: RequestRecords, lo: Nat, hi: Nat, at: Nat, minted: Nat]

TypeOK ==
  /\ block \in Nat
  /\ requests \in [Requests -> RequestRecords \cup {NoRequest}]
  /\ nonce \in 0..MaxRequests
  /\ \A k \in Requests : requests[k].exists => k <= nonce
  /\ vault \in [Kinds -> [Tokens -> Nat]]
  /\ recorded \in [Kinds -> [Tokens -> Nat]]
  /\ outside \in [Tokens -> Nat]
  /\ disabled \subseteq Features
  /\ outcome \in [Requests -> Outcomes \cup {NoOutcome}]

(***************************************************************************)
(* Each vault implements RequestEscrow by itself: its recorded balances    *)
(* are the bank, and what a request of its kind brought, with its fee, is  *)
(* held until the request is settled.  A request of the other kind only    *)
(* uses up a key.                                                          *)
(***************************************************************************)
openOf(v) == {k \in Requests : requests[k].exists /\ requests[k].kind = v}

pledgesOf(v) ==
  [k \in Requests |->
     IF k \in openOf(v) THEN Plus(requests[k].brought, FeeOf(requests[k]))
                        ELSE Nothing]

DepositEscrow == INSTANCE RequestEscrow WITH
  open <- openOf("deposit"), held <- pledgesOf("deposit"),
  bank <- recorded["deposit"], Quantities <- Nat

WithdrawalEscrow == INSTANCE RequestEscrow WITH
  open <- openOf("withdrawal"), held <- pledgesOf("withdrawal"),
  bank <- recorded["withdrawal"], Quantities <- Nat

DepositEscrowSpec == DepositEscrow!Spec
WithdrawalEscrowSpec == WithdrawalEscrow!Spec

(***************************************************************************)
(* Every deposit and every withdrawal can be settled, whatever happens to  *)
(* the others: what a vault has recorded covers what its open requests     *)
(* brought and their fees, and it really has what it has recorded.         *)
(***************************************************************************)
Solvent ==
  /\ DepositEscrow!Solvent
  /\ WithdrawalEscrow!Solvent
  /\ \A v \in Kinds, t \in Tokens : vault[v][t] >= recorded[v][t]

(***************************************************************************)
(* Nothing is stranded in a vault: of a token that nobody sends to it      *)
(* without a request, it holds exactly what its open requests brought.     *)
(***************************************************************************)
NothingStranded ==
  \A t \in Tokens \ Donations :
    /\ vault["deposit"][t] = DepositEscrow!Owed(t)
    /\ vault["withdrawal"][t] = WithdrawalEscrow!Owed(t)

(***************************************************************************)
(* Market tokens are made by executed deposits and destroyed by executed   *)
(* withdrawals and by nothing else, each once: a request that is cancelled *)
(* or fails leaves their number as it was.                                 *)
(***************************************************************************)
Executed(k) == outcome[k].how = "executed"

MintedBy == [k \in Requests |-> IF Executed(k) THEN outcome[k].minted ELSE 0]

BurntBy ==
  [k \in Requests |->
     IF Executed(k) THEN outcome[k].request.brought[MarketToken] ELSE 0]

MarketTokenSupply ==
  outside[MarketToken] + vault["deposit"][MarketToken] + vault["withdrawal"][MarketToken]
    = Supply + SumTo(MintedBy, MaxRequests) - SumTo(BurntBy, MaxRequests)

(***************************************************************************)
(* A keeper who sends enough gas settles a request, by execution or by     *)
(* cancelling it for an error, only on prices of the block at which it was *)
(* made: neither the owner nor the keeper picks a better moment.           *)
(***************************************************************************)
SettledAtRequest ==
  AmpleGas =>
    \A k \in Requests :
      LET s == outcome[k]
      IN  s.how # "none" /\ s.by \in Keepers
            => s.lo <= s.request.updatedAt /\ s.request.updatedAt <= s.hi

(***************************************************************************)
(* An owner cannot take a request back before REQUEST_EXPIRATION_BLOCK_AGE *)
(* blocks have gone by, so a request is no free option on the price.       *)
(***************************************************************************)
OwnerWaits ==
  \A k \in Requests :
    LET s == outcome[k]
    IN  s.how = "cancelled" /\ s.by = "owner"
          => s.at - s.request.updatedAt >= RequestExpirationAge

(***************************************************************************)
(* An owner can always get out: a request that its owner keeps trying to   *)
(* cancel leaves the store, even when no keeper ever acts.                 *)
(***************************************************************************)
OwnerGetsOut ==
  \A k \in Requests : requests[k].exists ~> ~requests[k].exists

=============================================================================
