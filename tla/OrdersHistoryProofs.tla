------------------------ MODULE OrdersHistoryProofs ------------------------
(***************************************************************************)
(* Theorems about the whole life of an order, for every value of the       *)
(* constants of Orders: on which prices it is filled or frozen, by whom,   *)
(* when its owner may take it back, and that nothing of it stays behind in *)
(* the vault.  OrdersProofs has the types and the books.                   *)
(***************************************************************************)
EXTENDS OrdersProofs, LedgerSumProofs

-----------------------------------------------------------------------------
(***************************************************************************)
(* The inductive invariant.  What the contracts keep in an order is what   *)
(* its history says of it, and an order that has left stays as it was.     *)
(***************************************************************************)
Kept ==
  \A k \in Requests :
    /\ orders[k].exists =>
         /\ outcome[k] = NoOutcome
         /\ orders[k].updatedAt = termsAt[k] /\ termsAt[k] \in 1..Block
         /\ orders[k].isFrozen = failed[k]
    /\ k > nonce => outcome[k] = NoOutcome /\ failed[k] = FALSE

(***************************************************************************)
(* Reports that were used were of blocks that had been made.               *)
(***************************************************************************)
Past ==
  /\ Block >= 1
  /\ \A k \in Requests : outcome[k] # NoOutcome =>
       /\ outcome[k].lo \in 1..Block /\ outcome[k].hi \in 1..Block
       /\ outcome[k].at \in 1..Block

(***************************************************************************)
(* A position knows of every increase since it was opened.                 *)
(***************************************************************************)
Knows(pos, at) == pos.size = 0 \/ pos.increasedAt >= at

Tracked ==
  \A j \in Requests :
    outcome[j].how = "executed" /\ IsIncrease(outcome[j].order) =>
      Knows(positions[PositionKey(outcome[j].order)], outcome[j].at)

(***************************************************************************)
(* Of a token that nobody donates, the vault holds what is owed.           *)
(***************************************************************************)
ColumnOf(os, t) == [k \in Requests |-> PledgedBy(os[k])[t]]

OwedOf(os, t) == SumTo(ColumnOf(os, t), MaxRequests)

Exact ==
  \A t \in Tokens \ Donations :
    vault[t] = recorded[t] /\ vault[t] = OwedOf(orders, t)

(***************************************************************************)
(* Triggers, as a matter of one price.                                     *)
(***************************************************************************)
TriggeredAt(o, price) ==
  \/ o.orderType = "LimitIncrease" /\ o.isLong /\ price <= o.triggerPrice
  \/ o.orderType = "LimitIncrease" /\ ~o.isLong /\ price >= o.triggerPrice
  \/ o.orderType = "LimitDecrease" /\ o.isLong /\ price >= o.triggerPrice
  \/ o.orderType = "LimitDecrease" /\ ~o.isLong /\ price <= o.triggerPrice
  \/ o.orderType = "StopLossDecrease" /\ o.isLong /\ price <= o.triggerPrice
  \/ o.orderType = "StopLossDecrease" /\ ~o.isLong /\ price >= o.triggerPrice

(***************************************************************************)
(* What outcome c of an order says, that was on terms of block terms.      *)
(***************************************************************************)
FilledWell(c, terms, prices) ==
  IF IsMarket(c.order)
  THEN c.lo <= terms /\ terms <= c.hi
  ELSE /\ c.lo >= terms
       /\ c.order.orderType \in TriggerTypes =>
            \E b \in c.lo..c.hi : TriggeredAt(c.order, prices[b])

EndedWell(c, terms, tried, prices) ==
  /\ c.how = "executed" => FilledWell(c, terms, prices)
  /\ c.how = "executed" /\ (tried \/ c.order.orderType = "LimitSwap") =>
       c.by \in FrozenKeepers
  /\ c.how = "cancelled" /\ c.by \in Accounts /\ IsMarket(c.order) =>
       c.at - terms >= RequestExpirationAge

Told ==
  \A k \in Requests : EndedWell(outcome[k], termsAt[k], failed[k], priceAt)

HInv == Kept /\ Past /\ Tracked /\ Exact /\ Told

-----------------------------------------------------------------------------
LEMMA TriggeredMeans ==
  ASSUME NEW o, NEW b, o.orderType \in TriggerTypes
  PROVE  Triggered(o, b) <=> TriggeredAt(o, priceAt[b])
<1>1. CASE o.orderType = "LimitIncrease"
  BY <1>1 DEF Triggered, TriggeredAt
<1>2. CASE o.orderType = "LimitDecrease"
  BY <1>2 DEF Triggered, TriggeredAt
<1>3. CASE o.orderType = "StopLossDecrease"
  BY <1>3 DEF Triggered, TriggeredAt
<1> QED
  BY <1>1, <1>2, <1>3 DEF TriggerTypes

(***************************************************************************)
(* A valid trigger was fulfilled at some block of the report.              *)
(***************************************************************************)
LEMMA ValidTriggerFulfilled ==
  ASSUME TypeOK, NEW o \in OrderRecords, o.orderType \in TriggerTypes,
         NEW r \in Reports, ValidTriggerPrice(o, r)
  PROVE  /\ \E b \in r.lo..r.hi : TriggeredAt(o, priceAt[b])
         /\ \E b \in r.lo..r.hi : Triggered(o, b)
<1>1. r.lo \in Nat /\ r.hi \in Nat /\ r.lo <= r.hi /\ r.lo \in r.lo..r.hi
  BY BlockType DEF Reports
<1>2. \E b \in r.lo..r.hi : TriggeredAt(o, priceAt[b])
  <2>1. CASE o.orderType = "LimitIncrease"
    BY <1>1, <2>1 DEF ValidTriggerPrice, TriggeredAt, MaxAtMost, MinAtLeast, TriggerTypes
  <2>2. CASE o.orderType = "LimitDecrease"
    BY <1>1, <2>2 DEF ValidTriggerPrice, TriggeredAt, MaxAtMost, MinAtLeast, TriggerTypes
  <2>3. CASE o.orderType = "StopLossDecrease"
    BY <1>1, <2>3 DEF ValidTriggerPrice, TriggeredAt, MinAtMost, MaxAtLeast, TriggerTypes
  <2> QED
    BY <2>1, <2>2, <2>3 DEF TriggerTypes
<1> QED
  BY <1>2, TriggeredMeans

-----------------------------------------------------------------------------
(***************************************************************************)
(* A step on one order changes what is owed by what it changes of it.      *)
(***************************************************************************)
LEMMA ColumnType ==
  ASSUME NEW os \in [Requests -> OrderRecords \cup {NoOrder}], NEW t \in Tokens
  PROVE  /\ \A k \in Requests : PledgedBy(os[k])[t] \in Nat
         /\ ColumnOf(os, t) \in [1..MaxRequests -> Nat]
         /\ ColumnOf(os, t) \in [1..MaxRequests -> Int]
<1>1. ASSUME NEW k \in Requests
      PROVE  PledgedBy(os[k])[t] \in Nat
  <2>1. PledgedBy(os[k]) \in [Tokens -> Nat]
    BY PledgesType
  <2> QED
    BY <2>1
<1> QED
  BY <1>1 DEF ColumnOf, Requests

LEMMA OwedChange ==
  ASSUME NEW os \in [Requests -> OrderRecords \cup {NoOrder}],
         NEW ps \in [Requests -> OrderRecords \cup {NoOrder}],
         NEW k \in Requests, \A j \in Requests \ {k} : ps[j] = os[j],
         NEW t \in Tokens
  PROVE  /\ OwedOf(ps, t) = OwedOf(os, t) + (PledgedBy(ps[k])[t] - PledgedBy(os[k])[t])
         /\ OwedOf(os, t) \in Nat /\ OwedOf(ps, t) \in Nat
<1> DEFINE f == ColumnOf(os, t)
           g == ColumnOf(ps, t)
<1>1. /\ f \in [1..MaxRequests -> Int] /\ g \in [1..MaxRequests -> Int]
      /\ f \in [1..MaxRequests -> Nat] /\ g \in [1..MaxRequests -> Nat]
  BY ColumnType
<1>2. \A i \in 1..MaxRequests : i # k => g[i] = f[i]
  BY DEF ColumnOf, Requests
<1>3. g[k] = PledgedBy(ps[k])[t] /\ f[k] = PledgedBy(os[k])[t] /\ k \in 1..MaxRequests
  BY DEF ColumnOf, Requests
<1> HIDE DEF f, g
<1>4. MaxRequests \in Nat
  BY OrdersAssumption
<1>5. SumTo(g, MaxRequests) = SumTo(f, MaxRequests) + (g[k] - f[k])
  <2>1. /\ f \in [1..MaxRequests -> Int] /\ g \in [1..MaxRequests -> Int]
        /\ k \in 1..MaxRequests /\ \A i \in 1..MaxRequests : i # k => g[i] = f[i]
    BY <1>1, <1>2, <1>3
  <2> QED
    BY ONLY <1>4, <2>1, SumUpdate
<1>6. SumTo(f, MaxRequests) \in Nat
  BY <1>1, <1>4, SumBoundsEntry
<1>7. SumTo(g, MaxRequests) \in Nat
  BY <1>1, <1>4, SumBoundsEntry
<1>8. OwedOf(os, t) = SumTo(f, MaxRequests) /\ OwedOf(ps, t) = SumTo(g, MaxRequests)
  BY DEF OwedOf, f, g
<1> QED
  BY <1>3, <1>5, <1>6, <1>7, <1>8

LEMMA ExactStep ==
  ASSUME TypeOK, TypeOK', Exact, NEW k \in Requests,
         NEW o \in OrderRecords \cup {NoOrder}, orders' = [orders EXCEPT ![k] = o],
         \A t \in Tokens \ Donations :
           /\ vault'[t] = vault[t] + PledgedBy(o)[t] - PledgedBy(orders[k])[t]
           /\ recorded'[t] = vault'[t]
  PROVE  Exact'
<1>1. /\ orders \in [Requests -> OrderRecords \cup {NoOrder}]
      /\ orders' \in [Requests -> OrderRecords \cup {NoOrder}]
  BY DEF TypeOK
<1>2. orders'[k] = o /\ \A j \in Requests \ {k} : orders'[j] = orders[j]
  BY <1>1
<1>3. ASSUME NEW t \in Tokens \ Donations
      PROVE  recorded'[t] = vault'[t] /\ vault'[t] = OwedOf(orders', t)
  <2> DEFINE ps == orders'
  <2>0. /\ ps \in [Requests -> OrderRecords \cup {NoOrder}] /\ t \in Tokens
        /\ \A j \in Requests \ {k} : ps[j] = orders[j]
    BY <1>1, <1>2
  <2> HIDE DEF ps
  <2>1. /\ OwedOf(ps, t)
             = OwedOf(orders, t) + (PledgedBy(ps[k])[t] - PledgedBy(orders[k])[t])
        /\ OwedOf(orders, t) \in Nat
    BY ONLY <1>1, <2>0, k \in Requests, OwedChange
  <2>2. PledgedBy(orders[k])[t] \in Nat /\ PledgedBy(o)[t] \in Nat
    BY <1>1, <1>2, ColumnType
  <2>3. vault[t] = OwedOf(orders, t)
    BY DEF Exact
  <2>4. ps = orders'
    BY DEF ps
  <2> QED
    BY <1>2, <2>1, <2>2, <2>3, <2>4
<1> QED
  BY <1>3 DEF Exact

(***************************************************************************)
(* Where the vault and the books agree, they still do once tokens are      *)
(* taken in and booked, or paid out.                                       *)
(***************************************************************************)
LEMMA TakeInExact ==
  ASSUME IInv, Exact, NEW sent \in [Tokens -> Nat], NEW booked, TakeIn(sent, booked),
         \A t \in Tokens : t \notin booked => sent[t] = 0
  PROVE  \A t \in Tokens \ Donations :
           /\ vault'[t] = vault[t] + sent[t] /\ recorded'[t] = vault'[t]
           /\ Received(sent, t) = sent[t]
<1> SUFFICES ASSUME NEW t \in Tokens \ Donations
             PROVE  /\ vault'[t] = vault[t] + sent[t] /\ recorded'[t] = vault'[t]
                    /\ Received(sent, t) = sent[t]
  OBVIOUS
<1>1. vault[t] = recorded[t] /\ vault[t] \in Nat /\ recorded[t] \in Nat /\ sent[t] \in Nat
  BY DEF Exact, IInv, TypeOK
<1>2. /\ vault' = [u \in Tokens |-> vault[u] + sent[u]]
      /\ recorded' = [u \in Tokens |-> IF u \in booked THEN vault'[u] ELSE recorded[u]]
  BY DEF TakeIn, Plus
<1>3. vault'[t] = vault[t] + sent[t]
  BY <1>2
<1> QED
  BY <1>1, <1>2, <1>3 DEF Received

LEMMA PayOutExact ==
  ASSUME IInv, Exact, NEW amount \in [Tokens -> Nat], NEW booked, PayOut(amount, booked),
         \A t \in Tokens : t \notin booked => amount[t] = 0
  PROVE  \A t \in Tokens \ Donations :
           vault'[t] = vault[t] - amount[t] /\ recorded'[t] = vault'[t]
<1> SUFFICES ASSUME NEW t \in Tokens \ Donations
             PROVE  vault'[t] = vault[t] - amount[t] /\ recorded'[t] = vault'[t]
  OBVIOUS
<1>1. vault[t] = recorded[t] /\ vault[t] \in Nat /\ recorded[t] \in Nat /\ amount[t] \in Nat
  BY DEF Exact, IInv, TypeOK
<1>2. /\ vault' = [u \in Tokens |-> vault[u] - amount[u]]
      /\ recorded' = [u \in Tokens |-> IF u \in booked THEN vault'[u] ELSE recorded[u]]
  BY DEF PayOut
<1>3. vault'[t] = vault[t] - amount[t]
  BY <1>2
<1> QED
  BY <1>1, <1>2, <1>3

-----------------------------------------------------------------------------
(***************************************************************************)
(* Orders that come or stay: no outcome changes.                           *)
(***************************************************************************)
LEMMA OutcomesStay ==
  ASSUME TypeOK, Past, Told, outcome' = outcome, Block' \in Nat, Block' >= Block,
         \A b \in 1..Block : priceAt'[b] = priceAt[b],
         \A k \in Requests : outcome[k] # NoOutcome =>
           termsAt'[k] = termsAt[k] /\ failed'[k] = failed[k]
  PROVE  Past' /\ Told'
<1>1. Block \in Nat
  BY BlockType
<1>2. Past'
  BY <1>1 DEF Past
<1>3. ASSUME NEW k \in Requests
      PROVE  EndedWell(outcome'[k], termsAt'[k], failed'[k], priceAt')
  <2>1. CASE outcome[k] = NoOutcome
    BY <2>1 DEF EndedWell, NoOutcome
  <2>2. CASE outcome[k] # NoOutcome
    <3> DEFINE c == outcome[k]
    <3>1. /\ outcome'[k] = c /\ termsAt'[k] = termsAt[k] /\ failed'[k] = failed[k]
          /\ c.lo \in 1..Block /\ c.hi \in 1..Block
          /\ EndedWell(c, termsAt[k], failed[k], priceAt)
      BY <2>2 DEF Past, Told
    <3> HIDE DEF c
    <3>2. \A b \in c.lo..c.hi : priceAt'[b] = priceAt[b]
      BY <1>1, <3>1
    <3>3. FilledWell(c, termsAt[k], priceAt) => FilledWell(c, termsAt[k], priceAt')
      BY <3>2 DEF FilledWell
    <3> QED
      BY <3>1, <3>3 DEF EndedWell
  <2> QED
    BY <2>1, <2>2
<1> QED
  BY <1>2, <1>3 DEF Told

LEMMA StaysInStore ==
  ASSUME TypeOK, TypeOK', Kept, Past, Tracked, Told, NEW k \in Requests,
         NEW o \in OrderRecords, orders' = [orders EXCEPT ![k] = o],
         outcome[k] = NoOutcome, o.updatedAt \in 1..Block,
         termsAt' = [termsAt EXCEPT ![k] = o.updatedAt],
         failed' = [failed EXCEPT ![k] = o.isFrozen],
         nonce' >= nonce, k <= nonce',
         UNCHANGED <<priceAt, positions, outcome>>
  PROVE  Kept' /\ Past' /\ Tracked' /\ Told'
<1>1. Block \in Nat /\ nonce \in Nat /\ nonce' \in Nat /\ Block' = Block
  BY BlockType DEF TypeOK, Block
<1>2. \A j \in Requests :
        /\ orders'[j] = IF j = k THEN o ELSE orders[j]
        /\ termsAt'[j] = IF j = k THEN o.updatedAt ELSE termsAt[j]
        /\ failed'[j] = IF j = k THEN o.isFrozen ELSE failed[j]
  BY DEF TypeOK
<1>3. Kept'
  <2>1. ASSUME NEW j \in Requests
        PROVE  /\ orders'[j].exists =>
                    /\ outcome'[j] = NoOutcome
                    /\ orders'[j].updatedAt = termsAt'[j] /\ termsAt'[j] \in 1..Block'
                    /\ orders'[j].isFrozen = failed'[j]
               /\ j > nonce' => outcome'[j] = NoOutcome /\ failed'[j] = FALSE
    <3>1. CASE j = k
      <4>1. ~(j > nonce')
        BY <1>1, <3>1 DEF Requests
      <4> QED
        BY <1>1, <1>2, <3>1, <4>1
    <3>2. CASE j # k
      <4>1. j > nonce' => j > nonce
        BY <1>1 DEF Requests
      <4> QED
        BY <1>1, <1>2, <3>2, <4>1 DEF Kept
    <3> QED
      BY <3>1, <3>2
  <2> QED
    BY <2>1 DEF Kept
<1>4. Past' /\ Told'
  BY <1>1, <1>2, OutcomesStay
<1>5. Tracked'
  BY DEF Tracked
<1> QED
  BY <1>3, <1>4, <1>5

(***************************************************************************)
(* Steps that touch no order and no outcome.                               *)
(***************************************************************************)
LEMMA NoOrderTouched ==
  ASSUME TypeOK, TypeOK', Kept, Past, Told, nonce' >= nonce,
         Block' >= Block, \A b \in 1..Block : priceAt'[b] = priceAt[b],
         UNCHANGED <<orders, history>>
  PROVE  Kept' /\ Past' /\ Told'
<1>1. Block \in Nat /\ Block' \in Nat /\ nonce \in Nat /\ nonce' \in Nat
  BY BlockType DEF TypeOK, Block
<1>2. outcome' = outcome /\ termsAt' = termsAt /\ failed' = failed
  BY DEF history
<1>3. Kept'
  <2>1. \A j \in Requests : j > nonce' => j > nonce
    BY <1>1 DEF Requests
  <2>2. 1..Block \subseteq 1..Block'
    BY <1>1
  <2> QED
    BY <1>1, <1>2, <2>1, <2>2 DEF Kept
<1>4. Past' /\ Told'
  BY <1>1, <1>2, OutcomesStay
<1> QED
  BY <1>3, <1>4

(***************************************************************************)
(* An order that leaves.                                                   *)
(***************************************************************************)
LEMMA LeavesStore ==
  ASSUME TypeOK, TypeOK', Kept, Past, Told, NEW k \in Requests, orders[k].exists,
         NEW how, NEW by, NEW r, r.lo \in 1..Block, r.hi \in 1..Block,
         Leave(k, how, by, r),
         EndedWell([how |-> how, by |-> by, order |-> orders[k],
                    lo |-> r.lo, hi |-> r.hi, at |-> Block],
                   termsAt[k], failed[k], priceAt),
         UNCHANGED <<priceAt, nonce, termsAt, failed>>
  PROVE  Kept' /\ Past' /\ Told'
<1> DEFINE c == [how |-> how, by |-> by, order |-> orders[k],
                 lo |-> r.lo, hi |-> r.hi, at |-> Block]
<1>1. Block \in Nat /\ Block' = Block
  BY BlockType DEF Block
<1>2. c.lo \in 1..Block /\ c.hi \in 1..Block /\ c.at \in 1..Block
  <2>1. Block \in 1..Block
    BY <1>1
  <2> QED
    BY <2>1
<1>3. EndedWell(c, termsAt[k], failed[k], priceAt)
  OBVIOUS
<1>4. orders' = [orders EXCEPT ![k] = NoOrder] /\ outcome' = [outcome EXCEPT ![k] = c]
  BY DEF Leave
<1> HIDE DEF c
<1>5. \A j \in Requests : /\ orders'[j] = IF j = k THEN NoOrder ELSE orders[j]
                          /\ outcome'[j] = IF j = k THEN c ELSE outcome[j]
  BY <1>4 DEF TypeOK
<1>6. k <= nonce /\ ~NoOrder.exists
  BY DEF TypeOK, NoOrder
<1>7. Kept'
  <2>1. ASSUME NEW j \in Requests
        PROVE  /\ orders'[j].exists =>
                    /\ outcome'[j] = NoOutcome
                    /\ orders'[j].updatedAt = termsAt'[j] /\ termsAt'[j] \in 1..Block'
                    /\ orders'[j].isFrozen = failed'[j]
               /\ j > nonce' => outcome'[j] = NoOutcome /\ failed'[j] = FALSE
    <3>1. CASE j = k
      <4>1. ~(j > nonce')
        BY <1>6, <3>1 DEF TypeOK, Requests
      <4> QED
        BY <1>5, <1>6, <3>1, <4>1
    <3>2. CASE j # k
      BY <1>1, <1>5, <3>2 DEF Kept
    <3> QED
      BY <3>1, <3>2
  <2> QED
    BY <2>1 DEF Kept
<1>8. Past'
  <2>1. ASSUME NEW j \in Requests, outcome'[j] # NoOutcome
        PROVE  /\ outcome'[j].lo \in 1..Block' /\ outcome'[j].hi \in 1..Block'
               /\ outcome'[j].at \in 1..Block'
    BY <1>1, <1>2, <1>5, <2>1 DEF Past
  <2>2. Block' >= 1
    BY <1>1 DEF Past
  <2> QED
    BY <2>1, <2>2 DEF Past
<1>9. Told'
  <2>1. ASSUME NEW j \in Requests
        PROVE  EndedWell(outcome'[j], termsAt'[j], failed'[j], priceAt')
    BY <1>3, <1>5 DEF Told
  <2> QED
    BY <2>1 DEF Told
<1> QED
  BY <1>7, <1>8, <1>9

-----------------------------------------------------------------------------
(***************************************************************************)
(* The actions.                                                            *)
(***************************************************************************)

(***************************************************************************)
(* A new order is pledged all that came with it.                           *)
(***************************************************************************)
LEMMA NewOrderIsAll ==
  ASSUME IInv, Exact, NEW o \in OrderRecords, NEW passed,
         NEW sent \in SentIn(UsedBy(o.orderType, o.token)),
         passed.fee \in Nat, passed.collateral \in Nat,
         o.collateral = NewCollateral(o.orderType, o.token, sent, passed),
         o.fee = NewFee(o.orderType, o.token, sent, passed),
         TakeIn(sent, {Wnt} \cup (IF HoldsCollateral(o) THEN {o.token} ELSE {})),
         NEW t \in Tokens \ Donations
  PROVE  /\ vault'[t] = vault[t] + PledgedBy(o)[t]
         /\ recorded'[t] = vault'[t]
<1> DEFINE booked == {Wnt} \cup (IF HoldsCollateral(o) THEN {o.token} ELSE {})
<1>1. o.orderType \in SwapTypes \cup IncreaseTypes \cup DecreaseTypes /\ o.token \in Tokens
  BY OrdersAssumption DEF OrderRecords
<1>2. HoldsCollateral(o) <=> o.orderType \notin DecreaseTypes
  BY <1>1 DEF HoldsCollateral, IsSwap, IsIncrease, SwapTypes, IncreaseTypes, DecreaseTypes
<1>3. sent \in [Tokens -> Nat]
  BY InputTypes
<1>4. ASSUME NEW u \in Tokens, u \notin booked
      PROVE  sent[u] = 0
  <2>1. u \notin UsedBy(o.orderType, o.token)
    BY <1>2, <1>4 DEF UsedBy
  <2> QED
    BY <2>1 DEF SentIn
<1>5. TakeIn(sent, booked)
  OBVIOUS
<1> HIDE DEF booked
<1>6. /\ vault'[t] = vault[t] + sent[t] /\ recorded'[t] = vault'[t]
      /\ Received(sent, t) = sent[t]
  BY <1>3, <1>4, <1>5, TakeInExact
<1>7. PledgedBy(o)[t] = CollateralOf(o)[t] + FeeOf(o)[t]
  BY PledgeTypes DEF Plus
<1>8. sent[t] \in Nat /\ passed.fee \in Nat
  BY <1>3
<1>9. sent[t] = PledgedBy(o)[t]
  <2>1. CASE ~HoldsCollateral(o)
    <3>1. CollateralOf(o)[t] = 0
      BY <2>1 DEF CollateralOf
    <3>2. o.fee = Received(sent, Wnt)
      BY <1>2, <2>1 DEF NewFee, FeeFromCollateral, SwapTypes, IncreaseTypes, DecreaseTypes
    <3>3. t # Wnt => sent[t] = 0
      BY <1>4, <2>1 DEF booked
    <3> QED
      BY <1>6, <1>7, <1>8, <3>1, <3>2, <3>3 DEF FeeOf
  <2>2. CASE HoldsCollateral(o) /\ o.token = Wnt
    <3>1. o.orderType \in SwapTypes \cup IncreaseTypes
      BY <1>1, <1>2, <2>2
    <3>2. o.collateral = Received(sent, Wnt) - passed.fee /\ o.fee = passed.fee
      BY <1>2, <2>2, <3>1 DEF NewFee, NewCollateral, FeeFromCollateral
    <3>3. t # Wnt => sent[t] = 0
      BY <1>4, <2>2 DEF booked
    <3>4. FeeOf(o)[t] = IF t = Wnt THEN passed.fee ELSE 0
      BY <3>2 DEF FeeOf
    <3>5. CollateralOf(o)[t] = IF t = Wnt THEN Received(sent, Wnt) - passed.fee ELSE 0
      BY <2>2, <3>2 DEF CollateralOf
    <3> QED
      BY <1>6, <1>7, <1>8, <3>3, <3>4, <3>5
  <2>3. CASE HoldsCollateral(o) /\ o.token # Wnt
    <3>1. o.collateral = Received(sent, o.token) /\ o.fee = Received(sent, Wnt)
      BY <1>2, <2>3 DEF NewFee, NewCollateral, FeeFromCollateral
    <3>2. t \notin {Wnt, o.token} => sent[t] = 0
      BY <1>4, <2>3 DEF booked
    <3>3. FeeOf(o)[t] = IF t = Wnt THEN Received(sent, Wnt) ELSE 0
      BY <3>1 DEF FeeOf
    <3>4. CollateralOf(o)[t] = IF t = o.token THEN Received(sent, o.token) ELSE 0
      BY <2>3, <3>1 DEF CollateralOf
    <3> QED
      BY <1>6, <1>7, <1>8, <2>3, <3>2, <3>3, <3>4
  <2> QED
    BY <2>1, <2>2, <2>3
<1> QED
  BY <1>6, <1>9

LEMMA Parts ==
  ASSUME IInv, IInv', HInv
  PROVE  /\ TypeOK /\ TypeOK' /\ Kept /\ Past /\ Tracked /\ Told /\ Exact
         /\ nonce \in Nat
<1>1. TypeOK /\ TypeOK' /\ Kept /\ Past /\ Tracked /\ Told /\ Exact
  BY DEF IInv, HInv
<1>2. nonce \in Nat
  BY <1>1 DEF TypeOK
<1> QED
  BY <1>1, <1>2

LEMMA CreateHistory ==
  ASSUME IInv, IInv', HInv, NEW account \in Accounts, NEW type \in OrderTypes,
         NEW isLong \in Sides, NEW token \in Tokens, NEW size \in Nat,
         NEW trigger \in Nat, NEW sent \in SentIn(UsedBy(type, token)), NEW passed,
         passed.fee \in Nat, passed.collateral \in Nat,
         CreateOrder(account, type, isLong, token, size, trigger, sent, passed)
  PROVE  HInv'
<1> DEFINE k == nonce + 1
           o == [exists |-> TRUE, account |-> account, orderType |-> type,
                 isLong |-> isLong, token |-> token, sizeDelta |-> size,
                 collateral |-> NewCollateral(type, token, sent, passed),
                 fee |-> NewFee(type, token, sent, passed),
                 triggerPrice |-> trigger, updatedAt |-> Block, isFrozen |-> FALSE]
           booked == {Wnt} \cup (IF HoldsCollateral(o) THEN {token} ELSE {})
<1>1. /\ k \in Requests /\ nonce' = k /\ TakeIn(sent, booked)
      /\ orders' = [orders EXCEPT ![k] = o]
      /\ termsAt' = [termsAt EXCEPT ![k] = Block]
      /\ UNCHANGED <<priceAt, positions, disabled, outcome, failed>>
  BY DEF CreateOrder
<1>2. /\ TypeOK /\ TypeOK' /\ Kept /\ Past /\ Tracked /\ Told /\ Exact
      /\ nonce \in Nat
  BY Parts
<1>3. Block \in Nat /\ Block \in 1..Block
  <2>1. Block \in Nat /\ Block >= 1
    BY <1>2, BlockType DEF Past
  <2> QED
    BY <2>1
<1>4. /\ o.exists /\ o.orderType = type /\ o.token = token
      /\ o.collateral = NewCollateral(type, token, sent, passed)
      /\ o.fee = NewFee(type, token, sent, passed)
      /\ o.updatedAt = Block /\ o.isFrozen = FALSE
  OBVIOUS
<1> HIDE DEF o
<1>5. o \in OrderRecords
  <2>1. orders'[k] = o /\ orders'[k] \in OrderRecords \cup {NoOrder}
    BY <1>1, <1>2 DEF TypeOK
  <2> QED
    BY <1>4, <2>1 DEF NoOrder
<1>6. k > nonce /\ k <= nonce' /\ nonce' >= nonce
  BY <1>1, <1>2
<1>7. orders[k] = NoOrder /\ outcome[k] = NoOutcome /\ failed[k] = FALSE
  <2>1. ~orders[k].exists /\ orders[k] \in OrderRecords \cup {NoOrder}
    BY <1>1, <1>2 DEF TypeOK
  <2>2. \A r \in OrderRecords : r.exists
    BY DEF OrderRecords
  <2>3. outcome[k] = NoOutcome /\ failed[k] = FALSE
    BY <1>1, <1>2, <1>6 DEF Kept
  <2> QED
    BY <2>1, <2>2, <2>3
<1>8. /\ termsAt' = [termsAt EXCEPT ![k] = o.updatedAt]
      /\ failed' = [failed EXCEPT ![k] = o.isFrozen]
      /\ o.updatedAt \in 1..Block
  <2>1. failed' = [failed EXCEPT ![k] = FALSE]
    BY <1>1, <1>2, <1>7 DEF TypeOK
  <2> QED
    BY <1>1, <1>3, <1>4, <2>1
<1> HIDE DEF k
<1>9. Kept' /\ Past' /\ Tracked' /\ Told'
  BY <1>1, <1>2, <1>5, <1>6, <1>7, <1>8, StaysInStore
<1>10. ASSUME NEW t \in Tokens \ Donations
       PROVE  /\ vault'[t] = vault[t] + PledgedBy(o)[t] - PledgedBy(orders[k])[t]
              /\ recorded'[t] = vault'[t]
  <2>1. PledgedBy(orders[k])[t] = 0
    BY <1>7, NoOrderPledge DEF Nothing
  <2>2. /\ o.collateral = NewCollateral(o.orderType, o.token, sent, passed)
        /\ o.fee = NewFee(o.orderType, o.token, sent, passed)
        /\ TakeIn(sent, {Wnt} \cup (IF HoldsCollateral(o) THEN {o.token} ELSE {}))
        /\ sent \in SentIn(UsedBy(o.orderType, o.token))
    BY <1>1, <1>4
  <2>3. vault'[t] = vault[t] + PledgedBy(o)[t] /\ recorded'[t] = vault'[t]
    BY <1>2, <1>5, <2>2, NewOrderIsAll
  <2>4. vault[t] \in Nat /\ PledgedBy(o)[t] \in Nat
    BY <1>2, <1>5, PledgeTypes DEF TypeOK
  <2> QED
    BY <2>1, <2>3, <2>4
<1>11. Exact'
  BY <1>1, <1>2, <1>5, <1>10, ExactStep
<1> QED
  BY <1>9, <1>11 DEF HInv

LEMMA UpdateHistory ==
  ASSUME IInv, IInv', HInv, NEW k \in Requests, NEW size \in Nat, NEW trigger \in Nat,
         NEW sent \in SentIn({Wnt}), UpdateOrder(k, size, trigger, sent)
  PROVE  HInv'
<1> DEFINE o == orders[k]
           fee == o.fee + Received(sent, Wnt)
           a == Amended(o, size, trigger, fee)
<1>1. /\ o.exists /\ TakeIn(sent, {Wnt})
      /\ orders' = [orders EXCEPT ![k] = a]
      /\ termsAt' = [termsAt EXCEPT ![k] = Block]
      /\ failed' = [failed EXCEPT ![k] = FALSE]
      /\ UNCHANGED <<priceAt, nonce, positions, disabled, outcome>>
  BY DEF UpdateOrder
<1>2. /\ TypeOK /\ TypeOK' /\ Kept /\ Past /\ Tracked /\ Told /\ Exact
      /\ nonce \in Nat
  BY Parts
<1>3. Block \in Nat /\ Block \in 1..Block
  <2>1. Block \in Nat /\ Block >= 1
    BY <1>2, BlockType DEF Past
  <2> QED
    BY <2>1
<1>4. o \in OrderRecords /\ k <= nonce /\ outcome[k] = NoOutcome
  BY <1>1, <1>2, OpenOrderType DEF TypeOK, Kept
<1>5. sent \in [Tokens -> Nat] /\ \A t \in Tokens : t \notin {Wnt} => sent[t] = 0
  BY InputTypes DEF SentIn
<1>6. Received(sent, Wnt) \in Nat
  BY <1>1, <1>5, TakeInBooks, OrdersAssumption
<1>7. fee \in Nat /\ fee = o.fee + Received(sent, Wnt) /\ o.fee \in Nat
  <2>1. o.fee \in Nat
    BY <1>4 DEF OrderRecords
  <2> HIDE DEF o
  <2> QED
    BY <1>6, <2>1
<1>8. a.updatedAt = Block /\ a.isFrozen = FALSE
  BY <1>4 DEF Amended, OrderRecords
<1> HIDE DEF o, fee
<1>9. /\ a \in OrderRecords /\ CollateralOf(a) = CollateralOf(o)
      /\ a.fee = fee /\ a.exists
  <2>1. TypeOK /\ o \in OrderRecords /\ fee \in Nat
    BY <1>2, <1>4, <1>7
  <2> QED
    BY ONLY <2>1, size \in Nat, trigger \in Nat, AmendedType DEF a
<1> HIDE DEF a
<1>10. Kept' /\ Past' /\ Tracked' /\ Told'
  <2>1. nonce' >= nonce /\ k <= nonce'
    BY <1>1, <1>2, <1>4
  <2>2. /\ termsAt' = [termsAt EXCEPT ![k] = a.updatedAt]
        /\ failed' = [failed EXCEPT ![k] = a.isFrozen]
        /\ a.updatedAt \in 1..Block
    BY <1>1, <1>3, <1>8
  <2> QED
    BY <1>1, <1>2, <1>4, <1>9, <2>1, <2>2, StaysInStore
<1>11. ASSUME NEW t \in Tokens \ Donations
       PROVE  /\ vault'[t] = vault[t] + PledgedBy(a)[t] - PledgedBy(orders[k])[t]
              /\ recorded'[t] = vault'[t]
  <2>1. /\ vault'[t] = vault[t] + sent[t] /\ recorded'[t] = vault'[t]
        /\ Received(sent, t) = sent[t]
    BY <1>1, <1>2, <1>5, TakeInExact
  <2>2. /\ PledgedBy(a)[t] = CollateralOf(o)[t] + FeeOf(a)[t]
        /\ PledgedBy(o)[t] = CollateralOf(o)[t] + FeeOf(o)[t]
        /\ CollateralOf(o)[t] \in Nat
    BY <1>4, <1>9, PledgeTypes DEF Plus
  <2>3. /\ FeeOf(a)[t] = IF t = Wnt THEN fee ELSE 0
        /\ FeeOf(o)[t] = IF t = Wnt THEN o.fee ELSE 0
    BY <1>9 DEF FeeOf
  <2>4. vault[t] \in Nat /\ sent[t] \in Nat /\ (t # Wnt => sent[t] = 0)
    BY <1>2, <1>5 DEF TypeOK
  <2>5. CASE t = Wnt
    BY <1>6, <1>7, <2>1, <2>2, <2>3, <2>4, <2>5 DEF o
  <2>6. CASE t # Wnt
    BY <1>7, <2>1, <2>2, <2>3, <2>4, <2>6 DEF o
  <2> QED
    BY <2>5, <2>6
<1>12. Exact'
  BY <1>1, <1>2, <1>9, <1>11, ExactStep
<1> QED
  BY <1>10, <1>12 DEF HInv

LEMMA FreezeHistory ==
  ASSUME IInv, IInv', HInv, NEW k \in Requests, NEW keeper, NEW report,
         FreezeOnError(k, keeper, report)
  PROVE  HInv'
<1> DEFINE o == orders[k]
           f == Frozen(o)
<1>1. /\ o.exists /\ PayOut(FeeOf(o), {Wnt})
      /\ orders' = [orders EXCEPT ![k] = f]
      /\ failed' = [failed EXCEPT ![k] = TRUE]
      /\ UNCHANGED <<priceAt, nonce, positions, disabled, outcome, termsAt>>
  BY DEF FreezeOnError
<1>2. /\ TypeOK /\ TypeOK' /\ Kept /\ Past /\ Tracked /\ Told /\ Exact
      /\ nonce \in Nat
  BY Parts
<1>3. o \in OrderRecords /\ k <= nonce
  BY <1>1, <1>2, OpenOrderType DEF TypeOK
<1>4. outcome[k] = NoOutcome /\ o.updatedAt = termsAt[k] /\ termsAt[k] \in 1..Block
  BY <1>1, <1>2 DEF Kept
<1>5. f.updatedAt = o.updatedAt /\ f.isFrozen = TRUE
  BY <1>3 DEF Frozen, OrderRecords
<1>6. f \in OrderRecords /\ CollateralOf(f) = CollateralOf(o) /\ FeeOf(f) = Nothing
  BY <1>3, FrozenType
<1> HIDE DEF f
<1>7. Kept' /\ Past' /\ Tracked' /\ Told'
  <2>1. nonce' >= nonce /\ k <= nonce'
    BY <1>1, <1>2, <1>3
  <2>2. termsAt' = [termsAt EXCEPT ![k] = f.updatedAt]
    BY <1>1, <1>2, <1>4, <1>5 DEF TypeOK
  <2>3. /\ failed' = [failed EXCEPT ![k] = f.isFrozen]
        /\ f.updatedAt \in 1..Block
    BY <1>1, <1>4, <1>5
  <2> QED
    BY <1>1, <1>2, <1>4, <1>6, <2>1, <2>2, <2>3, StaysInStore
<1>8. FeeOf(o) \in [Tokens -> Nat] /\ \A t \in Tokens : t \notin {Wnt} => FeeOf(o)[t] = 0
  BY <1>3, PledgeTypes DEF FeeOf
<1>9. ASSUME NEW t \in Tokens \ Donations
      PROVE  /\ vault'[t] = vault[t] + PledgedBy(f)[t] - PledgedBy(orders[k])[t]
             /\ recorded'[t] = vault'[t]
  <2>1. vault'[t] = vault[t] - FeeOf(o)[t] /\ recorded'[t] = vault'[t]
    BY <1>1, <1>2, <1>8, PayOutExact
  <2>2. /\ PledgedBy(f)[t] = CollateralOf(o)[t] + Nothing[t]
        /\ PledgedBy(o)[t] = CollateralOf(o)[t] + FeeOf(o)[t]
        /\ CollateralOf(o)[t] \in Nat /\ FeeOf(o)[t] \in Nat
    BY <1>3, <1>6, PledgeTypes DEF Plus
  <2>3. vault[t] \in Nat /\ Nothing[t] = 0
    BY <1>2 DEF TypeOK, Nothing
  <2>4. PledgedBy(orders[k])[t] = PledgedBy(o)[t]
    OBVIOUS
  <2> HIDE DEF o
  <2> QED
    BY <2>1, <2>2, <2>3, <2>4
<1>10. Exact'
  BY <1>1, <1>2, <1>6, <1>9, ExactStep
<1> QED
  BY <1>7, <1>10 DEF HInv

(***************************************************************************)
(* Settling an order pays out exactly what was pledged to it.              *)
(***************************************************************************)
LEMMA SettleExact ==
  ASSUME IInv, IInv', Exact, NEW k \in Requests, orders[k].exists,
         SettleTokens(orders[k]), orders' = [orders EXCEPT ![k] = NoOrder]
  PROVE  Exact'
<1> DEFINE o == orders[k]
           booked == {Wnt} \cup (IF HoldsCollateral(o) /\ o.collateral > 0
                                 THEN {o.token} ELSE {})
           amount == Plus(CollateralOf(o), FeeOf(o))
<1>1. TypeOK /\ TypeOK' /\ o \in OrderRecords
  BY OpenOrderType DEF IInv
<1>2. amount = PledgedBy(o) /\ amount \in [Tokens -> Nat]
  BY <1>1, PledgeTypes
<1>3. PayOut(amount, booked)
  BY DEF SettleTokens
<1>4. ASSUME NEW t \in Tokens, t \notin booked
      PROVE  amount[t] = 0
  <2>1. FeeOf(o)[t] = 0
    BY <1>4 DEF FeeOf
  <2>2. o.collateral \in Nat
    BY <1>1 DEF OrderRecords
  <2>3. HoldsCollateral(o) /\ o.collateral > 0 => t # o.token
    BY <1>4
  <2> HIDE DEF o
  <2>4. CollateralOf(o)[t] = 0
    BY <2>2, <2>3 DEF CollateralOf
  <2> QED
    BY <2>1, <2>4 DEF Plus
<1> HIDE DEF booked, amount
<1>5. ASSUME NEW t \in Tokens \ Donations
      PROVE  /\ vault'[t] = vault[t] + PledgedBy(NoOrder)[t] - PledgedBy(orders[k])[t]
             /\ recorded'[t] = vault'[t]
  <2>1. vault'[t] = vault[t] - amount[t] /\ recorded'[t] = vault'[t]
    BY <1>2, <1>3, <1>4, PayOutExact
  <2>2. PledgedBy(NoOrder)[t] = 0
    BY NoOrderPledge DEF Nothing
  <2>3. vault[t] \in Nat /\ amount[t] \in Nat /\ amount[t] = PledgedBy(orders[k])[t]
    BY <1>1, <1>2 DEF TypeOK
  <2> QED
    BY <2>1, <2>2, <2>3
<1> QED
  BY <1>1, <1>5, ExactStep

LEMMA ReportBlocks ==
  ASSUME TypeOK, NEW r \in Reports
  PROVE  r.lo \in 1..Block /\ r.hi \in 1..Block
BY DEF Reports

(***************************************************************************)
(* A cancellation, by the owner or by a keeper's failed execution.         *)
(***************************************************************************)
LEMMA CancelHistory ==
  ASSUME IInv, IInv', HInv, NEW k \in Requests, NEW by, orders[k].exists,
         CancelTo(k, by),
         by \in Accounts /\ IsMarket(orders[k]) => RequestExpired(orders[k])
  PROVE  HInv'
<1> DEFINE o == orders[k]
           r == [lo |-> Block, hi |-> Block]
           c == [how |-> "cancelled", by |-> by, order |-> o,
                 lo |-> r.lo, hi |-> r.hi, at |-> Block]
<1>1. /\ SettleTokens(o) /\ Leave(k, "cancelled", by, r)
      /\ UNCHANGED <<priceAt, nonce, positions, disabled, termsAt, failed>>
  BY DEF CancelTo
<1>2. /\ TypeOK /\ TypeOK' /\ Kept /\ Past /\ Tracked /\ Told /\ Exact
      /\ nonce \in Nat
  BY Parts
<1>3. o.updatedAt = termsAt[k] /\ Block \in Nat /\ Block >= 1
  BY <1>2, BlockType DEF Kept, Past
<1>4. c.how = "cancelled" /\ c.by = by /\ c.order = o /\ c.at = Block
  OBVIOUS
<1>5. r.lo \in 1..Block /\ r.hi \in 1..Block
  BY <1>3
<1>6. EndedWell(c, termsAt[k], failed[k], priceAt)
  <2>1. c.how # "executed"
    BY <1>4
  <2>2. by \in Accounts /\ IsMarket(o) => Block - termsAt[k] >= RequestExpirationAge
    BY <1>3 DEF RequestExpired
  <2> HIDE DEF c, o
  <2> QED
    BY <1>4, <2>1, <2>2 DEF EndedWell
<1> HIDE DEF r
<1>7. /\ orders' = [orders EXCEPT ![k] = NoOrder]
      /\ outcome' = [outcome EXCEPT ![k] = c]
  BY <1>1 DEF Leave
<1>8. Kept' /\ Past' /\ Told'
  BY <1>1, <1>2, <1>5, <1>6, LeavesStore
<1>9. Exact'
  BY <1>1, <1>2, <1>7, SettleExact
<1>10. Tracked'
  <2> HIDE DEF c
  <2>1. \A j \in Requests : outcome'[j] = outcome[j] \/ outcome'[j].how # "executed"
    BY <1>2, <1>4, <1>7 DEF TypeOK
  <2> QED
    BY <1>1, <1>2, <2>1 DEF Tracked
<1> QED
  BY <1>8, <1>9, <1>10 DEF HInv

-----------------------------------------------------------------------------
(***************************************************************************)
(* An execution.  First what a fill means for the position.                *)
(***************************************************************************)
LEMMA FillsKnow ==
  ASSUME TypeOK, NEW o \in OrderRecords, ~IsSwap(o), NEW pos \in Fills(o),
         NEW at \in 1..Block
  PROVE  /\ IsIncrease(o) => Knows(pos, at)
         /\ Knows(PositionOf(o), at) => Knows(pos, at)
         /\ ~IsIncrease(o) => PositionOf(o).size # 0
<1> DEFINE old == PositionOf(o)
<1>1. old \in [size: Nat, increasedAt: Nat, decreasedAt: Nat]
  BY DEF PositionOf, PositionKey, PositionKeys, OrderRecords, TypeOK
<1>2. Block \in Nat /\ Block >= at
  BY BlockType
<1> HIDE DEF old
<1>3. CASE IsIncrease(o)
  <2> DEFINE grown == old.size + o.sizeDelta
  <2>1. pos \in IncreaseFills(o, old)
    BY <1>3 DEF Fills, old
  <2>2. pos = [old EXCEPT !.size = grown, !.increasedAt = Block]
    BY <2>1 DEF IncreaseFills
  <2> HIDE DEF grown
  <2>3. pos.increasedAt = Block
    BY <1>1, <2>2
  <2> QED
    BY <1>2, <1>3, <2>3 DEF Knows
<1>4. CASE ~IsIncrease(o)
  <2>1. IsDecrease(o)
    BY <1>4, OrdersAssumption DEF OrderRecords, IsSwap, IsIncrease, IsDecrease
  <2>2. pos \in DecreaseFills(o, old)
    BY <1>4, <2>1 DEF Fills, old
  <2>3. old.size # 0
    BY <2>2 DEF DecreaseFills
  <2>4. CASE pos = EmptyPosition
    BY <1>4, <2>3, <2>4 DEF Knows, EmptyPosition, old
  <2>5. CASE pos # EmptyPosition
    <3>1. PICK left : pos = [old EXCEPT !.size = left, !.decreasedAt = Block]
      BY <2>2, <2>3, <2>5 DEF DecreaseFills
    <3>2. pos.increasedAt = old.increasedAt
      BY <1>1, <3>1
    <3> QED
      BY <1>4, <2>3, <3>2 DEF Knows, old
  <2> QED
    BY <2>4, <2>5
<1> QED
  BY <1>3, <1>4

LEMMA ExecuteHistory ==
  ASSUME IInv, IInv', HInv, NEW k \in Requests, NEW keeper \in OrderKeepers,
         NEW r \in Reports, ExecuteOrder(k, keeper, r)
  PROVE  HInv'
<1> DEFINE o == orders[k]
           c == [how |-> "executed", by |-> keeper, order |-> o,
                 lo |-> r.lo, hi |-> r.hi, at |-> Block]
<1>1. /\ o.exists /\ Admitted(o, keeper, r) /\ ValidBlocks(o, PositionOf(o), r)
      /\ SettleTokens(o) /\ Leave(k, "executed", keeper, r)
      /\ UNCHANGED <<priceAt, nonce, disabled, termsAt, failed>>
  BY DEF ExecuteOrder
<1>2. PICK pos \in Fills(o) :
        positions' = IF IsSwap(o) THEN positions
                     ELSE [positions EXCEPT ![PositionKey(o)] = pos]
  BY DEF ExecuteOrder
<1>3. /\ TypeOK /\ TypeOK' /\ Kept /\ Past /\ Tracked /\ Told /\ Exact
      /\ nonce \in Nat
  BY Parts
<1>4. o \in OrderRecords
  BY <1>1, <1>3, OpenOrderType
<1>5. o.updatedAt = termsAt[k] /\ o.isFrozen = failed[k] /\ Block \in Nat /\ Block >= 1
  BY <1>1, <1>3, BlockType DEF Kept, Past
<1>6. r.lo \in 1..Block /\ r.hi \in 1..Block
  BY <1>3, ReportBlocks
<1>7. /\ c.how = "executed" /\ c.by = keeper /\ c.order = o /\ c.at = Block
      /\ c.lo = r.lo /\ c.hi = r.hi
  OBVIOUS
<1>8. EndedWell(c, termsAt[k], failed[k], priceAt)
  <2>1. IF IsMarket(o) THEN r.lo <= o.updatedAt /\ o.updatedAt <= r.hi
                       ELSE r.lo >= o.updatedAt
    BY <1>1 DEF ValidBlocks, ValidDecreaseBlocks, ValidIncreaseOrSwapBlocks
  <2>2. o.orderType \in TriggerTypes => \E b \in r.lo..r.hi : TriggeredAt(o, priceAt[b])
    BY <1>1, <1>3, <1>4, ValidTriggerFulfilled DEF Admitted
  <2>3. o.isFrozen \/ o.orderType = "LimitSwap" => keeper \in FrozenKeepers
    BY <1>1 DEF Admitted
  <2> HIDE DEF c, o
  <2>4. FilledWell(c, termsAt[k], priceAt)
    BY <1>5, <1>7, <2>1, <2>2 DEF FilledWell
  <2> QED
    BY <1>5, <1>7, <2>3, <2>4 DEF EndedWell
<1>9. /\ orders' = [orders EXCEPT ![k] = NoOrder]
      /\ outcome' = [outcome EXCEPT ![k] = c]
  BY <1>1 DEF Leave
<1>10. Kept' /\ Past' /\ Told'
  BY <1>1, <1>3, <1>6, <1>8, LeavesStore
<1>11. Exact'
  BY <1>1, <1>3, <1>9, SettleExact
<1> HIDE DEF c
<1>12. \A j \in Requests : outcome'[j] = IF j = k THEN c ELSE outcome[j]
  BY <1>3, <1>9 DEF TypeOK
<1>13. Tracked'
  <2>1. ASSUME NEW j \in Requests, outcome'[j].how = "executed",
               IsIncrease(outcome'[j].order)
        PROVE  Knows(positions'[PositionKey(outcome'[j].order)], outcome'[j].at)
    <3>1. CASE IsSwap(o)
      <4>1. ~IsIncrease(o)
        BY <3>1 DEF IsSwap, IsIncrease, SwapTypes, IncreaseTypes
      <4>2. j # k
        BY <1>7, <1>12, <2>1, <4>1
      <4> QED
        BY <1>2, <1>3, <1>12, <2>1, <3>1, <4>2 DEF Tracked
    <3>2. CASE ~IsSwap(o)
      <4>1. PositionKey(o) \in PositionKeys
        BY <1>4 DEF PositionKey, PositionKeys, OrderRecords
      <4>2. positions' = [positions EXCEPT ![PositionKey(o)] = pos]
        BY <1>2, <3>2
      <4>3. \A q \in PositionKeys :
              positions'[q] = IF q = PositionKey(o) THEN pos ELSE positions[q]
        BY <1>3, <4>1, <4>2 DEF TypeOK
      <4>4. CASE j = k
        <5>1. IsIncrease(o) /\ Block \in 1..Block
          BY <1>5, <1>7, <1>12, <2>1, <4>4
        <5>2. Knows(pos, Block)
          BY <1>3, <1>4, <3>2, <5>1, FillsKnow
        <5> QED
          BY <1>7, <1>12, <4>1, <4>3, <4>4, <5>2
      <4>5. CASE j # k
        <5> DEFINE d == outcome[j]
        <5>1. /\ outcome'[j] = d /\ d.how = "executed" /\ d # NoOutcome
              /\ Knows(positions[PositionKey(d.order)], d.at)
          BY <1>3, <1>12, <2>1, <4>5 DEF Tracked, NoOutcome
        <5>2. d.at \in 1..Block
          BY <1>3, <5>1 DEF Past
        <5>3. PositionKey(d.order) \in PositionKeys
          <6>1. d \in Outcomes
            BY <1>3, <5>1 DEF TypeOK
          <6> QED
            BY <6>1 DEF Outcomes, PositionKey, PositionKeys, OrderRecords
        <5> HIDE DEF d
        <5>4. CASE PositionKey(d.order) = PositionKey(o)
          <6>1. Knows(PositionOf(o), d.at)
            BY <5>1, <5>4 DEF PositionOf
          <6>2. Knows(pos, d.at)
            BY <1>3, <1>4, <3>2, <5>2, <6>1, FillsKnow
          <6> QED
            BY <4>3, <5>1, <5>3, <5>4, <6>2
        <5>5. CASE PositionKey(d.order) # PositionKey(o)
          BY <4>3, <5>1, <5>3, <5>5
        <5> QED
          BY <5>4, <5>5
      <4> QED
        BY <4>4, <4>5
    <3> QED
      BY <3>1, <3>2
  <2> QED
    BY <2>1 DEF Tracked
<1> QED
  BY <1>10, <1>11, <1>13 DEF HInv

-----------------------------------------------------------------------------
(***************************************************************************)
(* Everything else.                                                        *)
(***************************************************************************)
LEMMA LiquidationHistory ==
  ASSUME IInv, IInv', HInv, NEW p \in PositionKeys, NEW r \in Reports,
         ExecuteLiquidation(p, r)
  PROVE  HInv'
<1>1. /\ nonce' = nonce + 1 /\ positions' = [positions EXCEPT ![p] = EmptyPosition]
      /\ PayOut(Nothing, {Wnt})
      /\ UNCHANGED <<priceAt, orders, disabled, history>>
  BY DEF ExecuteLiquidation
<1>2. /\ TypeOK /\ TypeOK' /\ Kept /\ Past /\ Tracked /\ Told /\ Exact
      /\ nonce \in Nat
  BY Parts
<1>3. Kept' /\ Past' /\ Told'
  <2>1. nonce' >= nonce /\ Block \in Nat /\ Block' = Block
    BY <1>1, <1>2, BlockType DEF Block
  <2>2. Block' >= Block /\ \A b \in 1..Block : priceAt'[b] = priceAt[b]
    BY <1>1, <2>1
  <2> QED
    BY <1>1, <1>2, <2>1, <2>2, NoOrderTouched
<1>4. Exact'
  <2>1. Nothing \in [Tokens -> Nat] /\ \A t \in Tokens : Nothing[t] = 0
    BY DEF Nothing
  <2>2. \A t \in Tokens \ Donations :
          vault'[t] = vault[t] - Nothing[t] /\ recorded'[t] = vault'[t]
    BY <1>1, <1>2, <2>1, PayOutExact
  <2>3. \A t \in Tokens \ Donations : vault'[t] = vault[t] /\ recorded'[t] = vault'[t]
    BY <1>2, <2>1, <2>2 DEF TypeOK
  <2> QED
    BY <1>1, <1>2, <2>3 DEF Exact
<1>5. Tracked'
  <2>1. outcome' = outcome
    BY <1>1 DEF history
  <2>2. \A q \in PositionKeys : positions'[q] = IF q = p THEN EmptyPosition ELSE positions[q]
    BY <1>1, <1>2 DEF TypeOK
  <2>3. ASSUME NEW j \in Requests, outcome[j].how = "executed",
               IsIncrease(outcome[j].order)
        PROVE  Knows(positions'[PositionKey(outcome[j].order)], outcome[j].at)
    <3> DEFINE d == outcome[j]
    <3>1. Knows(positions[PositionKey(d.order)], d.at)
      BY <1>2, <2>3 DEF Tracked
    <3>2. PositionKey(d.order) \in PositionKeys
      <4>1. d \in Outcomes
        BY <1>2, <2>3 DEF TypeOK, NoOutcome
      <4> QED
        BY <4>1 DEF Outcomes, PositionKey, PositionKeys, OrderRecords
    <3> HIDE DEF d
    <3>3. CASE PositionKey(d.order) = p
      BY <2>2, <3>2, <3>3 DEF Knows, EmptyPosition, d
    <3>4. CASE PositionKey(d.order) # p
      BY <2>2, <3>1, <3>2, <3>4 DEF d
    <3> QED
      BY <3>3, <3>4
  <2> QED
    BY <2>1, <2>3 DEF Tracked
<1> QED
  BY <1>3, <1>4, <1>5 DEF HInv

LEMMA AroundHistory ==
  ASSUME IInv, IInv', HInv, UNCHANGED <<orders, nonce, positions, history>>,
         Block' >= Block, \A b \in 1..Block : priceAt'[b] = priceAt[b],
         \A t \in Tokens \ Donations : vault'[t] = vault[t] /\ recorded'[t] = recorded[t]
  PROVE  HInv'
<1>1. /\ TypeOK /\ TypeOK' /\ Kept /\ Past /\ Tracked /\ Told /\ Exact
      /\ nonce \in Nat
  BY Parts
<1>2. Kept' /\ Past' /\ Told'
  <2>1. nonce' >= nonce
    BY <1>1
  <2> QED
    BY <1>1, <2>1, NoOrderTouched
<1>3. Exact'
  BY <1>1 DEF Exact
<1>4. Tracked'
  BY <1>1 DEF Tracked, history
<1> QED
  BY <1>2, <1>3, <1>4 DEF HInv

LEMMA AroundActionsHistory ==
  ASSUME IInv, IInv', HInv,
         \/ \E t \in Tokens : DirectTransfer(t)
         \/ \E f \in Features : SwitchFeature(f)
         \/ \E price \in Prices : NextBlock(price)
         \/ UNCHANGED vars
  PROVE  HInv'
<1>1. Block \in Nat /\ TypeOK
  BY BlockType DEF IInv
<1>2. ASSUME UNCHANGED <<priceAt, orders, nonce, positions, history>>,
             \A t \in Tokens \ Donations : vault'[t] = vault[t] /\ recorded'[t] = recorded[t]
      PROVE  HInv'
  <2>1. Block' >= Block /\ \A b \in 1..Block : priceAt'[b] = priceAt[b]
    BY <1>1, <1>2 DEF Block
  <2> QED
    BY <1>2, <2>1, AroundHistory
<1>3. ASSUME NEW t \in Tokens, DirectTransfer(t)
      PROVE  HInv'
  <2> DEFINE sent == [u \in Tokens |-> IF u = t THEN 1 ELSE 0]
  <2>1. /\ t \in Donations /\ TakeIn(sent, {})
        /\ UNCHANGED <<priceAt, orders, nonce, positions, disabled, history>>
    BY <1>3 DEF DirectTransfer
  <2>2. /\ vault' = [u \in Tokens |-> vault[u] + sent[u]]
        /\ recorded' = [u \in Tokens |-> recorded[u]]
    BY <2>1 DEF TakeIn, Plus
  <2>3. \A u \in Tokens \ Donations : sent[u] = 0 /\ vault[u] \in Nat
    BY <1>1, <2>1 DEF TypeOK
  <2> HIDE DEF sent
  <2>4. \A u \in Tokens \ Donations : vault'[u] = vault[u] /\ recorded'[u] = recorded[u]
    BY <2>2, <2>3
  <2> QED
    BY <1>2, <2>1, <2>4
<1>4. ASSUME NEW f \in Features, SwitchFeature(f)
      PROVE  HInv'
  BY <1>2, <1>4 DEF SwitchFeature, tokens
<1>5. ASSUME NEW price \in Prices, NextBlock(price)
      PROVE  HInv'
  <2>1. /\ priceAt' = Append(priceAt, price)
        /\ UNCHANGED <<orders, nonce, positions, tokens, disabled, history>>
    BY <1>5 DEF NextBlock
  <2>2. priceAt \in Seq(Prices)
    BY <1>1 DEF TypeOK
  <2>3. Block' = Block + 1 /\ \A b \in 1..Block : priceAt'[b] = priceAt[b]
    BY <2>1, <2>2 DEF Block
  <2>4. Block' >= Block
    BY <1>1, <2>3
  <2>5. \A t \in Tokens \ Donations : vault'[t] = vault[t] /\ recorded'[t] = recorded[t]
    BY <2>1 DEF tokens
  <2> QED
    BY <2>1, <2>3, <2>4, <2>5, AroundHistory
<1>6. CASE UNCHANGED vars
  BY <1>2, <1>6 DEF vars, tokens
<1> QED
  BY <1>3, <1>4, <1>5, <1>6

-----------------------------------------------------------------------------
LEMMA HistoryStep ==
  ASSUME IInv, HInv, [Next]_vars
  PROVE  HInv'
<1>1. IInv'
  BY EveryStep DEF Correct
<1>2. CASE CreateSomeOrder
  <2>1. PICK account \in Accounts, type \in OrderTypes, isLong \in Sides, token \in Tokens :
          \E size \in SizesFor(type), trigger \in TriggersFor(type),
             sent \in SentIn(UsedBy(type, token)), passed \in PassedFor(type, token) :
            CreateOrder(account, type, isLong, token, size, trigger, sent, passed)
    BY <1>2 DEF CreateSomeOrder
  <2>2. PICK size \in SizesFor(type), trigger \in TriggersFor(type),
             sent \in SentIn(UsedBy(type, token)), passed \in PassedFor(type, token) :
          CreateOrder(account, type, isLong, token, size, trigger, sent, passed)
    BY <2>1
  <2>3. /\ size \in Nat /\ trigger \in Nat
        /\ passed.fee \in Nat /\ passed.collateral \in Nat
    BY InputTypes
  <2> QED
    BY <1>1, <2>2, <2>3, CreateHistory
<1>3. ASSUME NEW k \in Requests, UpdateSomeOrder(k)
      PROVE  HInv'
  <2>1. PICK size \in SizesFor(orders[k].orderType),
             trigger \in TriggersFor(orders[k].orderType), sent \in SentIn({Wnt}) :
          UpdateOrder(k, size, trigger, sent)
    BY <1>3 DEF UpdateSomeOrder
  <2>2. size \in Nat /\ trigger \in Nat
    BY InputTypes
  <2> QED
    BY <1>1, <2>1, <2>2, UpdateHistory
<1>4. ASSUME NEW k \in Requests, CancelOrder(k)
      PROVE  HInv'
  <2>1. /\ orders[k].exists /\ CancelTo(k, orders[k].account)
        /\ IsMarket(orders[k]) => RequestExpired(orders[k])
    BY <1>4 DEF CancelOrder
  <2> QED
    BY <1>1, <2>1, CancelHistory
<1>5. ASSUME NEW k \in Requests, NEW keeper \in OrderKeepers, NEW report \in Reports,
             \/ ExecuteOrder(k, keeper, report)
             \/ CancelOnError(k, keeper, report)
             \/ FreezeOnError(k, keeper, report)
      PROVE  HInv'
  <2>1. CASE ExecuteOrder(k, keeper, report)
    BY <1>1, <2>1, ExecuteHistory
  <2>2. CASE CancelOnError(k, keeper, report)
    <3>1. orders[k].exists /\ CancelTo(k, keeper)
      BY <2>2 DEF CancelOnError
    <3>2. keeper \notin Accounts
      BY OrdersAssumption
    <3> QED
      BY <1>1, <3>1, <3>2, CancelHistory
  <2>3. CASE FreezeOnError(k, keeper, report)
    BY <1>1, <2>3, FreezeHistory
  <2> QED
    BY <1>5, <2>1, <2>2, <2>3
<1>6. ASSUME NEW p \in PositionKeys, NEW report \in Reports, ExecuteLiquidation(p, report)
      PROVE  HInv'
  BY <1>1, <1>6, LiquidationHistory
<1>7. CASE \/ \E t \in Tokens : DirectTransfer(t)
           \/ \E f \in Features : SwitchFeature(f)
           \/ \E price \in Prices : NextBlock(price)
           \/ UNCHANGED vars
  BY <1>1, <1>7, AroundActionsHistory
<1> QED
  BY <1>2, <1>3, <1>4, <1>5, <1>6, <1>7 DEF Next

LEMMA HistoryInit ==
  ASSUME Init
  PROVE  HInv
<1>1. PICK p \in Prices : priceAt = <<p>>
  BY DEF Init
<1>2. Block >= 1
  BY <1>1 DEF Block
<1>3. \A k \in Requests :
        orders[k] = NoOrder /\ outcome[k] = NoOutcome /\ failed[k] = FALSE
  BY DEF Init
<1>4. Kept
  BY <1>3 DEF Kept, NoOrder
<1>5. Past
  BY <1>2, <1>3 DEF Past
<1>6. Tracked
  BY <1>3 DEF Tracked, NoOutcome
<1>7. Told
  BY <1>3 DEF Told, EndedWell, NoOutcome
<1>8. Exact
  <2>1. ASSUME NEW t \in Tokens
        PROVE  vault[t] = recorded[t] /\ vault[t] = OwedOf(orders, t)
    <3> DEFINE f == ColumnOf(orders, t)
    <3>1. \A k \in Requests : PledgedBy(orders[k])[t] = 0
      BY <1>3, NoOrderPledge DEF Nothing
    <3>2. f \in [1..MaxRequests -> Int] /\ \A i \in 1..MaxRequests : f[i] = 0
      BY <3>1 DEF ColumnOf, Requests
    <3> HIDE DEF f
    <3>3. MaxRequests \in Nat
      BY OrdersAssumption
    <3>4. SumTo(f, MaxRequests) = 0
      BY ONLY <3>2, <3>3, SumZero
    <3> QED
      BY <3>4 DEF Init, Nothing, OwedOf, f
  <2> QED
    BY <2>1 DEF Exact
<1> QED
  BY <1>4, <1>5, <1>6, <1>7, <1>8 DEF HInv

LEMMA AlwaysHistory == Spec => [](IInv /\ HInv)
<1>1. Init => IInv /\ HInv
  BY InitStep, HistoryInit
<1>2. IInv /\ HInv /\ [Next]_vars => (IInv /\ HInv)'
  BY EveryStep, HistoryStep DEF Correct
<1> QED
  BY <1>1, <1>2, PTL DEF Spec

-----------------------------------------------------------------------------
(***************************************************************************)
(* No token is left behind by an order: of a token that nobody donates,    *)
(* the vault has exactly what the open orders own.                         *)
(***************************************************************************)
THEOREM OrdersNothingStranded == Spec => []NothingStranded
<1>1. Exact => NothingStranded
  <2> SUFFICES ASSUME Exact, NEW t \in Tokens \ Donations
               PROVE  vault[t] = recorded[t] /\ vault[t] = Escrow!Owed(t)
    BY DEF NothingStranded
  <2>1. [k \in Requests |-> pledges[k][t]] = ColumnOf(orders, t)
    BY DEF pledges, ColumnOf
  <2>2. Escrow!Owed(t) = OwedOf(orders, t)
    <3>1. Escrow!Owed(t) = SumTo([k \in Requests |-> pledges[k][t]], MaxRequests)
      BY DEF Escrow!Owed, Escrow!SumTo, Escrow!PrefixSums, Escrow!Requests,
             SumTo, PrefixSums, Requests
    <3> QED
      BY <2>1, <3>1 DEF OwedOf
  <2> QED
    BY <2>2 DEF Exact
<1> QED
  BY <1>1, AlwaysHistory, PTL DEF HInv

(***************************************************************************)
(* Every fill is on prices that the terms in force when it was made admit. *)
(***************************************************************************)
THEOREM OrdersFilledOnCurrentTerms == Spec => []FilledOnCurrentTerms
<1>1. IInv /\ HInv => FilledOnCurrentTerms
  <2> SUFFICES ASSUME IInv, HInv, NEW k \in Requests, Executed(k)
               PROVE  LET f == outcome[k]
                      IN  IF IsMarket(f.order)
                          THEN f.lo <= termsAt[k] /\ termsAt[k] <= f.hi
                          ELSE /\ f.lo >= termsAt[k]
                               /\ f.order.orderType \in TriggerTypes =>
                                    \E b \in f.lo..f.hi : Triggered(f.order, b)
    BY DEF FilledOnCurrentTerms
  <2> DEFINE f == outcome[k]
  <2>1. FilledWell(f, termsAt[k], priceAt)
    BY DEF HInv, Told, EndedWell, Executed
  <2> HIDE DEF f
  <2>2. f.order.orderType \in TriggerTypes /\ (\E b \in f.lo..f.hi : TriggeredAt(f.order, priceAt[b]))
          => \E b \in f.lo..f.hi : Triggered(f.order, b)
    BY TriggeredMeans
  <2>3. IF IsMarket(f.order)
        THEN f.lo <= termsAt[k] /\ termsAt[k] <= f.hi
        ELSE /\ f.lo >= termsAt[k]
             /\ f.order.orderType \in TriggerTypes =>
                  \E b \in f.lo..f.hi : Triggered(f.order, b)
    BY <2>1, <2>2 DEF FilledWell
  <2> QED
    BY <2>3 DEF f
<1> QED
  BY <1>1, AlwaysHistory, PTL

(***************************************************************************)
(* An order that was frozen is retried by no keeper without the role.      *)
(***************************************************************************)
THEOREM OrdersRetriedByFrozenKeeper == Spec => []RetriedByFrozenKeeper
<1>1. Told => RetriedByFrozenKeeper
  BY DEF Told, EndedWell, RetriedByFrozenKeeper, Executed
<1> QED
  BY <1>1, AlwaysHistory, PTL DEF HInv

(***************************************************************************)
(* A market order is not withdrawn by its owner before its time.           *)
(***************************************************************************)
THEOREM OrdersOwnerWaits == Spec => []OwnerWaits
<1>1. Told => OwnerWaits
  BY DEF Told, EndedWell, OwnerWaits
<1> QED
  BY <1>1, AlwaysHistory, PTL DEF HInv

-----------------------------------------------------------------------------
(***************************************************************************)
(* Only an execution makes an outcome that says so, of the order it was.   *)
(***************************************************************************)
LEMMA ExecutedBy ==
  ASSUME TypeOK, [Next]_vars, NEW k \in Requests, outcome[k] = NoOutcome,
         outcome'[k].how = "executed"
  PROVE  \E keeper \in OrderKeepers, r \in Reports :
           /\ ExecuteOrder(k, keeper, r)
           /\ outcome'[k].order = orders[k] /\ outcome'[k].lo = r.lo
<1>1. outcome' # outcome
  BY DEF NoOutcome
<1>2. ASSUME NEW j \in Requests, NEW how, NEW by, NEW r, Leave(j, how, by, r)
      PROVE  j = k /\ how = "executed" /\ outcome'[k].order = orders[k] /\ outcome'[k].lo = r.lo
  <2> DEFINE c == [how |-> how, by |-> by, order |-> orders[j],
                   lo |-> r.lo, hi |-> r.hi, at |-> Block]
  <2>1. c.how = how /\ c.order = orders[j] /\ c.lo = r.lo
    OBVIOUS
  <2>2. outcome' = [outcome EXCEPT ![j] = c]
    BY <1>2 DEF Leave
  <2> HIDE DEF c
  <2>3. outcome'[k] = IF j = k THEN c ELSE outcome[k]
    BY <2>2 DEF TypeOK
  <2> QED
    BY <2>1, <2>3 DEF NoOutcome
<1>3. ASSUME NEW j \in Requests, NEW by, CancelTo(j, by)
      PROVE  FALSE
  BY <1>2, <1>3 DEF CancelTo
<1>4. ASSUME NEW j \in Requests, NEW keeper \in OrderKeepers, NEW r \in Reports,
             ExecuteOrder(j, keeper, r)
      PROVE  /\ ExecuteOrder(k, keeper, r)
             /\ outcome'[k].order = orders[k] /\ outcome'[k].lo = r.lo
  <2>1. Leave(j, "executed", keeper, r)
    BY <1>4 DEF ExecuteOrder
  <2>2. j = k /\ outcome'[k].order = orders[k] /\ outcome'[k].lo = r.lo
    BY <1>2, <2>1
  <2> QED
    BY <1>4, <2>2
<1>5. ~CreateSomeOrder
  <2>1. \A account, type, isLong, token, size, trigger, sent, passed :
          CreateOrder(account, type, isLong, token, size, trigger, sent, passed)
            => outcome' = outcome
    BY DEF CreateOrder
  <2> QED
    BY <1>1, <2>1 DEF CreateSomeOrder
<1>6. ASSUME NEW j \in Requests
      PROVE  /\ ~UpdateSomeOrder(j) /\ ~CancelOrder(j)
             /\ \A keeper \in OrderKeepers, r \in Reports :
                  ~CancelOnError(j, keeper, r) /\ ~FreezeOnError(j, keeper, r)
  <2>1. ~UpdateSomeOrder(j)
    BY <1>1 DEF UpdateSomeOrder, UpdateOrder
  <2>2. ~CancelOrder(j)
    BY <1>3 DEF CancelOrder
  <2>3. ASSUME NEW keeper \in OrderKeepers, NEW r \in Reports
        PROVE  ~CancelOnError(j, keeper, r) /\ ~FreezeOnError(j, keeper, r)
    <3>1. ~CancelOnError(j, keeper, r)
      BY <1>3 DEF CancelOnError
    <3>2. ~FreezeOnError(j, keeper, r)
      BY <1>1 DEF FreezeOnError
    <3> QED
      BY <3>1, <3>2
  <2> QED
    BY <2>1, <2>2, <2>3
<1>7. ~ \E p \in PositionKeys, r \in Reports : ExecuteLiquidation(p, r)
  BY <1>1 DEF ExecuteLiquidation, history
<1>8. ~(\/ \E t \in Tokens : DirectTransfer(t)
        \/ \E f \in Features : SwitchFeature(f)
        \/ \E price \in Prices : NextBlock(price)
        \/ UNCHANGED vars)
  BY <1>1 DEF DirectTransfer, SwitchFeature, NextBlock, vars, history
<1>9. \E j \in Requests, keeper \in OrderKeepers, r \in Reports : ExecuteOrder(j, keeper, r)
  BY <1>5, <1>6, <1>7, <1>8 DEF Next
<1> QED
  BY <1>4, <1>9

(***************************************************************************)
(* A position that is decreased by a trigger order is decreased on prices  *)
(* of after its last increase.                                             *)
(***************************************************************************)
THEOREM OrdersFilledAfterIncrease == Spec => FilledAfterIncrease
<1> DEFINE A == \A k, j \in Requests :
                  /\ outcome[k] = NoOutcome /\ Executed(k)'
                  /\ outcome'[k].order.orderType \in {"LimitDecrease", "StopLossDecrease"}
                  /\ Executed(j) /\ IsIncrease(outcome[j].order)
                  /\ PositionKey(outcome[j].order) = PositionKey(outcome'[k].order)
                  => outcome'[k].lo >= outcome[j].at
<1>1. IInv /\ HInv /\ [Next]_vars => A
  <2> SUFFICES ASSUME IInv, HInv, [Next]_vars, NEW k \in Requests, NEW j \in Requests,
                      outcome[k] = NoOutcome, Executed(k)',
                      outcome'[k].order.orderType \in {"LimitDecrease", "StopLossDecrease"},
                      Executed(j), IsIncrease(outcome[j].order),
                      PositionKey(outcome[j].order) = PositionKey(outcome'[k].order)
               PROVE  outcome'[k].lo >= outcome[j].at
    OBVIOUS
  <2>1. TypeOK /\ Past /\ Tracked
    BY DEF IInv, HInv
  <2>2. PICK keeper \in OrderKeepers, r \in Reports :
          /\ ExecuteOrder(k, keeper, r)
          /\ outcome'[k].order = orders[k] /\ outcome'[k].lo = r.lo
    <3>1. outcome'[k].how = "executed"
      BY DEF Executed
    <3> QED
      BY <2>1, <3>1, ExecutedBy
  <2> DEFINE o == orders[k]
             pos == PositionOf(o)
  <2>3. /\ o.exists /\ ValidBlocks(o, pos, r) /\ Fills(o) # {}
        /\ o.orderType \in {"LimitDecrease", "StopLossDecrease"}
    BY <2>2 DEF ExecuteOrder
  <2>4. /\ o \in OrderRecords /\ ~IsSwap(o) /\ ~IsIncrease(o) /\ IsDecrease(o) /\ ~IsMarket(o)
    BY <2>1, <2>3, OpenOrderType DEF IsSwap, IsIncrease, IsDecrease, IsMarket, SwapTypes,
       IncreaseTypes, DecreaseTypes, MarketTypes
  <2>5. pos.size # 0
    <3>1. Block \in 1..Block
      <4>1. Block \in Nat /\ Block >= 1
        BY <2>1, BlockType DEF Past
      <4> QED
        BY <4>1
    <3> QED
      BY <2>1, <2>3, <2>4, <3>1, FillsKnow
  <2>6. Knows(pos, outcome[j].at)
    BY <2>1, <2>2 DEF Tracked, Executed, PositionOf
  <2>7. r.lo >= pos.increasedAt /\ pos.increasedAt >= outcome[j].at
    BY <2>3, <2>4, <2>5, <2>6 DEF ValidBlocks, ValidDecreaseBlocks, Knows
  <2>8. r.lo \in Nat /\ pos.increasedAt \in Nat /\ outcome[j].at \in Nat
    <3>1. r.lo \in Nat
      BY <2>1, ReportType
    <3>2. pos.increasedAt \in Nat
      BY <2>1, <2>4 DEF PositionOf, PositionKey, PositionKeys, OrderRecords, TypeOK
    <3>3. outcome[j].at \in 1..Block
      BY <2>1 DEF Past, Executed, NoOutcome
    <3> QED
      BY <3>1, <3>2, <3>3
  <2> QED
    BY <2>2, <2>7, <2>8
<1>2. IInv /\ HInv /\ [Next]_vars => [A]_vars
  BY <1>1
<1>3. [][A]_vars => FilledAfterIncrease
  BY DEF FilledAfterIncrease
<1> HIDE DEF A
<1> QED
  BY <1>2, <1>3, AlwaysHistory, PTL DEF Spec

-----------------------------------------------------------------------------
(***************************************************************************)
(* An order that a step leaves in the store is changed by its owner, or    *)
(* frozen, or not at all.                                                  *)
(***************************************************************************)
LEMMA FrozenBy ==
  ASSUME IInv, [Next]_vars, NEW k \in Requests, orders[k].exists, orders'[k].exists,
         ~orders[k].isFrozen, orders'[k].isFrozen
  PROVE  \E keeper \in OrderKeepers, r \in Reports : FreezeOnError(k, keeper, r)
<1>1. TypeOK /\ orders' # orders
  BY DEF IInv
<1>2. ASSUME NEW j \in Requests, NEW how, NEW by, NEW r, Leave(j, how, by, r)
      PROVE  FALSE
  BY <1>1, <1>2 DEF Leave, TypeOK, NoOrder
<1>3. ~CreateSomeOrder
  <2> SUFFICES ASSUME NEW account, NEW type, NEW isLong, NEW token, NEW size,
                      NEW trigger, NEW sent, NEW passed,
                      CreateOrder(account, type, isLong, token, size, trigger, sent, passed)
               PROVE  FALSE
    BY DEF CreateSomeOrder
  <2> DEFINE o == [exists |-> TRUE, account |-> account, orderType |-> type,
                   isLong |-> isLong, token |-> token, sizeDelta |-> size,
                   collateral |-> NewCollateral(type, token, sent, passed),
                   fee |-> NewFee(type, token, sent, passed),
                   triggerPrice |-> trigger, updatedAt |-> Block, isFrozen |-> FALSE]
  <2>1. nonce + 1 \in Requests /\ orders' = [orders EXCEPT ![nonce + 1] = o]
    BY DEF CreateOrder
  <2>2. o.isFrozen = FALSE
    OBVIOUS
  <2> HIDE DEF o
  <2>3. orders'[k] = IF k = nonce + 1 THEN o ELSE orders[k]
    BY <1>1, <2>1 DEF TypeOK
  <2> QED
    BY <2>2, <2>3
<1>4. ASSUME NEW j \in Requests, UpdateSomeOrder(j)
      PROVE  FALSE
  <2>1. PICK size \in SizesFor(orders[j].orderType),
             trigger \in TriggersFor(orders[j].orderType), sent \in SentIn({Wnt}) :
          UpdateOrder(j, size, trigger, sent)
    BY <1>4 DEF UpdateSomeOrder
  <2> DEFINE fee == orders[j].fee + Received(sent, Wnt)
             a == Amended(orders[j], size, trigger, fee)
  <2>2. orders[j].exists /\ orders' = [orders EXCEPT ![j] = a]
    BY <2>1 DEF UpdateOrder
  <2> HIDE DEF fee
  <2>3. orders[j] \in OrderRecords
    BY <1>1, <2>2, OpenOrderType
  <2>4. a.isFrozen = FALSE
    BY <2>3 DEF Amended, OrderRecords
  <2> HIDE DEF a
  <2>5. orders'[k] = IF k = j THEN a ELSE orders[k]
    BY <1>1, <2>2 DEF TypeOK
  <2> QED
    BY <2>4, <2>5
<1>5. ASSUME NEW j \in Requests
      PROVE  /\ ~CancelOrder(j)
             /\ \A keeper \in OrderKeepers, r \in Reports :
                  ~CancelOnError(j, keeper, r) /\ ~ExecuteOrder(j, keeper, r)
  BY <1>2 DEF CancelOrder, CancelOnError, CancelTo, ExecuteOrder
<1>6. ~ \E p \in PositionKeys, r \in Reports : ExecuteLiquidation(p, r)
  BY <1>1 DEF ExecuteLiquidation
<1>7. ~(\/ \E t \in Tokens : DirectTransfer(t)
        \/ \E f \in Features : SwitchFeature(f)
        \/ \E price \in Prices : NextBlock(price)
        \/ UNCHANGED vars)
  BY <1>1 DEF DirectTransfer, SwitchFeature, NextBlock, vars
<1>8. PICK j \in Requests, keeper \in OrderKeepers, r \in Reports : FreezeOnError(j, keeper, r)
  BY <1>3, <1>4, <1>5, <1>6, <1>7 DEF Next
<1>9. j = k
  <2>1. orders' = [orders EXCEPT ![j] = Frozen(@)]
    BY <1>8 DEF FreezeOnError
  <2> QED
    BY <1>1, <2>1 DEF TypeOK
<1> QED
  BY <1>8, <1>9

(***************************************************************************)
(* The fee of a trigger decrease order is used up only on prices, of after *)
(* its last change, that fulfil its trigger.                               *)
(***************************************************************************)
THEOREM OrdersFrozenOnCurrentTerms == Spec => FrozenOnCurrentTerms
<1> DEFINE A == \A k \in Requests :
                  /\ AmpleGas /\ "market" \notin disabled
                  /\ orders[k].exists /\ orders'[k].exists
                  /\ ~orders[k].isFrozen /\ orders'[k].isFrozen
                  /\ orders[k].orderType \in {"LimitDecrease", "StopLossDecrease"}
                  => \E b \in 1..Block : b >= termsAt[k] /\ Triggered(orders[k], b)
<1>1. IInv /\ HInv /\ [Next]_vars => A
  <2> SUFFICES ASSUME IInv, HInv, [Next]_vars, NEW k \in Requests,
                      AmpleGas, "market" \notin disabled,
                      orders[k].exists, orders'[k].exists,
                      ~orders[k].isFrozen, orders'[k].isFrozen,
                      orders[k].orderType \in {"LimitDecrease", "StopLossDecrease"}
               PROVE  \E b \in 1..Block : b >= termsAt[k] /\ Triggered(orders[k], b)
    OBVIOUS
  <2> DEFINE o == orders[k]
  <2>1. TypeOK /\ Kept
    BY DEF IInv, HInv
  <2>2. PICK keeper \in OrderKeepers, r \in Reports : FreezeOnError(k, keeper, r)
    BY FrozenBy
  <2>3. /\ o \in OrderRecords /\ ~IsIncrease(o) /\ IsDecrease(o) /\ ~IsMarket(o)
        /\ o.orderType \in TriggerTypes
    BY <2>1, OpenOrderType DEF IsIncrease, IsDecrease, IsMarket, IncreaseTypes,
       DecreaseTypes, MarketTypes, TriggerTypes
  <2>4. "unfillable" \in CheckedFailures(o, keeper, r)
    BY <2>2 DEF FreezeOnError, FailureClasses
  <2>5. Admitted(o, keeper, r) /\ ValidBlocks(o, PositionOf(o), r)
    BY <2>3, <2>4 DEF CheckedFailures
  <2>6. r.lo >= o.updatedAt /\ o.updatedAt = termsAt[k] /\ termsAt[k] \in 1..Block
    BY <2>1, <2>3, <2>5 DEF ValidBlocks, ValidDecreaseBlocks, Kept
  <2>7. PICK b \in r.lo..r.hi : Triggered(o, b)
    BY <2>1, <2>3, <2>5, ValidTriggerFulfilled DEF Admitted
  <2>8. r.lo \in 1..Block /\ r.hi \in 1..Block /\ Block \in Nat
    BY <2>1, ReportBlocks, BlockType
  <2>9. b \in 1..Block /\ b >= termsAt[k]
    BY <2>6, <2>7, <2>8
  <2> QED
    BY <2>7, <2>9
<1>2. IInv /\ HInv /\ [Next]_vars => [A]_vars
  BY <1>1
<1>3. [][A]_vars => FrozenOnCurrentTerms
  BY DEF FrozenOnCurrentTerms
<1> HIDE DEF A
<1> QED
  BY <1>2, <1>3, AlwaysHistory, PTL DEF Spec

-----------------------------------------------------------------------------
(***************************************************************************)
(* What the vault holds for one order is part of what it owes to all.      *)
(***************************************************************************)
LEMMA OwesEach ==
  ASSUME TypeOK, NEW k \in Requests, NEW t \in Tokens
  PROVE  /\ PledgedBy(orders[k])[t] \in Nat /\ Escrow!Owed(t) \in Nat
         /\ PledgedBy(orders[k])[t] <= Escrow!Owed(t)
<1> DEFINE f == [j \in Requests |-> pledges[j][t]]
<1>1. \A j \in Requests : pledges[j] = PledgedBy(orders[j]) /\ pledges[j][t] \in Nat
  <2> SUFFICES ASSUME NEW j \in Requests
               PROVE  pledges[j] = PledgedBy(orders[j]) /\ pledges[j][t] \in Nat
    OBVIOUS
  <2>1. orders[j] \in OrderRecords \cup {NoOrder}
    BY DEF TypeOK
  <2>2. PledgedBy(orders[j]) \in [Tokens -> Nat]
    BY <2>1, PledgesType
  <2> QED
    BY <2>2 DEF pledges
<1>2. f \in [1..MaxRequests -> Nat] /\ f[k] = PledgedBy(orders[k])[t] /\ k \in 1..MaxRequests
  BY <1>1 DEF Requests
<1>3. Escrow!Owed(t) = SumTo(f, MaxRequests)
  BY DEF Escrow!Owed, Escrow!SumTo, Escrow!PrefixSums, Escrow!Requests,
         SumTo, PrefixSums, Requests
<1> HIDE DEF f
<1>4. SumTo(f, MaxRequests) \in Nat /\ f[k] <= SumTo(f, MaxRequests)
  BY <1>2, SumBoundsEntry, OrdersAssumption DEF OrdersAssumption
<1> QED
  BY <1>1, <1>2, <1>3, <1>4

(***************************************************************************)
(* The safety half of OwnerGetsOut.  No cancellation fails for want of     *)
(* tokens: the OrderVault can send back the collateral and the fee of any  *)
(* open order at any time, so that an owner who wants out waits for the    *)
(* feature flag and the age of a market order, and for nothing else.       *)
(***************************************************************************)
Refundable ==
  \A k \in Requests : orders[k].exists =>
    \A t \in Tokens : Plus(CollateralOf(orders[k]), FeeOf(orders[k]))[t] <= vault[t]

THEOREM OrdersRefundable == Spec => []Refundable
<1>1. TypeOK /\ Solvent => Refundable
  <2> SUFFICES ASSUME TypeOK, Solvent, NEW k \in Requests, orders[k].exists, NEW t \in Tokens
               PROVE  Plus(CollateralOf(orders[k]), FeeOf(orders[k]))[t] <= vault[t]
    BY DEF Refundable
  <2>1. PledgedBy(orders[k]) = Plus(CollateralOf(orders[k]), FeeOf(orders[k]))
    BY DEF PledgedBy
  <2>2. /\ PledgedBy(orders[k])[t] \in Nat /\ Escrow!Owed(t) \in Nat
        /\ PledgedBy(orders[k])[t] <= Escrow!Owed(t)
    BY OwesEach
  <2>3. recorded[t] >= Escrow!Owed(t) /\ vault[t] >= recorded[t]
    BY DEF Solvent, Escrow!Solvent
  <2>4. recorded[t] \in Nat /\ vault[t] \in Nat
    BY DEF TypeOK
  <2> QED
    BY <2>1, <2>2, <2>3, <2>4
<1> QED
  BY <1>1, OrdersTypeOK, OrdersSolvent, PTL

=============================================================================
