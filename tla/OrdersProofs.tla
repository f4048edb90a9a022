---------------------------- MODULE OrdersProofs ----------------------------
(***************************************************************************)
(* Theorems about Orders, for every value of its constants: its types, the *)
(* refinement of RequestEscrow, and so the solvency of the OrderVault.     *)
(***************************************************************************)
EXTENDS Orders, TLAPS

EscrowFacts == INSTANCE RequestEscrowProofs WITH
  open <- openOrders, held <- pledges, bank <- recorded, Quantities <- Nat

(***************************************************************************)
(* The inductive invariant: the types, and that the vault has what its     *)
(* books say.                                                              *)
(***************************************************************************)
Backed == \A t \in Tokens : vault[t] >= recorded[t]

IInv == TypeOK /\ Backed

-----------------------------------------------------------------------------
(***************************************************************************)
(* The ledger columns are functions from tokens to naturals.               *)
(***************************************************************************)
LEMMA NothingType == Nothing \in [Tokens -> Nat]
BY DEF Nothing

LEMMA PledgeTypes ==
  ASSUME NEW o \in OrderRecords
  PROVE  /\ CollateralOf(o) \in [Tokens -> Nat]
         /\ FeeOf(o) \in [Tokens -> Nat]
         /\ PledgedBy(o) \in [Tokens -> Nat]
         /\ PledgedBy(o) = Plus(CollateralOf(o), FeeOf(o))
<1>1. o.exists = TRUE /\ o.collateral \in Nat /\ o.fee \in Nat
  BY DEF OrderRecords
<1>2. CollateralOf(o) \in [Tokens -> Nat] /\ FeeOf(o) \in [Tokens -> Nat]
  BY <1>1 DEF CollateralOf, FeeOf
<1>3. Plus(CollateralOf(o), FeeOf(o)) \in [Tokens -> Nat]
  BY <1>2 DEF Plus
<1>4. QED
  BY <1>1, <1>2, <1>3 DEF PledgedBy

LEMMA NoOrderPledge == PledgedBy(NoOrder) = Nothing
BY DEF PledgedBy, NoOrder

(***************************************************************************)
(* An open order is a full record.                                         *)
(***************************************************************************)
LEMMA OpenOrderType ==
  ASSUME TypeOK, NEW k \in Requests, orders[k].exists
  PROVE  orders[k] \in OrderRecords /\ k \in 1..nonce
<1>1. orders[k] \in OrderRecords \cup {NoOrder}
  BY DEF TypeOK
<1>2. orders[k] # NoOrder
  BY DEF NoOrder
<1>3. k \in 1..nonce
  BY DEF TypeOK, Requests
<1>4. QED
  BY <1>1, <1>2, <1>3

LEMMA PledgesType ==
  ASSUME NEW o \in OrderRecords \cup {NoOrder}
  PROVE  PledgedBy(o) \in [Tokens -> Nat]
BY PledgeTypes, NoOrderPledge, NothingType

(***************************************************************************)
(* What TakeIn does to the books.                                          *)
(***************************************************************************)
LEMMA TakeInBooks ==
  ASSUME IInv, NEW sent \in [Tokens -> Nat], NEW booked, TakeIn(sent, booked)
  PROVE  /\ vault' \in [Tokens -> Nat]
         /\ outside' \in [Tokens -> Nat]
         /\ recorded' \in [Tokens -> Nat]
         /\ Backed'
         /\ \A t \in Tokens : /\ Received(sent, t) \in Nat
                              /\ recorded'[t] >= recorded[t]
                              /\ t \in booked =>
                                   recorded'[t] = recorded[t] + Received(sent, t)
<1>1. /\ vault \in [Tokens -> Nat] /\ recorded \in [Tokens -> Nat]
      /\ outside \in [Tokens -> Nat]
      /\ \A t \in Tokens : vault[t] >= recorded[t]
  BY DEF IInv, TypeOK, Backed
<1>2. vault' = [t \in Tokens |-> vault[t] + sent[t]]
  BY DEF TakeIn, Plus
<1>3. outside' = [t \in Tokens |-> outside[t] - sent[t]]
      /\ \A t \in Tokens : sent[t] <= outside[t]
  BY DEF TakeIn
<1>4. recorded' = [t \in Tokens |-> IF t \in booked THEN vault'[t] ELSE recorded[t]]
  BY DEF TakeIn
<1>5. \A t \in Tokens : vault'[t] \in Nat /\ outside'[t] \in Nat /\ recorded'[t] \in Nat
  BY <1>1, <1>2, <1>3, <1>4
<1>6. /\ vault' \in [Tokens -> Nat] /\ outside' \in [Tokens -> Nat]
      /\ recorded' \in [Tokens -> Nat]
  BY <1>2, <1>3, <1>4, <1>5
<1>7. ASSUME NEW t \in Tokens
      PROVE  /\ Received(sent, t) \in Nat
             /\ recorded'[t] >= recorded[t]
             /\ vault'[t] >= recorded'[t]
             /\ t \in booked => recorded'[t] = recorded[t] + Received(sent, t)
  BY <1>1, <1>2, <1>4 DEF Received
<1>8. QED
  BY <1>6, <1>7 DEF Backed

(***************************************************************************)
(* What PayOut does to the books, if it books what it pays.                *)
(***************************************************************************)
LEMMA PayOutBooks ==
  ASSUME IInv, NEW amount \in [Tokens -> Nat], NEW booked, PayOut(amount, booked),
         \A t \in Tokens : t \notin booked => amount[t] = 0
  PROVE  /\ vault' \in [Tokens -> Nat]
         /\ outside' \in [Tokens -> Nat]
         /\ recorded' \in [Tokens -> Nat]
         /\ Backed'
         /\ \A t \in Tokens : recorded'[t] >= recorded[t] - amount[t]
<1>1. /\ vault \in [Tokens -> Nat] /\ recorded \in [Tokens -> Nat]
      /\ outside \in [Tokens -> Nat]
      /\ \A t \in Tokens : vault[t] >= recorded[t]
  BY DEF IInv, TypeOK, Backed
<1>2. vault' = [t \in Tokens |-> vault[t] - amount[t]]
      /\ \A t \in Tokens : amount[t] <= vault[t]
  BY DEF PayOut
<1>3. outside' = [t \in Tokens |-> outside[t] + amount[t]]
  BY DEF PayOut, Plus
<1>4. recorded' = [t \in Tokens |-> IF t \in booked THEN vault'[t] ELSE recorded[t]]
  BY DEF PayOut
<1>5. \A t \in Tokens : vault'[t] \in Nat /\ outside'[t] \in Nat /\ recorded'[t] \in Nat
  BY <1>1, <1>2, <1>3, <1>4
<1>6. /\ vault' \in [Tokens -> Nat] /\ outside' \in [Tokens -> Nat]
      /\ recorded' \in [Tokens -> Nat]
  BY <1>2, <1>3, <1>4, <1>5
<1>7. ASSUME NEW t \in Tokens
      PROVE  recorded'[t] >= recorded[t] - amount[t] /\ vault'[t] >= recorded'[t]
  BY <1>1, <1>2, <1>4
<1>8. QED
  BY <1>6, <1>7 DEF Backed

LEMMA SettleBooks ==
  ASSUME IInv, NEW o \in OrderRecords, SettleTokens(o)
  PROVE  /\ vault' \in [Tokens -> Nat]
         /\ outside' \in [Tokens -> Nat]
         /\ recorded' \in [Tokens -> Nat]
         /\ Backed'
         /\ \A t \in Tokens : recorded'[t] >= recorded[t] - PledgedBy(o)[t]
<1> DEFINE booked == {Wnt} \cup (IF HoldsCollateral(o) /\ o.collateral > 0
                                 THEN {o.token} ELSE {})
           amount == Plus(CollateralOf(o), FeeOf(o))
<1>1. amount = PledgedBy(o) /\ amount \in [Tokens -> Nat]
  BY PledgeTypes
<1>2. PayOut(amount, booked)
  BY DEF SettleTokens
<1>3. ASSUME NEW t \in Tokens, t \notin booked
      PROVE  amount[t] = 0
  <2>1. FeeOf(o)[t] = 0
    BY <1>3 DEF FeeOf
  <2>2. CollateralOf(o)[t] = 0
    BY <1>3 DEF CollateralOf, OrderRecords
  <2>3. QED
    BY <2>1, <2>2 DEF Plus
<1> HIDE DEF booked, amount
<1>4. QED
  BY <1>1, <1>2, <1>3, PayOutBooks

-----------------------------------------------------------------------------
(***************************************************************************)
(* How a step on one order shows in the abstract ledger.                   *)
(***************************************************************************)
LEMMA StepRebooks ==
  ASSUME TypeOK, TypeOK', NEW k \in Requests, NEW o,
         orders' = [orders EXCEPT ![k] = o],
         \A t \in Tokens :
           recorded'[t] >= recorded[t] + PledgedBy(o)[t] - PledgedBy(orders[k])[t]
  PROVE  /\ Escrow!Rebook(k)
         /\ pledges'[k] = PledgedBy(o)
         /\ openOrders' = IF o.exists THEN openOrders \cup {k} ELSE openOrders \ {k}
<1>1. orders' = [j \in Requests |-> IF j = k THEN o ELSE orders[j]]
  BY DEF TypeOK
<1>2. \A j \in Requests : PledgedBy(orders'[j]) \in [Tokens -> Nat]
  <2>1. \A j \in Requests : orders'[j] \in OrderRecords \cup {NoOrder}
    BY DEF TypeOK
  <2>2. QED
    BY <2>1, PledgesType
<1>3. pledges' = [j \in Requests |-> PledgedBy(orders'[j])]
      /\ pledges' \in [Requests -> [Tokens -> Nat]]
  BY <1>2 DEF pledges
<1>4. \A j \in Requests : pledges[j] = PledgedBy(orders[j])
  BY DEF pledges
<1>5. pledges'[k] = PledgedBy(o) /\ \A j \in Requests \ {k} : pledges'[j] = pledges[j]
  BY <1>1, <1>3, <1>4
<1>6. recorded' \in [Tokens -> Nat]
  BY DEF TypeOK
<1>7. \A t \in Tokens : recorded'[t] >= recorded[t] + pledges'[k][t] - pledges[k][t]
  BY <1>4, <1>5
<1>8. Escrow!Rebook(k)
  BY <1>3, <1>5, <1>6, <1>7 DEF Escrow!Rebook, Escrow!Requests, Requests
<1>9. openOrders' = IF o.exists THEN openOrders \cup {k} ELSE openOrders \ {k}
  BY <1>1 DEF openOrders
<1>10. QED
  BY <1>5, <1>8, <1>9

(***************************************************************************)
(* What every step has to establish.                                       *)
(***************************************************************************)
Correct == IInv' /\ [Escrow!Next]_(Escrow!vars)

LEMMA BlockType == ASSUME TypeOK PROVE Block \in Nat
BY DEF TypeOK, Block

-----------------------------------------------------------------------------
(***************************************************************************)
(* Requests of owners.                                                     *)
(***************************************************************************)

(***************************************************************************)
(* The two amounts of a new order are together what the vault's books have *)
(* risen by, when the collateral is Wnt and is split, and when it is not.  *)
(***************************************************************************)
LEMMA NewOrderIsCovered ==
  ASSUME IInv, NEW o \in OrderRecords, NEW sent \in [Tokens -> Nat], NEW passed,
         passed.fee \in Nat, passed.collateral \in Nat,
         o.collateral = NewCollateral(o.orderType, o.token, sent, passed),
         o.fee = NewFee(o.orderType, o.token, sent, passed),
         TakeIn(sent, {Wnt} \cup (IF HoldsCollateral(o) THEN {o.token} ELSE {})),
         NEW t \in Tokens
  PROVE  recorded'[t] >= recorded[t] + PledgedBy(o)[t]
<1> DEFINE booked == {Wnt} \cup (IF HoldsCollateral(o) THEN {o.token} ELSE {})
<1>1. /\ Received(sent, t) \in Nat
      /\ recorded'[t] >= recorded[t]
      /\ t \in booked => recorded'[t] = recorded[t] + Received(sent, t)
  BY TakeInBooks
<1>2. o.orderType \in SwapTypes \cup IncreaseTypes \cup DecreaseTypes /\ o.token \in Tokens
  BY OrdersAssumption DEF OrderRecords
<1>3. HoldsCollateral(o) <=> o.orderType \notin DecreaseTypes
  BY <1>2 DEF HoldsCollateral, IsSwap, IsIncrease, SwapTypes, IncreaseTypes, DecreaseTypes
<1>4. PledgedBy(o)[t] = CollateralOf(o)[t] + FeeOf(o)[t]
  BY PledgeTypes DEF Plus
<1>5. recorded[t] \in Nat /\ recorded'[t] \in Nat /\ o.fee \in Nat /\ o.collateral \in Nat
  BY TakeInBooks DEF IInv, TypeOK, OrderRecords
<1>6. CASE ~HoldsCollateral(o)
  <2>1. CollateralOf(o)[t] = 0
    BY <1>6 DEF CollateralOf
  <2>2. o.fee = Received(sent, Wnt)
    BY <1>3, <1>6 DEF NewFee, FeeFromCollateral, SwapTypes, IncreaseTypes, DecreaseTypes
  <2>3. QED
    BY <1>1, <1>4, <1>5, <2>1, <2>2 DEF FeeOf
<1>7. CASE HoldsCollateral(o) /\ o.token = Wnt
  <2>1. o.orderType \in SwapTypes \cup IncreaseTypes
    BY <1>2, <1>3, <1>7
  <2>2. o.collateral = Received(sent, Wnt) - passed.fee /\ o.fee = passed.fee
    BY <1>3, <1>7, <2>1 DEF NewFee, NewCollateral, FeeFromCollateral
  <2>3. QED
    BY <1>1, <1>4, <1>5, <1>7, <2>2 DEF FeeOf, CollateralOf
<1>8. CASE HoldsCollateral(o) /\ o.token # Wnt
  <2>1. o.collateral = Received(sent, o.token) /\ o.fee = Received(sent, Wnt)
    BY <1>3, <1>8 DEF NewFee, NewCollateral, FeeFromCollateral
  <2>2. QED
    BY <1>1, <1>4, <1>5, <1>8, <2>1 DEF FeeOf, CollateralOf
<1>9. QED
  BY <1>6, <1>7, <1>8

LEMMA CreateStep ==
  ASSUME IInv, NEW account \in Accounts, NEW type \in OrderTypes, NEW isLong \in Sides,
         NEW token \in Tokens, NEW size \in Nat, NEW trigger \in Nat,
         NEW sent \in [Tokens -> Nat], NEW passed,
         passed.fee \in Nat, passed.collateral \in Nat,
         CreateOrder(account, type, isLong, token, size, trigger, sent, passed)
  PROVE  Correct
<1> DEFINE k == nonce + 1
           o == [exists |-> TRUE, account |-> account, orderType |-> type,
                 isLong |-> isLong, token |-> token, sizeDelta |-> size,
                 collateral |-> NewCollateral(type, token, sent, passed),
                 fee |-> NewFee(type, token, sent, passed),
                 triggerPrice |-> trigger, updatedAt |-> Block, isFrozen |-> FALSE]
           booked == {Wnt} \cup (IF HoldsCollateral(o) THEN {token} ELSE {})
<1>1. /\ k \in Requests /\ nonce' = k /\ TakeIn(sent, booked)
      /\ orders' = [orders EXCEPT ![k] = o]
      /\ termsAt' = [termsAt EXCEPT ![k] = Block]
      /\ UNCHANGED <<priceAt, positions, disabled, outcome, failed>>
      /\ Received(sent, IF FeeFromCollateral(type, token) THEN token ELSE Wnt) >= passed.fee
  BY DEF CreateOrder
<1>2. /\ vault' \in [Tokens -> Nat] /\ outside' \in [Tokens -> Nat]
      /\ recorded' \in [Tokens -> Nat] /\ Backed'
      /\ \A t \in Tokens : Received(sent, t) \in Nat
  <2> HIDE DEF booked
  <2>1. QED
    BY <1>1, TakeInBooks
<1>3. NewFee(type, token, sent, passed) \in Nat
  BY <1>2, OrdersAssumption DEF NewFee
<1>4. NewCollateral(type, token, sent, passed) \in Nat
  <2>1. CASE type \in DecreaseTypes
    BY <2>1 DEF NewCollateral
  <2>2. CASE type \notin DecreaseTypes /\ token = Wnt
    <3>1. type \in SwapTypes \cup IncreaseTypes
      BY <2>2, OrdersAssumption
    <3>2. Received(sent, Wnt) >= passed.fee
      BY <1>1, <2>2, <3>1 DEF FeeFromCollateral
    <3>3. QED
      BY <1>2, <2>2, <3>2 DEF NewCollateral
  <2>3. CASE type \notin DecreaseTypes /\ token # Wnt
    BY <1>2, <2>3 DEF NewCollateral
  <2>4. QED
    BY <2>1, <2>2, <2>3
<1>5. o \in OrderRecords
  BY <1>3, <1>4, BlockType DEF OrderRecords, IInv
<1>6. /\ o.exists /\ o.orderType = type /\ o.token = token
      /\ o.collateral = NewCollateral(type, token, sent, passed)
      /\ o.fee = NewFee(type, token, sent, passed)
  OBVIOUS
<1> HIDE DEF o
<1>7. \A t \in Tokens : recorded'[t] >= recorded[t] + PledgedBy(o)[t]
  BY <1>1, <1>5, <1>6, NewOrderIsCovered
<1>8. orders[k] = NoOrder
  <2>1. ~orders[k].exists
    BY <1>1 DEF IInv, TypeOK
  <2>2. orders[k] \in OrderRecords \cup {NoOrder}
    BY <1>1 DEF IInv, TypeOK
  <2>3. \A r \in OrderRecords : r.exists
    BY DEF OrderRecords
  <2>4. QED
    BY <2>1, <2>2, <2>3
<1>9. TypeOK'
  <2>1. /\ orders' \in [Requests -> OrderRecords \cup {NoOrder}]
        /\ termsAt' \in [Requests -> Nat]
    BY <1>1, <1>5, BlockType DEF IInv, TypeOK
  <2>2. nonce' \in 0..MaxRequests /\ nonce' >= nonce
    BY <1>1 DEF IInv, TypeOK, Requests
  <2>3. \A j \in Requests : orders'[j].exists => j <= nonce'
    BY <1>1, <2>2 DEF IInv, TypeOK, Requests
  <2>4. QED
    BY <1>1, <1>2, <2>1, <2>2, <2>3 DEF IInv, TypeOK
<1>10. \A t \in Tokens :
         recorded'[t] >= recorded[t] + PledgedBy(o)[t] - PledgedBy(orders[k])[t]
  <2>1. ASSUME NEW t \in Tokens
        PROVE  recorded'[t] >= recorded[t] + PledgedBy(o)[t] - PledgedBy(orders[k])[t]
    <3>1. PledgedBy(orders[k])[t] = 0
      BY <1>8, NoOrderPledge DEF Nothing
    <3>2. PledgedBy(o)[t] \in Nat /\ recorded[t] \in Nat
      BY <1>5, PledgeTypes DEF IInv, TypeOK
    <3>3. QED
      BY <1>7, <3>1, <3>2
  <2>2. QED
    BY <2>1
<1>11. Escrow!Rebook(k) /\ openOrders' = openOrders \cup {k}
  BY <1>1, <1>6, <1>9, <1>10, StepRebooks DEF IInv
<1>12. Escrow!Open(k)
  BY <1>1, <1>11 DEF Escrow!Open
<1>13. Escrow!Next
  BY <1>1, <1>12 DEF Escrow!Next, Escrow!Requests, Requests
<1>14. QED
  BY <1>2, <1>9, <1>13 DEF Correct, IInv

LEMMA AmendedType ==
  ASSUME NEW o \in OrderRecords, NEW size \in Nat, NEW trigger \in Nat,
         NEW fee \in Nat, TypeOK
  PROVE  /\ Amended(o, size, trigger, fee) \in OrderRecords
         /\ CollateralOf(Amended(o, size, trigger, fee)) = CollateralOf(o)
         /\ Amended(o, size, trigger, fee).fee = fee
         /\ Amended(o, size, trigger, fee).exists
<1> DEFINE a == Amended(o, size, trigger, fee)
<1>1. /\ a.orderType = o.orderType /\ a.token = o.token
      /\ a.collateral = o.collateral /\ a.fee = fee /\ a.exists
  BY DEF Amended, OrderRecords
<1>2. a \in OrderRecords
  BY BlockType DEF Amended, OrderRecords
<1> HIDE DEF a
<1>3. CollateralOf(a) = CollateralOf(o)
  BY <1>1 DEF CollateralOf, HoldsCollateral, IsSwap, IsIncrease
<1>4. QED
  BY <1>1, <1>2, <1>3 DEF a

LEMMA UpdateStep ==
  ASSUME IInv, NEW k \in Requests, NEW size \in Nat, NEW trigger \in Nat,
         NEW sent \in [Tokens -> Nat], UpdateOrder(k, size, trigger, sent)
  PROVE  Correct
<1> DEFINE o == orders[k]
           fee == o.fee + Received(sent, Wnt)
           a == Amended(o, size, trigger, fee)
<1>1. /\ o.exists /\ TakeIn(sent, {Wnt})
      /\ orders' = [orders EXCEPT ![k] = a]
      /\ termsAt' = [termsAt EXCEPT ![k] = Block]
      /\ failed' = [failed EXCEPT ![k] = FALSE]
      /\ UNCHANGED <<priceAt, nonce, positions, disabled, outcome>>
  BY DEF UpdateOrder
<1>2. /\ vault' \in [Tokens -> Nat] /\ outside' \in [Tokens -> Nat]
      /\ recorded' \in [Tokens -> Nat] /\ Backed'
      /\ Received(sent, Wnt) \in Nat
      /\ \A t \in Tokens : recorded'[t] >= recorded[t]
      /\ recorded'[Wnt] = recorded[Wnt] + Received(sent, Wnt)
  BY <1>1, TakeInBooks, OrdersAssumption
<1>3. o \in OrderRecords
  BY <1>1, OpenOrderType DEF IInv
<1> HIDE DEF o
<1>4. /\ a \in OrderRecords /\ a.exists
      /\ CollateralOf(a) = CollateralOf(o)
      /\ a.fee = o.fee + Received(sent, Wnt)
  <2>1. fee \in Nat
    BY <1>2, <1>3 DEF OrderRecords
  <2>2. TypeOK
    BY DEF IInv
  <2>3. fee = o.fee + Received(sent, Wnt)
    OBVIOUS
  <2> HIDE DEF fee
  <2>4. a \in OrderRecords /\ CollateralOf(a) = CollateralOf(o) /\ a.fee = fee /\ a.exists
    BY <2>1, <2>2, <1>3, AmendedType
  <2>5. QED
    BY <2>3, <2>4
<1> HIDE DEF a
<1>5. TypeOK'
  <2>1. /\ orders' \in [Requests -> OrderRecords \cup {NoOrder}]
        /\ termsAt' \in [Requests -> Nat]
        /\ failed' \in [Requests -> BOOLEAN]
    BY <1>1, <1>4, BlockType DEF IInv, TypeOK
  <2>2. \A j \in Requests : orders'[j].exists => j <= nonce'
    BY <1>1, <1>4 DEF IInv, TypeOK, Requests, o
  <2>3. QED
    BY <1>1, <1>2, <2>1, <2>2 DEF IInv, TypeOK
<1>6. ASSUME NEW t \in Tokens
      PROVE  recorded'[t] >= recorded[t] + PledgedBy(a)[t] - PledgedBy(o)[t]
  <2>1. /\ PledgedBy(a)[t] = CollateralOf(o)[t] + FeeOf(a)[t]
        /\ PledgedBy(o)[t] = CollateralOf(o)[t] + FeeOf(o)[t]
        /\ CollateralOf(o)[t] \in Nat /\ FeeOf(a)[t] \in Nat /\ FeeOf(o)[t] \in Nat
    BY <1>3, <1>4, PledgeTypes DEF Plus
  <2>2. o.fee \in Nat /\ recorded[t] \in Nat /\ recorded'[t] \in Nat
    BY <1>2, <1>3 DEF OrderRecords, IInv, TypeOK
  <2>3. FeeOf(a)[t] - FeeOf(o)[t] = IF t = Wnt THEN Received(sent, Wnt) ELSE 0
    BY <1>2, <1>4, <2>2 DEF FeeOf
  <2>4. QED
    BY <1>2, <2>1, <2>2, <2>3
<1>7. /\ Escrow!Rebook(k)
      /\ openOrders' = openOrders
  <2>1. Escrow!Rebook(k) /\ openOrders' = openOrders \cup {k}
    BY <1>1, <1>4, <1>5, <1>6, StepRebooks DEF IInv, o
  <2>2. k \in openOrders
    BY <1>1 DEF openOrders, o
  <2>3. QED
    BY <2>1, <2>2
<1>8. Escrow!Amend(k)
  BY <1>1, <1>7 DEF Escrow!Amend, openOrders, o
<1>9. QED
  BY <1>2, <1>5, <1>8 DEF Correct, IInv, Escrow!Next, Escrow!Requests, Requests

-----------------------------------------------------------------------------
(***************************************************************************)
(* Orders that leave the store.                                            *)
(***************************************************************************)

(***************************************************************************)
(* Whatever ends an order settles its tokens and closes its request; only  *)
(* an execution changes a position too.                                    *)
(***************************************************************************)
LEMMA LeaveStep ==
  ASSUME IInv, NEW k \in Requests, orders[k].exists, SettleTokens(orders[k]),
         NEW how \in {"executed", "cancelled"}, NEW by \in Accounts \cup OrderKeepers,
         NEW report, report.lo \in Nat, report.hi \in Nat,
         Leave(k, how, by, report),
         positions' \in [PositionKeys -> [size: Nat, increasedAt: Nat, decreasedAt: Nat]],
         UNCHANGED <<priceAt, nonce, disabled, termsAt, failed>>
  PROVE  Correct
<1> DEFINE o == orders[k]
           c == [how |-> how, by |-> by, order |-> o, lo |-> report.lo,
                 hi |-> report.hi, at |-> Block]
<1>1. o \in OrderRecords /\ TypeOK
  BY OpenOrderType DEF IInv
<1>2. /\ orders' = [orders EXCEPT ![k] = NoOrder]
      /\ outcome' = [outcome EXCEPT ![k] = c]
  BY DEF Leave
<1>3. c \in Outcomes
  BY <1>1, BlockType DEF Outcomes
<1> HIDE DEF c
<1>4. /\ vault' \in [Tokens -> Nat] /\ outside' \in [Tokens -> Nat]
      /\ recorded' \in [Tokens -> Nat] /\ Backed'
      /\ \A t \in Tokens : recorded'[t] >= recorded[t] - PledgedBy(o)[t]
  BY <1>1, SettleBooks
<1>5. TypeOK'
  <2>1. /\ orders' \in [Requests -> OrderRecords \cup {NoOrder}]
        /\ outcome' \in [Requests -> Outcomes \cup {NoOutcome}]
    BY <1>1, <1>2, <1>3 DEF TypeOK
  <2>2. \A j \in Requests : orders'[j].exists => j <= nonce'
    BY <1>1, <1>2 DEF TypeOK, NoOrder
  <2>3. QED
    BY <1>1, <1>4, <2>1, <2>2 DEF TypeOK
<1>6. ASSUME NEW t \in Tokens
      PROVE  recorded'[t] >= recorded[t] + PledgedBy(NoOrder)[t] - PledgedBy(o)[t]
  <2>1. PledgedBy(NoOrder)[t] = 0
    BY NoOrderPledge DEF Nothing
  <2>2. PledgedBy(o)[t] \in Nat /\ recorded[t] \in Nat
    BY <1>1, PledgeTypes DEF TypeOK
  <2>3. QED
    BY <1>4, <2>1, <2>2
<1>7. /\ Escrow!Rebook(k) /\ pledges'[k] = Nothing
      /\ openOrders' = openOrders \ {k}
  <2>1. orders' = [orders EXCEPT ![k] = NoOrder]
    BY <1>2
  <2>2. \A t \in Tokens :
          recorded'[t] >= recorded[t] + PledgedBy(NoOrder)[t] - PledgedBy(orders[k])[t]
    BY <1>6
  <2>3. /\ Escrow!Rebook(k) /\ pledges'[k] = PledgedBy(NoOrder)
        /\ openOrders' = IF NoOrder.exists THEN openOrders \cup {k} ELSE openOrders \ {k}
    BY <1>1, <1>5, <2>1, <2>2, StepRebooks
  <2>4. ~NoOrder.exists
    BY DEF NoOrder
  <2>5. QED
    BY <2>3, <2>4, NoOrderPledge
<1>8. Escrow!Close(k)
  BY <1>7 DEF Escrow!Close, Escrow!Nothing, Nothing, openOrders
<1>9. QED
  BY <1>4, <1>5, <1>8 DEF Correct, IInv, Escrow!Next, Escrow!Requests, Requests

LEMMA CancelToStep ==
  ASSUME IInv, NEW k \in Requests, orders[k].exists,
         NEW by \in Accounts \cup OrderKeepers, CancelTo(k, by)
  PROVE  Correct
<1> DEFINE report == [lo |-> Block, hi |-> Block]
<1>1. report.lo \in Nat /\ report.hi \in Nat
  BY BlockType DEF IInv
<1>2. SettleTokens(orders[k]) /\ Leave(k, "cancelled", by, report)
  BY DEF CancelTo
<1>3. UNCHANGED <<priceAt, nonce, positions, disabled, termsAt, failed>>
  BY DEF CancelTo
<1>4. positions' \in [PositionKeys -> [size: Nat, increasedAt: Nat, decreasedAt: Nat]]
  BY <1>3 DEF IInv, TypeOK
<1> HIDE DEF report
<1>5. QED
  BY <1>1, <1>2, <1>3, <1>4, LeaveStep

(***************************************************************************)
(* A fill leads to a well-typed position: a decrease never takes more than *)
(* the position has.                                                       *)
(***************************************************************************)
LEMMA FillsType ==
  ASSUME TypeOK, NEW o \in OrderRecords, ~IsSwap(o), NEW pos \in Fills(o)
  PROVE  /\ PositionKey(o) \in PositionKeys
         /\ pos \in [size: Nat, increasedAt: Nat, decreasedAt: Nat]
<1> DEFINE P == [size: Nat, increasedAt: Nat, decreasedAt: Nat]
           old == PositionOf(o)
<1>1. PositionKey(o) \in PositionKeys
  BY DEF PositionKey, PositionKeys, OrderRecords
<1>2. old \in P
  BY <1>1 DEF PositionOf, TypeOK
<1>3. EmptyPosition \in P
  BY DEF EmptyPosition
<1>4. o.sizeDelta \in Nat
  BY DEF OrderRecords
<1>5. Block \in Nat
  BY BlockType
<1> HIDE DEF old
<1>6. CASE IsIncrease(o)
  <2>1. pos \in IncreaseFills(o, old)
    BY <1>6 DEF Fills, old
  <2> DEFINE grown == old.size + o.sizeDelta
  <2>2. grown \in Nat /\ pos = [old EXCEPT !.size = grown, !.increasedAt = Block]
    BY <1>2, <1>4, <2>1 DEF IncreaseFills
  <2> HIDE DEF grown
  <2>3. QED
    BY <1>1, <1>2, <1>5, <2>2
<1>7. CASE ~IsIncrease(o)
  <2>1. pos \in DecreaseFills(o, old)  \/ pos = EmptyPosition
    BY <1>7 DEF Fills, old
  <2>2. CASE pos = EmptyPosition
    BY <1>1, <1>3, <2>2
  <2>3. CASE pos \in DecreaseFills(o, old) /\ pos # EmptyPosition
    <3>1. PICK left \in SizesLeft(o, old.size) :
            pos = [old EXCEPT !.size = left, !.decreasedAt = Block]
      BY <2>3 DEF DecreaseFills
    <3>2. left \in Nat
      BY <1>2, <1>4, <3>1 DEF SizesLeft
    <3>3. QED
      BY <1>1, <1>2, <1>5, <3>1, <3>2
  <2>4. QED
    BY <2>1, <2>2, <2>3
<1>8. QED
  BY <1>6, <1>7

LEMMA ReportType ==
  ASSUME TypeOK, NEW report \in Reports
  PROVE  report.lo \in Nat /\ report.hi \in Nat
BY DEF Reports

LEMMA ExecuteStep ==
  ASSUME IInv, NEW k \in Requests, NEW keeper \in OrderKeepers, NEW report \in Reports,
         ExecuteOrder(k, keeper, report)
  PROVE  Correct
<1> DEFINE o == orders[k]
<1>1. /\ o.exists /\ SettleTokens(o) /\ Leave(k, "executed", keeper, report)
      /\ UNCHANGED <<priceAt, nonce, disabled, termsAt, failed>>
  BY DEF ExecuteOrder
<1>2. PICK pos \in Fills(o) :
        positions' = IF IsSwap(o) THEN positions
                     ELSE [positions EXCEPT ![PositionKey(o)] = pos]
  BY DEF ExecuteOrder
<1>3. o \in OrderRecords /\ TypeOK
  BY <1>1, OpenOrderType DEF IInv
<1>4. positions' \in [PositionKeys -> [size: Nat, increasedAt: Nat, decreasedAt: Nat]]
  <2>1. CASE IsSwap(o)
    BY <1>2, <1>3, <2>1 DEF TypeOK
  <2>2. CASE ~IsSwap(o)
    BY <1>2, <1>3, <2>2, FillsType DEF TypeOK
  <2>3. QED
    BY <2>1, <2>2
<1>5. report.lo \in Nat /\ report.hi \in Nat
  BY <1>3, ReportType
<1>6. QED
  BY <1>1, <1>4, <1>5, LeaveStep

-----------------------------------------------------------------------------
(***************************************************************************)
(* A freeze pays the fee and leaves the collateral.                        *)
(***************************************************************************)
LEMMA FrozenType ==
  ASSUME NEW o \in OrderRecords
  PROVE  /\ Frozen(o) \in OrderRecords /\ Frozen(o).exists
         /\ CollateralOf(Frozen(o)) = CollateralOf(o)
         /\ FeeOf(Frozen(o)) = Nothing
<1> DEFINE f == Frozen(o)
<1>1. /\ f.orderType = o.orderType /\ f.token = o.token
      /\ f.collateral = o.collateral /\ f.fee = 0 /\ f.exists
  BY DEF Frozen, OrderRecords
<1>2. f \in OrderRecords
  BY DEF Frozen, OrderRecords
<1> HIDE DEF f
<1>3. CollateralOf(f) = CollateralOf(o)
  BY <1>1 DEF CollateralOf, HoldsCollateral, IsSwap, IsIncrease
<1>4. FeeOf(f) = Nothing
  BY <1>1 DEF FeeOf, Nothing
<1>5. QED
  BY <1>1, <1>2, <1>3, <1>4 DEF f

LEMMA FreezeStep ==
  ASSUME IInv, NEW k \in Requests, NEW keeper, NEW report,
         FreezeOnError(k, keeper, report)
  PROVE  Correct
<1> DEFINE o == orders[k]
           f == Frozen(o)
<1>1. /\ o.exists /\ PayOut(FeeOf(o), {Wnt})
      /\ orders' = [orders EXCEPT ![k] = f]
      /\ failed' = [failed EXCEPT ![k] = TRUE]
      /\ UNCHANGED <<priceAt, nonce, positions, disabled, outcome, termsAt>>
  BY DEF FreezeOnError
<1>2. o \in OrderRecords /\ TypeOK /\ k <= nonce
  BY <1>1, OpenOrderType DEF IInv, TypeOK
<1>3. /\ f \in OrderRecords /\ f.exists
      /\ CollateralOf(f) = CollateralOf(o) /\ FeeOf(f) = Nothing
  BY <1>2, FrozenType
<1> HIDE DEF f
<1>4. FeeOf(o) \in [Tokens -> Nat] /\ \A t \in Tokens : t \notin {Wnt} => FeeOf(o)[t] = 0
  BY <1>2, PledgeTypes DEF FeeOf
<1>5. /\ vault' \in [Tokens -> Nat] /\ outside' \in [Tokens -> Nat]
      /\ recorded' \in [Tokens -> Nat] /\ Backed'
      /\ \A t \in Tokens : recorded'[t] >= recorded[t] - FeeOf(o)[t]
  BY <1>1, <1>4, PayOutBooks
<1>6. TypeOK'
  <2>1. /\ orders' \in [Requests -> OrderRecords \cup {NoOrder}]
        /\ failed' \in [Requests -> BOOLEAN]
    BY <1>1, <1>2, <1>3 DEF TypeOK
  <2>2. \A j \in Requests : orders'[j].exists => j <= nonce'
    BY <1>1, <1>2, <1>3 DEF TypeOK
  <2>3. QED
    BY <1>1, <1>2, <1>5, <2>1, <2>2 DEF TypeOK
<1>7. ASSUME NEW t \in Tokens
      PROVE  recorded'[t] >= recorded[t] + PledgedBy(f)[t] - PledgedBy(o)[t]
  <2>1. /\ PledgedBy(f)[t] = CollateralOf(o)[t] + Nothing[t]
        /\ PledgedBy(o)[t] = CollateralOf(o)[t] + FeeOf(o)[t]
        /\ CollateralOf(o)[t] \in Nat /\ FeeOf(o)[t] \in Nat
    BY <1>2, <1>3, PledgeTypes DEF Plus
  <2>2. recorded[t] \in Nat /\ recorded'[t] \in Nat /\ Nothing[t] = 0
    BY <1>2, <1>5 DEF TypeOK, Nothing
  <2>3. recorded'[t] >= recorded[t] - FeeOf(o)[t]
    BY <1>5
  <2> HIDE DEF o
  <2>4. QED
    BY <2>1, <2>2, <2>3
<1>8. Escrow!Rebook(k) /\ openOrders' = openOrders
  <2>1. orders' = [orders EXCEPT ![k] = f]
    BY <1>1
  <2>2. Escrow!Rebook(k) /\ openOrders' = openOrders \cup {k}
    BY <1>2, <1>3, <1>6, <1>7, <2>1, StepRebooks
  <2>3. k \in openOrders
    BY <1>1 DEF openOrders
  <2>4. QED
    BY <2>2, <2>3
<1>9. Escrow!Amend(k)
  BY <1>1, <1>8 DEF Escrow!Amend, openOrders
<1>10. QED
  BY <1>5, <1>6, <1>9 DEF Correct, IInv, Escrow!Next, Escrow!Requests, Requests

(***************************************************************************)
(* A liquidation uses up a key without leaving a request behind.           *)
(***************************************************************************)
LEMMA LiquidationStep ==
  ASSUME IInv, NEW p \in PositionKeys, NEW report \in Reports,
         ExecuteLiquidation(p, report)
  PROVE  Correct
<1> DEFINE k == nonce + 1
<1>1. /\ k \in Requests /\ nonce' = k
      /\ positions' = [positions EXCEPT ![p] = EmptyPosition]
      /\ PayOut(Nothing, {Wnt})
      /\ UNCHANGED <<priceAt, orders, disabled, history>>
  BY DEF ExecuteLiquidation
<1>2. Nothing \in [Tokens -> Nat] /\ \A t \in Tokens : Nothing[t] = 0
  BY DEF Nothing
<1>3. /\ vault' \in [Tokens -> Nat] /\ outside' \in [Tokens -> Nat]
      /\ recorded' \in [Tokens -> Nat] /\ Backed'
      /\ \A t \in Tokens : recorded'[t] >= recorded[t] - Nothing[t]
  BY <1>1, <1>2, PayOutBooks
<1>4. TypeOK'
  <2>1. nonce' \in 0..MaxRequests /\ nonce' >= nonce
    BY <1>1 DEF IInv, TypeOK, Requests
  <2>2. \A j \in Requests : orders'[j].exists => j <= nonce'
    BY <1>1, <2>1 DEF IInv, TypeOK, Requests
  <2>3. positions' \in [PositionKeys -> [size: Nat, increasedAt: Nat, decreasedAt: Nat]]
    BY <1>1 DEF IInv, TypeOK, EmptyPosition
  <2>4. QED
    BY <1>1, <1>3, <2>1, <2>2, <2>3 DEF IInv, TypeOK, history
<1>5. orders[k] = NoOrder
  <2>1. ~orders[k].exists
    BY <1>1 DEF IInv, TypeOK
  <2>2. orders[k] \in OrderRecords \cup {NoOrder}
    BY <1>1 DEF IInv, TypeOK
  <2>3. \A r \in OrderRecords : r.exists
    BY DEF OrderRecords
  <2>4. QED
    BY <2>1, <2>2, <2>3
<1>6. orders' = [orders EXCEPT ![k] = NoOrder]
  BY <1>1, <1>5 DEF IInv, TypeOK
<1>7. \A t \in Tokens :
        recorded'[t] >= recorded[t] + PledgedBy(NoOrder)[t] - PledgedBy(orders[k])[t]
  BY <1>2, <1>3, <1>5, NoOrderPledge DEF IInv, TypeOK
<1>8. /\ Escrow!Rebook(k) /\ pledges'[k] = Nothing
      /\ openOrders' = openOrders
  <2>1. Escrow!Rebook(k) /\ pledges'[k] = PledgedBy(NoOrder)
    BY <1>1, <1>4, <1>6, <1>7, StepRebooks DEF IInv
  <2>2. openOrders' = openOrders
    BY <1>1 DEF openOrders
  <2>3. QED
    BY <2>1, <2>2, NoOrderPledge
<1>9. Escrow!Pass(k)
  BY <1>1, <1>8 DEF Escrow!Pass, Escrow!Nothing, Nothing
<1>10. QED
  BY <1>1, <1>3, <1>4, <1>9 DEF Correct, IInv, Escrow!Next, Escrow!Requests, Requests

-----------------------------------------------------------------------------
(***************************************************************************)
(* Steps that no order takes part in leave the abstract ledger alone.      *)
(***************************************************************************)
LEMMA StutterOfEscrow ==
  ASSUME UNCHANGED <<orders, nonce, recorded>>
  PROVE  UNCHANGED Escrow!vars
BY DEF Escrow!vars, openOrders, pledges

LEMMA AroundStep ==
  ASSUME IInv,
         \/ \E t \in Tokens : DirectTransfer(t)
         \/ \E f \in Features : SwitchFeature(f)
         \/ \E price \in Prices : NextBlock(price)
         \/ UNCHANGED vars
  PROVE  Correct
<1>1. ASSUME NEW t \in Tokens, DirectTransfer(t)
      PROVE  Correct
  <2> DEFINE sent == [u \in Tokens |-> IF u = t THEN 1 ELSE 0]
  <2>1. /\ TakeIn(sent, {}) /\ sent \in [Tokens -> Nat]
        /\ UNCHANGED <<priceAt, orders, nonce, positions, disabled, history>>
    BY <1>1 DEF DirectTransfer
  <2>2. recorded' = recorded
    BY <2>1 DEF TakeIn, IInv, TypeOK
  <2> HIDE DEF sent
  <2>3. vault' \in [Tokens -> Nat] /\ outside' \in [Tokens -> Nat] /\ Backed'
    BY <2>1, TakeInBooks
  <2>4. TypeOK'
    BY <2>1, <2>2, <2>3 DEF IInv, TypeOK, history
  <2>5. QED
    BY <2>1, <2>2, <2>3, <2>4, StutterOfEscrow DEF Correct, IInv
<1>2. ASSUME NEW f \in Features, SwitchFeature(f)
      PROVE  Correct
  <2>1. /\ disabled' \subseteq Features
        /\ UNCHANGED <<priceAt, orders, nonce, positions, tokens, history>>
    BY <1>2 DEF SwitchFeature, IInv, TypeOK
  <2>2. TypeOK' /\ Backed'
    BY <2>1 DEF IInv, TypeOK, Backed, tokens, history
  <2>3. QED
    BY <2>1, <2>2, StutterOfEscrow DEF Correct, IInv, tokens
<1>3. ASSUME NEW price \in Prices, NextBlock(price)
      PROVE  Correct
  <2>1. /\ priceAt' = Append(priceAt, price)
        /\ UNCHANGED <<orders, nonce, positions, tokens, disabled, history>>
    BY <1>3 DEF NextBlock
  <2>2. priceAt' \in Seq(Prices)
    BY <2>1 DEF IInv, TypeOK
  <2>3. TypeOK' /\ Backed'
    BY <2>1, <2>2 DEF IInv, TypeOK, Backed, tokens, history
  <2>4. QED
    BY <2>1, <2>3, StutterOfEscrow DEF Correct, IInv, tokens
<1>4. CASE UNCHANGED vars
  <2>1. TypeOK' /\ Backed'
    BY <1>4 DEF IInv, TypeOK, Backed, vars, tokens, history
  <2>2. QED
    BY <1>4, <2>1, StutterOfEscrow DEF Correct, IInv, vars, tokens
<1>5. QED
  BY <1>1, <1>2, <1>3, <1>4

(***************************************************************************)
(* The values that Next hands to the owners' requests are naturals.        *)
(***************************************************************************)
LEMMA InputTypes ==
  /\ \A used : SentIn(used) \subseteq [Tokens -> Nat]
  /\ \A type : SizesFor(type) \subseteq Nat /\ TriggersFor(type) \subseteq Nat
  /\ \A type, token : \A passed \in PassedFor(type, token) :
       passed.fee \in Nat /\ passed.collateral \in Nat
<1>1. Amounts \cup {0} \subseteq Nat /\ Sizes \subseteq Nat /\ Prices \subseteq Nat
      /\ MinExecutionFee \in Nat
  BY OrdersAssumption
<1>2. ASSUME NEW used
      PROVE  SentIn(used) \subseteq [Tokens -> Nat]
  BY <1>1 DEF SentIn
<1>3. ASSUME NEW type
      PROVE  SizesFor(type) \subseteq Nat /\ TriggersFor(type) \subseteq Nat
  BY <1>1 DEF SizesFor, TriggersFor
<1>4. ASSUME NEW type, NEW token, NEW passed \in PassedFor(type, token)
      PROVE  passed.fee \in Nat /\ passed.collateral \in Nat
  <2> DEFINE fees == IF FeeFromCollateral(type, token) THEN Amounts \cup {MinExecutionFee}
                                                          ELSE {MinExecutionFee}
             colls == IF type \in DecreaseTypes THEN Amounts \cup {0} ELSE {0}
  <2>1. fees \subseteq Nat /\ colls \subseteq Nat
    BY <1>1
  <2>2. passed \in [fee: fees, collateral: colls]
    BY <1>4 DEF PassedFor
  <2> HIDE DEF fees, colls
  <2>3. QED
    BY <2>1, <2>2
<1>5. QED
  BY <1>2, <1>3, <1>4

LEMMA EveryStep == IInv /\ [Next]_vars => Correct
<1> SUFFICES ASSUME IInv, [Next]_vars
             PROVE  Correct
  OBVIOUS
<1>1. CASE CreateSomeOrder
  <2>1. PICK account \in Accounts, type \in OrderTypes, isLong \in Sides, token \in Tokens :
          \E size \in SizesFor(type), trigger \in TriggersFor(type),
             sent \in SentIn(UsedBy(type, token)), passed \in PassedFor(type, token) :
            CreateOrder(account, type, isLong, token, size, trigger, sent, passed)
    BY <1>1 DEF CreateSomeOrder
  <2>2. PICK size \in SizesFor(type), trigger \in TriggersFor(type),
             sent \in SentIn(UsedBy(type, token)), passed \in PassedFor(type, token) :
          CreateOrder(account, type, isLong, token, size, trigger, sent, passed)
    BY <2>1
  <2>3. /\ size \in Nat /\ trigger \in Nat /\ sent \in [Tokens -> Nat]
        /\ passed.fee \in Nat /\ passed.collateral \in Nat
    BY InputTypes
  <2>4. QED
    BY <2>2, <2>3, CreateStep
<1>2. ASSUME NEW k \in Requests, UpdateSomeOrder(k)
      PROVE  Correct
  <2>1. PICK size \in SizesFor(orders[k].orderType),
             trigger \in TriggersFor(orders[k].orderType), sent \in SentIn({Wnt}) :
          UpdateOrder(k, size, trigger, sent)
    BY <1>2 DEF UpdateSomeOrder
  <2>2. size \in Nat /\ trigger \in Nat /\ sent \in [Tokens -> Nat]
    BY InputTypes
  <2>3. QED
    BY <2>1, <2>2, UpdateStep
<1>3. ASSUME NEW k \in Requests, CancelOrder(k)
      PROVE  Correct
  <2>1. orders[k].exists /\ CancelTo(k, orders[k].account)
    BY <1>3 DEF CancelOrder
  <2>2. orders[k].account \in Accounts
    BY <2>1, OpenOrderType DEF IInv, OrderRecords
  <2>3. QED
    BY <2>1, <2>2, CancelToStep
<1>4. ASSUME NEW k \in Requests, NEW keeper \in OrderKeepers, NEW report \in Reports,
             \/ ExecuteOrder(k, keeper, report)
             \/ CancelOnError(k, keeper, report)
             \/ FreezeOnError(k, keeper, report)
      PROVE  Correct
  <2>1. CASE ExecuteOrder(k, keeper, report)
    BY <2>1, ExecuteStep
  <2>2. CASE CancelOnError(k, keeper, report)
    <3>1. orders[k].exists /\ CancelTo(k, keeper)
      BY <2>2 DEF CancelOnError
    <3>2. QED
      BY <3>1, CancelToStep
  <2>3. CASE FreezeOnError(k, keeper, report)
    BY <2>3, FreezeStep
  <2>4. QED
    BY <1>4, <2>1, <2>2, <2>3
<1>5. ASSUME NEW p \in PositionKeys, NEW report \in Reports, ExecuteLiquidation(p, report)
      PROVE  Correct
  BY <1>5, LiquidationStep
<1>6. CASE \/ \E t \in Tokens : DirectTransfer(t)
           \/ \E f \in Features : SwitchFeature(f)
           \/ \E price \in Prices : NextBlock(price)
           \/ UNCHANGED vars
  BY <1>6, AroundStep
<1>7. QED
  BY <1>1, <1>2, <1>3, <1>4, <1>5, <1>6 DEF Next

LEMMA InitStep == Init => IInv /\ Escrow!Init
<1> SUFFICES ASSUME Init
             PROVE  IInv /\ Escrow!Init
  OBVIOUS
<1>1. \A k \in Requests : orders[k] = NoOrder
  BY DEF Init
<1>2. TypeOK
  <2>1. priceAt \in Seq(Prices)
    <3>1. PICK p \in Prices : priceAt = <<p>>
      BY DEF Init
    <3>2. QED
      BY <3>1
  <2>2. \A k \in Requests : ~orders[k].exists
    BY <1>1 DEF NoOrder
  <2>3. positions \in [PositionKeys -> [size: Nat, increasedAt: Nat, decreasedAt: Nat]]
    BY DEF Init, EmptyPosition
  <2>4. QED
    BY <2>1, <2>2, <2>3, OrdersAssumption, NothingType DEF Init, TypeOK
<1>3. Backed
  BY DEF Init, Backed, Nothing
<1>4. openOrders = {} /\ pledges = [k \in Requests |-> Nothing]
  BY <1>1, NoOrderPledge DEF openOrders, pledges, NoOrder
<1>5. Escrow!Init
  BY <1>4 DEF Init, Escrow!Init, Escrow!Nothing, Nothing, Escrow!Requests, Requests
<1>6. QED
  BY <1>2, <1>3, <1>5 DEF IInv

-----------------------------------------------------------------------------
(***************************************************************************)
(* Types, whatever the constants; in particular no balance is negative and *)
(* no decrease takes more than its position has.                           *)
(***************************************************************************)
THEOREM OrdersTypeOK == Spec => []TypeOK
<1>1. Spec => []IInv
  BY InitStep, EveryStep, PTL DEF Spec, Correct
<1>2. QED
  BY <1>1, PTL DEF IInv

(***************************************************************************)
(* The order handlers keep the promises of RequestEscrow.                  *)
(***************************************************************************)
THEOREM OrdersImplementEscrow == Spec => EscrowSpec
<1>1. Spec => []IInv
  BY InitStep, EveryStep, PTL DEF Spec, Correct
<1>2. QED
  BY <1>1, InitStep, EveryStep, PTL DEF Spec, Correct, EscrowSpec, Escrow!Spec

(***************************************************************************)
(* The OrderVault can settle every open order, at any time.                *)
(***************************************************************************)
THEOREM OrdersSolvent == Spec => []Solvent
<1>1. Spec => []IInv
  BY InitStep, EveryStep, PTL DEF Spec, Correct
<1>2. Escrow!Spec => EscrowFacts!Spec
  <2>1. Escrow!Init => EscrowFacts!Init
    BY DEF Escrow!Init, EscrowFacts!Init, Escrow!Nothing, EscrowFacts!Nothing,
           Escrow!Requests, EscrowFacts!Requests
  <2>2. [Escrow!Next]_(Escrow!vars) => [EscrowFacts!Next]_(EscrowFacts!vars)
    BY DEF Escrow!Next, EscrowFacts!Next, Escrow!vars, EscrowFacts!vars,
           Escrow!Open, EscrowFacts!Open, Escrow!Amend, EscrowFacts!Amend,
           Escrow!Close, EscrowFacts!Close, Escrow!Pass, EscrowFacts!Pass,
           Escrow!Rebook, EscrowFacts!Rebook, Escrow!Nothing, EscrowFacts!Nothing,
           Escrow!Requests, EscrowFacts!Requests
  <2>3. QED
    BY <2>1, <2>2, PTL DEF Escrow!Spec, EscrowFacts!Spec
<1>3. EscrowFacts!Spec => []EscrowFacts!Solvent
  <2>1. EscrowFacts!EscrowAssumption
    BY OrdersAssumption DEF EscrowFacts!EscrowAssumption
  <2>2. QED
    BY <2>1, EscrowFacts!EscrowSolvent, PTL
<1>4. EscrowFacts!Solvent => Escrow!Solvent
  BY DEF EscrowFacts!Solvent, Escrow!Solvent, EscrowFacts!Owed, Escrow!Owed,
         EscrowFacts!SumTo, Escrow!SumTo, EscrowFacts!PrefixSums, Escrow!PrefixSums,
         EscrowFacts!Requests, Escrow!Requests
<1>5. IInv => \A t \in Tokens : vault[t] >= recorded[t]
  BY DEF IInv, Backed
<1>6. Escrow!Solvent /\ IInv => Solvent
  BY <1>5 DEF Solvent
<1>7. QED
  BY <1>1, <1>2, <1>3, <1>4, <1>6, OrdersImplementEscrow, PTL DEF EscrowSpec

(***************************************************************************)
(* An order that was executed or cancelled, or that was created and        *)
(* executed at once, is never in the store again: no keeper, owner or ADL  *)
(* settles it a second time, and its key is never given to another.        *)
(***************************************************************************)
THEOREM OrdersSettledOnce ==
  Spec => [][\A k \in 1..nonce : ~orders[k].exists => ~orders'[k].exists]_vars
<1>1. Spec => []IInv
  BY InitStep, EveryStep, PTL DEF Spec, Correct
<1>2. IInv /\ [Next]_vars => [\A k \in 1..nonce : ~orders[k].exists => ~orders'[k].exists]_vars
  <2> SUFFICES ASSUME IInv, [Next]_vars, NEW k \in 1..nonce, ~orders[k].exists
               PROVE  ~orders'[k].exists
    OBVIOUS
  <2>1. nonce \in 0..MaxRequests /\ MaxRequests \in Nat
    BY OrdersAssumption DEF IInv, TypeOK
  <2>2. k \in Requests /\ nonce \in Nat /\ k # nonce + 1
    BY <2>1 DEF Requests
  <2>3. k \notin openOrders
    BY DEF openOrders
  <2>4. [Escrow!Next]_(Escrow!vars)
    BY EveryStep DEF Correct
  <2>5. k \notin openOrders'
    <3>1. CASE UNCHANGED Escrow!vars
      BY <2>3, <3>1 DEF Escrow!vars
    <3>2. CASE Escrow!Next
      BY <2>2, <2>3, <3>2
         DEF Escrow!Next, Escrow!Open, Escrow!Amend, Escrow!Close, Escrow!Pass
    <3>3. QED
      BY <2>4, <3>1, <3>2
  <2>6. QED
    BY <2>2, <2>5 DEF openOrders
<1>3. QED
  BY <1>1, <1>2, PTL DEF Spec

=============================================================================
