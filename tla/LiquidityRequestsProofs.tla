---------------------- MODULE LiquidityRequestsProofs ----------------------
(***************************************************************************)
(* Theorems about LiquidityRequests, for every value of its constants: its *)
(* safety properties from one inductive invariant, and that each vault by  *)
(* itself implements RequestEscrow.                                        *)
(***************************************************************************)
EXTENDS LiquidityRequests, LedgerSumProofs

-----------------------------------------------------------------------------
(***************************************************************************)
(* The inductive invariant, in terms of what vault v owes to request k     *)
(* when the stores are rs.                                                 *)
(***************************************************************************)
Pledge(r) == IF r.exists THEN Plus(r.brought, FeeOf(r)) ELSE Nothing

PledgeIn(rs, v, k) ==
  IF rs[k].exists /\ rs[k].kind = v THEN Plus(rs[k].brought, FeeOf(rs[k])) ELSE Nothing

ColumnOf(rs, v, t) == [k \in Requests |-> PledgeIn(rs, v, k)[t]]

OwedOf(v, t) == SumTo(ColumnOf(requests, v, t), MaxRequests)

(***************************************************************************)
(* The vaults have what their books say, and the books cover what is owed. *)
(***************************************************************************)
Backed == \A v \in Kinds, t \in Tokens : vault[v][t] >= recorded[v][t]

Covered == \A v \in Kinds, t \in Tokens : recorded[v][t] >= OwedOf(v, t)

(***************************************************************************)
(* Of a token that nobody donates, the books and the vault agree exactly.  *)
(***************************************************************************)
Exact ==
  \A v \in Kinds, t \in Tokens \ Donations :
    vault[v][t] = recorded[v][t] /\ vault[v][t] = OwedOf(v, t)

(***************************************************************************)
(* A request that has an outcome has left the store, and its key is used.  *)
(***************************************************************************)
Settled ==
  \A k \in Requests :
    outcome[k].how # "none" => k <= nonce /\ ~requests[k].exists

(***************************************************************************)
(* No deposit brings market tokens.                                        *)
(***************************************************************************)
Brings ==
  \A k \in Requests :
    requests[k].exists /\ requests[k].kind = "deposit"
      => requests[k].brought[MarketToken] = 0

Books == TypeOK /\ Backed
Ledgers == Covered /\ Exact
History == Settled /\ Brings /\ MarketTokenSupply /\ SettledAtRequest /\ OwnerWaits

IInv == Books /\ Ledgers /\ History

-----------------------------------------------------------------------------
(***************************************************************************)
(* The ledger columns are functions from tokens to naturals.               *)
(***************************************************************************)
LEMMA NothingType == Nothing \in [Tokens -> Nat] /\ \A t \in Tokens : Nothing[t] = 0
BY DEF Nothing

LEMMA RequestType ==
  ASSUME TypeOK, NEW k \in Requests, requests[k].exists
  PROVE  /\ requests[k] \in RequestRecords /\ requests[k].kind \in Kinds
         /\ k \in 1..nonce
<1>1. requests[k] \in RequestRecords \cup {NoRequest}
  BY DEF TypeOK
<1>2. requests[k] \in RequestRecords
  BY <1>1 DEF NoRequest
<1>3. k \in 1..nonce
  BY DEF TypeOK, Requests
<1> QED
  BY <1>2, <1>3 DEF RequestRecords

LEMMA RecordPledge ==
  ASSUME NEW r \in RequestRecords
  PROVE  /\ r.brought \in [Tokens -> Nat] /\ FeeOf(r) \in [Tokens -> Nat]
         /\ Plus(r.brought, FeeOf(r)) \in [Tokens -> Nat]
         /\ Pledge(r) = Plus(r.brought, FeeOf(r))
         /\ \A t \in Tokens :
              Pledge(r)[t] = r.brought[t] + (IF t = Wnt THEN r.fee ELSE 0)
<1>1. r.exists /\ r.fee \in Nat /\ r.brought \in [Tokens -> Nat]
  BY DEF RequestRecords
<1>2. FeeOf(r) \in [Tokens -> Nat] /\ \A t \in Tokens : FeeOf(r)[t] = IF t = Wnt THEN r.fee ELSE 0
  BY <1>1 DEF FeeOf
<1>3. Plus(r.brought, FeeOf(r)) \in [Tokens -> Nat]
  BY <1>1, <1>2 DEF Plus
<1>4. Pledge(r) = Plus(r.brought, FeeOf(r))
  BY <1>1 DEF Pledge
<1>5. \A t \in Tokens : Plus(r.brought, FeeOf(r))[t] = r.brought[t] + FeeOf(r)[t]
  BY DEF Plus
<1> QED
  BY <1>1, <1>2, <1>3, <1>4, <1>5

LEMMA PledgeType ==
  ASSUME NEW r \in RequestRecords \cup {NoRequest}
  PROVE  Pledge(r) \in [Tokens -> Nat]
<1>1. CASE r \in RequestRecords
  BY <1>1, RecordPledge
<1>2. CASE r = NoRequest
  BY <1>2, NothingType DEF Pledge, NoRequest
<1> QED
  BY <1>1, <1>2

LEMMA ColumnType ==
  ASSUME NEW rs \in [Requests -> RequestRecords \cup {NoRequest}], NEW v, NEW t \in Tokens
  PROVE  /\ \A k \in Requests : PledgeIn(rs, v, k) \in [Tokens -> Nat]
         /\ ColumnOf(rs, v, t) \in [1..MaxRequests -> Nat]
         /\ ColumnOf(rs, v, t) \in [1..MaxRequests -> Int]
<1>1. ASSUME NEW k \in Requests
      PROVE  PledgeIn(rs, v, k) \in [Tokens -> Nat]
  <2>1. Pledge(rs[k]) \in [Tokens -> Nat]
    BY PledgeType
  <2> QED
    BY <2>1, NothingType DEF PledgeIn, Pledge
<1>2. \A k \in Requests : PledgeIn(rs, v, k)[t] \in Nat
  BY <1>1
<1> QED
  BY <1>1, <1>2 DEF ColumnOf, Requests

-----------------------------------------------------------------------------
(***************************************************************************)
(* What transfers do to the balances and the books of one vault.           *)
(***************************************************************************)
Circulating == outside[MarketToken] + vault["deposit"][MarketToken] + vault["withdrawal"][MarketToken]

LEMMA TakeInBooks ==
  ASSUME Books, NEW v \in Kinds, NEW sent \in [Tokens -> Nat], NEW booked,
         TakeIn(v, sent, booked)
  PROVE  /\ vault' \in [Kinds -> [Tokens -> Nat]]
         /\ outside' \in [Tokens -> Nat]
         /\ recorded' \in [Kinds -> [Tokens -> Nat]]
         /\ Backed'
         /\ \A u \in Kinds \ {v} : vault'[u] = vault[u] /\ recorded'[u] = recorded[u]
         /\ \A t \in Tokens :
              /\ vault'[v][t] = vault[v][t] + sent[t]
              /\ Received(v, sent, t) \in Nat
              /\ recorded'[v][t] = IF t \in booked THEN recorded[v][t] + Received(v, sent, t)
                                   ELSE recorded[v][t]
         /\ Circulating' = Circulating
<1>1. /\ vault \in [Kinds -> [Tokens -> Nat]] /\ recorded \in [Kinds -> [Tokens -> Nat]]
      /\ outside \in [Tokens -> Nat]
      /\ \A u \in Kinds, t \in Tokens : vault[u][t] >= recorded[u][t]
  BY DEF Books, TypeOK, Backed
<1>2. /\ vault' = [vault EXCEPT ![v] = Plus(vault[v], sent)]
      /\ outside' = Minus(outside, sent)
      /\ recorded' = [recorded EXCEPT ![v] =
           [t \in Tokens |-> IF t \in booked THEN vault'[v][t] ELSE recorded[v][t]]]
      /\ \A t \in Tokens : sent[t] <= outside[t]
  BY DEF TakeIn, Booked
<1>3. /\ vault'[v] = [t \in Tokens |-> vault[v][t] + sent[t]]
      /\ recorded'[v] = [t \in Tokens |-> IF t \in booked THEN vault'[v][t] ELSE recorded[v][t]]
      /\ \A u \in Kinds \ {v} : vault'[u] = vault[u] /\ recorded'[u] = recorded[u]
      /\ outside' = [t \in Tokens |-> outside[t] - sent[t]]
  BY <1>1, <1>2 DEF Plus, Minus
<1>4. \A t \in Tokens : vault[v][t] \in Nat /\ recorded[v][t] \in Nat /\ outside[t] \in Nat
  BY <1>1
<1>5. /\ vault'[v] \in [Tokens -> Nat] /\ recorded'[v] \in [Tokens -> Nat]
      /\ outside' \in [Tokens -> Nat]
  BY <1>2, <1>3, <1>4
<1>6. vault' \in [Kinds -> [Tokens -> Nat]] /\ recorded' \in [Kinds -> [Tokens -> Nat]]
  BY <1>1, <1>2, <1>3, <1>5
<1>7. ASSUME NEW t \in Tokens
      PROVE  /\ vault'[v][t] = vault[v][t] + sent[t]
             /\ Received(v, sent, t) \in Nat
             /\ recorded'[v][t] = IF t \in booked THEN recorded[v][t] + Received(v, sent, t)
                                  ELSE recorded[v][t]
             /\ vault'[v][t] >= recorded'[v][t]
  BY <1>1, <1>3, <1>4 DEF Received
<1>8. Backed'
  BY <1>1, <1>3, <1>7 DEF Backed
<1>9. Circulating' = Circulating
  <2>1. /\ outside'[MarketToken] = outside[MarketToken] - sent[MarketToken]
        /\ vault'[v][MarketToken] = vault[v][MarketToken] + sent[MarketToken]
        /\ outside[MarketToken] \in Nat /\ sent[MarketToken] \in Nat
        /\ \A u \in Kinds : vault[u][MarketToken] \in Nat /\ vault'[u][MarketToken] \in Nat
    BY <1>1, <1>3, <1>6, <1>7, LiquidityAssumption
  <2>2. CASE v = "deposit"
    BY <2>1, <2>2, <1>3 DEF Circulating, Kinds
  <2>3. CASE v = "withdrawal"
    BY <2>1, <2>3, <1>3 DEF Circulating, Kinds
  <2> QED
    BY <2>2, <2>3 DEF Kinds
<1> QED
  BY <1>3, <1>5, <1>6, <1>7, <1>8, <1>9

LEMMA PayOutBooks ==
  ASSUME Books, NEW v \in Kinds, NEW amount \in [Tokens -> Nat],
         NEW minted \in [Tokens -> Nat], NEW burnt \in [Tokens -> Nat],
         PayOut(v, amount, minted, burnt)
  PROVE  /\ vault' \in [Kinds -> [Tokens -> Nat]]
         /\ outside' \in [Tokens -> Nat]
         /\ recorded' \in [Kinds -> [Tokens -> Nat]]
         /\ Backed'
         /\ \A u \in Kinds \ {v} : vault'[u] = vault[u] /\ recorded'[u] = recorded[u]
         /\ \A t \in Tokens :
              /\ vault'[v][t] = vault[v][t] - amount[t] - burnt[t]
              /\ recorded'[v][t] >= recorded[v][t] - amount[t] - burnt[t]
              /\ vault[v][t] = recorded[v][t] => vault'[v][t] = recorded'[v][t]
         /\ Circulating' = Circulating + minted[MarketToken] - burnt[MarketToken]
<1> DEFINE booked == {Wnt} \cup {t \in Tokens : amount[t] + burnt[t] > 0}
<1>1. /\ vault \in [Kinds -> [Tokens -> Nat]] /\ recorded \in [Kinds -> [Tokens -> Nat]]
      /\ outside \in [Tokens -> Nat]
      /\ \A u \in Kinds, t \in Tokens : vault[u][t] >= recorded[u][t]
  BY DEF Books, TypeOK, Backed
<1>2. /\ vault' = [vault EXCEPT ![v] = Minus(Minus(vault[v], amount), burnt)]
      /\ outside' = Plus(Plus(outside, amount), minted)
      /\ recorded' = [recorded EXCEPT ![v] =
           [t \in Tokens |-> IF t \in booked THEN vault'[v][t] ELSE recorded[v][t]]]
      /\ \A t \in Tokens : amount[t] + burnt[t] <= vault[v][t]
  BY DEF PayOut, Booked
<1>3. \A t \in Tokens : t \notin booked => amount[t] = 0 /\ burnt[t] = 0
  OBVIOUS
<1> HIDE DEF booked
<1>4. /\ vault'[v] = [t \in Tokens |-> vault[v][t] - amount[t] - burnt[t]]
      /\ recorded'[v] = [t \in Tokens |-> IF t \in booked THEN vault'[v][t] ELSE recorded[v][t]]
      /\ \A u \in Kinds \ {v} : vault'[u] = vault[u] /\ recorded'[u] = recorded[u]
      /\ outside' = [t \in Tokens |-> outside[t] + amount[t] + minted[t]]
  BY <1>1, <1>2 DEF Plus, Minus
<1>5. \A t \in Tokens : vault[v][t] \in Nat /\ recorded[v][t] \in Nat /\ outside[t] \in Nat
  BY <1>1
<1>6. /\ vault'[v] \in [Tokens -> Nat] /\ recorded'[v] \in [Tokens -> Nat]
      /\ outside' \in [Tokens -> Nat]
  <2>1. \A t \in Tokens : vault'[v][t] \in Nat /\ outside[t] + amount[t] + minted[t] \in Nat
    BY <1>2, <1>4, <1>5
  <2> QED
    BY <1>4, <1>5, <2>1
<1>7. vault' \in [Kinds -> [Tokens -> Nat]] /\ recorded' \in [Kinds -> [Tokens -> Nat]]
  BY <1>1, <1>2, <1>4, <1>6
<1>8. ASSUME NEW t \in Tokens
      PROVE  /\ vault'[v][t] = vault[v][t] - amount[t] - burnt[t]
             /\ recorded'[v][t] >= recorded[v][t] - amount[t] - burnt[t]
             /\ vault[v][t] = recorded[v][t] => vault'[v][t] = recorded'[v][t]
             /\ vault'[v][t] >= recorded'[v][t]
  BY <1>1, <1>3, <1>4, <1>5
<1>9. Backed'
  BY <1>1, <1>4, <1>8 DEF Backed
<1>10. Circulating' = Circulating + minted[MarketToken] - burnt[MarketToken]
  <2>1. /\ outside'[MarketToken] = outside[MarketToken] + amount[MarketToken] + minted[MarketToken]
        /\ vault'[v][MarketToken] = vault[v][MarketToken] - amount[MarketToken] - burnt[MarketToken]
        /\ outside[MarketToken] \in Nat /\ amount[MarketToken] \in Nat
        /\ minted[MarketToken] \in Nat /\ burnt[MarketToken] \in Nat
        /\ \A u \in Kinds : vault[u][MarketToken] \in Nat /\ vault'[u][MarketToken] \in Nat
    BY <1>1, <1>4, <1>7, <1>8, LiquidityAssumption
  <2>2. CASE v = "deposit"
    <3>1. vault'["withdrawal"][MarketToken] = vault["withdrawal"][MarketToken]
      BY <2>2, <1>4 DEF Kinds
    <3> QED
      BY <2>1, <2>2, <3>1 DEF Circulating, Kinds
  <2>3. CASE v = "withdrawal"
    <3>1. vault'["deposit"][MarketToken] = vault["deposit"][MarketToken]
      BY <2>3, <1>4 DEF Kinds
    <3> QED
      BY <2>1, <2>3, <3>1 DEF Circulating, Kinds
  <2> QED
    BY <2>2, <2>3 DEF Kinds
<1> QED
  BY <1>4, <1>6, <1>7, <1>8, <1>9, <1>10

-----------------------------------------------------------------------------
(***************************************************************************)
(* A step on one request changes what is owed by what it changes of it.    *)
(***************************************************************************)
LEMMA OwedChange ==
  ASSUME NEW rs \in [Requests -> RequestRecords \cup {NoRequest}],
         NEW qs \in [Requests -> RequestRecords \cup {NoRequest}],
         NEW k \in Requests, \A j \in Requests \ {k} : qs[j] = rs[j],
         NEW v, NEW t \in Tokens
  PROVE  /\ SumTo(ColumnOf(qs, v, t), MaxRequests)
              = SumTo(ColumnOf(rs, v, t), MaxRequests)
                  + (PledgeIn(qs, v, k)[t] - PledgeIn(rs, v, k)[t])
         /\ SumTo(ColumnOf(rs, v, t), MaxRequests) \in Nat
         /\ SumTo(ColumnOf(qs, v, t), MaxRequests) \in Nat
<1> DEFINE f == ColumnOf(rs, v, t)
           g == ColumnOf(qs, v, t)
<1>1. /\ f \in [1..MaxRequests -> Int] /\ g \in [1..MaxRequests -> Int]
      /\ f \in [1..MaxRequests -> Nat] /\ g \in [1..MaxRequests -> Nat]
  BY ColumnType
<1>2. \A i \in 1..MaxRequests : i # k => g[i] = f[i]
  BY DEF ColumnOf, PledgeIn, Requests
<1>3. g[k] = PledgeIn(qs, v, k)[t] /\ f[k] = PledgeIn(rs, v, k)[t] /\ k \in 1..MaxRequests
  BY DEF ColumnOf, Requests
<1> HIDE DEF f, g
<1>4. SumTo(g, MaxRequests) = SumTo(f, MaxRequests) + (g[k] - f[k])
  BY <1>1, <1>2, <1>3, SumUpdate, LiquidityAssumption
<1>5. SumTo(f, MaxRequests) \in Nat /\ SumTo(g, MaxRequests) \in Nat
  BY <1>1, SumBoundsEntry, LiquidityAssumption
<1> QED
  BY <1>3, <1>4, <1>5 DEF f, g

(***************************************************************************)
(* What a step does to the escrow of vault v, in the terms of this module. *)
(***************************************************************************)
RebookOf(v, k) ==
  /\ \A j \in Requests : PledgeIn(requests', v, j) \in [Tokens -> Nat]
  /\ recorded'[v] \in [Tokens -> Nat]
  /\ \A j \in Requests \ {k} : PledgeIn(requests', v, j) = PledgeIn(requests, v, j)
  /\ \A t \in Tokens :
       recorded'[v][t] >= recorded[v][t] + PledgeIn(requests', v, k)[t]
                                         - PledgeIn(requests, v, k)[t]

IsOpen(rs, v, k) == rs[k].exists /\ rs[k].kind = v

OthersAsOpen(v, k) ==
  \A j \in Requests \ {k} : IsOpen(requests', v, j) <=> IsOpen(requests, v, j)

EscrowStep(v) ==
  \/ \E k \in Requests :
       /\ RebookOf(v, k) /\ OthersAsOpen(v, k)
       /\ \/ k = nonce + 1 /\ nonce' = k /\ ~IsOpen(requests, v, k)
          \/ nonce' = nonce /\ IsOpen(requests, v, k) /\ ~IsOpen(requests', v, k)
  \/ /\ nonce' = nonce /\ recorded'[v] = recorded[v]
     /\ \A j \in Requests : /\ PledgeIn(requests', v, j) = PledgeIn(requests, v, j)
                            /\ IsOpen(requests', v, j) <=> IsOpen(requests, v, j)

(***************************************************************************)
(* The request with key k, of vault v, becomes r: the books of v follow    *)
(* what is owed to it, and nothing else changes.                           *)
(***************************************************************************)
LEMMA RequestStep ==
  ASSUME IInv, TypeOK', NEW k \in Requests, NEW v \in Kinds,
         NEW r \in RequestRecords \cup {NoRequest},
         requests' = [requests EXCEPT ![k] = r],
         requests[k].exists => requests[k].kind = v,
         r.exists => r.kind = v,
         \A u \in Kinds \ {v} : vault'[u] = vault[u] /\ recorded'[u] = recorded[u],
         \A t \in Tokens :
           recorded'[v][t] >= recorded[v][t] + Pledge(r)[t] - Pledge(requests[k])[t],
         \A t \in Tokens \ Donations :
           /\ vault'[v][t] = vault[v][t] + Pledge(r)[t] - Pledge(requests[k])[t]
           /\ recorded'[v][t] = vault'[v][t]
  PROVE  /\ Ledgers'
         /\ \A u \in Kinds : RebookOf(u, k) /\ OthersAsOpen(u, k)
<1>1. /\ requests \in [Requests -> RequestRecords \cup {NoRequest}]
      /\ requests' \in [Requests -> RequestRecords \cup {NoRequest}]
      /\ requests'[k] = r /\ \A j \in Requests \ {k} : requests'[j] = requests[j]
      /\ recorded \in [Kinds -> [Tokens -> Nat]] /\ recorded' \in [Kinds -> [Tokens -> Nat]]
      /\ vault \in [Kinds -> [Tokens -> Nat]] /\ vault' \in [Kinds -> [Tokens -> Nat]]
  BY DEF IInv, Books, TypeOK
<1>2. /\ PledgeIn(requests, v, k) = Pledge(requests[k])
      /\ PledgeIn(requests', v, k) = Pledge(r)
      /\ \A u \in Kinds \ {v} : /\ PledgeIn(requests, u, k) = Nothing
                                /\ PledgeIn(requests', u, k) = Nothing
  BY <1>1 DEF PledgeIn, Pledge
<1>3. ASSUME NEW u \in Kinds, NEW t \in Tokens
      PROVE  /\ recorded'[u][t] >= OwedOf(u, t)'
             /\ recorded'[u][t] >= recorded[u][t] + PledgeIn(requests', u, k)[t]
                                                  - PledgeIn(requests, u, k)[t]
             /\ t \notin Donations =>
                  vault'[u][t] = recorded'[u][t] /\ vault'[u][t] = OwedOf(u, t)'
  <2> DEFINE old == OwedOf(u, t)
             new == OwedOf(u, t)'
             was == PledgeIn(requests, u, k)[t]
             is == PledgeIn(requests', u, k)[t]
  <2>1. new = old + (is - was) /\ old \in Nat /\ new \in Nat
    <3>1. /\ requests \in [Requests -> RequestRecords \cup {NoRequest}]
          /\ requests' \in [Requests -> RequestRecords \cup {NoRequest}]
          /\ \A j \in Requests \ {k} : requests'[j] = requests[j]
      BY <1>1
    <3>2. /\ SumTo(ColumnOf(requests', u, t), MaxRequests)
               = SumTo(ColumnOf(requests, u, t), MaxRequests)
                   + (PledgeIn(requests', u, k)[t] - PledgeIn(requests, u, k)[t])
          /\ SumTo(ColumnOf(requests, u, t), MaxRequests) \in Nat
          /\ SumTo(ColumnOf(requests', u, t), MaxRequests) \in Nat
      BY ONLY <3>1, OwedChange, k \in Requests, t \in Tokens
    <3> QED
      BY <3>2 DEF OwedOf
  <2>2. was \in Nat /\ is \in Nat
    <3>1. /\ PledgeIn(requests, u, k) \in [Tokens -> Nat]
          /\ PledgeIn(requests', u, k) \in [Tokens -> Nat]
      BY <1>1, ColumnType, Zenon
    <3> QED
      BY <3>1
  <2>3. /\ recorded[u][t] \in Nat /\ recorded'[u][t] \in Nat
        /\ vault[u][t] \in Nat /\ vault'[u][t] \in Nat
    BY <1>1
  <2>4. /\ recorded[u][t] >= old
        /\ t \notin Donations => vault[u][t] = recorded[u][t] /\ vault[u][t] = old
    BY DEF IInv, Ledgers, Covered, Exact
  <2>5. /\ recorded'[u][t] >= recorded[u][t] + is - was
        /\ t \notin Donations =>
             vault'[u][t] = vault[u][t] + is - was /\ recorded'[u][t] = vault'[u][t]
    <3>1. CASE u = v
      BY <1>2, <3>1
    <3>2. CASE u # v
      <4>1. is = 0 /\ was = 0 /\ recorded'[u] = recorded[u] /\ vault'[u] = vault[u]
        BY <1>2, <3>2, NothingType
      <4> QED
        BY <2>3, <2>4, <4>1
    <3> QED
      BY <3>1, <3>2
  <2> HIDE DEF old, new, was, is
  <2>6. /\ recorded'[u][t] >= new
        /\ t \notin Donations => vault'[u][t] = recorded'[u][t] /\ vault'[u][t] = new
    BY <2>1, <2>2, <2>3, <2>4, <2>5
  <2> QED
    BY <2>5, <2>6 DEF new, is, was
<1>4. Ledgers'
  BY <1>3 DEF Ledgers, Covered, Exact
<1>5. ASSUME NEW u \in Kinds
      PROVE  RebookOf(u, k) /\ OthersAsOpen(u, k)
  <2>1. \A j \in Requests : PledgeIn(requests', u, j) \in [Tokens -> Nat]
    <3>1. ASSUME NEW t \in Tokens
          PROVE \A j \in Requests : PledgeIn(requests', u, j) \in [Tokens -> Nat]
      BY <1>1, ColumnType
    <3> QED
      BY <3>1, LiquidityAssumption
  <2>2. \A j \in Requests \ {k} : /\ PledgeIn(requests', u, j) = PledgeIn(requests, u, j)
                                  /\ IsOpen(requests', u, j) <=> IsOpen(requests, u, j)
    BY <1>1 DEF PledgeIn, IsOpen
  <2> QED
    BY <1>1, <1>3, <2>1, <2>2 DEF RebookOf, OthersAsOpen
<1> QED
  BY <1>4, <1>5

-----------------------------------------------------------------------------
(***************************************************************************)
(* What every step has to establish.                                       *)
(***************************************************************************)
Correct == IInv' /\ \A v \in Kinds : EscrowStep(v)

(***************************************************************************)
(* The vault and its books have risen by what a new request brought.       *)
(***************************************************************************)
Rises(v, brought, fee) ==
  /\ vault' \in [Kinds -> [Tokens -> Nat]] /\ recorded' \in [Kinds -> [Tokens -> Nat]]
  /\ outside' \in [Tokens -> Nat] /\ Backed' /\ Circulating' = Circulating
  /\ \A u \in Kinds \ {v} : vault'[u] = vault[u] /\ recorded'[u] = recorded[u]
  /\ \A t \in Tokens :
       /\ recorded'[v][t] >= recorded[v][t] + brought[t] + (IF t = Wnt THEN fee ELSE 0)
       /\ t \notin Donations =>
            /\ vault'[v][t] = vault[v][t] + brought[t] + (IF t = Wnt THEN fee ELSE 0)
            /\ recorded'[v][t] = vault'[v][t]

(***************************************************************************)
(* A new request of vault v, once its tokens are in the books.             *)
(***************************************************************************)
LEMMA AddStep ==
  ASSUME IInv, NEW v \in Kinds, NEW brought \in [Tokens -> Nat], NEW fee \in Nat,
         Add(v, brought, fee),
         v = "deposit" => brought[MarketToken] = 0,
         Rises(v, brought, fee)
  PROVE  Correct
<1> DEFINE k == nonce + 1
           r == [exists |-> TRUE, kind |-> v, brought |-> brought, fee |-> fee,
                 updatedAt |-> block]
<1>1. /\ k \in Requests /\ nonce' = k /\ requests' = [requests EXCEPT ![k] = r]
      /\ UNCHANGED <<block, disabled, outcome>>
  BY DEF Add
<1>2. TypeOK
  BY DEF IInv, Books
<1> USE DEF Rises
<1>3. /\ r \in RequestRecords /\ r.exists /\ r.kind = v
      /\ r.brought = brought /\ r.fee = fee
  BY <1>2 DEF RequestRecords, TypeOK
<1> HIDE DEF r
<1>4. ~requests[k].exists /\ nonce \in Nat /\ k \in 1..MaxRequests
  BY <1>1, <1>2 DEF TypeOK, Requests
<1>5. TypeOK'
  <2>1. requests' \in [Requests -> RequestRecords \cup {NoRequest}]
    BY <1>1, <1>2, <1>3 DEF TypeOK
  <2>2. nonce' \in 0..MaxRequests /\ nonce' >= nonce
    BY <1>1, <1>2, <1>4 DEF TypeOK
  <2>3. \A j \in Requests : requests'[j].exists => j <= nonce'
    BY <1>1, <1>2, <1>4, <2>2 DEF TypeOK, Requests
  <2> QED
    BY <1>1, <1>2, <2>1, <2>2, <2>3 DEF TypeOK
<1>6. Ledgers' /\ \A u \in Kinds : RebookOf(u, k) /\ OthersAsOpen(u, k)
  <2>1. \A t \in Tokens : Pledge(requests[k])[t] = 0
    BY <1>4, NothingType DEF Pledge
  <2>2. \A t \in Tokens : Pledge(r)[t] = brought[t] + (IF t = Wnt THEN fee ELSE 0)
    BY <1>3, RecordPledge
  <2>3. \A t \in Tokens : /\ recorded[v][t] \in Nat /\ vault[v][t] \in Nat
                          /\ brought[t] + (IF t = Wnt THEN fee ELSE 0) \in Nat
    BY <1>2 DEF TypeOK
  <2>4. \A t \in Tokens :
          recorded'[v][t] >= recorded[v][t] + Pledge(r)[t] - Pledge(requests[k])[t]
    BY <2>1, <2>2, <2>3
  <2>5. \A t \in Tokens \ Donations :
          /\ vault'[v][t] = vault[v][t] + Pledge(r)[t] - Pledge(requests[k])[t]
          /\ recorded'[v][t] = vault'[v][t]
    BY <2>1, <2>2, <2>3
  <2> HIDE DEF k
  <2> QED
    BY <1>1, <1>3, <1>4, <1>5, <2>4, <2>5, RequestStep
<1>7. History'
  <2>1. Settled /\ Brings /\ MarketTokenSupply /\ SettledAtRequest /\ OwnerWaits
    BY DEF IInv, History
  <2>2. \A j \in Requests : j # k => requests'[j] = requests[j]
    BY <1>1, <1>2 DEF TypeOK
  <2>3. requests'[k] = r
    BY <1>1, <1>2 DEF TypeOK
  <2>4. outcome[k].how = "none"
    BY <1>1, <1>4, <2>1 DEF Settled
  <2>5. Settled'
    BY <1>1, <1>4, <2>1, <2>2, <2>4 DEF Settled, Requests
  <2>6. Brings'
    BY <1>1, <1>3, <2>1, <2>2, <2>3 DEF Brings
  <2>7. MarketTokenSupply'
    BY <1>1, <2>1 DEF MarketTokenSupply, MintedBy, BurntBy, Executed, Circulating
  <2>8. SettledAtRequest' /\ OwnerWaits'
    BY <1>1, <2>1 DEF SettledAtRequest, OwnerWaits
  <2> QED
    BY <2>5, <2>6, <2>7, <2>8 DEF History
<1>8. \A u \in Kinds : EscrowStep(u)
  BY <1>1, <1>4, <1>6 DEF EscrowStep, IsOpen
<1> QED
  BY <1>5, <1>6, <1>7, <1>8 DEF Correct, IInv, Books

-----------------------------------------------------------------------------
(***************************************************************************)
(* The market tokens that outcomes oc tell of.                             *)
(***************************************************************************)
MintedIn(oc) == [k \in Requests |-> IF oc[k].how = "executed" THEN oc[k].minted ELSE 0]

BurntIn(oc) ==
  [k \in Requests |->
     IF oc[k].how = "executed" THEN oc[k].request.brought[MarketToken] ELSE 0]

LEMMA SupplyType ==
  ASSUME NEW oc \in [Requests -> Outcomes \cup {NoOutcome}]
  PROVE  MintedIn(oc) \in [1..MaxRequests -> Int] /\ BurntIn(oc) \in [1..MaxRequests -> Int]
<1>1. ASSUME NEW k \in Requests, oc[k].how = "executed"
      PROVE  oc[k].minted \in Int /\ oc[k].request.brought[MarketToken] \in Int
  <2>1. oc[k] \in Outcomes
    BY <1>1 DEF NoOutcome
  <2>2. oc[k].minted \in Nat /\ oc[k].request \in RequestRecords
    BY <2>1 DEF Outcomes
  <2>3. oc[k].request.brought \in [Tokens -> Nat]
    BY <2>2 DEF RequestRecords
  <2> QED
    BY <2>2, <2>3, LiquidityAssumption
<1> QED
  BY <1>1 DEF MintedIn, BurntIn, Requests

LEMMA SupplyChange ==
  ASSUME NEW oc \in [Requests -> Outcomes \cup {NoOutcome}], NEW k \in Requests,
         NEW s \in Outcomes, oc[k].how = "none"
  PROVE  LET pc == [oc EXCEPT ![k] = s]
             here(n) == IF s.how = "executed" THEN n ELSE 0
         IN  /\ SumTo(MintedIn(pc), MaxRequests)
                  = SumTo(MintedIn(oc), MaxRequests) + here(s.minted)
             /\ SumTo(BurntIn(pc), MaxRequests)
                  = SumTo(BurntIn(oc), MaxRequests) + here(s.request.brought[MarketToken])
             /\ SumTo(MintedIn(oc), MaxRequests) \in Int
             /\ SumTo(BurntIn(oc), MaxRequests) \in Int
<1> DEFINE pc == [oc EXCEPT ![k] = s]
           m == MintedIn(oc)
           n == MintedIn(pc)
           b == BurntIn(oc)
           c == BurntIn(pc)
<1>1. pc \in [Requests -> Outcomes \cup {NoOutcome}]
  OBVIOUS
<1>2. /\ m \in [1..MaxRequests -> Int] /\ b \in [1..MaxRequests -> Int]
      /\ n \in [1..MaxRequests -> Int] /\ c \in [1..MaxRequests -> Int]
  BY <1>1, SupplyType
<1>3. \A i \in 1..MaxRequests : i # k => n[i] = m[i] /\ c[i] = b[i]
  BY DEF MintedIn, BurntIn, Requests
<1>4. /\ m[k] = 0 /\ n[k] = IF s.how = "executed" THEN s.minted ELSE 0
      /\ b[k] = 0 /\ c[k] = IF s.how = "executed" THEN s.request.brought[MarketToken] ELSE 0
      /\ k \in 1..MaxRequests
  BY DEF MintedIn, BurntIn, Requests
<1> HIDE DEF pc, m, n, b, c
<1>5. SumTo(n, MaxRequests) = SumTo(m, MaxRequests) + (n[k] - m[k])
  <2>1. \A i \in 1..MaxRequests : i # k => n[i] = m[i]
    BY <1>3
  <2> QED
    BY <1>2, <1>4, <2>1, SumUpdate, LiquidityAssumption
<1>6. SumTo(c, MaxRequests) = SumTo(b, MaxRequests) + (c[k] - b[k])
  <2>1. \A i \in 1..MaxRequests : i # k => c[i] = b[i]
    BY <1>3
  <2> QED
    BY <1>2, <1>4, <2>1, SumUpdate, LiquidityAssumption
<1>7. SumTo(m, MaxRequests) \in Int /\ SumTo(b, MaxRequests) \in Int
  <2>1. ASSUME NEW f \in [1..MaxRequests -> Int]
        PROVE  SumTo(f, MaxRequests) \in Int
    <3>1. \A i \in 0..MaxRequests : PrefixSums(f, MaxRequests)[i] \in Int
      BY PrefixSumsType, LiquidityAssumption
    <3> QED
      BY <3>1, LiquidityAssumption DEF SumTo
  <2> QED
    BY <1>2, <2>1
<1>8. n[k] \in Int /\ c[k] \in Int
  BY <1>2, <1>4
<1> QED
  BY <1>4, <1>5, <1>6, <1>7, <1>8 DEF pc, m, n, b, c

-----------------------------------------------------------------------------
(***************************************************************************)
(* Whatever ends a request pays out, or burns, all that is owed to it.     *)
(***************************************************************************)
LEMMA LeaveStep ==
  ASSUME IInv, NEW k \in Requests, requests[k].exists,
         NEW how \in {"executed", "cancelled"}, NEW by \in Keepers \cup {"owner"},
         NEW report, report.lo \in Nat, report.hi \in Nat, NEW made \in Nat,
         NEW amount \in [Tokens -> Nat], NEW minted \in [Tokens -> Nat],
         NEW burnt \in [Tokens -> Nat],
         PayOut(requests[k].kind, amount, minted, burnt),
         Leave(k, how, by, report, made),
         \A t \in Tokens : amount[t] + burnt[t] = Pledge(requests[k])[t],
         how = "executed" => /\ minted[MarketToken] = made
                             /\ burnt[MarketToken] = requests[k].brought[MarketToken],
         how = "cancelled" => minted[MarketToken] = 0 /\ burnt[MarketToken] = 0,
         AmpleGas /\ by \in Keepers => Covers(report, requests[k].updatedAt),
         how = "cancelled" /\ by = "owner" => RequestExpired(requests[k])
  PROVE  Correct
<1> DEFINE r == requests[k]
           v == r.kind
           s == [how |-> how, by |-> by, request |-> r, lo |-> report.lo,
                 hi |-> report.hi, at |-> block, minted |-> made]
<1>1. /\ TypeOK /\ Books
      /\ r \in RequestRecords /\ v \in Kinds /\ k \in 1..nonce
  BY RequestType DEF IInv, Books
<1>2. /\ requests' = [requests EXCEPT ![k] = NoRequest]
      /\ outcome' = [outcome EXCEPT ![k] = s]
      /\ UNCHANGED <<block, nonce, disabled>>
  BY DEF Leave
<1>3. /\ s \in Outcomes /\ s.how = how /\ s.by = by /\ s.request = r
      /\ s.lo = report.lo /\ s.hi = report.hi /\ s.at = block /\ s.minted = made
  BY <1>1 DEF Outcomes, TypeOK
<1> HIDE DEF s
<1>4. PayOut(v, amount, minted, burnt)
  OBVIOUS
<1> HIDE DEF v
<1>5. /\ vault' \in [Kinds -> [Tokens -> Nat]]
      /\ outside' \in [Tokens -> Nat]
      /\ recorded' \in [Kinds -> [Tokens -> Nat]]
      /\ Backed'
      /\ \A u \in Kinds \ {v} : vault'[u] = vault[u] /\ recorded'[u] = recorded[u]
      /\ \A t \in Tokens :
           /\ vault'[v][t] = vault[v][t] - amount[t] - burnt[t]
           /\ recorded'[v][t] >= recorded[v][t] - amount[t] - burnt[t]
           /\ vault[v][t] = recorded[v][t] => vault'[v][t] = recorded'[v][t]
      /\ Circulating' = Circulating + minted[MarketToken] - burnt[MarketToken]
  BY <1>1, <1>4, PayOutBooks
<1>6. TypeOK'
  <2>1. /\ requests' \in [Requests -> RequestRecords \cup {NoRequest}]
        /\ outcome' \in [Requests -> Outcomes \cup {NoOutcome}]
    BY <1>1, <1>2, <1>3 DEF TypeOK
  <2>2. \A j \in Requests : requests'[j].exists => j <= nonce'
    BY <1>1, <1>2 DEF TypeOK, NoRequest
  <2> QED
    BY <1>1, <1>2, <1>5, <2>1, <2>2 DEF TypeOK
<1>7. Ledgers' /\ \A u \in Kinds : RebookOf(u, k) /\ OthersAsOpen(u, k)
  <2>1. ~NoRequest.exists /\ \A t \in Tokens : Pledge(NoRequest)[t] = 0
    BY NothingType DEF Pledge, NoRequest
  <2>2. \A t \in Tokens : /\ recorded[v][t] \in Nat /\ recorded'[v][t] \in Nat
                          /\ vault[v][t] \in Nat /\ amount[t] \in Nat /\ burnt[t] \in Nat
    BY <1>1, <1>5 DEF TypeOK
  <2>3. \A t \in Tokens :
          recorded'[v][t] >= recorded[v][t] + Pledge(NoRequest)[t] - Pledge(requests[k])[t]
    BY <1>5, <2>1, <2>2
  <2>4. \A t \in Tokens \ Donations : vault[v][t] = recorded[v][t]
    BY <1>1 DEF IInv, Ledgers, Exact
  <2>5. \A t \in Tokens \ Donations :
          /\ vault'[v][t] = vault[v][t] + Pledge(NoRequest)[t] - Pledge(requests[k])[t]
          /\ recorded'[v][t] = vault'[v][t]
    BY <1>5, <2>1, <2>2, <2>4
  <2>6. requests[k].exists => requests[k].kind = v
    BY DEF v
  <2> QED
    BY <1>1, <1>2, <1>5, <1>6, <2>1, <2>3, <2>5, <2>6, RequestStep
<1>8. History'
  <2>1. Settled /\ Brings /\ MarketTokenSupply /\ SettledAtRequest /\ OwnerWaits
    BY DEF IInv, History
  <2>2. \A j \in Requests : j # k => requests'[j] = requests[j] /\ outcome'[j] = outcome[j]
    BY <1>1, <1>2 DEF TypeOK
  <2>3. requests'[k] = NoRequest /\ outcome'[k] = s
    BY <1>1, <1>2 DEF TypeOK
  <2>4. Settled'
    BY <1>1, <1>2, <2>1, <2>2, <2>3 DEF Settled, NoRequest
  <2>5. Brings'
    BY <2>1, <2>2, <2>3 DEF Brings, NoRequest
  <2>6. MarketTokenSupply'
    <3> DEFINE mm == SumTo(MintedIn(outcome), MaxRequests)
               bb == SumTo(BurntIn(outcome), MaxRequests)
               nn == SumTo(MintedIn(outcome'), MaxRequests)
               cc == SumTo(BurntIn(outcome'), MaxRequests)
    <3>1. outcome[k].how = "none"
      <4>1. outcome[k].how # "none" => ~requests[k].exists
        BY <2>1 DEF Settled
      <4> QED
        BY <4>1
    <3>2. outcome \in [Requests -> Outcomes \cup {NoOutcome}]
      BY <1>1 DEF TypeOK
    <3>3. /\ nn = mm + (IF how = "executed" THEN made ELSE 0)
          /\ cc = bb + (IF how = "executed" THEN r.brought[MarketToken] ELSE 0)
          /\ mm \in Int /\ bb \in Int
      BY <1>2, <1>3, <3>1, <3>2, SupplyChange
    <3>4. Circulating = Supply + mm - bb
      BY <2>1 DEF MarketTokenSupply, Circulating, MintedBy, BurntBy, MintedIn, BurntIn, Executed
    <3>5. MarketTokenSupply' <=> Circulating' = Supply + nn - cc
      BY DEF MarketTokenSupply, Circulating, MintedBy, BurntBy, MintedIn, BurntIn, Executed
    <3>6. Circulating' = Circulating + minted[MarketToken] - burnt[MarketToken]
      BY <1>5
    <3>7. /\ minted[MarketToken] = IF how = "executed" THEN made ELSE 0
          /\ burnt[MarketToken] = IF how = "executed" THEN r.brought[MarketToken] ELSE 0
      OBVIOUS
    <3>8. minted[MarketToken] \in Int /\ burnt[MarketToken] \in Int /\ Supply \in Int
      BY LiquidityAssumption
    <3> HIDE DEF mm, bb, nn, cc
    <3>9. nn = mm + minted[MarketToken] /\ cc = bb + burnt[MarketToken]
      BY <3>3, <3>7
    <3>10. Circulating' = Supply + nn - cc
      BY <3>3, <3>4, <3>6, <3>8, <3>9
    <3> QED
      BY <3>5, <3>10
  <2>7. SettledAtRequest'
    <3>1. ASSUME AmpleGas, NEW j \in Requests, outcome'[j].how # "none", outcome'[j].by \in Keepers
          PROVE  /\ outcome'[j].lo <= outcome'[j].request.updatedAt
                 /\ outcome'[j].request.updatedAt <= outcome'[j].hi
      <4>1. CASE j = k
        BY <1>3, <2>3, <3>1, <4>1 DEF Covers
      <4>2. CASE j # k
        BY <2>1, <2>2, <3>1, <4>2 DEF SettledAtRequest
      <4> QED
        BY <4>1, <4>2
    <3> QED
      BY <3>1 DEF SettledAtRequest
  <2>8. OwnerWaits'
    <3>1. ASSUME NEW j \in Requests, outcome'[j].how = "cancelled", outcome'[j].by = "owner"
          PROVE  outcome'[j].at - outcome'[j].request.updatedAt >= RequestExpirationAge
      <4>1. CASE j = k
        BY <1>3, <2>3, <3>1, <4>1 DEF RequestExpired
      <4>2. CASE j # k
        BY <2>1, <2>2, <3>1, <4>2 DEF OwnerWaits
      <4> QED
        BY <4>1, <4>2
    <3> QED
      BY <3>1 DEF OwnerWaits
  <2> QED
    BY <2>4, <2>5, <2>6, <2>7, <2>8 DEF History
<1>9. ASSUME NEW u \in Kinds
      PROVE  EscrowStep(u)
  <2>1. requests'[k] = NoRequest
    BY <1>1, <1>2 DEF TypeOK
  <2>2. ~IsOpen(requests', u, k)
    BY <2>1 DEF IsOpen, NoRequest
  <2>3. CASE u = v
    <3>1. IsOpen(requests, u, k)
      BY <2>3 DEF IsOpen, v
    <3> QED
      BY <1>2, <1>7, <2>2, <3>1 DEF EscrowStep
  <2>4. CASE u # v
    <3>1. ~IsOpen(requests, u, k)
      BY <2>4 DEF IsOpen, v
    <3>2. recorded'[u] = recorded[u]
      BY <1>5, <2>4
    <3>3. PledgeIn(requests', u, k) = PledgeIn(requests, u, k)
      BY <2>2, <3>1 DEF PledgeIn, IsOpen
    <3>4. \A j \in Requests : /\ PledgeIn(requests', u, j) = PledgeIn(requests, u, j)
                              /\ IsOpen(requests', u, j) <=> IsOpen(requests, u, j)
      BY <1>7, <2>2, <3>1, <3>3 DEF RebookOf, OthersAsOpen
    <3> QED
      BY <1>2, <3>2, <3>4 DEF EscrowStep
  <2> QED
    BY <2>3, <2>4
<1> QED
  BY <1>5, <1>6, <1>7, <1>8, <1>9 DEF Correct, IInv, Books

-----------------------------------------------------------------------------
(***************************************************************************)
(* Requests of owners: what the books rise by is what the request says.    *)
(***************************************************************************)
LEMMA ReceivedExactly ==
  ASSUME IInv, NEW v \in Kinds, NEW sent \in [Tokens -> Nat], NEW t \in Tokens \ Donations
  PROVE  Received(v, sent, t) = sent[t] /\ vault[v][t] = recorded[v][t]
<1>1. vault[v][t] = recorded[v][t] /\ recorded[v][t] \in Nat /\ sent[t] \in Nat
  BY DEF IInv, Books, TypeOK, Ledgers, Exact
<1> QED
  BY <1>1 DEF Received

LEMMA CreateStep ==
  ASSUME IInv, NEW v \in Kinds, NEW sent \in [Tokens -> Nat], NEW used \in SUBSET Tokens,
         \A t \in Tokens \ used : sent[t] = 0,
         NEW brought \in [Tokens -> Nat], NEW fee \in Nat,
         TakeIn(v, sent, used), Add(v, brought, fee),
         v = "deposit" => brought[MarketToken] = 0,
         \A t \in Tokens :
           brought[t] + (IF t = Wnt THEN fee ELSE 0)
             = IF t \in used THEN Received(v, sent, t) ELSE 0
  PROVE  Correct
<1>1. /\ vault' \in [Kinds -> [Tokens -> Nat]]
      /\ outside' \in [Tokens -> Nat]
      /\ recorded' \in [Kinds -> [Tokens -> Nat]]
      /\ Backed'
      /\ \A u \in Kinds \ {v} : vault'[u] = vault[u] /\ recorded'[u] = recorded[u]
      /\ \A t \in Tokens :
           /\ vault'[v][t] = vault[v][t] + sent[t]
           /\ Received(v, sent, t) \in Nat
           /\ recorded'[v][t] = IF t \in used THEN recorded[v][t] + Received(v, sent, t)
                                ELSE recorded[v][t]
      /\ Circulating' = Circulating
  BY TakeInBooks DEF IInv
<1>2. ASSUME NEW t \in Tokens
      PROVE  /\ recorded'[v][t] >= recorded[v][t] + brought[t] + (IF t = Wnt THEN fee ELSE 0)
             /\ t \notin Donations =>
                  /\ vault'[v][t] = vault[v][t] + brought[t] + (IF t = Wnt THEN fee ELSE 0)
                  /\ recorded'[v][t] = vault'[v][t]
  <2> DEFINE owed == IF t = Wnt THEN fee ELSE 0
  <2>1. brought[t] + owed = IF t \in used THEN Received(v, sent, t) ELSE 0
    OBVIOUS
  <2>2. /\ brought[t] \in Nat /\ owed \in Nat /\ recorded[v][t] \in Nat
        /\ vault[v][t] \in Nat /\ sent[t] \in Nat
    BY DEF IInv, Books, TypeOK
  <2> HIDE DEF owed
  <2>3. recorded'[v][t] = recorded[v][t] + (brought[t] + owed)
    BY <1>1, <2>1, <2>2
  <2>4. ASSUME t \notin Donations
        PROVE  vault'[v][t] = vault[v][t] + (brought[t] + owed) /\ recorded'[v][t] = vault'[v][t]
    <3>1. Received(v, sent, t) = sent[t] /\ vault[v][t] = recorded[v][t]
      BY <2>4, ReceivedExactly
    <3>2. brought[t] + owed = sent[t]
      BY <2>1, <3>1
    <3> QED
      BY <1>1, <2>2, <2>3, <3>1, <3>2
  <2> QED
    BY <2>2, <2>3, <2>4 DEF owed
<1>3. Rises(v, brought, fee)
  BY <1>1, <1>2 DEF Rises
<1> QED
  BY <1>3, AddStep

LEMMA CreateDepositStep ==
  ASSUME IInv, NEW long \in Tokens \ {MarketToken}, NEW short \in Tokens \ {MarketToken},
         NEW sent \in [Tokens -> Nat], NEW passedFee \in Nat,
         \A t \in Tokens \ {long, short, Wnt} : sent[t] = 0,
         CreateDeposit(long, short, sent, passedFee)
  PROVE  Correct
<1> DEFINE used == {long, short, Wnt}
           fee == IF Wnt \in {long, short} THEN passedFee ELSE Received("deposit", sent, Wnt)
           brought == DepositBrings(long, short, sent, fee)
<1>1. /\ passedFee <= Received("deposit", sent, Wnt)
      /\ TakeIn("deposit", sent, used) /\ Add("deposit", brought, fee)
  BY DEF CreateDeposit
<1>2. /\ "deposit" \in Kinds /\ used \in SUBSET Tokens /\ Wnt \in Tokens
      /\ MarketToken \in Tokens /\ Wnt # MarketToken
  BY LiquidityAssumption DEF Kinds
<1>3. \A t \in Tokens : Received("deposit", sent, t) \in Nat
  <2> HIDE DEF used
  <2> QED
    BY <1>1, <1>2, TakeInBooks DEF IInv
<1>4. fee \in Nat /\ fee <= Received("deposit", sent, Wnt)
  BY <1>1, <1>2, <1>3
<1>5. \A t \in Tokens :
        brought[t] = IF t \in {long, short}
                     THEN Received("deposit", sent, t) - (IF t = Wnt THEN fee ELSE 0)
                     ELSE 0
  BY DEF DepositBrings
<1>6. brought \in [Tokens -> Nat]
  <2>1. \A t \in Tokens : brought[t] \in Nat
    BY <1>3, <1>4, <1>5
  <2>2. brought = [t \in Tokens |-> brought[t]]
    BY DEF DepositBrings
  <2> QED
    BY <2>1, <2>2
<1>7. brought[MarketToken] = 0
  BY <1>2, <1>5
<1>8. \A t \in Tokens :
        brought[t] + (IF t = Wnt THEN fee ELSE 0)
          = IF t \in used THEN Received("deposit", sent, t) ELSE 0
  BY <1>3, <1>4, <1>5
<1>9. \A t \in Tokens \ used : sent[t] = 0
  OBVIOUS
<1> HIDE DEF used, fee, brought
<1> QED
  BY <1>1, <1>2, <1>4, <1>6, <1>7, <1>8, <1>9, CreateStep

LEMMA CreateWithdrawalStep ==
  ASSUME IInv, NEW sent \in [Tokens -> Nat], NEW passedFee \in Nat,
         \A t \in Tokens \ {Wnt, MarketToken} : sent[t] = 0,
         CreateWithdrawal(sent, passedFee)
  PROVE  Correct
<1> DEFINE used == {Wnt, MarketToken}
           amount == Received("withdrawal", sent, MarketToken)
           fee == Received("withdrawal", sent, Wnt)
           brought == [Nothing EXCEPT ![MarketToken] = amount]
<1>1. TakeIn("withdrawal", sent, used) /\ Add("withdrawal", brought, fee)
  BY DEF CreateWithdrawal
<1>2. /\ "withdrawal" \in Kinds /\ used \in SUBSET Tokens /\ Wnt \in Tokens
      /\ MarketToken \in Tokens /\ Wnt # MarketToken
  BY LiquidityAssumption DEF Kinds
<1>3. \A t \in Tokens : Received("withdrawal", sent, t) \in Nat
  <2> HIDE DEF used
  <2> QED
    BY <1>1, <1>2, TakeInBooks DEF IInv
<1>4. fee \in Nat /\ amount \in Nat
  BY <1>2, <1>3
<1> HIDE DEF fee, amount
<1>5. \A t \in Tokens : brought[t] = IF t = MarketToken THEN amount ELSE 0
  BY <1>2, NothingType
<1>6. brought \in [Tokens -> Nat]
  BY <1>2, <1>4, NothingType
<1> HIDE DEF brought
<1>7. \A t \in Tokens :
        brought[t] + (IF t = Wnt THEN fee ELSE 0)
          = IF t \in used THEN Received("withdrawal", sent, t) ELSE 0
  BY <1>2, <1>3, <1>4, <1>5 DEF fee, amount
<1>8. \A t \in Tokens \ used : sent[t] = 0
  OBVIOUS
<1> HIDE DEF used
<1> QED
  BY <1>1, <1>2, <1>4, <1>6, <1>7, <1>8, CreateStep

-----------------------------------------------------------------------------
(***************************************************************************)
(* Requests that leave the store.                                          *)
(***************************************************************************)
LEMMA CancelToStep ==
  ASSUME IInv, NEW k \in Requests, requests[k].exists, NEW by \in Keepers \cup {"owner"},
         NEW report, report.lo \in Nat, report.hi \in Nat, CancelTo(k, by, report),
         AmpleGas /\ by \in Keepers => Covers(report, requests[k].updatedAt),
         by = "owner" => RequestExpired(requests[k])
  PROVE  Correct
<1> DEFINE amount == Plus(requests[k].brought, FeeOf(requests[k]))
<1>1. requests[k] \in RequestRecords
  BY RequestType DEF IInv, Books
<1>2. amount \in [Tokens -> Nat] /\ Pledge(requests[k]) = amount
  BY <1>1, RecordPledge
<1>3. /\ Nothing \in [Tokens -> Nat] /\ Nothing[MarketToken] = 0
      /\ \A t \in Tokens : amount[t] + Nothing[t] = Pledge(requests[k])[t]
  BY <1>2, NothingType, LiquidityAssumption
<1>4. PayOut(requests[k].kind, amount, Nothing, Nothing) /\ Leave(k, "cancelled", by, report, 0)
  BY DEF CancelTo
<1>5. /\ 0 \in Nat /\ "cancelled" # "executed"
      /\ "cancelled" \in {"executed", "cancelled"}
  OBVIOUS
<1> HIDE DEF amount
<1> QED
  BY <1>2, <1>3, <1>4, <1>5, LeaveStep, Zenon

LEMMA ReportType ==
  ASSUME TypeOK, NEW report \in Reports
  PROVE  report.lo \in Nat /\ report.hi \in Nat
BY DEF Reports, TypeOK

LEMMA ExecuteDepositStep ==
  ASSUME IInv, NEW k \in Requests, NEW keeper \in Keepers, NEW report \in Reports,
         ExecuteDeposit(k, keeper, report)
  PROVE  Correct
<1> DEFINE r == requests[k]
           amount == Plus(r.brought, FeeOf(r))
<1>1. /\ r.exists /\ r.kind = "deposit" /\ Covers(report, r.updatedAt)
      /\ \E m \in MintAmounts :
           /\ PayOut(r.kind, amount, [Nothing EXCEPT ![MarketToken] = m], Nothing)
           /\ Leave(k, "executed", keeper, report, m)
  BY DEF ExecuteDeposit
<1>2. PICK m \in MintAmounts :
        /\ PayOut(r.kind, amount, [Nothing EXCEPT ![MarketToken] = m], Nothing)
        /\ Leave(k, "executed", keeper, report, m)
  BY <1>1
<1>3. r \in RequestRecords /\ report.lo \in Nat /\ report.hi \in Nat
  BY <1>1, RequestType, ReportType DEF IInv, Books
<1>4. amount \in [Tokens -> Nat] /\ Pledge(r) = amount
  BY <1>3, RecordPledge
<1> DEFINE minted == [Nothing EXCEPT ![MarketToken] = m]
<1>5. /\ m \in Nat /\ minted \in [Tokens -> Nat] /\ minted[MarketToken] = m
      /\ Nothing \in [Tokens -> Nat] /\ Nothing[MarketToken] = 0
  BY NothingType, LiquidityAssumption
<1>6. \A t \in Tokens : amount[t] + Nothing[t] = Pledge(requests[k])[t]
  BY <1>4, NothingType
<1>7. requests[k].brought[MarketToken] = 0
  BY <1>1 DEF IInv, History, Brings
<1>8. PayOut(requests[k].kind, amount, minted, Nothing)
  BY <1>2
<1> HIDE DEF amount, minted
<1> QED
  BY <1>1, <1>2, <1>3, <1>4, <1>5, <1>6, <1>7, <1>8, LeaveStep

LEMMA ExecuteWithdrawalStep ==
  ASSUME IInv, NEW k \in Requests, NEW keeper \in Keepers, NEW report \in Reports,
         ExecuteWithdrawal(k, keeper, report)
  PROVE  Correct
<1> DEFINE r == requests[k]
           amount == FeeOf(r)
           burnt == r.brought
<1>1. /\ r.exists /\ Covers(report, r.updatedAt)
      /\ PayOut(requests[k].kind, amount, Nothing, burnt)
      /\ Leave(k, "executed", keeper, report, 0)
  BY DEF ExecuteWithdrawal
<1>2. r \in RequestRecords /\ report.lo \in Nat /\ report.hi \in Nat
  BY <1>1, RequestType, ReportType DEF IInv, Books
<1>3. amount \in [Tokens -> Nat] /\ burnt \in [Tokens -> Nat] /\ Pledge(r) = Plus(burnt, amount)
  BY <1>2, RecordPledge
<1>4. \A t \in Tokens : amount[t] + burnt[t] = Pledge(requests[k])[t]
  <2> HIDE DEF amount, burnt
  <2> QED
    BY <1>3 DEF Plus
<1>5. Nothing \in [Tokens -> Nat] /\ Nothing[MarketToken] = 0
  BY NothingType, LiquidityAssumption
<1>6. burnt[MarketToken] = requests[k].brought[MarketToken]
  OBVIOUS
<1> HIDE DEF amount, burnt
<1> QED
  BY <1>1, <1>2, <1>3, <1>4, <1>5, <1>6, LeaveStep

-----------------------------------------------------------------------------
(***************************************************************************)
(* Steps that no request takes part in.                                    *)
(***************************************************************************)
LEMMA StutterOfEscrows ==
  ASSUME UNCHANGED <<requests, nonce, recorded>>
  PROVE  \A v \in Kinds : EscrowStep(v)
BY DEF EscrowStep

LEMMA HistoryKept ==
  ASSUME History, UNCHANGED <<requests, nonce, outcome>>, Circulating' = Circulating
  PROVE  History'
<1>1. MarketTokenSupply'
  BY DEF History, MarketTokenSupply, MintedBy, BurntBy, Executed, Circulating
<1> QED
  BY <1>1 DEF History, Settled, Brings, SettledAtRequest, OwnerWaits

LEMMA DonationStep ==
  ASSUME IInv, NEW v \in Kinds, NEW t \in Tokens, DirectTransfer(v, t)
  PROVE  Correct
<1> DEFINE sent == [Nothing EXCEPT ![t] = 1]
<1>1. /\ TakeIn(v, sent, {}) /\ sent \in [Tokens -> Nat] /\ t \in Donations
      /\ \A u \in Tokens \ {t} : sent[u] = 0
      /\ UNCHANGED <<block, requests, nonce, disabled, outcome>>
  BY NothingType DEF DirectTransfer
<1> HIDE DEF sent
<1>2. /\ vault' \in [Kinds -> [Tokens -> Nat]]
      /\ outside' \in [Tokens -> Nat]
      /\ recorded' \in [Kinds -> [Tokens -> Nat]]
      /\ Backed'
      /\ \A u \in Kinds \ {v} : vault'[u] = vault[u] /\ recorded'[u] = recorded[u]
      /\ \A u \in Tokens :
           vault'[v][u] = vault[v][u] + sent[u] /\ recorded'[v][u] = recorded[v][u]
      /\ Circulating' = Circulating
  BY <1>1, TakeInBooks DEF IInv
<1>3. recorded' = recorded
  BY <1>2 DEF IInv, Books, TypeOK
<1>4. TypeOK'
  BY <1>1, <1>2 DEF IInv, Books, TypeOK
<1>5. ASSUME NEW w \in Kinds, NEW u \in Tokens \ Donations
      PROVE  vault'[w][u] = vault[w][u]
  <2>1. sent[u] = 0 /\ vault[v][u] \in Nat
    BY <1>1 DEF IInv, Books, TypeOK
  <2>2. vault'[v][u] = vault[v][u]
    BY <1>2, <2>1
  <2> QED
    BY <1>2, <2>2
<1>6. Ledgers'
  BY <1>1, <1>3, <1>5 DEF IInv, Ledgers, Covered, Exact, OwedOf
<1>7. History'
  BY <1>1, <1>2, HistoryKept DEF IInv
<1> QED
  BY <1>1, <1>2, <1>3, <1>4, <1>6, <1>7, StutterOfEscrows DEF Correct, IInv, Books

LEMMA QuietStep ==
  ASSUME IInv, UNCHANGED <<requests, nonce, tokens, outcome>>,
         block' \in Nat, disabled' \subseteq Features
  PROVE  Correct
<1>1. TypeOK' /\ Backed'
  BY DEF IInv, Books, TypeOK, Backed, tokens
<1>2. Ledgers'
  BY DEF IInv, Ledgers, Covered, Exact, OwedOf, tokens
<1>3. History'
  BY HistoryKept DEF IInv, Circulating, tokens
<1> QED
  BY <1>1, <1>2, <1>3, StutterOfEscrows DEF Correct, IInv, Books, tokens

(***************************************************************************)
(* The values that Next hands to the owners' requests are naturals.        *)
(***************************************************************************)
LEMMA SentType ==
  ASSUME NEW used, NEW sent \in SentIn(used)
  PROVE  sent \in [Tokens -> Nat] /\ \A t \in Tokens \ used : sent[t] = 0
<1>1. Amounts \cup {0} \subseteq Nat
  BY LiquidityAssumption
<1> QED
  BY <1>1 DEF SentIn

LEMMA EveryStep == IInv /\ [Next]_vars => Correct
<1> SUFFICES ASSUME IInv, [Next]_vars
             PROVE  Correct
  OBVIOUS
<1>1. CASE CreateSomeDeposit
  <2>1. PICK long \in Tokens \ {MarketToken}, short \in Tokens \ {MarketToken} :
          \E sent \in SentIn({long, short, Wnt}),
             passedFee \in IF Wnt \in {long, short} THEN Amounts ELSE {MinExecutionFee} :
            CreateDeposit(long, short, sent, passedFee)
    BY <1>1 DEF CreateSomeDeposit
  <2>2. PICK sent \in SentIn({long, short, Wnt}),
             passedFee \in IF Wnt \in {long, short} THEN Amounts ELSE {MinExecutionFee} :
          CreateDeposit(long, short, sent, passedFee)
    BY <2>1
  <2>3. passedFee \in Nat
    BY LiquidityAssumption
  <2>4. sent \in [Tokens -> Nat] /\ \A t \in Tokens \ {long, short, Wnt} : sent[t] = 0
    BY SentType
  <2> QED
    BY <2>2, <2>3, <2>4, CreateDepositStep
<1>2. CASE CreateSomeWithdrawal
  <2>1. PICK sent \in SentIn({Wnt, MarketToken}) : CreateWithdrawal(sent, MinExecutionFee)
    BY <1>2 DEF CreateSomeWithdrawal
  <2>2. sent \in [Tokens -> Nat] /\ \A t \in Tokens \ {Wnt, MarketToken} : sent[t] = 0
    BY SentType
  <2> QED
    BY <2>1, <2>2, CreateWithdrawalStep, LiquidityAssumption
<1>3. ASSUME NEW k \in Requests, CancelRequest(k)
      PROVE  Correct
  <2> DEFINE report == [lo |-> block, hi |-> block]
  <2>1. /\ requests[k].exists /\ RequestExpired(requests[k])
        /\ CancelTo(k, "owner", report)
    BY <1>3 DEF CancelRequest
  <2>2. report.lo \in Nat /\ report.hi \in Nat
    BY DEF IInv, Books, TypeOK
  <2>3. "owner" \notin Keepers
    BY LiquidityAssumption
  <2> HIDE DEF report
  <2> QED
    BY <2>1, <2>2, <2>3, CancelToStep
<1>4. ASSUME NEW k \in Requests, NEW keeper \in Keepers, NEW report \in Reports,
             CancelOnError(k, keeper, report)
      PROVE  Correct
  <2>1. /\ requests[k].exists /\ CancelTo(k, keeper, report)
        /\ AmpleGas => Covers(report, requests[k].updatedAt)
    BY <1>4 DEF CancelOnError
  <2>2. report.lo \in Nat /\ report.hi \in Nat
    BY ReportType DEF IInv, Books
  <2>3. keeper # "owner"
    BY LiquidityAssumption
  <2> QED
    BY <2>1, <2>2, <2>3, CancelToStep
<1>5. ASSUME NEW f \in Features, SwitchFeature(f)
      PROVE  Correct
  <2>1. block' \in Nat /\ disabled' \subseteq Features
    BY <1>5 DEF SwitchFeature, IInv, Books, TypeOK
  <2> QED
    BY <1>5, <2>1, QuietStep DEF SwitchFeature
<1>6. CASE NextBlock
  <2>1. block' \in Nat /\ disabled' \subseteq Features
    BY <1>6 DEF NextBlock, IInv, Books, TypeOK
  <2> QED
    BY <1>6, <2>1, QuietStep DEF NextBlock
<1>7. CASE UNCHANGED vars
  <2>1. block' \in Nat /\ disabled' \subseteq Features
    BY <1>7 DEF vars, IInv, Books, TypeOK
  <2> QED
    BY <1>7, <2>1, QuietStep DEF vars
<1> QED
  BY <1>1, <1>2, <1>3, <1>4, <1>5, <1>6, <1>7,
     ExecuteDepositStep, ExecuteWithdrawalStep, DonationStep DEF Next

LEMMA InitIInv == Init => IInv
<1> SUFFICES ASSUME Init
             PROVE  IInv
  OBVIOUS
<1>1. /\ \A k \in Requests : requests[k] = NoRequest /\ outcome[k] = NoOutcome
      /\ \A v \in Kinds, t \in Tokens : vault[v][t] = 0 /\ recorded[v][t] = 0
  BY DEF Init, Nothing
<1>2. TypeOK
  BY NothingType, LiquidityAssumption DEF Init, TypeOK, NoRequest, Nothing
<1>3. Backed
  BY <1>1 DEF Backed
<1>4. ASSUME NEW v \in Kinds, NEW t \in Tokens
      PROVE  OwedOf(v, t) = 0
  <2> DEFINE f == ColumnOf(requests, v, t)
  <2>1. f \in [1..MaxRequests -> Int]
    BY <1>2, ColumnType DEF TypeOK
  <2>2. \A i \in 1..MaxRequests : f[i] = 0
    BY <1>1, NothingType DEF ColumnOf, PledgeIn, NoRequest, Requests
  <2> HIDE DEF f
  <2>3. SumTo(f, MaxRequests) = 0
    BY <2>1, <2>2, SumZero, LiquidityAssumption
  <2> QED
    BY <2>3 DEF OwedOf, f
<1>5. Ledgers
  BY <1>1, <1>4 DEF Ledgers, Covered, Exact
<1>6. MarketTokenSupply
  <2>1. \A oc \in {outcome} : MintedIn(oc) \in [1..MaxRequests -> Int]
                              /\ BurntIn(oc) \in [1..MaxRequests -> Int]
    BY <1>2, SupplyType DEF TypeOK
  <2>2. \A i \in 1..MaxRequests : MintedIn(outcome)[i] = 0 /\ BurntIn(outcome)[i] = 0
    BY <1>1 DEF MintedIn, BurntIn, NoOutcome, Requests
  <2>3. SumTo(MintedIn(outcome), MaxRequests) = 0
    BY <2>1, <2>2, SumZero, LiquidityAssumption
  <2>4. SumTo(BurntIn(outcome), MaxRequests) = 0
    BY <2>1, <2>2, SumZero, LiquidityAssumption
  <2>5. SumTo(MintedBy, MaxRequests) = 0 /\ SumTo(BurntBy, MaxRequests) = 0
    BY <2>3, <2>4 DEF MintedBy, BurntBy, MintedIn, BurntIn, Executed
  <2>6. /\ outside[MarketToken] = Supply /\ Supply \in Nat
        /\ vault["deposit"][MarketToken] = 0 /\ vault["withdrawal"][MarketToken] = 0
    BY <1>1, LiquidityAssumption DEF Init, Kinds
  <2> QED
    BY <2>5, <2>6 DEF MarketTokenSupply
<1>7. History
  BY <1>1, <1>6 DEF History, Settled, Brings, SettledAtRequest, OwnerWaits, NoOutcome, NoRequest
<1> QED
  BY <1>2, <1>3, <1>5, <1>7 DEF IInv, Books

LEMMA AlwaysIInv == Spec => []IInv
BY InitIInv, EveryStep, PTL DEF Spec, Correct

-----------------------------------------------------------------------------
(***************************************************************************)
(* The two instances of RequestEscrow speak of the same sums.              *)
(***************************************************************************)
LEMMA PledgesAre ==
  ASSUME NEW v \in Kinds
  PROVE  /\ pledgesOf(v) = [k \in Requests |-> PledgeIn(requests, v, k)]
         /\ openOf(v) = {k \in Requests : IsOpen(requests, v, k)}
BY DEF pledgesOf, openOf, PledgeIn, IsOpen

LEMMA EscrowsOwe ==
  ASSUME NEW t \in Tokens
  PROVE  /\ DepositEscrow!Owed(t) = OwedOf("deposit", t)
         /\ WithdrawalEscrow!Owed(t) = OwedOf("withdrawal", t)
<1>1. ASSUME NEW v \in Kinds
      PROVE  [k \in Requests |-> pledgesOf(v)[k][t]] = ColumnOf(requests, v, t)
  BY PledgesAre DEF ColumnOf
<1>2. DepositEscrow!Owed(t) = SumTo([k \in Requests |-> pledgesOf("deposit")[k][t]], MaxRequests)
  BY DEF DepositEscrow!Owed, DepositEscrow!SumTo, DepositEscrow!PrefixSums,
         DepositEscrow!Requests, SumTo, PrefixSums, Requests
<1>3. WithdrawalEscrow!Owed(t)
        = SumTo([k \in Requests |-> pledgesOf("withdrawal")[k][t]], MaxRequests)
  BY DEF WithdrawalEscrow!Owed, WithdrawalEscrow!SumTo, WithdrawalEscrow!PrefixSums,
         WithdrawalEscrow!Requests, SumTo, PrefixSums, Requests
<1>4. "deposit" \in Kinds /\ "withdrawal" \in Kinds
  BY DEF Kinds
<1>5. /\ [k \in Requests |-> pledgesOf("deposit")[k][t]] = ColumnOf(requests, "deposit", t)
      /\ [k \in Requests |-> pledgesOf("withdrawal")[k][t]] = ColumnOf(requests, "withdrawal", t)
  BY <1>1, <1>4
<1> QED
  BY <1>2, <1>3, <1>5 DEF OwedOf

-----------------------------------------------------------------------------
(***************************************************************************)
(* Types, whatever the constants; in particular no balance is negative.    *)
(***************************************************************************)
THEOREM LiquidityTypeOK == Spec => []TypeOK
<1>1. IInv => TypeOK
  BY DEF IInv, Books
<1> QED
  BY <1>1, AlwaysIInv, PTL

(***************************************************************************)
(* The DepositVault and the WithdrawalVault can settle every request that  *)
(* is open, at any time.                                                   *)
(***************************************************************************)
THEOREM LiquiditySolvent == Spec => []Solvent
<1>1. IInv => Solvent
  <2> SUFFICES ASSUME IInv PROVE Solvent
    OBVIOUS
  <2>1. \A t \in Tokens : /\ recorded["deposit"][t] >= OwedOf("deposit", t)
                          /\ recorded["withdrawal"][t] >= OwedOf("withdrawal", t)
    BY DEF IInv, Ledgers, Covered, Kinds
  <2>2. DepositEscrow!Solvent
    BY <2>1, EscrowsOwe DEF DepositEscrow!Solvent
  <2>3. WithdrawalEscrow!Solvent
    BY <2>1, EscrowsOwe DEF WithdrawalEscrow!Solvent
  <2>4. \A v \in Kinds, t \in Tokens : vault[v][t] >= recorded[v][t]
    BY DEF IInv, Books, Backed
  <2> QED
    BY <2>2, <2>3, <2>4 DEF Solvent
<1> QED
  BY <1>1, AlwaysIInv, PTL

(***************************************************************************)
(* The safety half of OwnerGetsOut.  No cancellation and no execution      *)
(* fails for want of tokens: the vault of a request can send back what it  *)
(* brought, with the fee, at any time, so that an owner who wants out      *)
(* waits for the feature flag and the age of the request only.             *)
(***************************************************************************)
Refundable ==
  \A k \in Requests : requests[k].exists =>
    \A t \in Tokens :
      Plus(requests[k].brought, FeeOf(requests[k]))[t] <= vault[requests[k].kind][t]

THEOREM LiquidityRefundable == Spec => []Refundable
<1>1. IInv => Refundable
  <2> SUFFICES ASSUME IInv, NEW k \in Requests, requests[k].exists, NEW t \in Tokens
               PROVE  Plus(requests[k].brought, FeeOf(requests[k]))[t]
                        <= vault[requests[k].kind][t]
    BY DEF Refundable
  <2> DEFINE v == requests[k].kind
             f == ColumnOf(requests, v, t)
  <2>1. TypeOK /\ Backed /\ Covered
    BY DEF IInv, Books, Ledgers
  <2>2. v \in Kinds
    BY <2>1, RequestType
  <2>3. f \in [1..MaxRequests -> Nat] /\ k \in 1..MaxRequests
    BY <2>1, ColumnType DEF TypeOK, Requests
  <2>4. f[k] = Plus(requests[k].brought, FeeOf(requests[k]))[t]
    BY DEF ColumnOf, PledgeIn
  <2>5. vault[v][t] >= recorded[v][t] /\ recorded[v][t] >= SumTo(f, MaxRequests)
    BY <2>1, <2>2 DEF Backed, Covered, OwedOf
  <2>6. recorded[v][t] \in Nat /\ vault[v][t] \in Nat
    BY <2>1, <2>2 DEF TypeOK
  <2> HIDE DEF f, v
  <2>7. SumTo(f, MaxRequests) \in Nat /\ f[k] \in Nat /\ f[k] <= SumTo(f, MaxRequests)
    BY <2>3, SumBoundsEntry, LiquidityAssumption DEF LiquidityAssumption
  <2>8. f[k] <= vault[v][t]
    BY <2>5, <2>6, <2>7
  <2> QED
    BY <2>4, <2>8 DEF v
<1> QED
  BY <1>1, AlwaysIInv, PTL

(***************************************************************************)
(* Of a token that nobody donates, the two vaults hold what their open     *)
(* requests brought, to the last unit.                                     *)
(***************************************************************************)
THEOREM LiquidityNothingStranded == Spec => []NothingStranded
<1>1. IInv => NothingStranded
  <2> SUFFICES ASSUME IInv, NEW t \in Tokens \ Donations
               PROVE  /\ vault["deposit"][t] = DepositEscrow!Owed(t)
                      /\ vault["withdrawal"][t] = WithdrawalEscrow!Owed(t)
    BY DEF NothingStranded
  <2>1. /\ vault["deposit"][t] = OwedOf("deposit", t)
        /\ vault["withdrawal"][t] = OwedOf("withdrawal", t)
    BY DEF IInv, Ledgers, Exact, Kinds
  <2>2. vault["deposit"][t] = DepositEscrow!Owed(t)
    BY <2>1, EscrowsOwe
  <2>3. vault["withdrawal"][t] = WithdrawalEscrow!Owed(t)
    BY <2>1, EscrowsOwe
  <2> QED
    BY <2>2, <2>3
<1> QED
  BY <1>1, AlwaysIInv, PTL

(***************************************************************************)
(* Market tokens are minted by executed deposits and burnt by executed     *)
(* withdrawals, each once, and by nothing else.                            *)
(***************************************************************************)
THEOREM LiquidityMarketTokenSupply == Spec => []MarketTokenSupply
<1>1. IInv => MarketTokenSupply
  BY DEF IInv, History
<1> QED
  BY <1>1, AlwaysIInv, PTL

(***************************************************************************)
(* Keepers with enough gas settle a request only on prices of its block.   *)
(***************************************************************************)
THEOREM LiquiditySettledAtRequest == Spec => []SettledAtRequest
<1>1. IInv => SettledAtRequest
  BY DEF IInv, History
<1> QED
  BY <1>1, AlwaysIInv, PTL

(***************************************************************************)
(* No owner takes a request back before its age allows it.                 *)
(***************************************************************************)
THEOREM LiquidityOwnerWaits == Spec => []OwnerWaits
<1>1. IInv => OwnerWaits
  BY DEF IInv, History
<1> QED
  BY <1>1, AlwaysIInv, PTL

-----------------------------------------------------------------------------
(***************************************************************************)
(* A step of a vault is a step of its escrow, or leaves it alone.          *)
(***************************************************************************)
LEMMA PledgesMove ==
  ASSUME NEW v \in Kinds, NEW k \in Requests, RebookOf(v, k)
  PROVE  /\ pledgesOf(v)' \in [Requests -> [Tokens -> Nat]]
         /\ recorded'[v] \in [Tokens -> Nat]
         /\ \A j \in Requests \ {k} : pledgesOf(v)'[j] = pledgesOf(v)[j]
         /\ \A t \in Tokens :
              recorded'[v][t] >= recorded[v][t] + pledgesOf(v)'[k][t] - pledgesOf(v)[k][t]
<1>1. /\ pledgesOf(v) = [j \in Requests |-> PledgeIn(requests, v, j)]
      /\ pledgesOf(v)' = [j \in Requests |-> PledgeIn(requests', v, j)]
  BY DEF pledgesOf, openOf, PledgeIn
<1> QED
  BY <1>1 DEF RebookOf

LEMMA OpensMove ==
  ASSUME NEW v \in Kinds, NEW k \in Requests, OthersAsOpen(v, k)
  PROVE  /\ openOf(v)' = IF IsOpen(requests', v, k) THEN openOf(v) \cup {k}
                                                    ELSE openOf(v) \ {k}
         /\ k \in openOf(v) <=> IsOpen(requests, v, k)
         /\ ~IsOpen(requests', v, k) => pledgesOf(v)'[k] = Nothing
BY DEF OthersAsOpen, openOf, pledgesOf, IsOpen

LEMMA DepositEscrowStep ==
  ASSUME EscrowStep("deposit")
  PROVE  [DepositEscrow!Next]_(DepositEscrow!vars)
<1>1. ASSUME NEW k \in Requests, RebookOf("deposit", k), OthersAsOpen("deposit", k),
             \/ k = nonce + 1 /\ nonce' = k /\ ~IsOpen(requests, "deposit", k)
             \/ nonce' = nonce /\ IsOpen(requests, "deposit", k) /\ ~IsOpen(requests', "deposit", k)
      PROVE  DepositEscrow!Next
  <2>1. "deposit" \in Kinds
    BY DEF Kinds
  <2>2. DepositEscrow!Rebook(k)
    BY <1>1, <2>1, PledgesMove DEF DepositEscrow!Rebook, DepositEscrow!Requests, Requests
  <2>3. /\ openOf("deposit")' = IF IsOpen(requests', "deposit", k)
                                THEN openOf("deposit") \cup {k} ELSE openOf("deposit") \ {k}
        /\ k \in openOf("deposit") <=> IsOpen(requests, "deposit", k)
        /\ ~IsOpen(requests', "deposit", k) => pledgesOf("deposit")'[k] = Nothing
    BY <1>1, <2>1, OpensMove
  <2>4. DepositEscrow!Open(k) \/ DepositEscrow!Pass(k) \/ DepositEscrow!Close(k)
    <3>1. CASE nonce' = nonce /\ IsOpen(requests, "deposit", k) /\ ~IsOpen(requests', "deposit", k)
      BY <2>2, <2>3, <3>1 DEF DepositEscrow!Close, DepositEscrow!Nothing, Nothing
    <3>2. CASE k = nonce + 1 /\ nonce' = k /\ IsOpen(requests', "deposit", k)
      BY <1>1, <2>2, <2>3, <3>2 DEF DepositEscrow!Open
    <3>3. CASE /\ k = nonce + 1 /\ nonce' = k
               /\ ~IsOpen(requests', "deposit", k) /\ ~IsOpen(requests, "deposit", k)
      <4>1. openOf("deposit")' = openOf("deposit")
        BY <2>3, <3>3
      <4> QED
        BY <2>2, <2>3, <3>3, <4>1 DEF DepositEscrow!Pass, DepositEscrow!Nothing, Nothing
    <3> QED
      BY <1>1, <3>1, <3>2, <3>3
  <2> QED
    BY <2>4 DEF DepositEscrow!Next, DepositEscrow!Requests, Requests
<1>2. ASSUME nonce' = nonce, recorded'["deposit"] = recorded["deposit"],
             \A j \in Requests :
               /\ PledgeIn(requests', "deposit", j) = PledgeIn(requests, "deposit", j)
               /\ IsOpen(requests', "deposit", j) <=> IsOpen(requests, "deposit", j)
      PROVE  UNCHANGED DepositEscrow!vars
  <2>1. pledgesOf("deposit")' = pledgesOf("deposit")
    <3>1. /\ pledgesOf("deposit") = [j \in Requests |-> PledgeIn(requests, "deposit", j)]
          /\ pledgesOf("deposit")' = [j \in Requests |-> PledgeIn(requests', "deposit", j)]
      BY DEF pledgesOf, openOf, PledgeIn
    <3> QED
      BY <1>2, <3>1
  <2>2. openOf("deposit")' = openOf("deposit")
    BY <1>2 DEF openOf, IsOpen
  <2> QED
    BY <1>2, <2>1, <2>2 DEF DepositEscrow!vars
<1> QED
  BY <1>1, <1>2 DEF EscrowStep

LEMMA WithdrawalEscrowStep ==
  ASSUME EscrowStep("withdrawal")
  PROVE  [WithdrawalEscrow!Next]_(WithdrawalEscrow!vars)
<1>1. ASSUME NEW k \in Requests, RebookOf("withdrawal", k), OthersAsOpen("withdrawal", k),
             \/ k = nonce + 1 /\ nonce' = k /\ ~IsOpen(requests, "withdrawal", k)
             \/ nonce' = nonce /\ IsOpen(requests, "withdrawal", k) /\ ~IsOpen(requests', "withdrawal", k)
      PROVE  WithdrawalEscrow!Next
  <2>1. "withdrawal" \in Kinds
    BY DEF Kinds
  <2>2. WithdrawalEscrow!Rebook(k)
    BY <1>1, <2>1, PledgesMove DEF WithdrawalEscrow!Rebook, WithdrawalEscrow!Requests, Requests
  <2>3. /\ openOf("withdrawal")' = IF IsOpen(requests', "withdrawal", k)
                                THEN openOf("withdrawal") \cup {k} ELSE openOf("withdrawal") \ {k}
        /\ k \in openOf("withdrawal") <=> IsOpen(requests, "withdrawal", k)
        /\ ~IsOpen(requests', "withdrawal", k) => pledgesOf("withdrawal")'[k] = Nothing
    BY <1>1, <2>1, OpensMove
  <2>4. WithdrawalEscrow!Open(k) \/ WithdrawalEscrow!Pass(k) \/ WithdrawalEscrow!Close(k)
    <3>1. CASE nonce' = nonce /\ IsOpen(requests, "withdrawal", k) /\ ~IsOpen(requests', "withdrawal", k)
      BY <2>2, <2>3, <3>1 DEF WithdrawalEscrow!Close, WithdrawalEscrow!Nothing, Nothing
    <3>2. CASE k = nonce + 1 /\ nonce' = k /\ IsOpen(requests', "withdrawal", k)
      BY <1>1, <2>2, <2>3, <3>2 DEF WithdrawalEscrow!Open
    <3>3. CASE /\ k = nonce + 1 /\ nonce' = k
               /\ ~IsOpen(requests', "withdrawal", k) /\ ~IsOpen(requests, "withdrawal", k)
      <4>1. openOf("withdrawal")' = openOf("withdrawal")
        BY <2>3, <3>3
      <4> QED
        BY <2>2, <2>3, <3>3, <4>1 DEF WithdrawalEscrow!Pass, WithdrawalEscrow!Nothing, Nothing
    <3> QED
      BY <1>1, <3>1, <3>2, <3>3
  <2> QED
    BY <2>4 DEF WithdrawalEscrow!Next, WithdrawalEscrow!Requests, Requests
<1>2. ASSUME nonce' = nonce, recorded'["withdrawal"] = recorded["withdrawal"],
             \A j \in Requests :
               /\ PledgeIn(requests', "withdrawal", j) = PledgeIn(requests, "withdrawal", j)
               /\ IsOpen(requests', "withdrawal", j) <=> IsOpen(requests, "withdrawal", j)
      PROVE  UNCHANGED WithdrawalEscrow!vars
  <2>1. pledgesOf("withdrawal")' = pledgesOf("withdrawal")
    <3>1. /\ pledgesOf("withdrawal") = [j \in Requests |-> PledgeIn(requests, "withdrawal", j)]
          /\ pledgesOf("withdrawal")' = [j \in Requests |-> PledgeIn(requests', "withdrawal", j)]
      BY DEF pledgesOf, openOf, PledgeIn
    <3> QED
      BY <1>2, <3>1
  <2>2. openOf("withdrawal")' = openOf("withdrawal")
    BY <1>2 DEF openOf, IsOpen
  <2> QED
    BY <1>2, <2>1, <2>2 DEF WithdrawalEscrow!vars
<1> QED
  BY <1>1, <1>2 DEF EscrowStep

LEMMA EscrowInits == Init => DepositEscrow!Init /\ WithdrawalEscrow!Init
<1> SUFFICES ASSUME Init
             PROVE  DepositEscrow!Init /\ WithdrawalEscrow!Init
  OBVIOUS
<1>1. \A v \in Kinds : openOf(v) = {} /\ pledgesOf(v) = [k \in Requests |-> Nothing]
  BY DEF Init, openOf, pledgesOf, NoRequest
<1>2. "deposit" \in Kinds /\ "withdrawal" \in Kinds
  BY DEF Kinds
<1>3. DepositEscrow!Init
  BY <1>1, <1>2 DEF Init, DepositEscrow!Init, DepositEscrow!Nothing, Nothing,
                    DepositEscrow!Requests, Requests
<1>4. WithdrawalEscrow!Init
  BY <1>1, <1>2 DEF Init, WithdrawalEscrow!Init, WithdrawalEscrow!Nothing, Nothing,
                    WithdrawalEscrow!Requests, Requests
<1> QED
  BY <1>3, <1>4

(***************************************************************************)
(* The deposit handlers keep the promises of RequestEscrow, whatever       *)
(* withdrawals do in between.                                              *)
(***************************************************************************)
THEOREM DepositsImplementEscrow == Spec => DepositEscrowSpec
<1>1. IInv /\ [Next]_vars => [DepositEscrow!Next]_(DepositEscrow!vars)
  BY EveryStep, DepositEscrowStep DEF Correct, Kinds
<1> QED
  BY <1>1, AlwaysIInv, EscrowInits, PTL DEF Spec, DepositEscrowSpec, DepositEscrow!Spec

(***************************************************************************)
(* The withdrawal handlers keep them too.                                  *)
(***************************************************************************)
THEOREM WithdrawalsImplementEscrow == Spec => WithdrawalEscrowSpec
<1>1. IInv /\ [Next]_vars => [WithdrawalEscrow!Next]_(WithdrawalEscrow!vars)
  BY EveryStep, WithdrawalEscrowStep DEF Correct, Kinds
<1> QED
  BY <1>1, AlwaysIInv, EscrowInits, PTL DEF Spec, WithdrawalEscrowSpec, WithdrawalEscrow!Spec

(***************************************************************************)
(* A deposit or withdrawal that was executed or cancelled never returns:   *)
(* neither a keeper nor its owner settles it a second time, and as the two *)
(* stores take their keys from one nonce, no request of the other kind     *)
(* gets its key.                                                           *)
(***************************************************************************)
THEOREM LiquiditySettledOnce ==
  Spec => [][\A v \in Kinds : \A k \in 1..nonce :
               ~IsOpen(requests, v, k) => ~IsOpen(requests', v, k)]_vars
<1>1. IInv /\ [Next]_vars
        => [\A v \in Kinds : \A k \in 1..nonce :
              ~IsOpen(requests, v, k) => ~IsOpen(requests', v, k)]_vars
  <2> SUFFICES ASSUME IInv, [Next]_vars, NEW v \in Kinds, NEW k \in 1..nonce,
                      ~IsOpen(requests, v, k)
               PROVE  ~IsOpen(requests', v, k)
    OBVIOUS
  <2>1. nonce \in 0..MaxRequests /\ MaxRequests \in Nat
    BY LiquidityAssumption DEF IInv, Books, TypeOK
  <2>2. k \in Requests /\ nonce \in Nat /\ k # nonce + 1
    BY <2>1 DEF Requests
  <2>3. EscrowStep(v)
    BY EveryStep DEF Correct
  <2>4. QED
    BY <2>2, <2>3 DEF EscrowStep, OthersAsOpen
<1> QED
  BY <1>1, AlwaysIInv, PTL DEF Spec

=============================================================================
