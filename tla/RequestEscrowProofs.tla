------------------------ MODULE RequestEscrowProofs ------------------------
(***************************************************************************)
(* The promises of RequestEscrow, for every set of tokens and every bound  *)
(* on the number of requests.                                              *)
(***************************************************************************)
EXTENDS RequestEscrow, LedgerSumProofs

(***************************************************************************)
(* What is held for one token is a column of naturals.                     *)
(***************************************************************************)
Column(h, t) == [k \in Requests |-> h[k][t]]

LEMMA ColumnType ==
  ASSUME NEW h \in [Requests -> [Tokens -> Quantities]], NEW t \in Tokens
  PROVE  /\ Column(h, t) \in [1..MaxRequests -> Nat]
         /\ Column(h, t) \in [1..MaxRequests -> Int]
<1>1. \A k \in Requests : h[k][t] \in Nat
  BY EscrowAssumption
<1>2. QED
  BY <1>1 DEF Column, Requests

(***************************************************************************)
(* The heart of the argument: a transaction that rebooks one request keeps *)
(* the vault solvent.                                                      *)
(***************************************************************************)
LEMMA RebookKeepsSolvent ==
  ASSUME TypeOK, Solvent, NEW k \in Requests, Rebook(k)
  PROVE  Solvent'
<1>1. /\ held' \in [Requests -> [Tokens -> Quantities]]
      /\ bank' \in [Tokens -> Quantities]
  BY DEF Rebook
<1>2. ASSUME NEW t \in Tokens
      PROVE  bank'[t] >= Owed(t)'
  <2> DEFINE f == Column(held, t)
             g == Column(held', t)
  <2>1. f \in [1..MaxRequests -> Int] /\ g \in [1..MaxRequests -> Int]
    BY <1>1, ColumnType DEF TypeOK
  <2>2. k \in 1..MaxRequests /\ \A i \in 1..MaxRequests : i # k => g[i] = f[i]
    BY DEF Rebook, TypeOK, Requests, Column
  <2>3. g[k] = held'[k][t] /\ f[k] = held[k][t]
    BY DEF Requests, Column
  <2>4. Owed(t) = SumTo(f, MaxRequests) /\ Owed(t)' = SumTo(g, MaxRequests)
    BY DEF Owed, Column
  <2>5. f \in [1..MaxRequests -> Nat]
    BY ColumnType DEF TypeOK
  <2> HIDE DEF f, g
  <2>6. SumTo(g, MaxRequests) = SumTo(f, MaxRequests) + (g[k] - f[k])
    BY <2>1, <2>2, SumUpdate, EscrowAssumption
  <2>7. bank[t] >= SumTo(f, MaxRequests)
    BY <2>4 DEF Solvent
  <2>8. SumTo(f, MaxRequests) \in Nat
    BY <2>5, SumBoundsEntry, EscrowAssumption
  <2>9. bank'[t] >= bank[t] + held'[k][t] - held[k][t]
    BY DEF Rebook
  <2>10. /\ bank[t] \in Nat /\ bank'[t] \in Nat
         /\ held'[k][t] \in Nat /\ held[k][t] \in Nat
    BY <1>1, EscrowAssumption DEF TypeOK
  <2>11. QED
    BY <2>3, <2>4, <2>6, <2>7, <2>8, <2>9, <2>10
<1>3. QED
  BY <1>2 DEF Solvent

(***************************************************************************)
(* The inductive invariant: the types, and solvency.                       *)
(***************************************************************************)
IInv == TypeOK /\ Solvent

LEMMA InitIInv == Init => IInv
<1> SUFFICES ASSUME Init
             PROVE  IInv
  OBVIOUS
<1>1. Nothing \in [Tokens -> Quantities]
  BY EscrowAssumption DEF Nothing
<1>2. TypeOK
  BY <1>1, EscrowAssumption DEF Init, TypeOK
<1>3. ASSUME NEW t \in Tokens
      PROVE  bank[t] >= Owed(t)
  <2> DEFINE f == Column(held, t)
  <2>1. f \in [1..MaxRequests -> Int]
    BY <1>2, ColumnType DEF TypeOK
  <2>2. \A i \in 1..MaxRequests : f[i] = 0
    BY DEF Init, Column, Nothing, Requests
  <2> HIDE DEF f
  <2>3. SumTo(f, MaxRequests) = 0
    BY <2>1, <2>2, SumZero, EscrowAssumption
  <2>4. bank[t] = 0
    BY DEF Init, Nothing
  <2>5. QED
    BY <2>3, <2>4 DEF Owed, f, Column
<1>4. QED
  BY <1>2, <1>3 DEF IInv, Solvent

LEMMA NextIInv == IInv /\ [Next]_vars => IInv'
<1> SUFFICES ASSUME TypeOK, Solvent, [Next]_vars
             PROVE  TypeOK' /\ Solvent'
  BY DEF IInv
<1>1. ASSUME NEW k \in Requests, Open(k) \/ Amend(k) \/ Close(k) \/ Pass(k)
      PROVE  TypeOK' /\ Solvent'
  <2>1. Rebook(k)
    BY <1>1 DEF Open, Amend, Close, Pass
  <2>2. nonce' \in 0..MaxRequests /\ open' \subseteq 1..nonce'
    <3>1. k \in 1..MaxRequests /\ nonce \in 0..MaxRequests /\ open \subseteq 1..nonce
      BY DEF TypeOK, Requests
    <3>2. (nonce' = nonce + 1 /\ k = nonce + 1) \/ nonce' = nonce
      BY <1>1 DEF Open, Amend, Close, Pass
    <3>3. open' \subseteq open \/ (open' = open \cup {k} /\ nonce' = k)
      BY <1>1 DEF Open, Amend, Close, Pass
    <3>4. nonce' \in 0..MaxRequests /\ 1..nonce \subseteq 1..nonce'
      BY <3>1, <3>2, EscrowAssumption
    <3>5. CASE open' \subseteq open
      BY <3>1, <3>4, <3>5
    <3>6. CASE open' = open \cup {k} /\ nonce' = k
      BY <3>1, <3>4, <3>6
    <3>7. QED
      BY <3>3, <3>4, <3>5, <3>6
  <2>3. TypeOK'
    BY <2>1, <2>2 DEF Rebook, TypeOK
  <2>4. QED
    BY <2>1, <2>3, RebookKeepsSolvent
<1>2. CASE UNCHANGED vars
  BY <1>2 DEF vars, TypeOK, Solvent, Owed
<1>3. QED
  BY <1>1, <1>2 DEF Next

LEMMA AlwaysIInv == Spec => []IInv
BY InitIInv, NextIInv, PTL DEF Spec

(***************************************************************************)
(* Types: only keys that were made are in the store, and no balance is     *)
(* negative.                                                               *)
(***************************************************************************)
THEOREM EscrowTypeOK == Spec => []TypeOK
BY AlwaysIInv, PTL DEF IInv

(***************************************************************************)
(* A vault that follows RequestEscrow is always able to cover everything   *)
(* it owes.                                                                *)
(***************************************************************************)
THEOREM EscrowSolvent == Spec => []Solvent
BY AlwaysIInv, PTL DEF IInv

(***************************************************************************)
(* No settled request returns, and the nonce never goes back.              *)
(***************************************************************************)
THEOREM EscrowSettledOnce == Spec => SettledOnce
<1>1. TypeOK /\ [Next]_vars
        => [/\ nonce' >= nonce
            /\ \A k \in 1..nonce : k \notin open => k \notin open']_vars
  <2> SUFFICES ASSUME TypeOK, Next
               PROVE  /\ nonce' >= nonce
                      /\ \A k \in 1..nonce : k \notin open => k \notin open'
    BY DEF vars
  <2>1. PICK k \in Requests : Open(k) \/ Amend(k) \/ Close(k) \/ Pass(k)
    BY DEF Next
  <2>2. nonce \in Nat
    BY DEF TypeOK
  <2>3. QED
    BY <2>1, <2>2 DEF Open, Amend, Close, Pass
<1>2. Spec => []TypeOK
  BY EscrowTypeOK, PTL
<1>3. QED
  BY <1>1, <1>2, PTL DEF Spec, SettledOnce

=============================================================================
