--------------------------- MODULE RequestEscrow ---------------------------
(***************************************************************************)
(* What a vault of the exchange promises to the requests it holds tokens   *)
(* for.  OrderVault, DepositVault and WithdrawalVault are StrictBanks that *)
(* hold, for every open request, the tokens to be used by its execution    *)
(* and the execution fee that pays for it; a request is created once and   *)
(* leaves the store once, by execution or by cancellation.                 *)
(*                                                                         *)
(* This module is the abstract specification: it knows neither order       *)
(* types, keepers, prices nor blocks.  Orders and LiquidityRequests are    *)
(* shown to implement it.                                                  *)
(*                                                                         *)
(* A definition F_Slip is F with one slip that code could have; no action  *)
(* uses it.                                                                *)
(***************************************************************************)
EXTENDS LedgerSum

CONSTANTS
  Tokens,       \* the tokens a vault may hold
  Quantities,   \* the amounts it may hold of one
  MaxRequests   \* bound on the nonce that numbers the requests

ASSUME EscrowAssumption ==
  /\ Quantities \subseteq Nat /\ 0 \in Quantities
  /\ MaxRequests \in Nat

VARIABLES
  nonce,  \* the nonce of the last request key that was made
  open,   \* the requests that are in the store
  held,   \* held[k][t]: what the vault owes to request k in token t
  bank    \* bank[t]: what the vault has recorded as its own balance of t

vars == <<nonce, open, held, bank>>

Requests == 1..MaxRequests
Nothing == [t \in Tokens |-> 0]

(***************************************************************************)
(* The vault's books change by at least the change of what it owes to k:   *)
(* tokens that nobody recorded may be taken into the books by the same     *)
(* transaction, so the books can rise by more, and no other request is     *)
(* touched.                                                                *)
(***************************************************************************)
Rebook_AnyBooks(k) ==
  /\ held' \in [Requests -> [Tokens -> Quantities]]
  /\ bank' \in [Tokens -> Quantities]
  /\ \A j \in Requests \ {k} : held'[j] = held[j]

Rebook(k) ==
  /\ held' \in [Requests -> [Tokens -> Quantities]]
  /\ bank' \in [Tokens -> Quantities]
  /\ \A j \in Requests \ {k} : held'[j] = held[j]
  /\ \A t \in Tokens : bank'[t] >= bank[t] + held'[k][t] - held[k][t]

(***************************************************************************)
(* A request is created: it gets the next key, and what it brought is      *)
(* held for it.                                                            *)
(***************************************************************************)
Open_KeyReused(k) ==
  /\ k <= nonce + 1
  /\ nonce' = IF k > nonce THEN k ELSE nonce
  /\ open' = open \cup {k}
  /\ Rebook(k)

Open_NonceKept(k) ==
  /\ k = nonce + 1
  /\ open' = open \cup {k}
  /\ Rebook(k)
  /\ UNCHANGED nonce

Open(k) ==
  /\ k = nonce + 1
  /\ nonce' = k
  /\ open' = open \cup {k}
  /\ Rebook(k)

(***************************************************************************)
(* An open request is changed: its fee is topped up by the owner, or paid  *)
(* to a keeper while the request stays in the store.                       *)
(***************************************************************************)
Amend(k) ==
  /\ k \in open
  /\ Rebook(k)
  /\ UNCHANGED <<nonce, open>>

(***************************************************************************)
(* An open request is executed or cancelled: all that was held for it      *)
(* leaves, and it is gone for good.                                        *)
(***************************************************************************)
Close(k) ==
  /\ k \in open
  /\ open' = open \ {k}
  /\ Rebook(k)
  /\ held'[k] = Nothing
  /\ UNCHANGED nonce

(***************************************************************************)
(* A request that is created and executed by one transaction, such as a    *)
(* liquidation: it brings nothing, and uses up a key.                      *)
(***************************************************************************)
Pass(k) ==
  /\ k = nonce + 1
  /\ nonce' = k
  /\ Rebook(k)
  /\ held'[k] = Nothing
  /\ UNCHANGED open

Init ==
  /\ nonce = 0
  /\ open = {}
  /\ held = [k \in Requests |-> Nothing]
  /\ bank = Nothing

Next == \E k \in Requests : Open(k) \/ Amend(k) \/ Close(k) \/ Pass(k)

Spec == Init /\ [][Next]_vars

-----------------------------------------------------------------------------

TypeOK ==
  /\ nonce \in 0..MaxRequests
  /\ open \subseteq 1..nonce
  /\ held \in [Requests -> [Tokens -> Quantities]]
  /\ bank \in [Tokens -> Quantities]

(***************************************************************************)
(* The vault's books cover what it owes to all of its requests together,   *)
(* token by token: no settlement can be paid out of another request's      *)
(* tokens.                                                                 *)
(***************************************************************************)
Owed(t) == SumTo([k \in Requests |-> held[k][t]], MaxRequests)

Solvent == \A t \in Tokens : bank[t] >= Owed(t)

(***************************************************************************)
(* A request that has left the store never comes back, and keys are never  *)
(* used twice.                                                             *)
(***************************************************************************)
SettledOnce ==
  [][/\ nonce' >= nonce
     /\ \A k \in 1..nonce : k \notin open => k \notin open']_vars

=============================================================================
