----------------------------- MODULE LedgerSum -----------------------------
(***************************************************************************)
(* The sum of a ledger column.  Requests (orders, deposits, withdrawals)   *)
(* and positions are numbered by the nonce that made their key             *)
(* (NonceUtils.getNextKey), so a column of the store is a function on      *)
(* 1..n, and its total is what a vault or a market must be able to cover.  *)
(*                                                                         *)
(* The sum is a recursive function, not a RECURSIVE operator, so that the  *)
(* modules which use it can be proved about (LedgerSumProofs).             *)
(***************************************************************************)
EXTENDS Integers

(***************************************************************************)
(* PrefixSums(f, n)[i] is f[1] + ... + f[i], for i in 0..n.                *)
(***************************************************************************)
PrefixSums(f, n) ==
  LET s[i \in 0..n] == IF i = 0 THEN 0 ELSE s[i-1] + f[i]
  IN  s

SumTo(f, n) == PrefixSums(f, n)[n]

=============================================================================
