-------------------------- MODULE LedgerSumProofs --------------------------
(***************************************************************************)
(* Facts about the sums of LedgerSum, for ledgers of every length.         *)
(*                                                                         *)
(* The library's induction theorems take the predicate as an operator      *)
(* parameter.  LeastElement gets induction from a theorem that takes none: *)
(* the finite subsets of Nat are well founded under strict inclusion, and  *)
(* n |-> 0..n embeds the naturals into them.                               *)
(***************************************************************************)
EXTENDS LedgerSum, FiniteSetTheorems, TLAPS

(***************************************************************************)
(* Every non-empty set of naturals has a least element.                    *)
(***************************************************************************)
LEMMA LeastElement ==
  ASSUME NEW T, T \subseteq Nat, T # {}
  PROVE  \E x \in T : \A y \in T : x <= y
<1> DEFINE Segments == {0..n : n \in T}
<1>1. Segments \subseteq FiniteSubsetsOf(Nat)
  <2>1. \A n \in T : IsFiniteSet(0..n)
    BY FS_Interval
  <2>2. QED
    BY <2>1 DEF FiniteSubsetsOf
<1>2. Segments # {}
  OBVIOUS
<1>3. IsWellFoundedOn(StrictSubsetOrdering(Nat), FiniteSubsetsOf(Nat))
  BY FS_StrictSubsetOrderingWellFounded
<1> HIDE DEF Segments
<1>4. \E A \in Segments : \A B \in Segments :
         ~(<<B, A>> \in StrictSubsetOrdering(Nat))
  BY <1>1, <1>2, <1>3, WFMin
<1> USE DEF Segments
<1>5. PICK x \in T : \A B \in Segments :
         ~(<<B, 0..x>> \in StrictSubsetOrdering(Nat))
  BY <1>4
<1>6. ASSUME NEW y \in T, ~(x <= y)
      PROVE  FALSE
  <2>1. x \in Nat /\ y \in Nat /\ y < x
    BY <1>6
  <2>2. 0..y \subseteq 0..x /\ 0..y # 0..x
    <3>1. x \in 0..x /\ x \notin 0..y
      BY <2>1
    <3>2. 0..y \subseteq 0..x
      BY <2>1
    <3>3. QED
      BY <3>1, <3>2
  <2>3. 0..y \in SUBSET Nat /\ 0..x \in SUBSET Nat
    OBVIOUS
  <2>4. <<0..y, 0..x>> \in StrictSubsetOrdering(Nat)
    BY <2>2, <2>3 DEF StrictSubsetOrdering
  <2>5. 0..y \in Segments
    OBVIOUS
  <2>6. QED
    BY <2>4, <2>5, <1>5
<1>7. QED
  BY <1>5, <1>6

(***************************************************************************)
(* Induction up to N, for a set in place of a predicate.                   *)
(***************************************************************************)
LEMMA IntervalInduction ==
  ASSUME NEW N \in Nat, NEW S, 0 \in S,
         \A i \in 1..N : i-1 \in S => i \in S
  PROVE  \A i \in 0..N : i \in S
<1> DEFINE Bad == {i \in 0..N : i \notin S}
<1> SUFFICES ASSUME Bad # {}
             PROVE  FALSE
  OBVIOUS
<1>1. PICK m \in Bad : \A y \in Bad : m <= y
  <2>1. Bad \subseteq Nat
    OBVIOUS
  <2> HIDE DEF Bad
  <2>2. QED
    BY <2>1, LeastElement
<1>2. m # 0 /\ m \in 0..N
  OBVIOUS
<1>3. m \in 1..N /\ m-1 \in 0..N /\ m-1 \notin Bad
  BY <1>1, <1>2
<1>4. QED
  BY <1>3

-----------------------------------------------------------------------------

(***************************************************************************)
(* What it is for s to be the prefix sums of f up to n.                    *)
(***************************************************************************)
IsPrefixSums(s, f, n) ==
  s = [i \in 0..n |-> IF i = 0 THEN 0 ELSE s[i-1] + f[i]]

(***************************************************************************)
(* The recursive definition of PrefixSums has a solution: a function that  *)
(* satisfies its equation exists for every n.                              *)
(***************************************************************************)
LEMMA PrefixSumsExist ==
  ASSUME NEW N \in Nat, NEW f \in [1..N -> Int]
  PROVE  \E s \in [0..N -> Int] : IsPrefixSums(s, f, N)
<1> DEFINE Bad == {m \in 0..N : ~ \E s \in [0..m -> Int] : IsPrefixSums(s, f, m)}
<1> SUFFICES ASSUME Bad # {}
             PROVE  FALSE
  OBVIOUS
<1>1. PICK m \in Bad : \A y \in Bad : m <= y
  <2>1. Bad \subseteq Nat
    OBVIOUS
  <2> HIDE DEF Bad
  <2>2. QED
    BY <2>1, LeastElement
<1>2. m # 0
  <2>1. SUFFICES ASSUME m = 0
                 PROVE  FALSE
    OBVIOUS
  <2> DEFINE z == [i \in 0..0 |-> 0]
  <2>2. z \in [0..0 -> Int]
    OBVIOUS
  <2>3. IsPrefixSums(z, f, 0)
    BY DEF IsPrefixSums
  <2>4. QED
    BY <1>1, <2>1, <2>2, <2>3
<1>3. m-1 \in 0..N /\ m \in 1..N /\ m-1 \notin Bad
  BY <1>1, <1>2
<1>4. PICK s \in [0..(m-1) -> Int] : IsPrefixSums(s, f, m-1)
  BY <1>3
<1> DEFINE t == [i \in 0..m |-> IF i = m THEN s[m-1] + f[m] ELSE s[i]]
<1>5. s[m-1] \in Int /\ f[m] \in Int
  BY <1>3
<1>6. t \in [0..m -> Int]
  BY <1>3, <1>5
<1>7. ASSUME NEW i \in 0..m
      PROVE  t[i] = IF i = 0 THEN 0 ELSE t[i-1] + f[i]
  <2>1. CASE i = m
    <3>1. t[i] = s[m-1] + f[m] /\ t[i-1] = s[m-1]
      BY <1>3, <2>1
    <3>2. QED
      BY <2>1, <3>1, <1>2
  <2>2. CASE i # m
    <3>1. i \in 0..(m-1)
      BY <1>3, <2>2
    <3>2. s[i] = IF i = 0 THEN 0 ELSE s[i-1] + f[i]
      BY <1>4, <3>1 DEF IsPrefixSums
    <3>3. t[i] = s[i]
      BY <2>2
    <3>4. i # 0 => t[i-1] = s[i-1]
      BY <1>3, <3>1
    <3>5. QED
      BY <3>2, <3>3, <3>4
  <2>3. QED
    BY <2>1, <2>2
<1>8. IsPrefixSums(t, f, m)
  <2>1. t = [i \in 0..m |-> t[i]]
    OBVIOUS
  <2>2. [i \in 0..m |-> t[i]] = [i \in 0..m |-> IF i = 0 THEN 0 ELSE t[i-1] + f[i]]
    BY <1>7
  <2>3. QED
    BY <2>1, <2>2 DEF IsPrefixSums
<1>9. QED
  BY <1>1, <1>6, <1>8

(***************************************************************************)
(* PrefixSums satisfies its defining equation.                             *)
(***************************************************************************)
LEMMA PrefixSumsDef ==
  ASSUME NEW N \in Nat, NEW f \in [1..N -> Int]
  PROVE  IsPrefixSums(PrefixSums(f, N), f, N)
<1>1. \E s : s = [i \in 0..N |-> IF i = 0 THEN 0 ELSE s[i-1] + f[i]]
  BY PrefixSumsExist DEF IsPrefixSums
<1>2. PrefixSums(f, N)
        = CHOOSE s : s = [i \in 0..N |-> IF i = 0 THEN 0 ELSE s[i-1] + f[i]]
  BY DEF PrefixSums
<1>3. QED
  BY <1>1, <1>2 DEF IsPrefixSums

(***************************************************************************)
(* One step of a prefix sum, and its type.                                 *)
(***************************************************************************)
LEMMA PrefixSumsStep ==
  ASSUME NEW N \in Nat, NEW f \in [1..N -> Int]
  PROVE  /\ PrefixSums(f, N)[0] = 0
         /\ \A i \in 1..N : PrefixSums(f, N)[i] = PrefixSums(f, N)[i-1] + f[i]
<1> DEFINE s == PrefixSums(f, N)
<1>1. s = [i \in 0..N |-> IF i = 0 THEN 0 ELSE s[i-1] + f[i]]
  BY PrefixSumsDef DEF IsPrefixSums
<1> HIDE DEF s
<1>2. s[0] = 0
  BY <1>1
<1>3. ASSUME NEW i \in 1..N
      PROVE  s[i] = s[i-1] + f[i]
  BY <1>1
<1>4. QED
  BY <1>2, <1>3 DEF s

LEMMA PrefixSumsType ==
  ASSUME NEW N \in Nat, NEW f \in [1..N -> Int]
  PROVE  \A i \in 0..N : PrefixSums(f, N)[i] \in Int
<1> DEFINE s == PrefixSums(f, N)
           S == {i \in 0..N : s[i] \in Int}
<1>1. s[0] = 0 /\ \A i \in 1..N : s[i] = s[i-1] + f[i]
  BY PrefixSumsStep
<1> HIDE DEF s
<1>2. 0 \in S
  BY <1>1
<1>3. ASSUME NEW i \in 1..N, i-1 \in S
      PROVE  i \in S
  BY <1>1, <1>3
<1> HIDE DEF S
<1>4. \A i \in 0..N : i \in S
  BY <1>2, <1>3, IntervalInduction
<1>5. QED
  BY <1>4 DEF s, S

(***************************************************************************)
(* A ledger that differs in one entry has a total that differs by what     *)
(* that entry changed.                                                     *)
(***************************************************************************)
THEOREM SumUpdate ==
  ASSUME NEW N \in Nat, NEW f \in [1..N -> Int], NEW g \in [1..N -> Int],
         NEW k \in 1..N, \A i \in 1..N : i # k => g[i] = f[i]
  PROVE  SumTo(g, N) = SumTo(f, N) + (g[k] - f[k])
<1> DEFINE s == PrefixSums(f, N)
           t == PrefixSums(g, N)
           S == {i \in 0..N : t[i] = s[i] + (IF i < k THEN 0 ELSE g[k] - f[k])}
<1>1. s[0] = 0 /\ \A i \in 1..N : s[i] = s[i-1] + f[i]
  BY PrefixSumsStep
<1>2. t[0] = 0 /\ \A i \in 1..N : t[i] = t[i-1] + g[i]
  BY PrefixSumsStep
<1>3. \A i \in 0..N : s[i] \in Int /\ t[i] \in Int
  BY PrefixSumsType
<1> HIDE DEF s, t
<1>4. 0 \in S
  BY <1>1, <1>2
<1>5. ASSUME NEW i \in 1..N, i-1 \in S
      PROVE  i \in S
  <2>1. t[i-1] = s[i-1] + (IF i-1 < k THEN 0 ELSE g[k] - f[k])
    BY <1>5
  <2>2. s[i] = s[i-1] + f[i] /\ t[i] = t[i-1] + g[i]
    BY <1>1, <1>2
  <2>3. /\ s[i-1] \in Int /\ t[i-1] \in Int
        /\ f[i] \in Int /\ g[i] \in Int /\ f[k] \in Int /\ g[k] \in Int
    BY <1>3
  <2>4. CASE i = k
    BY <2>1, <2>2, <2>3, <2>4
  <2>5. CASE i # k
    <3>1. g[i] = f[i]
      BY <2>5
    <3>2. (i-1 < k) <=> (i < k)
      BY <2>5
    <3>3. CASE i < k
      <4>1. t[i-1] = s[i-1] + 0
        BY <2>1, <3>2, <3>3
      <4>2. t[i] = s[i] + 0
        BY <4>1, <2>2, <2>3, <3>1
      <4>3. QED
        BY <4>2, <3>3
    <3>4. CASE ~(i < k)
      <4>1. t[i-1] = s[i-1] + (g[k] - f[k])
        BY <2>1, <3>2, <3>4
      <4>2. t[i] = s[i] + (g[k] - f[k])
        BY <4>1, <2>2, <2>3, <3>1
      <4>3. QED
        BY <4>2, <3>4
    <3>5. QED
      BY <3>3, <3>4
  <2>6. QED
    BY <2>4, <2>5
<1> HIDE DEF S
<1>6. \A i \in 0..N : i \in S
  BY <1>4, <1>5, IntervalInduction
<1>7. N \in S
  BY <1>6
<1>8. QED
  BY <1>7 DEF S, s, t, SumTo

(***************************************************************************)
(* An empty ledger has total 0.                                            *)
(***************************************************************************)
THEOREM SumZero ==
  ASSUME NEW N \in Nat, NEW f \in [1..N -> Int], \A i \in 1..N : f[i] = 0
  PROVE  SumTo(f, N) = 0
<1> DEFINE s == PrefixSums(f, N)
           S == {i \in 0..N : s[i] = 0}
<1>1. s[0] = 0 /\ \A i \in 1..N : s[i] = s[i-1] + f[i]
  BY PrefixSumsStep
<1> HIDE DEF s
<1>2. 0 \in S /\ \A i \in 1..N : i-1 \in S => i \in S
  BY <1>1
<1> HIDE DEF S
<1>3. \A i \in 0..N : i \in S
  BY <1>2, IntervalInduction
<1>4. QED
  BY <1>3 DEF S, s, SumTo

(***************************************************************************)
(* No entry of a ledger of naturals exceeds the total, which is a natural. *)
(***************************************************************************)
THEOREM SumBoundsEntry ==
  ASSUME NEW N \in Nat, NEW f \in [1..N -> Nat]
  PROVE  /\ SumTo(f, N) \in Nat
         /\ \A k \in 1..N : f[k] <= SumTo(f, N)
<1> DEFINE s == PrefixSums(f, N)
           S == {i \in 0..N : s[i] \in Nat /\ \A k \in 1..i : f[k] <= s[i]}
<1>1. f \in [1..N -> Int]
  OBVIOUS
<1>2. s[0] = 0 /\ \A i \in 1..N : s[i] = s[i-1] + f[i]
  BY <1>1, PrefixSumsStep
<1> HIDE DEF s
<1>3. 0 \in S
  BY <1>2
<1>4. ASSUME NEW i \in 1..N, i-1 \in S
      PROVE  i \in S
  <2>1. s[i] = s[i-1] + f[i] /\ s[i-1] \in Nat /\ f[i] \in Nat
    BY <1>2, <1>4
  <2>2. ASSUME NEW k \in 1..i
        PROVE  f[k] <= s[i]
    <3>1. CASE k = i
      BY <2>1, <3>1
    <3>2. CASE k # i
      <4>1. k \in 1..(i-1) /\ f[k] \in Nat
        BY <3>2
      <4>2. f[k] <= s[i-1]
        BY <4>1, <1>4
      <4>3. QED
        BY <4>1, <4>2, <2>1
    <3>3. QED
      BY <3>1, <3>2
  <2>3. QED
    BY <2>1, <2>2
<1> HIDE DEF S
<1>5. \A i \in 0..N : i \in S
  BY <1>3, <1>4, IntervalInduction
<1>6. QED
  BY <1>5 DEF S, s, SumTo

=============================================================================
