---------------------------- MODULE MarketProofs ----------------------------
(***************************************************************************)
(* The properties of Market, for any positions, amounts, prices and fees.  *)
(*                                                                         *)
(* A handler is a chain of credits, so the proofs follow the chains:       *)
(* CreditMoves says what one credit does to the surplus, Paid and Booked   *)
(* add credits up, and one lemma for each handler says what its chain      *)
(* comes to (SwapBooksPaid, ..., ForceClosedBooksSettled).  From there on  *)
(* a step is quiet, a step of one position, or time passing (StepKinds),   *)
(* and each property is proved of these three.                             *)
(***************************************************************************)
EXTENDS Market, LedgerSumProofs, SequenceTheorems, TLAPS

-----------------------------------------------------------------------------
(* Arithmetic.  A share of a total, rounded up or down, is no more than    *)
(* the total: this is what keeps partial decreases within a position.      *)

LEMMA ProductMonotone ==
  ASSUME NEW a \in Nat, NEW x \in Nat, NEW y \in Nat, x <= y
  PROVE  a * x <= a * y
OBVIOUS

LEMMA DivisionType ==
  ASSUME NEW x \in Int, NEW y \in Nat \ {0}
  PROVE  x \div y \in Int
OBVIOUS

LEMMA DivisionOfNat ==
  ASSUME NEW x \in Nat, NEW y \in Nat \ {0}
  PROVE  /\ x \div y \in Nat
         /\ x < y => x \div y = 0
OBVIOUS

LEMMA DivisionBounds ==
  ASSUME NEW x \in Nat, NEW y \in Nat \ {0}, NEW a \in Nat, x < y * (a + 1)
  PROVE  x \div y <= a
OBVIOUS

LEMMA ProductNat ==
  ASSUME NEW x \in Nat, NEW y \in Nat
  PROVE  x * y \in Nat
OBVIOUS

LEMMA ShareBounds ==
  ASSUME NEW total \in Nat, NEW part \in Nat, NEW whole \in Nat \ {0}, part <= whole
  PROVE  /\ (total * part) \div whole \in 0..total
         /\ RoundUpDivision(total * part, whole) \in 0..total
<1>1. total * part \in Nat /\ total * part <= total * whole
  BY ProductMonotone, ProductNat
<1>2. total * whole = whole * total
  OBVIOUS
<1>3. whole * (total + 1) = whole * total + whole
  OBVIOUS
<1>4. total * whole \in Nat
  BY ProductNat
<1>5. total * part < whole * (total + 1) /\ total * part + whole - 1 < whole * (total + 1)
  BY <1>1, <1>2, <1>3, <1>4
<1>6. total * part + whole - 1 \in Nat
  BY <1>1
<1>7. QED
  BY <1>1, <1>5, <1>6, DivisionBounds, DivisionOfNat DEF RoundUpDivision

-----------------------------------------------------------------------------
(* The two tokens, and the keys of positions *)

LEMMA TwoTokens ==
  ASSUME NEW t \in Tokens
  PROVE  /\ Opposite(t) \in Tokens /\ Opposite(t) # t /\ Opposite(Opposite(t)) = t
         /\ \A u \in Tokens : u = t \/ u = Opposite(t)
BY MarketAssumption DEF Tokens, Opposite

LEMMA PositionKeysType ==
  /\ NumPositions \in Nat
  /\ \A p \in Positions :
       /\ CollateralToken(p) \in Tokens /\ PnlToken(p) \in Tokens /\ IsLong(p) \in BOOLEAN
       /\ CollateralSum(p) \in {"longCollateral", "shortCollateral"}
<1>1. PositionKeys \in Seq([collateralToken : Tokens, isLong : BOOLEAN])
  BY MarketAssumption
<1>2. NumPositions \in Nat
  BY <1>1 DEF NumPositions
<1>3. ASSUME NEW p \in Positions
      PROVE  PositionKeys[p] \in [collateralToken : Tokens, isLong : BOOLEAN]
  <2>1. p \in 1..Len(PositionKeys)
    BY DEF Positions, NumPositions
  <2>2. PositionKeys \in [1..Len(PositionKeys) -> [collateralToken : Tokens, isLong : BOOLEAN]]
    BY <1>1, LenProperties
  <2>3. QED
    BY <2>1, <2>2
<1>4. ASSUME NEW p \in Positions
      PROVE  CollateralToken(p) \in Tokens /\ IsLong(p) \in BOOLEAN
  BY <1>3 DEF CollateralToken, IsLong
<1>5. ASSUME NEW p \in Positions
      PROVE  /\ PnlToken(p) \in Tokens
             /\ CollateralSum(p) \in {"longCollateral", "shortCollateral"}
  BY DEF PnlToken, CollateralSum, Tokens
<1>6. QED
  BY <1>2, <1>4, <1>5

LEMMA CapTypes ==
  /\ \A x \in Int : AtLeastZero(x) \in Nat /\ AtLeastZero(x) >= x
  /\ \A x, y \in Int : Lesser(x, y) \in {x, y} /\ Lesser(x, y) <= x /\ Lesser(x, y) <= y
<1>1. ASSUME NEW x \in Int
      PROVE  AtLeastZero(x) \in Nat /\ AtLeastZero(x) >= x
  BY DEF AtLeastZero
<1>2. ASSUME NEW x \in Int, NEW y \in Int
      PROVE  Lesser(x, y) \in {x, y} /\ Lesser(x, y) <= x /\ Lesser(x, y) <= y
  BY DEF Lesser
<1>3. QED
  BY <1>1, <1>2

-----------------------------------------------------------------------------
(* What one credit does to the books *)

Books == [Buckets -> [Tokens -> Int]]

(***************************************************************************)
(* The books that the properties speak of one by one.                      *)
(***************************************************************************)
Watched == {"longCollateral", "shortCollateral", "funding", "claimableFunding"}

Untouched(m, n) == \A b \in Watched, u \in Tokens : n[b][u] = m[b][u]

(***************************************************************************)
(* From m to n the surplus of t grows by x, that of the other token by y.  *)
(***************************************************************************)
Moved(m, n, t, x, y) ==
  /\ n \in Books
  /\ Surplus(n, t) = Surplus(m, t) + x
  /\ Surplus(n, Opposite(t)) = Surplus(m, Opposite(t)) + y

LEMMA BucketNames ==
  Buckets = {"claimableFee", "claimableUiFee", "affiliateReward", "claimableCollateral",
             "balance", "pool", "swapImpactPool", "longCollateral", "shortCollateral",
             "claimableFunding", "funding"}
BY DEF Buckets, Recorded, ClaimBuckets

LEMMA CreditEntries ==
  ASSUME NEW m \in Books, NEW b \in Buckets, NEW t \in Tokens, NEW x \in Int
  PROVE  /\ Credit(m, b, t, x) \in Books
         /\ Credit(m, b, t, x)[b][t] = m[b][t] + x
         /\ \A c \in Buckets, u \in Tokens :
              c # b \/ u # t => Credit(m, b, t, x)[c][u] = m[c][u]
BY DEF Credit, Books

LEMMA SurplusType ==
  ASSUME NEW m \in Books, NEW t \in Tokens
  PROVE  Surplus(m, t) \in Int
<1>1. \A b \in Buckets : m[b][t] \in Int
  BY DEF Books
<1>2. QED
  BY <1>1, BucketNames DEF Surplus

LEMMA CreditMoves ==
  ASSUME NEW m \in Books, NEW b \in Buckets, NEW t \in Tokens, NEW x \in Int
  PROVE  Moved(m, Credit(m, b, t, x), t,
               IF b = "balance" THEN x ELSE IF b = "claimableFunding" THEN 0 ELSE -x, 0)
<1> DEFINE n == Credit(m, b, t, x)
           u == Opposite(t)
<1>1. u \in Tokens /\ u # t
  BY TwoTokens
<1>2. n \in Books /\ n[b][t] = m[b][t] + x
  BY CreditEntries
<1>3. \A c \in Buckets : /\ c # b => n[c][t] = m[c][t]
                         /\ n[c][u] = m[c][u]
  BY <1>1, CreditEntries
<1>4. \A c \in Buckets : m[c][t] \in Int /\ m[c][u] \in Int
  BY <1>1 DEF Books
<1> HIDE DEF n, u
<1>5. Surplus(n, u) = Surplus(m, u)
  BY <1>3, BucketNames DEF Surplus
<1>6. Surplus(m, u) \in Int
  BY <1>1, SurplusType
<1>7. Surplus(n, t) = Surplus(m, t) + (IF b = "balance" THEN x ELSE IF b = "claimableFunding" THEN 0 ELSE -x)
  BY <1>2, <1>3, <1>4, BucketNames DEF Surplus
<1>8. QED
  BY <1>2, <1>5, <1>6, <1>7 DEF Moved, n, u

(***************************************************************************)
(* A way of booking that moves the surplus so and leaves alone the books   *)
(* that are watched.                                                       *)
(***************************************************************************)
Paid(m, n, t, x, y) == m \in Books /\ Moved(m, n, t, x, y) /\ Untouched(m, n)

Liabilities == {"claimableFee", "claimableUiFee", "affiliateReward", "claimableCollateral",
                "pool", "swapImpactPool"}

LEMMA PaidNothing ==
  ASSUME NEW m \in Books, NEW t \in Tokens
  PROVE  Paid(m, m, t, 0, 0)
<1>1. Surplus(m, t) \in Int /\ Surplus(m, Opposite(t)) \in Int
  BY SurplusType, TwoTokens
<1>2. QED
  BY <1>1 DEF Paid, Moved, Untouched

LEMMA PaidThen ==
  ASSUME NEW t \in Tokens, NEW x \in Int, NEW y \in Int, NEW v \in Int, NEW w \in Int,
         NEW m, NEW n, NEW o, Paid(m, n, t, x, y), Paid(n, o, t, v, w)
  PROVE  Paid(m, o, t, x + v, y + w)
<1>1. Surplus(m, t) \in Int /\ Surplus(m, Opposite(t)) \in Int
  BY SurplusType, TwoTokens DEF Paid
<1>2. o \in Books /\ m \in Books /\ Untouched(m, o)
  BY DEF Paid, Moved, Untouched
<1>3. /\ Surplus(o, t) = Surplus(m, t) + (x + v)
      /\ Surplus(o, Opposite(t)) = Surplus(m, Opposite(t)) + (y + w)
  BY <1>1 DEF Paid, Moved
<1>4. QED
  BY <1>2, <1>3 DEF Paid, Moved

LEMMA PaidOpposite ==
  ASSUME NEW t \in Tokens, NEW x, NEW y, NEW m, NEW n, Paid(m, n, Opposite(t), x, y)
  PROVE  Paid(m, n, t, y, x)
BY TwoTokens DEF Paid, Moved

LEMMA CreditPaid ==
  ASSUME NEW m \in Books, NEW t \in Tokens, NEW z \in Int
  PROVE  /\ \A b \in Liabilities : Paid(m, Credit(m, b, t, z), t, -z, 0)
         /\ Paid(m, Credit(m, "balance", t, z), t, z, 0)
<1>1. ASSUME NEW b \in Liabilities \cup {"balance"}
      PROVE  Untouched(m, Credit(m, b, t, z)) /\ b \in Buckets /\ b # "claimableFunding"
  <2>1. b \in Buckets /\ \A c \in Watched : c # b /\ c \in Buckets
    BY BucketNames DEF Liabilities, Watched
  <2>2. QED
    BY <2>1, CreditEntries DEF Untouched, Watched
<1>2. ASSUME NEW b \in Liabilities
      PROVE  Paid(m, Credit(m, b, t, z), t, -z, 0)
  <2>1. b \in Liabilities \cup {"balance"} /\ b # "balance"
    BY DEF Liabilities
  <2>2. Moved(m, Credit(m, b, t, z), t, IF b = "balance" THEN z ELSE IF b = "claimableFunding" THEN 0 ELSE -z, 0)
    BY <1>1, <2>1, CreditMoves
  <2>3. QED
    BY <1>1, <2>1, <2>2 DEF Paid
<1>3. Paid(m, Credit(m, "balance", t, z), t, z, 0)
  <2>1. Moved(m, Credit(m, "balance", t, z), t, IF "balance" = "balance" THEN z ELSE 0, 0)
    BY <1>1, CreditMoves
  <2>2. QED
    BY <1>1, <2>1 DEF Paid
<1>4. QED
  BY <1>2, <1>3

(***************************************************************************)
(* One more credit, of the same token or of the other.                     *)
(***************************************************************************)
LEMMA ThenOwed ==
  ASSUME NEW t \in Tokens, NEW x \in Int, NEW y \in Int, NEW z \in Int, NEW b \in Liabilities,
         NEW m, NEW n, Paid(m, n, t, x, y)
  PROVE  /\ Paid(m, Credit(n, b, t, z), t, x - z, y)
         /\ Paid(m, Credit(n, b, Opposite(t), z), t, x, y - z)
<1>1. n \in Books /\ Opposite(t) \in Tokens /\ x - z \in Int /\ y - z \in Int /\ -z \in Int
  BY TwoTokens DEF Paid, Moved
<1>2. Paid(n, Credit(n, b, t, z), t, -z, 0) /\ Paid(n, Credit(n, b, Opposite(t), z), t, 0, -z)
  BY <1>1, CreditPaid, PaidOpposite
<1>3. /\ Paid(m, Credit(n, b, t, z), t, x + (-z), y + 0)
      /\ Paid(m, Credit(n, b, Opposite(t), z), t, x + 0, y + (-z))
  BY <1>1, <1>2, PaidThen
<1>4. x + (-z) = x - z /\ y + 0 = y /\ x + 0 = x /\ y + (-z) = y - z
  OBVIOUS
<1>5. QED
  BY <1>3, <1>4

LEMMA ThenTransferred ==
  ASSUME NEW t \in Tokens, NEW x \in Int, NEW y \in Int, NEW z \in Int,
         NEW m, NEW n, Paid(m, n, t, x, y)
  PROVE  /\ Paid(m, Credit(n, "balance", t, z), t, x + z, y)
         /\ Paid(m, Credit(n, "balance", Opposite(t), z), t, x, y + z)
<1>1. n \in Books /\ Opposite(t) \in Tokens
  BY TwoTokens DEF Paid, Moved
<1>2. Paid(n, Credit(n, "balance", t, z), t, z, 0) /\ Paid(n, Credit(n, "balance", Opposite(t), z), t, 0, z)
  BY <1>1, CreditPaid, PaidOpposite
<1>3. /\ Paid(m, Credit(n, "balance", t, z), t, x + z, y + 0)
      /\ Paid(m, Credit(n, "balance", Opposite(t), z), t, x + 0, y + z)
  BY <1>1, <1>2, PaidThen
<1>4. y + 0 = y /\ x + 0 = x
  OBVIOUS
<1>5. QED
  BY <1>3, <1>4

-----------------------------------------------------------------------------
(* Swaps, deposits and withdrawals *)

LEMMA SwapTypes ==
  ASSUME NEW m \in Books, NEW t \in Tokens, NEW amount \in Int, NEW s \in SwapRecords, NEW prices \in Prices
  PROVE  /\ s.forPool \in Nat /\ s.forReceiver \in Nat /\ s.ui \in Nat /\ s.impact \in Int
         /\ AmountAfterFees(amount, s) = amount - s.forReceiver - s.forPool - s.ui
         /\ AmountAfterFees(amount, s) \in Int
         /\ NegativeImpact(s) \in Nat /\ (s.impact > 0 => NegativeImpact(s) = 0)
         /\ SwapIn(amount, s) = AmountAfterFees(amount, s) - NegativeImpact(s)
         /\ SwapIn(amount, s) \in Int
         /\ PositiveImpact(m, t, s) \in Int
         /\ (m["swapImpactPool"][t] >= 0 => PositiveImpact(m, t, s) >= 0)
         /\ prices[t].min \in Nat \ {0} /\ prices[t].max \in Nat \ {0}
         /\ PoolAmountOut(amount, s, prices, t) \in Int
         /\ (SwapIn(amount, s) >= 0 => PoolAmountOut(amount, s, prices, t) >= 0)
<1>1. s.forPool \in Nat /\ s.forReceiver \in Nat /\ s.ui \in Nat /\ s.impact \in Int
  BY DEF SwapRecords
<1>2. /\ AmountAfterFees(amount, s) = amount - s.forReceiver - s.forPool - s.ui
      /\ AmountAfterFees(amount, s) \in Int
  BY <1>1 DEF AmountAfterFees
<1>3. NegativeImpact(s) \in Nat /\ (s.impact > 0 => NegativeImpact(s) = 0)
  BY <1>1 DEF NegativeImpact, AtLeastZero
<1>4. SwapIn(amount, s) = AmountAfterFees(amount, s) - NegativeImpact(s) /\ SwapIn(amount, s) \in Int
  BY <1>2, <1>3 DEF SwapIn
<1>5. m["swapImpactPool"][t] \in Int
  BY BucketNames DEF Books
<1>6. /\ PositiveImpact(m, t, s) \in Int
      /\ m["swapImpactPool"][t] >= 0 => PositiveImpact(m, t, s) >= 0
  BY <1>1, <1>5 DEF PositiveImpact, Lesser
<1>7. \A u \in Tokens : prices[u].min \in Nat \ {0} /\ prices[u].max \in Nat \ {0}
  BY MarketAssumption DEF Prices
<1>8. Opposite(t) \in Tokens
  BY TwoTokens
<1> DEFINE dollars == SwapIn(amount, s) * prices[t].min
           divisor == prices[Opposite(t)].max
<1>9. dollars \in Int /\ divisor \in Nat \ {0}
  BY <1>4, <1>7, <1>8
<1>10. SwapIn(amount, s) >= 0 => dollars \in Nat
  BY <1>4, <1>7, ProductNat
<1>11. PoolAmountOut(amount, s, prices, t) = dollars \div divisor
  BY DEF PoolAmountOut
<1> HIDE DEF dollars, divisor
<1>12. PoolAmountOut(amount, s, prices, t) \in Int
  BY <1>9, <1>11, DivisionType
<1>13. SwapIn(amount, s) >= 0 => PoolAmountOut(amount, s, prices, t) >= 0
  BY <1>9, <1>10, <1>11, DivisionOfNat
<1>14. QED
  BY <1>1, <1>2, <1>3, <1>4, <1>6, <1>7, <1>12, <1>13

LEMMA PaySwapFeesPaid ==
  ASSUME NEW t \in Tokens, NEW x \in Int, NEW y \in Int, NEW s \in SwapRecords,
         NEW m, NEW n, Paid(m, n, t, x, y)
  PROVE  Paid(m, PaySwapFees(n, t, s), t, x - s.forReceiver - s.ui, y)
<1>1. s.forReceiver \in Int /\ s.ui \in Int
  BY DEF SwapRecords
<1>2. Paid(m, Credit(n, "claimableFee", t, s.forReceiver), t, x - s.forReceiver, y)
  BY <1>1, ThenOwed DEF Liabilities
<1>3. x - s.forReceiver \in Int
  BY <1>1
<1>4. QED
  BY <1>1, <1>2, <1>3, ThenOwed DEF Liabilities, PaySwapFees

(***************************************************************************)
(* A swap takes what came in off the surplus, and leaves what goes out.    *)
(***************************************************************************)
LEMMA SwapBooksPaid ==
  ASSUME NEW m \in Books, NEW t \in Tokens, NEW amount \in Int, NEW s \in SwapRecords, NEW prices \in Prices
  PROVE  /\ SwapOut(m, t, amount, s, prices) \in Int
         /\ Paid(m, SwapBooks(m, t, amount, s, prices), t, -amount, SwapOut(m, t, amount, s, prices))
<1> DEFINE u   == Opposite(t)
           neg == NegativeImpact(s)
           pos == PositiveImpact(m, u, s)
           in  == SwapIn(amount, s)
           out == PoolAmountOut(amount, s, prices, t)
           m1 == PaySwapFees(m, t, s)
           m2 == Credit(m1, "swapImpactPool", t, neg)
           m3 == Credit(m2, "swapImpactPool", u, -pos)
           m4 == Credit(m3, "pool", t, in + s.forPool)
           m5 == Credit(m4, "pool", u, -out)
           x1 == 0 - s.forReceiver - s.ui
           x2 == x1 - neg
           x4 == x2 - (in + s.forPool)
           y3 == 0 - (-pos)
           y5 == y3 - (-out)
<1>1. /\ s.forReceiver \in Int /\ s.ui \in Int /\ s.forPool \in Int
      /\ neg \in Int /\ in \in Int /\ out \in Int
      /\ in = amount - s.forReceiver - s.forPool - s.ui - neg
  <2>1. /\ s.forReceiver \in Nat /\ s.ui \in Nat /\ s.forPool \in Nat
        /\ neg \in Nat /\ in \in Int /\ out \in Int
        /\ AmountAfterFees(amount, s) = amount - s.forReceiver - s.forPool - s.ui
        /\ in = AmountAfterFees(amount, s) - neg
    BY SwapTypes
  <2> HIDE DEF neg, in, out
  <2>2. QED
    BY <2>1
<1>2. pos \in Int
  BY TwoTokens, SwapTypes
<1>3. SwapBooks(m, t, amount, s, prices) = m5 /\ SwapOut(m, t, amount, s, prices) = out + pos
  BY DEF SwapBooks, SwapOut
<1> HIDE DEF neg, pos, in, out
<1>4. /\ x1 \in Int /\ x2 \in Int /\ x4 \in Int /\ y3 \in Int /\ y5 \in Int
      /\ -pos \in Int /\ -out \in Int /\ in + s.forPool \in Int
      /\ x4 = -amount /\ y5 = out + pos /\ out + pos \in Int
  BY <1>1, <1>2
<1>5. "swapImpactPool" \in Liabilities /\ "pool" \in Liabilities
  BY DEF Liabilities
<1>6. Paid(m, m1, t, x1, 0)
  BY PaidNothing, PaySwapFeesPaid
<1> HIDE DEF m1, x1
<1>7. Paid(m, m2, t, x2, 0)
  BY <1>1, <1>4, <1>5, <1>6, ThenOwed
<1> HIDE DEF m2, x2
<1>8. Paid(m, m3, t, x2, y3)
  BY <1>4, <1>5, <1>7, ThenOwed
<1> HIDE DEF m3, y3
<1>9. Paid(m, m4, t, x4, y3)
  BY <1>4, <1>5, <1>8, ThenOwed
<1> HIDE DEF m4, x4
<1>10. Paid(m, m5, t, x4, y5)
  BY <1>4, <1>5, <1>9, ThenOwed
<1>11. QED
  BY <1>3, <1>4, <1>10

LEMMA DepositBooksPaid ==
  ASSUME NEW m \in Books, NEW t \in Tokens, NEW amount \in Int, NEW s \in SwapRecords
  PROVE  Paid(m, DepositBooks(m, t, amount, s), t, 0, 0)
<1> DEFINE u   == Opposite(t)
           neg == NegativeImpact(s)
           pos == PositiveImpact(m, u, s)
           in  == SwapIn(amount, s)
           m0 == Credit(m, "balance", t, amount)
           m1 == PaySwapFees(m0, t, s)
           m2 == Credit(m1, "swapImpactPool", u, -pos)
           m3 == Credit(m2, "pool", u, pos)
           m4 == Credit(m3, "swapImpactPool", t, neg)
           m5 == Credit(m4, "pool", t, in + s.forPool)
           x0 == 0 + amount
           x1 == x0 - s.forReceiver - s.ui
           x4 == x1 - neg
           x5 == x4 - (in + s.forPool)
           y2 == 0 - (-pos)
           y3 == y2 - pos
<1>1. CASE amount = 0
  BY <1>1, PaidNothing DEF DepositBooks
<1>2. CASE amount # 0
  <2>2. /\ s.forReceiver \in Int /\ s.ui \in Int /\ s.forPool \in Int
        /\ neg \in Int /\ in \in Int
        /\ in = amount - s.forReceiver - s.forPool - s.ui - neg
    BY DEF SwapRecords, AmountAfterFees, SwapIn, NegativeImpact, AtLeastZero
  <2>3. pos \in Int
    <3>1. u \in Tokens /\ s.impact \in Int
      BY TwoTokens DEF SwapRecords
    <3>2. m["swapImpactPool"][u] \in Int
      BY <3>1, BucketNames DEF Books
    <3>3. QED
      BY <3>1, <3>2 DEF PositiveImpact, Lesser
  <2>4. DepositBooks(m, t, amount, s) = m5
    BY <1>2 DEF DepositBooks
  <2> HIDE DEF neg, pos, in
  <2>5. /\ x0 \in Int /\ x1 \in Int /\ x4 \in Int /\ x5 \in Int /\ y2 \in Int /\ y3 \in Int
        /\ -pos \in Int /\ in + s.forPool \in Int
        /\ x5 = 0 /\ y3 = 0
    BY <2>2, <2>3
  <2>6. "swapImpactPool" \in Liabilities /\ "pool" \in Liabilities
    BY DEF Liabilities
  <2>7. Paid(m, m0, t, x0, 0)
    BY PaidNothing, ThenTransferred
  <2> HIDE DEF m0, x0
  <2>8. Paid(m, m1, t, x1, 0)
    BY <2>5, <2>7, PaySwapFeesPaid
  <2> HIDE DEF m1, x1
  <2>9. Paid(m, m2, t, x1, y2)
    BY <2>5, <2>6, <2>8, ThenOwed
  <2> HIDE DEF m2, y2
  <2>10. Paid(m, m3, t, x1, y3)
    BY <2>3, <2>5, <2>6, <2>9, ThenOwed
  <2> HIDE DEF m3, y3
  <2>11. Paid(m, m4, t, x4, y3)
    BY <2>2, <2>5, <2>6, <2>10, ThenOwed
  <2> HIDE DEF m4, x4
  <2>12. Paid(m, m5, t, x5, y3)
    BY <2>5, <2>6, <2>11, ThenOwed
  <2>13. QED
    BY <2>4, <2>5, <2>12
<1>3. QED
  BY <1>1, <1>2

LEMMA WithdrawBooksPaid ==
  ASSUME NEW m \in Books, NEW t \in Tokens, NEW amount \in Int, NEW s \in SwapRecords
  PROVE  Paid(m, WithdrawBooks(m, t, amount, s), t, 0, 0)
<1> DEFINE after == AmountAfterFees(amount, s)
           m1 == PaySwapFees(m, t, s)
           m2 == Credit(m1, "pool", t, -(amount - s.forPool))
           m3 == Credit(m2, "balance", t, -after)
           x1 == 0 - s.forReceiver - s.ui
           x2 == x1 - (-(amount - s.forPool))
           x3 == x2 + (-after)
<1>1. CASE amount = 0
  BY <1>1, PaidNothing DEF WithdrawBooks
<1>2. CASE amount # 0
  <2>1. /\ s.forReceiver \in Int /\ s.ui \in Int /\ s.forPool \in Int
        /\ after = amount - s.forReceiver - s.forPool - s.ui
    BY DEF SwapRecords, AmountAfterFees
  <2>2. WithdrawBooks(m, t, amount, s) = m3
    BY <1>2 DEF WithdrawBooks
  <2> HIDE DEF after
  <2>3. /\ x1 \in Int /\ x2 \in Int /\ x3 \in Int /\ -(amount - s.forPool) \in Int /\ -after \in Int
        /\ x3 = 0
    BY <2>1
  <2>4. Paid(m, m1, t, x1, 0)
    BY PaidNothing, PaySwapFeesPaid
  <2> HIDE DEF m1, x1
  <2>5. Paid(m, m2, t, x2, 0)
    BY <2>3, <2>4, ThenOwed DEF Liabilities
  <2> HIDE DEF m2, x2
  <2>6. Paid(m, m3, t, x3, 0)
    BY <2>3, <2>5, ThenTransferred
  <2>7. QED
    BY <2>2, <2>3, <2>6
<1>3. QED
  BY <1>1, <1>2

-----------------------------------------------------------------------------
(* Positions: fees, and the books that belong to positions *)

LEMMA FeeTypes ==
  ASSUME NEW f \in FeeRecords
  PROVE  /\ f.forPool \in Nat /\ f.forReceiver \in Nat /\ f.ui \in Nat /\ f.affiliate \in Nat
         /\ TotalFees(f) \in Nat
         /\ TotalFees(f) = f.forPool + f.forReceiver + f.ui + f.affiliate
BY DEF FeeRecords, TotalFees

LEMMA PayFeesPaid ==
  ASSUME NEW t \in Tokens, NEW x \in Int, NEW y \in Int, NEW f \in FeeRecords,
         NEW m, NEW n, Paid(m, n, t, x, y)
  PROVE  Paid(m, PayFees(n, t, f), t, x - TotalFees(f), y)
<1> DEFINE m1 == Credit(n, "pool", t, f.forPool)
           m2 == Credit(m1, "claimableFee", t, f.forReceiver)
           m3 == Credit(m2, "claimableUiFee", t, f.ui)
           x1 == x - f.forPool
           x2 == x1 - f.forReceiver
           x3 == x2 - f.ui
           x4 == x3 - f.affiliate
<1>1. /\ f.forPool \in Int /\ f.forReceiver \in Int /\ f.ui \in Int /\ f.affiliate \in Int
      /\ TotalFees(f) = f.forPool + f.forReceiver + f.ui + f.affiliate
  BY FeeTypes
<1>2. x1 \in Int /\ x2 \in Int /\ x3 \in Int /\ x4 = x - TotalFees(f)
  BY <1>1
<1>3. PayFees(n, t, f) = Credit(m3, "affiliateReward", t, f.affiliate)
  BY DEF PayFees
<1>4. /\ "pool" \in Liabilities /\ "claimableFee" \in Liabilities
      /\ "claimableUiFee" \in Liabilities /\ "affiliateReward" \in Liabilities
  BY DEF Liabilities
<1>5. Paid(m, m1, t, x1, y)
  BY <1>1, <1>4, ThenOwed
<1> HIDE DEF m1, x1
<1>6. Paid(m, m2, t, x2, y)
  BY <1>1, <1>2, <1>4, <1>5, ThenOwed
<1> HIDE DEF m2, x2
<1>7. Paid(m, m3, t, x3, y)
  BY <1>1, <1>2, <1>4, <1>6, ThenOwed
<1> HIDE DEF m3, x3
<1>8. Paid(m, Credit(m3, "affiliateReward", t, f.affiliate), t, x4, y)
  BY <1>1, <1>2, <1>4, <1>7, ThenOwed
<1>9. QED
  BY <1>2, <1>3, <1>8

(***************************************************************************)
(* From m to n, on behalf of p: the collateral sum of p grows by c, the    *)
(* funding paid in its collateral token by f, and the surplus by x and y.  *)
(***************************************************************************)
SumsChange(m, n, p, c, f) ==
  /\ \A b \in {"longCollateral", "shortCollateral"}, u \in Tokens :
       n[b][u] = m[b][u] + (IF b = CollateralSum(p) /\ u = CollateralToken(p) THEN c ELSE 0)
  /\ \A u \in Tokens :
       n["funding"][u] = m["funding"][u] + (IF u = CollateralToken(p) THEN f ELSE 0)

Booked(m, n, p, c, f, x, y) ==
  /\ m \in Books
  /\ Moved(m, n, CollateralToken(p), x, y)
  /\ SumsChange(m, n, p, c, f)
  /\ \A u \in Tokens : n["claimableFunding"][u] = m["claimableFunding"][u]

LEMMA EntryType ==
  ASSUME NEW m \in Books
  PROVE  \A b \in Buckets, u \in Tokens : m[b][u] \in Int
BY DEF Books

LEMMA PaidIsBooked ==
  ASSUME NEW p \in Positions, NEW x \in Int, NEW y \in Int, NEW m, NEW n,
         Paid(m, n, CollateralToken(p), x, y)
  PROVE  Booked(m, n, p, 0, 0, x, y)
<1>1. m \in Books /\ Moved(m, n, CollateralToken(p), x, y)
  BY DEF Paid
<1>2. \A b \in Watched, u \in Tokens : n[b][u] = m[b][u] /\ m[b][u] \in Int
  BY <1>1, EntryType, BucketNames DEF Paid, Untouched, Watched
<1>3. SumsChange(m, n, p, 0, 0)
  BY <1>2 DEF SumsChange, Watched
<1>4. QED
  BY <1>1, <1>2, <1>3 DEF Booked, Watched

LEMMA BookedThenPaid ==
  ASSUME NEW p \in Positions, NEW x \in Int, NEW y \in Int, NEW v \in Int, NEW w \in Int,
         NEW c \in Int, NEW f \in Int, NEW m, NEW n, NEW o,
         Booked(m, n, p, c, f, x, y), Paid(n, o, CollateralToken(p), v, w)
  PROVE  Booked(m, o, p, c, f, x + v, y + w)
<1> DEFINE t == CollateralToken(p)
<1>1. t \in Tokens /\ Opposite(t) \in Tokens
  BY PositionKeysType, TwoTokens
<1>2. m \in Books /\ Moved(m, n, t, x, y) /\ Moved(n, o, t, v, w)
  BY DEF Booked, Paid
<1>3. \A b \in Watched, u \in Tokens : o[b][u] = n[b][u]
  BY DEF Paid, Untouched
<1>4. SumsChange(m, o, p, c, f)
  BY <1>3 DEF Booked, SumsChange, Watched
<1>5. Surplus(m, t) \in Int /\ Surplus(m, Opposite(t)) \in Int
  BY <1>1, <1>2, SurplusType
<1> HIDE DEF t
<1>6. Moved(m, o, t, x + v, y + w)
  BY <1>2, <1>5 DEF Moved
<1>7. \A u \in Tokens : o["claimableFunding"][u] = m["claimableFunding"][u]
  BY <1>3 DEF Booked, Watched
<1>8. QED
  BY <1>2, <1>4, <1>6, <1>7 DEF Booked, t

LEMMA ThenFunding ==
  ASSUME NEW p \in Positions, NEW x \in Int, NEW y \in Int, NEW c \in Int, NEW z \in Int,
         NEW m, NEW n, Booked(m, n, p, c, 0, x, y)
  PROVE  Booked(m, Credit(n, "funding", CollateralToken(p), z), p, c, z, x - z, y)
<1> DEFINE t == CollateralToken(p)
           o == Credit(n, "funding", t, z)
<1>1. t \in Tokens /\ Opposite(t) \in Tokens
  BY PositionKeysType, TwoTokens
<1>2. m \in Books /\ n \in Books /\ Moved(m, n, t, x, y)
  BY DEF Booked, Moved
<1>3. /\ o["funding"][t] = n["funding"][t] + z
      /\ \A b \in Buckets, u \in Tokens : b # "funding" \/ u # t => o[b][u] = n[b][u]
  <2>1. "funding" \in Buckets
    BY BucketNames
  <2> HIDE DEF t
  <2>2. QED
    BY <1>1, <1>2, <2>1, CreditEntries
<1>4. Moved(n, o, t, IF "funding" = "balance" THEN z ELSE IF "funding" = "claimableFunding" THEN 0 ELSE -z, 0)
  BY <1>1, <1>2, BucketNames, CreditMoves
<1>5. Moved(n, o, t, -z, 0)
  BY <1>4
<1>6. Surplus(m, t) \in Int /\ Surplus(m, Opposite(t)) \in Int
  BY <1>1, <1>2, SurplusType
<1>7. \A u \in Tokens : m["funding"][u] \in Int /\ n["funding"][u] = m["funding"][u]
  BY <1>2, EntryType, BucketNames DEF Booked, SumsChange
<1> HIDE DEF t, o
<1>8. Moved(m, o, t, x - z, y)
  BY <1>2, <1>5, <1>6 DEF Moved
<1>9. \A u \in Tokens : o["funding"][u] = m["funding"][u] + (IF u = t THEN z ELSE 0)
  <2>1. ASSUME NEW u \in Tokens, u # t
        PROVE  o["funding"][u] = m["funding"][u]
    BY <1>3, <1>7, <2>1, BucketNames
  <2>2. o["funding"][t] = m["funding"][t] + z
    BY <1>1, <1>3, <1>7
  <2>3. QED
    BY <1>7, <2>1, <2>2
<1>10. \A b \in {"longCollateral", "shortCollateral", "claimableFunding"}, u \in Tokens : o[b][u] = n[b][u]
  BY <1>3, BucketNames
<1>11. SumsChange(m, o, p, c, z)
  BY <1>9, <1>10 DEF Booked, SumsChange, t
<1>12. QED
  BY <1>2, <1>8, <1>10, <1>11 DEF Booked, t, o

LEMMA ThenCollateral ==
  ASSUME NEW p \in Positions, NEW x \in Int, NEW y \in Int, NEW f \in Int, NEW z \in Int,
         NEW m, NEW n, Booked(m, n, p, 0, f, x, y)
  PROVE  Booked(m, Credit(n, CollateralSum(p), CollateralToken(p), z), p, z, f, x - z, y)
<1> DEFINE t == CollateralToken(p)
           b == CollateralSum(p)
           o == Credit(n, b, t, z)
<1>1. t \in Tokens /\ Opposite(t) \in Tokens /\ b \in {"longCollateral", "shortCollateral"}
  BY PositionKeysType, TwoTokens
<1>2. m \in Books /\ n \in Books /\ Moved(m, n, t, x, y)
  BY DEF Booked, Moved
<1>3. b \in Buckets /\ b # "balance" /\ b # "claimableFunding" /\ b # "funding"
  BY <1>1, BucketNames
<1>4. Moved(n, o, t, IF b = "balance" THEN z ELSE IF b = "claimableFunding" THEN 0 ELSE -z, 0)
  BY <1>1, <1>2, <1>3, CreditMoves
<1>5. /\ o[b][t] = n[b][t] + z
      /\ \A d \in Buckets, u \in Tokens : d # b \/ u # t => o[d][u] = n[d][u]
  BY <1>1, <1>2, <1>3, CreditEntries
<1>6. Surplus(m, t) \in Int /\ Surplus(m, Opposite(t)) \in Int
  BY <1>1, <1>2, SurplusType
<1>7. \A d \in {"longCollateral", "shortCollateral"}, u \in Tokens :
        m[d][u] \in Int /\ n[d][u] = m[d][u]
  BY <1>2, EntryType, BucketNames DEF Booked, SumsChange
<1> HIDE DEF t, o, b
<1>8. Moved(m, o, t, x - z, y)
  BY <1>2, <1>3, <1>4, <1>6 DEF Moved
<1>9. ASSUME NEW d \in {"longCollateral", "shortCollateral"}, NEW u \in Tokens
      PROVE  o[d][u] = m[d][u] + (IF d = b /\ u = t THEN z ELSE 0)
  BY <1>5, <1>7, BucketNames
<1>10. \A d \in {"funding", "claimableFunding"}, u \in Tokens : o[d][u] = n[d][u]
  BY <1>3, <1>5, BucketNames
<1>11. SumsChange(m, o, p, z, f)
  BY <1>9, <1>10 DEF Booked, SumsChange, t, b
<1>12. QED
  BY <1>2, <1>8, <1>10, <1>11 DEF Booked, t, b, o

(***************************************************************************)
(* As Booked, and p has been credited with the funding it is owed.         *)
(***************************************************************************)
Settled(m, n, p, c, f, x, y) ==
  /\ m \in Books
  /\ Moved(m, n, CollateralToken(p), x, y)
  /\ SumsChange(m, n, p, c, f)
  /\ \A u \in Tokens :
       n["claimableFunding"][u] = m["claimableFunding"][u] + ClaimableFunding(p, u)

FundingDueType == fundingDue \in [Positions -> [Tokens -> Int]]

LEMMA FundingTypes ==
  ASSUME FundingDueType, NEW p \in Positions
  PROVE  /\ FundingFee(p) \in Nat
         /\ \A u \in Tokens : ClaimableFunding(p, u) \in Nat
<1>1. \A u \in Tokens : fundingDue[p][u] \in Int
  BY DEF FundingDueType
<1>2. CollateralToken(p) \in Tokens
  BY PositionKeysType
<1>3. FundingFee(p) \in Nat
  BY <1>1, <1>2, CapTypes DEF FundingFee
<1>4. ASSUME NEW u \in Tokens
      PROVE  ClaimableFunding(p, u) \in Nat
  <2>1. -fundingDue[p][u] \in Int
    BY <1>1
  <2>2. QED
    BY <2>1, CapTypes DEF ClaimableFunding
<1>5. QED
  BY <1>3, <1>4

LEMMA CreditClaimable ==
  ASSUME NEW n \in Books, NEW t \in Tokens, NEW u \in Tokens, NEW z \in Int
  PROVE  LET o == Credit(n, "claimableFunding", u, z)
         IN  /\ Moved(n, o, t, 0, 0)
             /\ o["claimableFunding"][u] = n["claimableFunding"][u] + z
             /\ \A v \in Tokens : v # u => o["claimableFunding"][v] = n["claimableFunding"][v]
             /\ \A b \in Buckets, v \in Tokens : b # "claimableFunding" => o[b][v] = n[b][v]
<1> DEFINE o == Credit(n, "claimableFunding", u, z)
<1>1. "claimableFunding" \in Buckets
  BY BucketNames
<1>2. Moved(n, o, u, IF "claimableFunding" = "balance" THEN z ELSE IF "claimableFunding" = "claimableFunding" THEN 0 ELSE -z, 0)
  BY <1>1, CreditMoves
<1>3. Moved(n, o, u, 0, 0)
  BY <1>2
<1>4. Moved(n, o, t, 0, 0)
  BY <1>3, TwoTokens DEF Moved
<1>5. QED
  BY <1>1, <1>4, CreditEntries

LEMMA ThenIncremented ==
  ASSUME FundingDueType, NEW p \in Positions, NEW x \in Int, NEW y \in Int,
         NEW c \in Int, NEW f \in Int, NEW m, NEW n, Booked(m, n, p, c, f, x, y)
  PROVE  Settled(m, IncrementClaimableFunding(n, p), p, c, f, x, y)
<1> DEFINE t == CollateralToken(p)
           zl == ClaimableFunding(p, LongToken)
           zs == ClaimableFunding(p, ShortToken)
           n1 == Credit(n, "claimableFunding", LongToken, zl)
           n2 == Credit(n1, "claimableFunding", ShortToken, zs)
<1>1. /\ t \in Tokens /\ Opposite(t) \in Tokens
      /\ LongToken \in Tokens /\ ShortToken \in Tokens /\ LongToken # ShortToken
      /\ \A u \in Tokens : u = LongToken \/ u = ShortToken
  BY PositionKeysType, TwoTokens, MarketAssumption DEF Tokens
<1>2. zl \in Int /\ zs \in Int
  BY <1>1, FundingTypes
<1>3. m \in Books /\ n \in Books /\ Moved(m, n, t, x, y)
  BY DEF Booked, Moved
<1>4. IncrementClaimableFunding(n, p) = n2
  BY DEF IncrementClaimableFunding
<1>5. /\ \A u \in Tokens : n["claimableFunding"][u] = m["claimableFunding"][u]
      /\ \A u \in Tokens : n["claimableFunding"][u] \in Int
  BY <1>3, EntryType, BucketNames DEF Booked
<1> HIDE DEF t, zl, zs
<1>6. /\ Moved(n, n1, t, 0, 0)
      /\ n1["claimableFunding"][LongToken] = n["claimableFunding"][LongToken] + zl
      /\ n1["claimableFunding"][ShortToken] = n["claimableFunding"][ShortToken]
      /\ \A b \in Buckets, v \in Tokens : b # "claimableFunding" => n1[b][v] = n[b][v]
  BY <1>1, <1>2, <1>3, CreditClaimable
<1> HIDE DEF n1
<1>7. n1 \in Books
  BY <1>6 DEF Moved
<1>8. /\ Moved(n1, n2, t, 0, 0)
      /\ n2["claimableFunding"][ShortToken] = n1["claimableFunding"][ShortToken] + zs
      /\ n2["claimableFunding"][LongToken] = n1["claimableFunding"][LongToken]
      /\ \A b \in Buckets, v \in Tokens : b # "claimableFunding" => n2[b][v] = n1[b][v]
  BY <1>1, <1>2, <1>7, CreditClaimable
<1> HIDE DEF n2
<1>9. Surplus(m, t) \in Int /\ Surplus(m, Opposite(t)) \in Int
  BY <1>1, <1>3, SurplusType
<1>10. Moved(m, n2, t, x, y)
  BY <1>3, <1>6, <1>8, <1>9 DEF Moved
<1>11. \A b \in {"longCollateral", "shortCollateral", "funding"}, v \in Tokens : n2[b][v] = n[b][v]
  BY <1>6, <1>8, BucketNames
<1>12. SumsChange(m, n2, p, c, f)
  BY <1>11 DEF Booked, SumsChange
<1>13. \A u \in Tokens :
         n2["claimableFunding"][u] = m["claimableFunding"][u] + ClaimableFunding(p, u)
  BY <1>1, <1>5, <1>6, <1>8 DEF zl, zs
<1>14. QED
  BY <1>3, <1>4, <1>10, <1>12, <1>13 DEF Settled, t

(***************************************************************************)
(* An increase leaves the surplus as it is: what is received is fees,      *)
(* funding, and the rest collateral.                                       *)
(***************************************************************************)
LEMMA IncreaseBooksSettled ==
  ASSUME FundingDueType, books \in Books, NEW p \in Positions, NEW received \in Int,
         NEW fees \in FeeRecords
  PROVE  Settled(books, IncreaseBooks(p, received, fees), p,
                 received - TotalFees(fees) - FundingFee(p), FundingFee(p), 0, 0)
<1> DEFINE t == CollateralToken(p)
           fee == FundingFee(p)
           total == TotalFees(fees)
           rest == received - total - fee
           m0 == Credit(books, "balance", t, received)
           m1 == PayFees(m0, t, fees)
           m2 == Credit(m1, "funding", t, fee)
           m3 == Credit(m2, CollateralSum(p), t, rest)
           x0 == 0 + received
           x1 == x0 - total
           x2 == x1 - fee
           x3 == x2 - rest
<1>1. t \in Tokens /\ fee \in Int /\ total \in Int
  BY PositionKeysType, FundingTypes, FeeTypes
<1>2. IncreaseBooks(p, received, fees) = IncrementClaimableFunding(m3, p)
  BY DEF IncreaseBooks
<1> HIDE DEF fee, total
<1>3. x0 \in Int /\ x1 \in Int /\ x2 \in Int /\ rest \in Int /\ x3 = 0
  BY <1>1
<1>4. Paid(books, m0, t, x0, 0)
  BY <1>1, PaidNothing, ThenTransferred
<1> HIDE DEF m0, x0
<1>5. Paid(books, m1, t, x1, 0)
  BY <1>1, <1>3, <1>4, PayFeesPaid DEF total
<1> HIDE DEF m1, x1
<1>6. Booked(books, m1, p, 0, 0, x1, 0)
  BY <1>3, <1>5, PaidIsBooked
<1>7. Booked(books, m2, p, 0, fee, x2, 0)
  BY <1>1, <1>3, <1>6, ThenFunding
<1> HIDE DEF m2, x2, rest
<1>8. Booked(books, m3, p, rest, fee, x3, 0)
  BY <1>1, <1>3, <1>7, ThenCollateral
<1> HIDE DEF m3
<1>9. Settled(books, IncrementClaimableFunding(m3, p), p, rest, fee, 0, 0)
  BY <1>1, <1>3, <1>8, ThenIncremented
<1>10. QED
  BY <1>2, <1>9 DEF rest, fee, total

-----------------------------------------------------------------------------
(* Decreases *)

Decreases ==
  [position : Positions, size : Nat, fees : FeeRecords, prices : Prices, kind : OrderKinds,
   withdraw : Nat, pnl : Int, impactDiff : Nat, swap : SwapRecords \cup {NoSwap}]

LEMMA BookedThenOwed ==
  ASSUME NEW p \in Positions, NEW x \in Int, NEW y \in Int, NEW z \in Int,
         NEW c \in Int, NEW f \in Int, NEW b \in Liabilities, NEW u \in Tokens,
         NEW m, NEW n, Booked(m, n, p, c, f, x, y)
  PROVE  Booked(m, Credit(n, b, u, z), p, c, f,
                IF u = CollateralToken(p) THEN x - z ELSE x, IF u = CollateralToken(p) THEN y ELSE y - z)
<1> DEFINE t == CollateralToken(p)
<1>1. t \in Tokens /\ (u = t \/ u = Opposite(t)) /\ Opposite(t) # t
  BY PositionKeysType, TwoTokens
<1>2. n \in Books /\ -z \in Int
  BY DEF Booked, Moved
<1>3. CASE u = t
  <2>1. Paid(n, Credit(n, b, u, z), t, -z, 0)
    BY <1>2, <1>3, CreditPaid
  <2>2. Booked(m, Credit(n, b, u, z), p, c, f, x + (-z), y + 0)
    BY <1>2, <2>1, BookedThenPaid
  <2>3. QED
    BY <1>3, <2>2
<1>4. CASE u = Opposite(t)
  <2>1. Paid(n, Credit(n, b, u, z), t, 0, -z)
    BY <1>1, <1>2, <1>4, CreditPaid, PaidOpposite
  <2>2. Booked(m, Credit(n, b, u, z), p, c, f, x + 0, y + (-z))
    BY <1>2, <2>1, BookedThenPaid
  <2>3. QED
    BY <1>1, <1>4, <2>2
<1>5. QED
  BY <1>1, <1>3, <1>4

LEMMA BookedThenTransferred ==
  ASSUME NEW p \in Positions, NEW x \in Int, NEW y \in Int, NEW z \in Int,
         NEW c \in Int, NEW f \in Int, NEW u \in Tokens,
         NEW m, NEW n, Booked(m, n, p, c, f, x, y)
  PROVE  Booked(m, Credit(n, "balance", u, z), p, c, f,
                IF u = CollateralToken(p) THEN x + z ELSE x, IF u = CollateralToken(p) THEN y ELSE y + z)
<1> DEFINE t == CollateralToken(p)
<1>1. t \in Tokens /\ (u = t \/ u = Opposite(t)) /\ Opposite(t) # t
  BY PositionKeysType, TwoTokens
<1>2. n \in Books
  BY DEF Booked, Moved
<1>3. CASE u = t
  <2>1. Paid(n, Credit(n, "balance", u, z), t, z, 0)
    BY <1>2, <1>3, CreditPaid
  <2>2. Booked(m, Credit(n, "balance", u, z), p, c, f, x + z, y + 0)
    BY <2>1, BookedThenPaid
  <2>3. QED
    BY <1>3, <2>2
<1>4. CASE u = Opposite(t)
  <2>1. Paid(n, Credit(n, "balance", u, z), t, 0, z)
    BY <1>1, <1>2, <1>4, CreditPaid, PaidOpposite
  <2>2. Booked(m, Credit(n, "balance", u, z), p, c, f, x + 0, y + z)
    BY <2>1, BookedThenPaid
  <2>3. QED
    BY <1>1, <1>4, <2>2
<1>5. QED
  BY <1>1, <1>3, <1>4

LEMMA DecreaseTypes ==
  ASSUME NEW d \in Decreases
  PROVE  /\ d.position \in Positions /\ d.fees \in FeeRecords /\ d.prices \in Prices
         /\ Token(d) \in Tokens /\ PnlToken(d.position) \in Tokens
         /\ \A u \in Tokens : d.prices[u].min \in Nat \ {0} /\ d.prices[u].max \in Nat \ {0}
         /\ DiffAmount(d) \in Nat /\ Loss(d) \in Nat
         /\ DeductionForPool(d) \in Nat /\ PnlForUser(d) \in Nat
<1>1. /\ d.position \in Positions /\ d.fees \in FeeRecords /\ d.prices \in Prices
      /\ d.pnl \in Int /\ d.impactDiff \in Nat
  BY DEF Decreases
<1>2. Token(d) \in Tokens /\ PnlToken(d.position) \in Tokens
  BY <1>1, PositionKeysType DEF Token
<1>3. \A u \in Tokens : d.prices[u].min \in Nat \ {0} /\ d.prices[u].max \in Nat \ {0}
  BY <1>1, MarketAssumption DEF Prices
<1>4. /\ AdjustedPnl(d) \in Int /\ (AdjustedPnl(d) > 0 => d.pnl \in Nat)
      /\ AdjustedDiff(d) \in Nat
  BY <1>1 DEF AdjustedPnl, AdjustedDiff, AtLeastZero
<1>5. DiffAmount(d) \in Nat
  BY <1>2, <1>3, <1>4, DivisionOfNat DEF DiffAmount
<1>6. PnlPrice(d) \in Nat \ {0}
  BY <1>2, <1>3 DEF PnlPrice
<1>7. DeductionForPool(d) \in Nat
  BY <1>4, <1>6, DivisionOfNat DEF DeductionForPool
<1>8. PnlForUser(d) \in Nat
  BY <1>4, <1>6, CapTypes, DivisionOfNat DEF PnlForUser
<1>9. Loss(d) \in Nat
  <2>1. -d.pnl \in Int
    BY <1>1
  <2>2. AtLeastZero(-d.pnl) \in Nat
    BY <2>1, CapTypes
  <2>3. QED
    BY <1>2, <1>3, <2>2, DivisionOfNat DEF Loss
<1>10. QED
  BY <1>1, <1>2, <1>3, <1>5, <1>7, <1>8, <1>9

LEMMA TakeProfitPaid ==
  ASSUME books \in Books, NEW d \in Decreases
  PROVE  Paid(books, TakeProfit(books, d), PnlToken(d.position), PnlForUser(d), 0)
<1> DEFINE u  == PnlToken(d.position)
           forUser == PnlForUser(d)
           deduction == DeductionForPool(d)
           m1 == Credit(books, "claimableCollateral", u, deduction - forUser)
           m2 == Credit(m1, "pool", u, -deduction)
           x1 == 0 - (deduction - forUser)
           x2 == x1 - (-deduction)
<1>1. u \in Tokens /\ forUser \in Int /\ deduction \in Int
  BY DecreaseTypes
<1>2. TakeProfit(books, d) = m2
  BY DEF TakeProfit
<1> HIDE DEF u, forUser, deduction
<1>3. x1 \in Int /\ x2 = forUser /\ deduction - forUser \in Int /\ -deduction \in Int
  BY <1>1
<1>4. Paid(books, m1, u, x1, 0)
  BY <1>1, <1>3, PaidNothing, ThenOwed DEF Liabilities
<1> HIDE DEF m1, x1
<1>5. Paid(books, m2, u, x2, 0)
  BY <1>1, <1>3, <1>4, ThenOwed DEF Liabilities
<1>6. QED
  BY <1>2, <1>3, <1>5 DEF u, forUser

(***************************************************************************)
(* The profit has left the pool, for the output or for the secondary       *)
(* output.                                                                 *)
(***************************************************************************)
LEMMA ProfitPaid ==
  ASSUME books \in Books, NEW d \in Decreases
  PROVE  /\ Output(d) \in Int /\ SecondaryOutput(d) \in Nat
         /\ PnlToken(d.position) = Token(d) => SecondaryOutput(d) = 0
         /\ Paid(books, SwapProfit(TakeProfit(books, d), d), Token(d), Output(d), SecondaryOutput(d))
<1> DEFINE t == Token(d)
           u == PnlToken(d.position)
           m1 == TakeProfit(books, d)
<1>1. /\ t \in Tokens /\ u \in Tokens /\ d.prices \in Prices /\ PnlForUser(d) \in Nat
      /\ (u = t \/ u = Opposite(t)) /\ Opposite(t) # t /\ Opposite(Opposite(t)) = t
  BY DecreaseTypes, TwoTokens
<1>2. Paid(books, m1, u, PnlForUser(d), 0) /\ m1 \in Books
  BY TakeProfitPaid DEF Paid, Moved
<1>3. CASE u = t
  <2>1. ~IsSwapped(d)
    BY <1>3 DEF IsSwapped
  <2>2. Output(d) = PnlForUser(d) /\ SecondaryOutput(d) = 0 /\ SwapProfit(m1, d) = m1
    BY <1>3, <2>1 DEF Output, SecondaryOutput, SwapProfit
  <2>3. QED
    BY <1>1, <1>2, <1>3, <2>2
<1>4. CASE u # t /\ ~IsSwapped(d)
  <2>1. Output(d) = 0 /\ SecondaryOutput(d) = PnlForUser(d) /\ SwapProfit(m1, d) = m1
    BY <1>4 DEF Output, SecondaryOutput, SwapProfit
  <2>2. Paid(books, m1, t, 0, PnlForUser(d))
    BY <1>1, <1>2, <1>4, PaidOpposite
  <2>3. QED
    BY <1>1, <1>4, <2>1, <2>2
<1>5. CASE u # t /\ IsSwapped(d)
  <2> DEFINE out == SwapOut(m1, u, PnlForUser(d), d.swap, d.prices)
             m2 == SwapBooks(m1, u, PnlForUser(d), d.swap, d.prices)
  <2>1. d.swap \in SwapRecords
    BY <1>5 DEF IsSwapped, Decreases
  <2>2. Output(d) = out /\ SecondaryOutput(d) = 0 /\ SwapProfit(m1, d) = m2
    BY <1>5 DEF Output, SecondaryOutput, SwapProfit
  <2> HIDE DEF m1
  <2>3. PnlForUser(d) \in Int
    BY <1>1
  <2>4. out \in Int /\ Paid(m1, m2, u, -PnlForUser(d), out)
    BY <1>1, <1>2, <2>1, <2>3, SwapBooksPaid
  <2> HIDE DEF out, m2
  <2>5. Paid(books, m1, t, 0, PnlForUser(d)) /\ Paid(m1, m2, t, out, -PnlForUser(d))
    BY <1>1, <1>2, <1>5, <2>4, PaidOpposite
  <2>6. -PnlForUser(d) \in Int /\ 0 + out = out /\ PnlForUser(d) + (-PnlForUser(d)) = 0
    BY <1>1, <2>4
  <2>7. Paid(books, m2, t, 0 + out, PnlForUser(d) + (-PnlForUser(d)))
    BY <1>1, <2>3, <2>4, <2>5, <2>6, PaidThen
  <2>8. QED
    BY <1>5, <2>2, <2>4, <2>6, <2>7 DEF m1
<1>6. QED
  BY <1>1, <1>3, <1>4, <1>5

LEMMA OutputNotNegative ==
  ASSUME books \in Books, \A t \in Tokens : books["swapImpactPool"][t] >= 0,
         NEW d \in Decreases, CanTakeProfit(d)
  PROVE  Output(d) >= 0
<1> DEFINE t == Token(d)
           u == PnlToken(d.position)
           m1 == TakeProfit(books, d)
<1>1. t \in Tokens /\ u \in Tokens /\ d.prices \in Prices /\ PnlForUser(d) \in Nat /\ DeductionForPool(d) \in Nat
  BY DecreaseTypes
<1>2. CASE ~IsSwapped(d)
  BY <1>1, <1>2 DEF Output
<1>3. CASE IsSwapped(d)
  <2>1. d.swap \in SwapRecords
    BY <1>3 DEF IsSwapped, Decreases
  <2>2. CanSwap(m1, u, PnlForUser(d), d.swap, d.prices)
    BY <1>3 DEF CanTakeProfit
  <2>3. Output(d) = SwapOut(m1, u, PnlForUser(d), d.swap, d.prices)
    BY <1>3 DEF Output
  <2>4. m1 \in Books
    BY TakeProfitPaid DEF Paid, Moved
  <2>5. \A v \in Tokens : m1["swapImpactPool"][v] = books["swapImpactPool"][v]
    <3> DEFINE z == DeductionForPool(d) - PnlForUser(d)
               n == Credit(books, "claimableCollateral", u, z)
    <3>1. z \in Int /\ -DeductionForPool(d) \in Int
      BY <1>1
    <3>2. "claimableCollateral" \in Buckets /\ "pool" \in Buckets /\ "swapImpactPool" \in Buckets
      BY BucketNames
    <3>3. m1 = Credit(n, "pool", u, -DeductionForPool(d))
      BY DEF TakeProfit
    <3>4. u \in Tokens /\ books \in Books
      BY <1>1
    <3> HIDE DEF z, u, m1
    <3>5. n \in Books /\ \A c \in Buckets, v \in Tokens : c # "claimableCollateral" => n[c][v] = books[c][v]
      BY ONLY <3>1, <3>2, <3>4, CreditEntries DEF n
    <3> HIDE DEF n
    <3>6. \A c \in Buckets, v \in Tokens : c # "pool" => m1[c][v] = n[c][v]
      BY ONLY <3>1, <3>2, <3>3, <3>4, <3>5, CreditEntries
    <3>7. QED
      BY <3>2, <3>5, <3>6
  <2>6. Opposite(u) \in Tokens
    BY <1>1, TwoTokens
  <2> HIDE DEF m1, u
  <2>7. m1["swapImpactPool"][Opposite(u)] >= 0
    BY <2>5, <2>6
  <2>8. PositiveImpact(m1, Opposite(u), d.swap) \in Int /\ PositiveImpact(m1, Opposite(u), d.swap) >= 0
    BY <1>1, <2>1, <2>4, <2>6, <2>7, SwapTypes
  <2>9. SwapIn(PnlForUser(d), d.swap) >= 0
    <3>1. PnlForUser(d) \in Int
      BY <1>1
    <3>2. /\ d.swap.impact \in Int /\ (d.swap.impact > 0 => NegativeImpact(d.swap) = 0)
          /\ AmountAfterFees(PnlForUser(d), d.swap) \in Int
          /\ SwapIn(PnlForUser(d), d.swap) = AmountAfterFees(PnlForUser(d), d.swap) - NegativeImpact(d.swap)
          /\ SwapIn(PnlForUser(d), d.swap) \in Int
      BY <1>1, <2>1, <2>4, <3>1, SwapTypes
    <3>3. QED
      BY <2>2, <3>2 DEF CanSwap
  <2>10. /\ PoolAmountOut(PnlForUser(d), d.swap, d.prices, u) \in Int
         /\ PoolAmountOut(PnlForUser(d), d.swap, d.prices, u) >= 0
    <3>1. PnlForUser(d) \in Int
      BY <1>1
    <3>2. QED
      BY <1>1, <2>1, <2>4, <2>9, <3>1, SwapTypes
  <2>11. QED
    BY <2>3, <2>8, <2>10 DEF SwapOut
<1>4. QED
  BY <1>2, <1>3

CollateralType == collateralAmount \in [Positions -> Nat]

(***************************************************************************)
(* What the settling of costs adds up to.                                  *)
(***************************************************************************)
LEMMA CostTypes ==
  ASSUME FundingDueType, CollateralType, books \in Books, NEW d \in Decreases
  PROVE  /\ Collateral(d) \in Nat /\ FundingFee(d.position) \in Nat /\ TotalFees(d.fees) \in Nat
         /\ OutputAfterCost(d) \in Nat /\ LeftAfterCosts(d) \in Int
         /\ CappedDiff(d) \in Int /\ RemainingCollateral(d) \in Nat
         /\ Output(d) + Collateral(d)
              = Loss(d) + TotalFees(d.fees) + FundingFee(d.position) + OutputAfterCost(d) + LeftAfterCosts(d)
         /\ IsClosed(d) => RemainingCollateral(d) = 0
<1>1. d.position \in Positions /\ d.fees \in FeeRecords /\ Loss(d) \in Nat /\ DiffAmount(d) \in Nat
  BY DecreaseTypes
<1>2. Collateral(d) \in Nat
  BY <1>1 DEF Collateral, CollateralType
<1>3. FundingFee(d.position) \in Nat /\ TotalFees(d.fees) \in Nat
  BY <1>1, FundingTypes, FeeTypes
<1>4. Output(d) \in Int
  BY ProfitPaid
<1>5. /\ OutputAfterCost(d) \in Nat /\ CollateralCost(d) \in Nat
      /\ OutputAfterCost(d) - CollateralCost(d) = Output(d) - (TotalFees(d.fees) + FundingFee(d.position))
  BY <1>3, <1>4 DEF OutputAfterCost, CollateralCost, TotalNetCost, AtLeastZero
<1>6. LeftAfterCosts(d) = Collateral(d) - (CollateralCost(d) + Loss(d)) /\ LeftAfterCosts(d) \in Int
  BY <1>1, <1>2, <1>5 DEF LeftAfterCosts, PendingCollateralDeduction
<1>7. Output(d) + Collateral(d)
        = Loss(d) + TotalFees(d.fees) + FundingFee(d.position) + OutputAfterCost(d) + LeftAfterCosts(d)
  BY <1>1, <1>2, <1>3, <1>4, <1>5, <1>6
<1>8. CappedDiff(d) \in Int /\ CappedDiff(d) <= LeftAfterCosts(d)
  BY <1>1, <1>6 DEF CappedDiff, Lesser
<1>9. RequestedCollateral(d) \in Nat
  <2>1. d.withdraw - DiffAmount(d) \in Int
    BY <1>1 DEF Decreases
  <2>2. QED
    BY <2>1, CapTypes DEF RequestedCollateral
<1>10. IsClosed(d) => RemainingCollateral(d) = 0
  BY DEF RemainingCollateral
<1>11. ~IsClosed(d) => RemainingCollateral(d) \in Nat
  <2> DEFINE left == LeftAfterCosts(d) - CappedDiff(d)
  <2>1. left \in Int /\ left >= 0
    BY <1>6, <1>8
  <2>2. ~IsClosed(d) => RemainingCollateral(d) = left - Lesser(RequestedCollateral(d), left)
    BY DEF RemainingCollateral
  <2> HIDE DEF left
  <2>3. Lesser(RequestedCollateral(d), left) \in Int /\ Lesser(RequestedCollateral(d), left) <= left
    BY <1>9, <2>1 DEF Lesser
  <2>4. QED
    BY <2>1, <2>2, <2>3
<1>12. RemainingCollateral(d) \in Nat
  BY <1>10, <1>11
<1>13. QED
  BY <1>2, <1>3, <1>5, <1>6, <1>7, <1>8, <1>10, <1>12

(***************************************************************************)
(* With enough collateral, what leaves the books leaves the market.        *)
(***************************************************************************)
LEMMA SettledBooksSettled ==
  ASSUME FundingDueType, CollateralType, books \in Books, NEW d \in Decreases
  PROVE  Settled(books, IncrementClaimableFunding(SettledBooks(d), d.position), d.position,
                 RemainingCollateral(d) - Collateral(d), FundingFee(d.position), 0, 0)
<1> DEFINE p == d.position
           t == Token(d)
           u == PnlToken(d.position)
           diff == CappedDiff(d)
           change == RemainingCollateral(d) - Collateral(d)
           paidOut == OutputAfterCost(d) + LeftAfterCosts(d) - diff - RemainingCollateral(d)
           fee == FundingFee(p)
           total == TotalFees(d.fees)
           out == Output(d)
           sec == SecondaryOutput(d)
           m1 == SwapProfit(TakeProfit(books, d), d)
           m2 == Credit(m1, "pool", t, Loss(d))
           m2a == PayFees(m2, t, d.fees)
           m3 == Credit(m2a, "funding", t, fee)
           m4 == Credit(m3, "claimableCollateral", t, diff)
           m5 == Credit(m4, CollateralSum(p), t, change)
           m6 == Credit(m5, "balance", t, -paidOut)
           m7 == Credit(m6, "balance", u, -sec)
           x2 == out - Loss(d)
           x3 == x2 - total
           x4 == x3 - fee
           x5 == x4 - diff
           x6 == x5 - change
           x7 == x6 + (-paidOut)
<1>1. /\ p \in Positions /\ d.fees \in FeeRecords /\ t \in Tokens /\ u \in Tokens /\ t = CollateralToken(p)
      /\ Loss(d) \in Int
  BY DecreaseTypes DEF Token
<1>2. /\ fee \in Int /\ total \in Int /\ diff \in Int /\ Collateral(d) \in Int /\ RemainingCollateral(d) \in Int
      /\ OutputAfterCost(d) \in Int /\ LeftAfterCosts(d) \in Int
      /\ out + Collateral(d) = Loss(d) + total + fee + OutputAfterCost(d) + LeftAfterCosts(d)
  BY CostTypes
<1>3. out \in Int /\ sec \in Int /\ (u = t => sec = 0) /\ Paid(books, m1, t, out, sec)
  BY ProfitPaid
<1>4. SettledBooks(d) = m7
  BY DEF SettledBooks
<1> HIDE DEF p, t, u, diff, fee, total, out, sec, m1
<1>5. /\ x2 \in Int /\ x3 \in Int /\ x4 \in Int /\ x5 \in Int /\ x6 \in Int /\ x7 \in Int
      /\ change \in Int /\ -paidOut \in Int /\ -sec \in Int
      /\ x7 = 0
  BY <1>1, <1>2, <1>3
<1> HIDE DEF change, paidOut
<1>6. Paid(books, m2, t, x2, sec)
  BY <1>1, <1>3, ThenOwed DEF Liabilities
<1> HIDE DEF m2, x2
<1>7. Paid(books, m2a, t, x3, sec)
  BY <1>1, <1>3, <1>5, <1>6, PayFeesPaid DEF total
<1> HIDE DEF m2a, x3
<1>8. Booked(books, m2a, p, 0, 0, x3, sec)
  BY <1>1, <1>3, <1>5, <1>7, PaidIsBooked
<1>9. Booked(books, m3, p, 0, fee, x4, sec)
  BY <1>1, <1>2, <1>3, <1>5, <1>8, ThenFunding
<1> HIDE DEF m3, x4
<1>10. "claimableCollateral" \in Liabilities /\ 0 \in Int
  BY DEF Liabilities
<1>11. Booked(books, m4, p, 0, fee, IF t = CollateralToken(p) THEN x5 ELSE x4,
              IF t = CollateralToken(p) THEN sec ELSE sec - diff)
  BY <1>1, <1>2, <1>3, <1>5, <1>9, <1>10, BookedThenOwed
<1>12. Booked(books, m4, p, 0, fee, x5, sec)
  BY <1>1, <1>11
<1> HIDE DEF m4, x5
<1>13. Booked(books, m5, p, change, fee, x6, sec)
  BY <1>1, <1>2, <1>3, <1>5, <1>12, ThenCollateral
<1> HIDE DEF m5, x6
<1>14. Booked(books, m6, p, change, fee, IF t = CollateralToken(p) THEN x7 ELSE x6,
              IF t = CollateralToken(p) THEN sec ELSE sec + (-paidOut))
  BY <1>1, <1>2, <1>3, <1>5, <1>13, BookedThenTransferred
<1>15. Booked(books, m6, p, change, fee, 0, sec)
  BY <1>1, <1>5, <1>14
<1> HIDE DEF m6, x7
<1>16. Booked(books, m7, p, change, fee, IF u = CollateralToken(p) THEN 0 + (-sec) ELSE 0,
              IF u = CollateralToken(p) THEN sec ELSE sec + (-sec))
  BY <1>1, <1>2, <1>3, <1>5, <1>10, <1>15, BookedThenTransferred
<1>17. /\ (IF u = CollateralToken(p) THEN 0 + (-sec) ELSE 0) = 0
       /\ (IF u = CollateralToken(p) THEN sec ELSE sec + (-sec)) = 0
  BY <1>1, <1>3
<1>18. Booked(books, m7, p, change, fee, 0, 0)
  BY <1>16, <1>17
<1> HIDE DEF m7
<1>19. Settled(books, IncrementClaimableFunding(m7, p), p, change, fee, 0, 0)
  BY <1>1, <1>2, <1>5, <1>10, <1>18, ThenIncremented
<1>20. QED
  BY <1>4, <1>19 DEF p, change, fee

(***************************************************************************)
(* Without, the output in the collateral token stays, and is nobody's.     *)
(***************************************************************************)
LEMMA ForceClosedBooksSettled ==
  ASSUME FundingDueType, CollateralType, books \in Books, NEW d \in Decreases
  PROVE  Settled(books, IncrementClaimableFunding(ForceClosedBooks(d), d.position), d.position,
                 -Collateral(d), FundingPaid(d), Output(d), 0)
<1> DEFINE p == d.position
           t == Token(d)
           u == PnlToken(d.position)
           coll == Collateral(d)
           fund == FundingPaid(d)
           forPool == CollateralForPool(d)
           out == Output(d)
           sec == SecondaryOutput(d)
           sf == SecondaryForFunding(d)
           sp == SecondaryForPool(d)
           m1 == SwapProfit(TakeProfit(books, d), d)
           m2 == Credit(m1, "funding", t, fund)
           m3 == Credit(m2, "pool", t, forPool)
           m4 == Credit(m3, CollateralSum(p), t, -coll)
           m5 == Credit(m4, "claimableCollateral", u, sf)
           m6 == Credit(m5, "pool", u, sp)
           m7 == Credit(m6, "balance", u, -(sec - sf - sp))
           x2 == out - fund
           x3 == x2 - forPool
           x4 == x3 - (-coll)
           same == u = CollateralToken(p)
           x5 == IF same THEN out - sf ELSE out
           y5 == IF same THEN sec ELSE sec - sf
           x6 == IF same THEN x5 - sp ELSE x5
           y6 == IF same THEN y5 ELSE y5 - sp
           x7 == IF same THEN x6 + (-(sec - sf - sp)) ELSE x6
           y7 == IF same THEN y6 ELSE y6 + (-(sec - sf - sp))
<1>1. /\ p \in Positions /\ t \in Tokens /\ u \in Tokens /\ t = CollateralToken(p)
      /\ Loss(d) \in Int
      /\ d.prices[t].max \in Nat \ {0} /\ d.prices[u].min \in Nat \ {0}
  BY DecreaseTypes DEF Token
<1>2. coll \in Int /\ FundingFee(p) \in Int
  BY CostTypes
<1>3. out \in Int /\ sec \in Int /\ (u = t => sec = 0) /\ Paid(books, m1, t, out, sec)
  BY ProfitPaid
<1>4. fund \in Int /\ forPool \in Int /\ forPool = coll - fund
  BY <1>2 DEF FundingPaid, CollateralForPool, Lesser
<1>5. \A amount \in Int : InSecondary(d, amount) \in Int
  <2>1. \A amount \in Int : amount * d.prices[t].max \in Int
    BY <1>1
  <2>2. QED
    BY <1>1, <2>1, DivisionType DEF InSecondary
<1>6. sf \in Int
  <2>1. UnpaidFunding(d) \in Int
    BY <1>2, <1>4 DEF UnpaidFunding
  <2>2. InSecondary(d, UnpaidFunding(d)) \in Int
    BY <1>5, <2>1
  <2>3. QED
    BY <1>3, <2>2 DEF SecondaryForFunding, Lesser
<1>7. sp \in Int
  <2>1. PendingCollateralDeduction(d) \in Int
    <3>1. TotalFees(d.fees) \in Int
      BY CostTypes
    <3>2. CollateralCost(d) \in Int
      BY <1>2, <1>3, <3>1 DEF CollateralCost, TotalNetCost, AtLeastZero
    <3>3. QED
      BY <1>1, <3>2 DEF PendingCollateralDeduction
  <2>2. UnpaidCost(d) \in Int
    BY <1>2, <1>4, <2>1 DEF UnpaidCost, CostWithoutFunding, AtLeastZero
  <2>3. InSecondary(d, UnpaidCost(d)) \in Int
    BY <1>5, <2>2
  <2>4. QED
    BY <1>3, <1>6, <2>3 DEF SecondaryForPool, Lesser
<1>8. ForceClosedBooks(d) = m7
  BY DEF ForceClosedBooks
<1> HIDE DEF p, t, u, coll, fund, forPool, out, sec, sf, sp, m1
<1>9. /\ x2 \in Int /\ x3 \in Int /\ x4 \in Int /\ x4 = out
      /\ -coll \in Int /\ -(sec - sf - sp) \in Int
  BY <1>2, <1>3, <1>4, <1>6, <1>7
<1>10. /\ x5 \in Int /\ y5 \in Int /\ x6 \in Int /\ y6 \in Int
       /\ x7 = out /\ y7 = 0
  <2>1. CASE same
    BY <1>1, <1>3, <1>6, <1>7, <2>1
  <2>2. CASE ~same
    BY <1>3, <1>6, <1>7, <2>2
  <2>3. QED
    BY <2>1, <2>2
<1>11. "claimableCollateral" \in Liabilities /\ "pool" \in Liabilities /\ 0 \in Int
  BY DEF Liabilities
<1>12. Booked(books, m1, p, 0, 0, out, sec)
  BY <1>1, <1>3, PaidIsBooked
<1>13. Booked(books, m2, p, 0, fund, x2, sec)
  BY <1>1, <1>3, <1>4, <1>11, <1>12, ThenFunding
<1> HIDE DEF m2, x2
<1>14. Booked(books, m3, p, 0, fund, IF t = CollateralToken(p) THEN x3 ELSE x2,
              IF t = CollateralToken(p) THEN sec ELSE sec - forPool)
  BY <1>1, <1>3, <1>4, <1>9, <1>11, <1>13, BookedThenOwed
<1>15. Booked(books, m3, p, 0, fund, x3, sec)
  BY <1>1, <1>14
<1> HIDE DEF m3, x3
<1>16. Booked(books, m4, p, -coll, fund, x4, sec)
  BY <1>1, <1>3, <1>4, <1>9, <1>15, ThenCollateral
<1>17. Booked(books, m4, p, -coll, fund, out, sec)
  BY <1>9, <1>16
<1> HIDE DEF m4, x4
<1>18. Booked(books, m5, p, -coll, fund, x5, y5)
  BY <1>1, <1>3, <1>4, <1>6, <1>9, <1>11, <1>17, BookedThenOwed
<1> HIDE DEF m5, x5, y5
<1>19. Booked(books, m6, p, -coll, fund, x6, y6)
  BY <1>1, <1>4, <1>7, <1>9, <1>10, <1>11, <1>18, BookedThenOwed
<1> HIDE DEF m6, x6, y6
<1>20. Booked(books, m7, p, -coll, fund, x7, y7)
  BY <1>1, <1>4, <1>9, <1>10, <1>19, BookedThenTransferred
<1>21. Booked(books, m7, p, -coll, fund, out, 0)
  BY <1>10, <1>20
<1> HIDE DEF m7, x7, y7
<1>22. Settled(books, IncrementClaimableFunding(m7, p), p, -coll, fund, out, 0)
  BY <1>1, <1>3, <1>4, <1>9, <1>11, <1>21, ThenIncremented
<1>23. QED
  BY <1>8, <1>22 DEF p, coll, fund, out

-----------------------------------------------------------------------------
(* What a step is to the properties.  Most actions are quiet: they leave   *)
(* positions and their books alone.                                        *)

NotNegative(m) == \A b \in Recorded, t \in Tokens : m[b][t] >= 0

QuietStep ==
  /\ UNCHANGED positionVars
  /\ books' \in Books /\ NotNegative(books')
  /\ \A b \in {"longCollateral", "shortCollateral"}, t \in Tokens : books'[b][t] = books[b][t]
  /\ \A t \in Tokens : books'["funding"][t] - books'["claimableFunding"][t]
                        = books["funding"][t] - books["claimableFunding"][t]

SurplusKept == \A t \in Tokens : Surplus(books', t) = Surplus(books, t)

LEMMA MovedNothing ==
  ASSUME NEW m \in Books, NEW n, NEW t \in Tokens, Moved(m, n, t, 0, 0)
  PROVE  \A u \in Tokens : Surplus(n, u) = Surplus(m, u)
<1>1. Opposite(t) \in Tokens /\ \A u \in Tokens : u = t \/ u = Opposite(t)
  BY TwoTokens
<1>2. Surplus(m, t) \in Int /\ Surplus(m, Opposite(t)) \in Int
  BY <1>1, SurplusType
<1>3. Surplus(n, t) = Surplus(m, t) /\ Surplus(n, Opposite(t)) = Surplus(m, Opposite(t))
  BY <1>2 DEF Moved
<1>4. QED
  BY <1>1, <1>3

LEMMA PaidIsQuiet ==
  ASSUME NEW m, Book(m), UNCHANGED positionVars, NEW t \in Tokens, Paid(books, m, t, 0, 0)
  PROVE  QuietStep /\ SurplusKept
<1>1. books' = m /\ NotNegative(m)
  BY DEF Book, NotNegative
<1>2. m \in Books /\ \A b \in Watched, u \in Tokens : m[b][u] = books[b][u]
  BY DEF Paid, Moved, Untouched
<1>3. SurplusKept
  BY <1>1, MovedNothing DEF Paid, SurplusKept
<1>4. QED
  BY <1>1, <1>2, <1>3 DEF QuietStep, Watched

LEMMA SwapIsQuiet ==
  ASSUME books \in Books, NEW t \in Tokens, NEW amount \in Int, NEW s \in SwapRecords, NEW prices \in Prices,
         Swap(t, amount, s, prices)
  PROVE  QuietStep /\ SurplusKept
<1> DEFINE u == Opposite(t)
           received == Credit(books, "balance", t, amount)
           swapped == SwapBooks(received, t, amount, s, prices)
           out == SwapOut(books, t, amount, s, prices)
           m == Credit(swapped, "balance", u, -out)
<1>1. Book(m) /\ UNCHANGED positionVars
  BY DEF Swap
<1>2. u \in Tokens /\ "balance" \in Buckets /\ "swapImpactPool" \in Buckets
  BY TwoTokens, BucketNames
<1>3. received["swapImpactPool"][u] = books["swapImpactPool"][u]
  <2>1. \A c \in Buckets, v \in Tokens : c # "balance" => received[c][v] = books[c][v]
    BY <1>2, CreditEntries
  <2> HIDE DEF received, u
  <2>2. QED
    BY <1>2, <2>1
<1>4. SwapOut(received, t, amount, s, prices) = out
  <2>1. PositiveImpact(received, u, s) = PositiveImpact(books, u, s)
    BY ONLY <1>3 DEF PositiveImpact
  <2>2. QED
    BY <2>1 DEF SwapOut
<1>5. Paid(books, received, t, amount, 0)
  BY CreditPaid
<1>6. received \in Books
  BY <1>5 DEF Paid, Moved
<1> HIDE DEF received, u
<1>7. out \in Int /\ Paid(received, swapped, t, -amount, out)
  <2>1. /\ SwapOut(received, t, amount, s, prices) \in Int
        /\ Paid(received, SwapBooks(received, t, amount, s, prices), t, -amount, SwapOut(received, t, amount, s, prices))
    BY ONLY <1>6, amount \in Int, t \in Tokens, s \in SwapRecords, prices \in Prices, SwapBooksPaid
  <2>2. swapped = SwapBooks(received, t, amount, s, prices)
    OBVIOUS
  <2> HIDE DEF swapped, out
  <2>3. QED
    BY ONLY <1>4, <2>1, <2>2
<1> HIDE DEF swapped, out
<1>8. -amount \in Int /\ amount + (-amount) = 0 /\ 0 + out = out /\ -out \in Int /\ out + (-out) = 0
  BY <1>7
<1>9. Paid(books, swapped, t, amount + (-amount), 0 + out)
  BY <1>5, <1>7, <1>8, PaidThen
<1>10. Paid(books, swapped, t, 0, out)
  BY <1>8, <1>9
<1>11. Paid(books, m, t, 0, out + (-out))
  BY <1>7, <1>8, <1>10, ThenTransferred DEF u
<1> HIDE DEF m
<1>12. QED
  BY <1>1, <1>8, <1>11, PaidIsQuiet

LEMMA DepositIsQuiet ==
  ASSUME books \in Books, NEW longAmount \in Int, NEW shortAmount \in Int, NEW s \in SwapRecords,
         ExecuteDeposit(longAmount, shortAmount, s)
  PROVE  QuietStep /\ SurplusKept
<1> DEFINE m1 == DepositBooks(books, LongToken, longAmount, s)
           m2 == DepositBooks(m1, ShortToken, shortAmount, s)
<1>1. Book(m2) /\ UNCHANGED positionVars
  BY DEF ExecuteDeposit
<1>2. LongToken \in Tokens /\ ShortToken \in Tokens /\ ShortToken = Opposite(LongToken)
  BY DEF Tokens, Opposite
<1>3. Paid(books, m1, LongToken, 0, 0)
  BY <1>2, DepositBooksPaid
<1>4. m1 \in Books
  BY <1>3 DEF Paid, Moved
<1> HIDE DEF m1
<1>5. Paid(m1, m2, LongToken, 0, 0)
  BY <1>2, <1>4, DepositBooksPaid, PaidOpposite
<1> HIDE DEF m2
<1>6. Paid(books, m2, LongToken, 0 + 0, 0 + 0)
  BY <1>2, <1>3, <1>5, PaidThen
<1>7. QED
  BY <1>1, <1>2, <1>6, PaidIsQuiet

LEMMA WithdrawalIsQuiet ==
  ASSUME books \in Books, NEW longAmount \in Int, NEW shortAmount \in Int, NEW s \in SwapRecords,
         ExecuteWithdrawal(longAmount, shortAmount, s)
  PROVE  QuietStep /\ SurplusKept
<1> DEFINE m1 == WithdrawBooks(books, LongToken, longAmount, s)
           m2 == WithdrawBooks(m1, ShortToken, shortAmount, s)
<1>1. Book(m2) /\ UNCHANGED positionVars
  BY DEF ExecuteWithdrawal
<1>2. LongToken \in Tokens /\ ShortToken \in Tokens /\ ShortToken = Opposite(LongToken)
  BY DEF Tokens, Opposite
<1>3. Paid(books, m1, LongToken, 0, 0)
  BY <1>2, WithdrawBooksPaid
<1>4. m1 \in Books
  BY <1>3 DEF Paid, Moved
<1> HIDE DEF m1
<1>5. Paid(m1, m2, LongToken, 0, 0)
  BY <1>2, <1>4, WithdrawBooksPaid, PaidOpposite
<1> HIDE DEF m2
<1>6. Paid(books, m2, LongToken, 0 + 0, 0 + 0)
  BY <1>2, <1>3, <1>5, PaidThen
<1>7. QED
  BY <1>1, <1>2, <1>6, PaidIsQuiet

LEMMA ClaimIsQuiet ==
  ASSUME books \in Books, NEW bucket \in ClaimBuckets, NEW t \in Tokens, NEW amount \in Int,
         Claim(bucket, t, amount)
  PROVE  QuietStep /\ SurplusKept
<1> DEFINE m1 == Credit(books, bucket, t, -amount)
           m2 == Credit(m1, "balance", t, -amount)
<1>1. Book(m2) /\ UNCHANGED positionVars
  BY DEF Claim
<1>2. bucket \in Liabilities /\ -amount \in Int /\ amount \in Int /\ 0 - (-amount) = amount /\ amount + (-amount) = 0
  BY DEF ClaimBuckets, Liabilities
<1>3. Paid(books, m1, t, 0 - (-amount), 0)
  BY <1>2, PaidNothing, ThenOwed
<1>4. Paid(books, m1, t, amount, 0)
  BY <1>2, <1>3
<1> HIDE DEF m1
<1>5. Paid(books, m2, t, amount + (-amount), 0)
  BY <1>2, <1>4, ThenTransferred
<1> HIDE DEF m2
<1>6. QED
  BY <1>1, <1>2, <1>5, PaidIsQuiet

LEMMA ClaimFundingIsQuiet ==
  ASSUME books \in Books, NEW t \in Tokens, NEW amount \in Int, ClaimFundingFees(t, amount)
  PROVE  QuietStep /\ SurplusKept
<1> DEFINE z == -amount
           m1 == Credit(books, "claimableFunding", t, z)
           m2 == Credit(m1, "funding", t, z)
           m3 == Credit(m2, "balance", t, z)
<1>1. /\ books' = m3 /\ NotNegative(m3) /\ UNCHANGED positionVars
  BY DEF ClaimFundingFees, Book, NotNegative
<1>2. z \in Int /\ "claimableFunding" \in Buckets /\ "funding" \in Buckets /\ "balance" \in Buckets
  BY BucketNames
<1> HIDE DEF z
<1>3. /\ Moved(books, m1, t, 0, 0) /\ m1 \in Books
      /\ m1["claimableFunding"][t] = books["claimableFunding"][t] + z
      /\ \A b \in Buckets, v \in Tokens : b # "claimableFunding" \/ v # t => m1[b][v] = books[b][v]
  <2>1. Moved(books, m1, t, 0, 0)
    BY <1>2, CreditClaimable
  <2>2. QED
    BY <1>2, <2>1, CreditEntries DEF Moved
<1> HIDE DEF m1
<1>4. /\ Moved(m1, m2, t, IF "funding" = "balance" THEN z ELSE IF "funding" = "claimableFunding" THEN 0 ELSE -z, 0)
      /\ m2 \in Books /\ m2["funding"][t] = m1["funding"][t] + z
      /\ \A b \in Buckets, v \in Tokens : b # "funding" \/ v # t => m2[b][v] = m1[b][v]
  <2>1. m1 \in Books /\ t \in Tokens /\ z \in Int /\ "funding" \in Buckets
    BY <1>2, <1>3
  <2>2. Moved(m1, m2, t, IF "funding" = "balance" THEN z ELSE IF "funding" = "claimableFunding" THEN 0 ELSE -z, 0)
    BY ONLY <2>1, CreditMoves DEF m2
  <2>3. /\ m2 \in Books /\ m2["funding"][t] = m1["funding"][t] + z
        /\ \A b \in Buckets, v \in Tokens : b # "funding" \/ v # t => m2[b][v] = m1[b][v]
    BY ONLY <2>1, CreditEntries DEF m2
  <2>4. QED
    BY <2>2, <2>3
<1> HIDE DEF m2
<1>5. /\ Moved(m2, m3, t, IF "balance" = "balance" THEN z ELSE 0, 0)
      /\ m3 \in Books
      /\ \A b \in Buckets, v \in Tokens : b # "balance" => m3[b][v] = m2[b][v]
  <2>1. m2 \in Books /\ t \in Tokens /\ z \in Int /\ "balance" \in Buckets
    BY <1>2, <1>4
  <2>2. Moved(m2, m3, t, IF "balance" = "balance" THEN z ELSE IF "balance" = "claimableFunding" THEN 0 ELSE -z, 0)
    BY ONLY <2>1, CreditMoves DEF m3
  <2>3. /\ m3 \in Books
        /\ \A b \in Buckets, v \in Tokens : b # "balance" => m3[b][v] = m2[b][v]
    BY ONLY <2>1, CreditEntries DEF m3
  <2>4. QED
    BY <2>2, <2>3
<1> HIDE DEF m3
<1>6. Opposite(t) \in Tokens
  BY TwoTokens
<1>7. Surplus(books, t) \in Int /\ Surplus(books, Opposite(t)) \in Int
  BY <1>6, SurplusType
<1>8. Moved(m1, m2, t, -z, 0) /\ Moved(m2, m3, t, z, 0)
  BY <1>4, <1>5
<1>9. Moved(books, m3, t, 0, 0)
  BY <1>2, <1>3, <1>7, <1>8 DEF Moved
<1>10. SurplusKept
  BY <1>1, <1>9, MovedNothing DEF SurplusKept
<1>11. \A b \in {"longCollateral", "shortCollateral"}, v \in Tokens : m3[b][v] = books[b][v]
  BY <1>3, <1>4, <1>5, BucketNames
<1>12. ASSUME NEW v \in Tokens
       PROVE  m3["funding"][v] - m3["claimableFunding"][v] = books["funding"][v] - books["claimableFunding"][v]
  <2>1. books["funding"][v] \in Int /\ books["claimableFunding"][v] \in Int
    BY <1>2, EntryType
  <2>2. CASE v = t
    <3>1. m3["funding"][v] = books["funding"][v] + z /\ m3["claimableFunding"][v] = books["claimableFunding"][v] + z
      BY <1>2, <1>3, <1>4, <1>5, <2>2
    <3>2. QED
      BY <1>2, <2>1, <3>1
  <2>3. CASE v # t
    BY <1>2, <1>3, <1>4, <1>5, <2>3
  <2>4. QED
    BY <2>2, <2>3
<1>13. QED
  BY <1>1, <1>5, <1>10, <1>11, <1>12 DEF QuietStep

LEMMA GiftIsQuiet ==
  ASSUME books \in Books, NotNegative(books), NEW t \in Tokens, NEW amount \in Nat, DirectTransfer(t, amount)
  PROVE  QuietStep /\ \A u \in Tokens : Surplus(books', u) >= Surplus(books, u)
<1>1. books' = Credit(books, "balance", t, amount) /\ UNCHANGED positionVars
  BY DEF DirectTransfer
<1>2. Paid(books, books', t, amount, 0)
  BY <1>1, CreditPaid
<1>3. "balance" \in Buckets /\ Recorded \subseteq Buckets
  BY BucketNames DEF Buckets
<1>4. /\ books'["balance"][t] = books["balance"][t] + amount
      /\ \A b \in Buckets, u \in Tokens : b # "balance" \/ u # t => books'[b][u] = books[b][u]
  BY <1>1, <1>3, CreditEntries
<1>5. NotNegative(books')
  <2>1. ASSUME NEW b \in Recorded, NEW u \in Tokens
        PROVE  books'[b][u] >= 0
    <3>1. books[b][u] \in Int /\ books[b][u] >= 0
      BY <1>3, EntryType DEF NotNegative
    <3>2. CASE b = "balance" /\ u = t
      BY <1>4, <3>1, <3>2
    <3>3. CASE b # "balance" \/ u # t
      BY <1>3, <1>4, <3>1, <3>3
    <3>4. QED
      BY <3>2, <3>3
  <2>2. QED
    BY <2>1 DEF NotNegative
<1>6. Opposite(t) \in Tokens /\ \A u \in Tokens : u = t \/ u = Opposite(t)
  BY TwoTokens
<1>7. Surplus(books, t) \in Int /\ Surplus(books, Opposite(t)) \in Int
  BY <1>6, SurplusType
<1>8. /\ Surplus(books', t) >= Surplus(books, t)
      /\ Surplus(books', Opposite(t)) >= Surplus(books, Opposite(t))
  BY <1>2, <1>7 DEF Paid, Moved
<1>9. books' \in Books /\ \A b \in Watched, u \in Tokens : books'[b][u] = books[b][u]
  BY <1>2 DEF Paid, Moved, Untouched
<1>10. QED
  BY <1>1, <1>5, <1>6, <1>8, <1>9 DEF QuietStep, Watched

-----------------------------------------------------------------------------
(* A step of the position p: to the collateral coll and the sizes size and *)
(* tokens.  f of its funding is paid, and x is left over.                  *)

PositionStep(p, coll, size, tokens, interest, f, x) ==
  /\ NotNegative(books')
  /\ Settled(books, books', p, coll - collateralAmount[p], f, x, 0)
  /\ coll \in Nat /\ size \in Nat /\ tokens \in Nat /\ interest \in Int
  /\ size = 0 <=> tokens = 0
  /\ size = 0 => coll = 0
  /\ interest >= size - sizeInUsd[p]
  /\ collateralAmount' = [collateralAmount EXCEPT ![p] = coll]
  /\ sizeInUsd' = [sizeInUsd EXCEPT ![p] = size]
  /\ sizeInTokens' = [sizeInTokens EXCEPT ![p] = tokens]
  /\ fundingDue' = FundingSettled(p)
  /\ OpenInterestOf(openInterest, p) + interest >= 0
  /\ OpenInterestOf(openInterestInTokens, p) + (tokens - sizeInTokens[p]) >= 0
  /\ openInterest' = OpenInterestPlus(openInterest, p, interest)
  /\ openInterestInTokens' = OpenInterestPlus(openInterestInTokens, p, tokens - sizeInTokens[p])

SizeTypes == sizeInUsd \in [Positions -> Nat] /\ sizeInTokens \in [Positions -> Nat]

LEMMA SizeIncreaseBounds ==
  ASSUME NEW p \in Positions, NEW size \in Nat, NEW price \in Nat \ {0}
  PROVE  /\ SizeIncreaseInTokens(p, size, price) \in Nat
         /\ size = 0 => SizeIncreaseInTokens(p, size, price) = 0
<1>1. size \div price \in Nat /\ (size = 0 => size \div price = 0)
  BY DivisionOfNat
<1>2. /\ RoundUpDivision(size, price) \in Nat
      /\ size = 0 => RoundUpDivision(size, price) = 0
  <2>1. size + price - 1 \in Nat /\ (size = 0 => size + price - 1 < price)
    OBVIOUS
  <2>2. QED
    BY <2>1, DivisionOfNat DEF RoundUpDivision
<1>3. QED
  BY <1>1, <1>2 DEF SizeIncreaseInTokens

LEMMA IncreaseStep ==
  ASSUME FundingDueType, CollateralType, SizeTypes, books \in Books,
         NEW p \in Positions, NEW received \in Nat, NEW size \in Nat, NEW price \in Nat \ {0},
         NEW fees \in FeeRecords, IncreasePosition(p, received, size, price, fees)
  PROVE  \E coll, after, tokens : PositionStep(p, coll, after, tokens, size, FundingFee(p), 0)
<1> DEFINE spent == TotalFees(fees)
           fee == FundingFee(p)
           coll == collateralAmount[p] + received - spent - fee
           delta == SizeIncreaseInTokens(p, size, price)
           after == sizeInUsd[p] + size
           tokens == sizeInTokens[p] + delta
           n == IncreaseBooks(p, received, fees)
<1>1. /\ collateralAmount[p] \in Nat /\ sizeInUsd[p] \in Nat /\ sizeInTokens[p] \in Nat
      /\ spent \in Nat /\ fee \in Nat /\ delta \in Nat /\ (size = 0 => delta = 0)
  BY FundingTypes, FeeTypes, SizeIncreaseBounds DEF CollateralType, SizeTypes
<1>2. /\ coll >= 0 /\ after > 0 /\ tokens > 0
      /\ books' = n /\ NotNegative(n)
      /\ collateralAmount' = [collateralAmount EXCEPT ![p] = coll]
      /\ sizeInUsd' = [sizeInUsd EXCEPT ![p] = after]
      /\ sizeInTokens' = [sizeInTokens EXCEPT ![p] = tokens]
      /\ fundingDue' = FundingSettled(p)
      /\ OpenInterestOf(openInterest, p) + size >= 0
      /\ OpenInterestOf(openInterestInTokens, p) + delta >= 0
      /\ openInterest' = OpenInterestPlus(openInterest, p, size)
      /\ openInterestInTokens' = OpenInterestPlus(openInterestInTokens, p, IF size = 0 THEN 0 ELSE delta)
  BY DEF IncreasePosition, UpdateOpenInterest, Book, NotNegative
<1>3. Settled(books, n, p, received - spent - fee, fee, 0, 0)
  BY IncreaseBooksSettled
<1> HIDE DEF n, spent, fee, delta
<1>4. /\ coll \in Nat /\ after \in Nat /\ tokens \in Nat
      /\ received - spent - fee = coll - collateralAmount[p]
      /\ size >= after - sizeInUsd[p]
      /\ tokens - sizeInTokens[p] = delta
      /\ (IF size = 0 THEN 0 ELSE delta) = delta
  BY <1>1, <1>2
<1> HIDE DEF coll, after, tokens
<1>5. PositionStep(p, coll, after, tokens, size, fee, 0)
  BY <1>2, <1>3, <1>4 DEF PositionStep
<1>6. QED
  BY <1>5 DEF fee

LEMMA SizeDeltaBounds ==
  ASSUME SizeTypes, NEW d \in Decreases, sizeInUsd[d.position] > 0, d.size <= sizeInUsd[d.position]
  PROVE  /\ SizeDeltaInTokens(d) \in 0..sizeInTokens[d.position]
         /\ Closes(d) => SizeDeltaInTokens(d) = sizeInTokens[d.position]
         /\ d.size = 0 => SizeDeltaInTokens(d) = 0
<1> DEFINE total == sizeInTokens[d.position]
           whole == sizeInUsd[d.position]
           part == d.size
<1>1. d.position \in Positions /\ part \in Nat /\ IsLong(d.position) \in BOOLEAN
  BY PositionKeysType DEF Decreases
<1>2. total \in Nat /\ whole \in Nat \ {0} /\ part <= whole
  BY <1>1 DEF SizeTypes
<1>3. /\ Closes(d) <=> part = whole
      /\ Closes(d) => SizeDeltaInTokens(d) = total
      /\ ~Closes(d) => SizeDeltaInTokens(d) \in {RoundUpDivision(total * part, whole), (total * part) \div whole}
  <2>1. CASE Closes(d)
    BY <2>1 DEF SizeDeltaInTokens, Closes
  <2>2. CASE ~Closes(d) /\ IsLong(d.position)
    BY <2>2 DEF SizeDeltaInTokens, Closes
  <2>3. CASE ~Closes(d) /\ ~IsLong(d.position)
    BY <2>3 DEF SizeDeltaInTokens, Closes
  <2>4. QED
    BY <1>1, <2>1, <2>2, <2>3
<1> HIDE DEF total, whole, part
<1>4. (total * part) \div whole \in 0..total /\ RoundUpDivision(total * part, whole) \in 0..total
  BY <1>1, <1>2, ShareBounds
<1>5. part = 0 => (total * part) \div whole = 0 /\ RoundUpDivision(total * part, whole) = 0
  <2> SUFFICES ASSUME part = 0
               PROVE  (total * part) \div whole = 0 /\ RoundUpDivision(total * part, whole) = 0
    OBVIOUS
  <2>1. total * part = 0
    BY <1>2
  <2>2. 0 \div whole = 0 /\ (0 + whole - 1) \div whole = 0
    <3>1. 0 + whole - 1 \in Nat /\ 0 + whole - 1 < whole
      BY <1>2
    <3>2. QED
      BY <1>2, <3>1, DivisionOfNat
  <2>3. QED
    BY <2>1, <2>2 DEF RoundUpDivision
<1>6. total \in 0..total
  BY <1>2
<1>7. QED
  BY <1>2, <1>3, <1>4, <1>5, <1>6 DEF total, part

(***************************************************************************)
(* All of the funding is paid, unless the position is closed for less; and *)
(* something is left over only by a forced close, the output.              *)
(***************************************************************************)
LEMMA DecreaseStep ==
  ASSUME FundingDueType, CollateralType, SizeTypes, books \in Books,
         NEW d \in Decreases, DecreasePosition(d)
  PROVE  \E coll, size, tokens, interest, f, x :
           /\ PositionStep(d.position, coll, size, tokens, interest, f, x)
           /\ f \in Int /\ x \in Int /\ sizeInUsd[d.position] > 0
           /\ \/ f = FundingFee(d.position)
              \/ size = 0 /\ FundingFee(d.position) > collateralAmount[d.position]
           /\ \/ x = 0
              \/ size = 0 /\ Closes(d) /\ ~HasEnoughCollateral(d) /\ x = Output(d)
<1> DEFINE p == d.position
           fee == FundingFee(p)
           usd == sizeInUsd[p]
           total == sizeInTokens[p]
           delta == SizeDeltaInTokens(d)
           size == IF IsClosed(d) THEN 0 ELSE usd - d.size
           tokens == total - delta
           interest == -d.size
           n1 == IncrementClaimableFunding(SettledBooks(d), p)
           n2 == IncrementClaimableFunding(ForceClosedBooks(d), p)
<1>1. p \in Positions /\ d.size \in Nat
  BY DEF Decreases
<1>2. usd \in Nat /\ total \in Nat /\ Collateral(d) \in Nat /\ Collateral(d) = collateralAmount[p] /\ fee \in Nat
  BY <1>1, FundingTypes DEF SizeTypes, CollateralType, Collateral
<1>3. /\ usd > 0 /\ d.size <= usd
      /\ sizeInUsd' = [sizeInUsd EXCEPT ![p] = size]
      /\ sizeInTokens' = [sizeInTokens EXCEPT ![p] = tokens]
      /\ fundingDue' = FundingSettled(p)
      /\ OpenInterestOf(openInterest, p) + interest >= 0
      /\ OpenInterestOf(openInterestInTokens, p) + (-delta) >= 0
      /\ openInterest' = OpenInterestPlus(openInterest, p, interest)
      /\ openInterestInTokens' = OpenInterestPlus(openInterestInTokens, p, IF interest = 0 THEN 0 ELSE -delta)
  BY DEF DecreasePosition, UpdateOpenInterest
<1>4. /\ delta \in 0..total
      /\ Closes(d) => delta = total
      /\ d.size = 0 => delta = 0
  BY <1>3, SizeDeltaBounds
<1>5. (Closes(d) <=> d.size = usd) /\ (IsClosed(d) <=> Closes(d) \/ delta = total)
  BY DEF Closes, IsClosed
<1>6. PayCosts(d)
  BY DEF DecreasePosition
<1> HIDE DEF usd, total, delta, fee, n1, n2
<1>7. /\ size \in Nat /\ tokens \in Nat /\ interest \in Int
      /\ size = 0 <=> tokens = 0
      /\ size = 0 <=> IsClosed(d)
      /\ interest >= size - usd
      /\ tokens - total = -delta
      /\ (IF interest = 0 THEN 0 ELSE -delta) = -delta
  BY <1>1, <1>2, <1>3, <1>4, <1>5
<1> DEFINE Rest(coll, f, x) ==
             /\ coll \in Nat /\ (IsClosed(d) => coll = 0)
             /\ NotNegative(books')
             /\ Settled(books, books', p, coll - collateralAmount[p], f, x, 0)
             /\ collateralAmount' = [collateralAmount EXCEPT ![p] = coll]
<1> HIDE DEF size, tokens, interest
<1>8. ASSUME NEW coll, NEW f, NEW x, Rest(coll, f, x)
      PROVE  PositionStep(p, coll, size, tokens, interest, f, x)
  BY <1>3, <1>7, <1>8 DEF PositionStep, usd, total
<1>9. CASE HasEnoughCollateral(d)
  <2>1. /\ books' = n1 /\ NotNegative(n1)
        /\ collateralAmount' = [collateralAmount EXCEPT ![p] = RemainingCollateral(d)]
    BY <1>6, <1>9 DEF PayCosts, Book, NotNegative, n1
  <2>2. Settled(books, n1, p, RemainingCollateral(d) - Collateral(d), fee, 0, 0)
    BY SettledBooksSettled DEF n1, fee
  <2>3. RemainingCollateral(d) \in Nat /\ (IsClosed(d) => RemainingCollateral(d) = 0)
    BY CostTypes
  <2>4. Rest(RemainingCollateral(d), fee, 0)
    BY <1>2, <2>1, <2>2, <2>3
  <2>5. PositionStep(p, RemainingCollateral(d), size, tokens, interest, fee, 0)
    BY <1>8, <2>4
  <2>6. fee \in Int /\ 0 \in Int
    BY <1>2
  <2>7. QED
    BY <1>3, <2>5, <2>6 DEF fee, usd
<1>10. CASE ~HasEnoughCollateral(d)
  <2>1. /\ books' = n2 /\ NotNegative(n2) /\ Closes(d)
        /\ collateralAmount' = [collateralAmount EXCEPT ![p] = 0]
    BY <1>6, <1>10 DEF PayCosts, Book, NotNegative, n2, CanForceClose
  <2>2. Settled(books, n2, p, -Collateral(d), FundingPaid(d), Output(d), 0)
    BY ForceClosedBooksSettled DEF n2
  <2>3. -Collateral(d) = 0 - collateralAmount[p]
    BY <1>2
  <2>4. Rest(0, FundingPaid(d), Output(d))
    BY <2>1, <2>2, <2>3
  <2>5. PositionStep(p, 0, size, tokens, interest, FundingPaid(d), Output(d))
    BY <1>8, <2>4
  <2>6. FundingPaid(d) \in Int /\ (FundingPaid(d) = fee \/ fee > collateralAmount[p])
    BY <1>2 DEF FundingPaid, Lesser, fee
  <2>7. Output(d) \in Int
    BY ProfitPaid
  <2>8. size = 0
    BY <1>5, <1>7, <2>1
  <2>9. QED
    BY <1>3, <1>10, <2>1, <2>5, <2>6, <2>7, <2>8 DEF fee, usd
<1>11. QED
  BY <1>9, <1>10

-----------------------------------------------------------------------------
(* Every step is of one of these kinds *)

LEMMA OrdersAreDecreases ==
  ASSUME NEW p \in Positions, NEW size \in Sizes \cup {0}, NEW d \in OrdersOfSize(p, size)
  PROVE  d \in Decreases /\ d.position = p
<1>1. /\ Sizes \subseteq Nat /\ Amounts \subseteq Nat /\ Profits \subseteq Int /\ ImpactDiffs \subseteq Nat
      /\ FeeChoices \subseteq FeeRecords /\ SwapChoices \subseteq SwapRecords
  BY MarketAssumption
<1>2. /\ (IF size = sizeInUsd[p] THEN OrderKinds ELSE OrderKinds \cap {"trader"}) \subseteq OrderKinds
      /\ (IF size = sizeInUsd[p] THEN {0} ELSE Amounts \cup {0}) \subseteq Nat
      /\ (IF size = 0 THEN {0} ELSE Profits) \subseteq Int
      /\ (IF size = 0 THEN {0} ELSE ImpactDiffs) \subseteq Nat
      /\ SwapChoices \cup {NoSwap} \subseteq SwapRecords \cup {NoSwap}
      /\ size \in Nat
  BY <1>1
<1>3. QED
  BY <1>1, <1>2 DEF OrdersOfSize, Decreases

AccrueStep == \E p, q \in Positions, owed \in 0..1 : AccrueFunding(p, q, owed)

FundingSettledBy(p, size, f) ==
  \/ f = FundingFee(p)
  \/ size = 0 /\ sizeInUsd[p] > 0 /\ FundingFee(p) > collateralAmount[p]

LeftOver(p, size, x) ==
  \/ x = 0
  \/ /\ size = 0 /\ sizeInUsd[p] > 0
     /\ \E d \in OrdersOfSize(p, sizeInUsd[p]) :
          DecreasePosition(d) /\ ~HasEnoughCollateral(d) /\ x = Output(d)

SomePositionStep ==
  \E p \in Positions : \E coll, size, tokens, interest, f, x :
    /\ PositionStep(p, coll, size, tokens, interest, f, x)
    /\ f \in Int /\ x \in Int /\ FundingSettledBy(p, size, f) /\ LeftOver(p, size, x)

GiftStep == \E t \in Tokens, amount \in Gifts : DirectTransfer(t, amount)

LEMMA StepKinds ==
  ASSUME TypeOK, Next
  PROVE  \/ QuietStep /\ (SurplusKept \/ GiftStep)
         \/ SomePositionStep
         \/ AccrueStep
<1>1. books \in Books /\ NotNegative(books)
  BY DEF TypeOK, Books, NotNegative
<1>2. FundingDueType /\ CollateralType /\ SizeTypes
  BY DEF TypeOK, FundingDueType, CollateralType, SizeTypes
<1>3. /\ Amounts \subseteq Nat \ {0} /\ Gifts \subseteq Nat \ {0} /\ Sizes \subseteq Nat \ {0}
      /\ ExecutionPrices \subseteq Nat \ {0}
      /\ FeeChoices \subseteq FeeRecords /\ SwapChoices \subseteq SwapRecords
  BY MarketAssumption
<1>4. CASE \E t \in Tokens, amount \in Amounts, s \in SwapChoices, prices \in Prices :
             Swap(t, amount, s, prices)
  <2>1. PICK t \in Tokens, amount \in Amounts, s \in SwapChoices, prices \in Prices :
               Swap(t, amount, s, prices)
    BY <1>4
  <2>2. amount \in Int /\ s \in SwapRecords
    BY <1>3
  <2>3. QED
    BY <1>1, <2>1, <2>2, SwapIsQuiet
<1>5. CASE \E longAmount, shortAmount \in Amounts \cup {0}, s \in SwapChoices :
             ExecuteDeposit(longAmount, shortAmount, s)
  <2>1. PICK longAmount \in Amounts \cup {0}, shortAmount \in Amounts \cup {0}, s \in SwapChoices :
               ExecuteDeposit(longAmount, shortAmount, s)
    BY <1>5
  <2>2. longAmount \in Int /\ shortAmount \in Int /\ s \in SwapRecords
    BY <1>3
  <2>3. QED
    BY <1>1, <2>1, <2>2, DepositIsQuiet
<1>6. CASE \E longAmount, shortAmount \in Amounts \cup {0}, s \in SwapChoices :
             ExecuteWithdrawal(longAmount, shortAmount, s)
  <2>1. PICK longAmount \in Amounts \cup {0}, shortAmount \in Amounts \cup {0}, s \in SwapChoices :
               ExecuteWithdrawal(longAmount, shortAmount, s)
    BY <1>6
  <2>2. longAmount \in Int /\ shortAmount \in Int /\ s \in SwapRecords
    BY <1>3
  <2>3. QED
    BY <1>1, <2>1, <2>2, WithdrawalIsQuiet
<1>7. CASE \E p \in Positions, received \in Amounts \cup {0}, size \in Sizes \cup {0},
              price \in ExecutionPrices, fees \in FeeChoices :
             IncreasePosition(p, received, size, price, fees)
  <2>1. PICK p \in Positions, received \in Amounts \cup {0}, size \in Sizes \cup {0},
             price \in ExecutionPrices, fees \in FeeChoices :
               IncreasePosition(p, received, size, price, fees)
    BY <1>7
  <2>2. received \in Nat /\ size \in Nat /\ price \in Nat \ {0} /\ fees \in FeeRecords
    BY <1>3
  <2>3. \E coll, after, tokens : PositionStep(p, coll, after, tokens, size, FundingFee(p), 0)
    BY <1>1, <1>2, <2>1, <2>2, IncreaseStep
  <2>4. FundingFee(p) \in Int /\ 0 \in Int
    BY <1>2, FundingTypes
  <2>5. QED
    BY <2>3, <2>4 DEF SomePositionStep, FundingSettledBy, LeftOver
<1>8. CASE \E p \in Positions : DecreaseSome(p)
  <2>1. PICK p \in Positions, size \in Sizes \cup {0} :
               \E d \in OrdersOfSize(p, size) : DecreasePosition(d)
    BY <1>8 DEF DecreaseSome
  <2>2. PICK d \in OrdersOfSize(p, size) : DecreasePosition(d)
    BY <2>1
  <2>3. d \in Decreases /\ d.position = p
    BY OrdersAreDecreases
  <2>4. \E coll, after, tokens, interest, f, x :
          /\ PositionStep(p, coll, after, tokens, interest, f, x)
          /\ f \in Int /\ x \in Int /\ sizeInUsd[p] > 0
          /\ \/ f = FundingFee(p)
             \/ after = 0 /\ FundingFee(p) > collateralAmount[p]
          /\ \/ x = 0
             \/ after = 0 /\ Closes(d) /\ ~HasEnoughCollateral(d) /\ x = Output(d)
    BY <1>1, <1>2, <2>2, <2>3, DecreaseStep
  <2>5. Closes(d) => size = sizeInUsd[p]
    BY <2>3 DEF Closes, OrdersOfSize
  <2>6. QED
    BY <2>2, <2>4, <2>5 DEF SomePositionStep, FundingSettledBy, LeftOver
<1>9. CASE \E p, q \in Positions, owed \in 0..1 : AccrueFunding(p, q, owed)
  BY <1>9 DEF AccrueStep
<1>10. CASE \E bucket \in ClaimBuckets, t \in Tokens : \E amount \in 1..books[bucket][t] :
              Claim(bucket, t, amount)
  <2>1. PICK bucket \in ClaimBuckets, t \in Tokens : \E amount \in 1..books[bucket][t] :
               Claim(bucket, t, amount)
    BY <1>10
  <2>2. PICK amount \in 1..books[bucket][t] : Claim(bucket, t, amount)
    BY <2>1
  <2>3. amount \in Int
    OBVIOUS
  <2>4. QED
    BY <1>1, <2>2, <2>3, ClaimIsQuiet
<1>11. CASE \E t \in Tokens : \E amount \in 1..books["claimableFunding"][t] : ClaimFundingFees(t, amount)
  <2>1. PICK t \in Tokens : \E amount \in 1..books["claimableFunding"][t] : ClaimFundingFees(t, amount)
    BY <1>11
  <2>2. PICK amount \in 1..books["claimableFunding"][t] : ClaimFundingFees(t, amount)
    BY <2>1
  <2>3. amount \in Int
    OBVIOUS
  <2>4. QED
    BY <1>1, <2>2, <2>3, ClaimFundingIsQuiet
<1>12. CASE \E t \in Tokens, amount \in Gifts : DirectTransfer(t, amount)
  <2>1. PICK t \in Tokens, amount \in Gifts : DirectTransfer(t, amount)
    BY <1>12
  <2>2. amount \in Nat
    BY <1>3
  <2>3. QED
    BY <1>1, <2>1, <2>2, GiftIsQuiet DEF GiftStep
<1>13. QED
  BY <1>4, <1>5, <1>6, <1>7, <1>8, <1>9, <1>10, <1>11, <1>12 DEF Next

-----------------------------------------------------------------------------
(* Types, and who owes funding in which token *)

(***************************************************************************)
(* A position owes funding in its collateral token only.                   *)
(***************************************************************************)
OwesCollateralToken ==
  \A p \in Positions, t \in Tokens : t # CollateralToken(p) => fundingDue[p][t] <= 0

Typed == TypeOK /\ OwesCollateralToken

LEMMA OpenInterestEntries ==
  ASSUME NEW i \in [Tokens -> [BOOLEAN -> Nat]], NEW p \in Positions, NEW x \in Int,
         OpenInterestOf(i, p) + x >= 0
  PROVE  /\ OpenInterestPlus(i, p, x) \in [Tokens -> [BOOLEAN -> Nat]]
         /\ \A t \in Tokens, isLong \in BOOLEAN :
              OpenInterestPlus(i, p, x)[t][isLong] = i[t][isLong] + (IF Matches(p, t, isLong) THEN x ELSE 0)
<1> DEFINE c == CollateralToken(p)
           l == IsLong(p)
           row == [i[c] EXCEPT ![l] = @ + x]
           j == OpenInterestPlus(i, p, x)
<1>1. c \in Tokens /\ l \in BOOLEAN
  BY PositionKeysType
<1>2. i[c][l] + x \in Nat /\ \A t \in Tokens, isLong \in BOOLEAN : i[t][isLong] \in Nat
  BY <1>1 DEF OpenInterestOf
<1>3. j = [i EXCEPT ![c] = row]
  BY DEF OpenInterestPlus
<1>4. \A t \in Tokens, isLong \in BOOLEAN : Matches(p, t, isLong) <=> c = t /\ l = isLong
  BY DEF Matches
<1> HIDE DEF c, l, j
<1>5. /\ row \in [BOOLEAN -> Nat] /\ row[l] = i[c][l] + x
      /\ \A isLong \in BOOLEAN : isLong # l => row[isLong] = i[c][isLong]
  BY <1>1, <1>2
<1> HIDE DEF row
<1>6. j \in [Tokens -> [BOOLEAN -> Nat]]
  BY <1>1, <1>3, <1>5
<1>7. ASSUME NEW t \in Tokens, NEW isLong \in BOOLEAN
      PROVE  j[t][isLong] = i[t][isLong] + (IF Matches(p, t, isLong) THEN x ELSE 0)
  <2>1. CASE c # t
    BY <1>2, <1>3, <1>4, <2>1
  <2>2. CASE c = t /\ isLong # l
    BY <1>1, <1>2, <1>3, <1>4, <1>5, <2>2
  <2>3. CASE c = t /\ isLong = l
    BY <1>1, <1>2, <1>3, <1>4, <1>5, <2>3
  <2>4. QED
    BY <2>1, <2>2, <2>3
<1>8. QED
  BY <1>6, <1>7 DEF j

LEMMA InitTyped == Init => Typed
<1> SUFFICES ASSUME Init
             PROVE  Typed
  OBVIOUS
<1>1. Recorded \subseteq Buckets
  BY DEF Buckets
<1>2. books \in [Buckets -> [Tokens -> Int]] /\ \A b \in Recorded, t \in Tokens : books[b][t] >= 0
  BY <1>1 DEF Init
<1>3. /\ openInterest \in [Tokens -> [BOOLEAN -> Nat]]
      /\ openInterestInTokens \in [Tokens -> [BOOLEAN -> Nat]]
  BY DEF Init
<1>4. /\ sizeInUsd \in [Positions -> Nat] /\ sizeInTokens \in [Positions -> Nat]
      /\ collateralAmount \in [Positions -> Nat]
      /\ fundingDue \in [Positions -> [Tokens -> Int]]
  BY DEF Init
<1>5. OwesCollateralToken
  BY DEF Init, OwesCollateralToken
<1>6. QED
  BY <1>2, <1>3, <1>4, <1>5 DEF Typed, TypeOK

LEMMA AccrueTypes ==
  ASSUME FundingDueType, NEW p \in Positions, NEW q \in Positions, NEW owed \in 0..1,
         AccrueFunding(p, q, owed)
  PROVE  /\ p # q /\ CollateralToken(p) \in Tokens
         /\ sizeInUsd[p] > 0 /\ sizeInUsd[q] > 0
         /\ UNCHANGED <<books, openInterest, openInterestInTokens, sizeInUsd, sizeInTokens, collateralAmount>>
         /\ fundingDue' \in [Positions -> [Tokens -> Int]]
         /\ \A r \in Positions, t \in Tokens :
              fundingDue'[r][t] = IF t # CollateralToken(p) THEN fundingDue[r][t]
                                  ELSE IF r = p THEN fundingDue[r][t] + 1
                                  ELSE IF r = q THEN fundingDue[r][t] - owed ELSE fundingDue[r][t]
<1> DEFINE c == CollateralToken(p)
<1>1. c \in Tokens
  BY PositionKeysType
<1>2. /\ sizeInUsd[p] > 0 /\ sizeInUsd[q] > 0 /\ p # q
      /\ UNCHANGED <<books, openInterest, openInterestInTokens, sizeInUsd, sizeInTokens, collateralAmount>>
      /\ fundingDue' = [fundingDue EXCEPT ![p][c] = @ + 1, ![q][c] = @ - owed]
  BY DEF AccrueFunding
<1> HIDE DEF c
<1>3. fundingDue \in [Positions -> [Tokens -> Int]] /\ owed \in Int
  BY DEF FundingDueType
<1> DEFINE one == [fundingDue EXCEPT ![p][c] = @ + 1]
<1>4. /\ one \in [Positions -> [Tokens -> Int]]
      /\ \A r \in Positions, t \in Tokens :
           one[r][t] = IF r = p /\ t = c THEN fundingDue[r][t] + 1 ELSE fundingDue[r][t]
  BY <1>1, <1>3
<1>5. fundingDue' = [one EXCEPT ![q][c] = @ - owed]
  BY <1>2
<1> HIDE DEF one
<1>6. /\ fundingDue' \in [Positions -> [Tokens -> Int]]
      /\ \A r \in Positions, t \in Tokens :
           fundingDue'[r][t] = IF r = q /\ t = c THEN one[r][t] - owed ELSE one[r][t]
  BY <1>1, <1>3, <1>4, <1>5
<1>7. \A r \in Positions, t \in Tokens :
        fundingDue'[r][t] = IF t # c THEN fundingDue[r][t]
                            ELSE IF r = p THEN fundingDue[r][t] + 1
                            ELSE IF r = q THEN fundingDue[r][t] - owed ELSE fundingDue[r][t]
  <2> SUFFICES ASSUME NEW r \in Positions, NEW t \in Tokens
               PROVE  fundingDue'[r][t] = IF t # c THEN fundingDue[r][t]
                                          ELSE IF r = p THEN fundingDue[r][t] + 1
                                          ELSE IF r = q THEN fundingDue[r][t] - owed ELSE fundingDue[r][t]
    OBVIOUS
  <2>1. CASE t # c
    BY <1>4, <1>6, <2>1
  <2>2. CASE t = c /\ r = p
    BY <1>2, <1>4, <1>6, <2>2
  <2>3. CASE t = c /\ r # p /\ r = q
    BY <1>4, <1>6, <2>3
  <2>4. CASE t = c /\ r # p /\ r # q
    BY <1>4, <1>6, <2>4
  <2>5. QED
    BY <2>1, <2>2, <2>3, <2>4
<1>8. QED
  BY <1>1, <1>2, <1>6, <1>7 DEF c

LEMMA NextTyped == Typed /\ [Next]_vars => Typed'
<1> SUFFICES ASSUME Typed, [Next]_vars
             PROVE  Typed'
  OBVIOUS
<1>1. TypeOK /\ OwesCollateralToken
  BY DEF Typed
<1>2. CASE QuietStep
  <2>1. TypeOK'
    BY <1>1, <1>2 DEF QuietStep, TypeOK, Books, NotNegative, positionVars
  <2>2. OwesCollateralToken'
    BY <1>1, <1>2 DEF QuietStep, OwesCollateralToken, positionVars
  <2>3. QED
    BY <2>1, <2>2 DEF Typed
<1>3. CASE SomePositionStep
  <2>0. PICK p \in Positions : \E coll, size, tokens, interest, f, x :
               PositionStep(p, coll, size, tokens, interest, f, x)
    BY <1>3 DEF SomePositionStep
  <2>1. PICK coll, size, tokens, interest, f, x :
               p \in Positions /\ PositionStep(p, coll, size, tokens, interest, f, x)
    BY <2>0
  <2>2. books' \in Books /\ NotNegative(books')
    BY <2>1 DEF PositionStep, Settled, Moved
  <2>3. /\ sizeInUsd' \in [Positions -> Nat] /\ sizeInTokens' \in [Positions -> Nat]
        /\ collateralAmount' \in [Positions -> Nat]
    BY <1>1, <2>1 DEF PositionStep, TypeOK
  <2>4. fundingDue' \in [Positions -> [Tokens -> Int]] /\ OwesCollateralToken'
    BY <1>1, <2>1 DEF PositionStep, TypeOK, FundingSettled, OwesCollateralToken
  <2>5. openInterest' \in [Tokens -> [BOOLEAN -> Nat]]
    BY <1>1, <2>1, OpenInterestEntries DEF PositionStep, TypeOK
  <2>6. openInterestInTokens' \in [Tokens -> [BOOLEAN -> Nat]]
    <3>1. tokens - sizeInTokens[p] \in Int
      BY <1>1, <2>1 DEF PositionStep, TypeOK
    <3>2. QED
      BY <1>1, <2>1, <3>1, OpenInterestEntries DEF PositionStep, TypeOK
  <2>7. QED
    BY <2>2, <2>3, <2>4, <2>5, <2>6 DEF Typed, TypeOK, Books, NotNegative
<1>4. CASE AccrueStep
  <2>1. PICK p \in Positions, q \in Positions, owed \in 0..1 : AccrueFunding(p, q, owed)
    BY <1>4 DEF AccrueStep
  <2>2. FundingDueType
    BY <1>1 DEF TypeOK, FundingDueType
  <2>3. /\ UNCHANGED <<books, openInterest, openInterestInTokens, sizeInUsd, sizeInTokens, collateralAmount>>
        /\ fundingDue' \in [Positions -> [Tokens -> Int]]
        /\ \A r \in Positions, t \in Tokens :
              fundingDue'[r][t] = IF t # CollateralToken(p) THEN fundingDue[r][t]
                                  ELSE IF r = p THEN fundingDue[r][t] + 1
                                  ELSE IF r = q THEN fundingDue[r][t] - owed ELSE fundingDue[r][t]
    BY <2>1, <2>2, AccrueTypes
  <2>4. TypeOK'
    BY <1>1, <2>3 DEF TypeOK
  <2>5. ASSUME NEW r \in Positions, NEW t \in Tokens, t # CollateralToken(r)
        PROVE  fundingDue'[r][t] <= 0
    <3>1. fundingDue[r][t] \in Int /\ fundingDue[r][t] <= 0 /\ owed \in Nat
      BY <1>1, <2>2, <2>5 DEF OwesCollateralToken, FundingDueType
    <3>2. fundingDue'[r][t] = fundingDue[r][t] \/ fundingDue'[r][t] = fundingDue[r][t] - owed
      BY <2>3, <2>5
    <3>3. QED
      BY <3>1, <3>2
  <2>6. OwesCollateralToken'
    BY <2>5 DEF OwesCollateralToken
  <2>7. QED
    BY <2>4, <2>6 DEF Typed
<1>5. CASE UNCHANGED vars
  BY <1>1, <1>5 DEF vars, positionVars, Typed, TypeOK, OwesCollateralToken
<1>6. QED
  BY <1>1, <1>2, <1>3, <1>4, <1>5, StepKinds

LEMMA AlwaysTyped == Spec => []Typed
BY InitTyped, NextTyped, PTL DEF Spec

-----------------------------------------------------------------------------
(* The sums over positions *)

LEMMA ColumnType ==
  ASSUME NEW f \in [Positions -> Nat], NEW t, NEW isLong
  PROVE  /\ [p \in Positions |-> IF Matches(p, t, isLong) THEN f[p] ELSE 0] \in [1..NumPositions -> Nat]
         /\ SumOver(f, t, isLong) \in Nat
<1> DEFINE column == [p \in Positions |-> IF Matches(p, t, isLong) THEN f[p] ELSE 0]
<1>1. column \in [1..NumPositions -> Nat] /\ NumPositions \in Nat
  BY PositionKeysType DEF Positions
<1>2. SumOver(f, t, isLong) = SumTo(column, NumPositions)
  BY DEF SumOver
<1> HIDE DEF column
<1>3. SumOver(f, t, isLong) \in Nat
  BY <1>1, <1>2, SumBoundsEntry
<1>4. QED
  BY <1>1, <1>3 DEF column

LEMMA ColumnUpdate ==
  ASSUME NEW f \in [Positions -> Nat], NEW g \in [Positions -> Nat], NEW p \in Positions,
         \A q \in Positions : q # p => g[q] = f[q], NEW t, NEW isLong
  PROVE  SumOver(g, t, isLong)
           = SumOver(f, t, isLong) + (IF Matches(p, t, isLong) THEN g[p] - f[p] ELSE 0)
<1> DEFINE old == [q \in Positions |-> IF Matches(q, t, isLong) THEN f[q] ELSE 0]
           new == [q \in Positions |-> IF Matches(q, t, isLong) THEN g[q] ELSE 0]
<1>1. g[p] \in Nat /\ f[p] \in Nat
  OBVIOUS
<1>2. old \in [1..NumPositions -> Int] /\ new \in [1..NumPositions -> Int]
  <2>1. Positions = 1..NumPositions
    BY DEF Positions
  <2>2. QED
    BY <2>1
<1>3. NumPositions \in Nat /\ p \in 1..NumPositions
  BY PositionKeysType DEF Positions
<1>4. \A q \in 1..NumPositions : q # p => new[q] = old[q]
  BY DEF Positions
<1>5. new[p] - old[p] = IF Matches(p, t, isLong) THEN g[p] - f[p] ELSE 0
  BY <1>1
<1>6. SumOver(f, t, isLong) = SumTo(old, NumPositions) /\ SumOver(g, t, isLong) = SumTo(new, NumPositions)
  BY DEF SumOver
<1> HIDE DEF old, new
<1>7. SumTo(new, NumPositions) = SumTo(old, NumPositions) + (new[p] - old[p])
  BY <1>2, <1>3, <1>4, SumUpdate
<1>8. QED
  BY <1>5, <1>6, <1>7

LEMMA ColumnOfZeros ==
  ASSUME NEW t, NEW isLong
  PROVE  SumOver([p \in Positions |-> 0], t, isLong) = 0
<1> DEFINE f == [p \in Positions |-> 0]
           column == [p \in Positions |-> IF Matches(p, t, isLong) THEN f[p] ELSE 0]
<1>1. /\ column \in [1..NumPositions -> Int] /\ NumPositions \in Nat
      /\ \A i \in 1..NumPositions : column[i] = 0
  BY PositionKeysType DEF Positions
<1>2. SumOver(f, t, isLong) = SumTo(column, NumPositions)
  BY DEF SumOver
<1> HIDE DEF column
<1>3. QED
  BY <1>1, <1>2, SumZero

SumName(isLong) == IF isLong THEN "longCollateral" ELSE "shortCollateral"

LEMMA CollateralSumsMatchBySide ==
  CollateralSumsMatch <=>
    \A t \in Tokens, isLong \in BOOLEAN : books[SumName(isLong)][t] = SumOver(collateralAmount, t, isLong)
BY DEF CollateralSumsMatch, SumName

LEMMA CollateralSumsMatchKept ==
  Typed /\ CollateralSumsMatch /\ [Next]_vars => CollateralSumsMatch'
<1> SUFFICES ASSUME Typed, CollateralSumsMatch, [Next]_vars
             PROVE  CollateralSumsMatch'
  OBVIOUS
<1>1. TypeOK /\ books \in Books /\ collateralAmount \in [Positions -> Nat]
  BY DEF Typed, TypeOK, Books
<1>2. CASE QuietStep
  BY <1>2 DEF QuietStep, positionVars, CollateralSumsMatch
<1>3. CASE SomePositionStep
  <2>0. PICK p \in Positions : \E coll, size, tokens, interest, f, x :
               PositionStep(p, coll, size, tokens, interest, f, x)
    BY <1>3 DEF SomePositionStep
  <2>1. PICK coll, size, tokens, interest, f, x :
               p \in Positions /\ PositionStep(p, coll, size, tokens, interest, f, x)
    BY <2>0
  <2>2. /\ coll \in Nat /\ collateralAmount' = [collateralAmount EXCEPT ![p] = coll]
        /\ SumsChange(books, books', p, coll - collateralAmount[p], f)
    BY <2>1 DEF PositionStep, Settled
  <2>3. ASSUME NEW t \in Tokens, NEW isLong \in BOOLEAN
        PROVE  books'[SumName(isLong)][t] = SumOver(collateralAmount', t, isLong)
    <3>1. SumName(isLong) \in {"longCollateral", "shortCollateral"}
      BY DEF SumName
    <3>2. SumName(isLong) = CollateralSum(p) /\ t = CollateralToken(p) <=> Matches(p, t, isLong)
      <4>1. IsLong(p) \in BOOLEAN
        BY PositionKeysType
      <4>2. SumName(isLong) = CollateralSum(p) <=> IsLong(p) = isLong
        BY <4>1 DEF SumName, CollateralSum
      <4>3. QED
        BY <4>2 DEF Matches
    <3>3. books'[SumName(isLong)][t] = books[SumName(isLong)][t]
             + (IF SumName(isLong) = CollateralSum(p) /\ t = CollateralToken(p) THEN coll - collateralAmount[p] ELSE 0)
      BY <2>2, <3>1 DEF SumsChange
    <3>4. SumOver(collateralAmount', t, isLong)
             = SumOver(collateralAmount, t, isLong) + (IF Matches(p, t, isLong) THEN coll - collateralAmount[p] ELSE 0)
      <4>1. /\ collateralAmount' \in [Positions -> Nat] /\ collateralAmount'[p] = coll
            /\ collateralAmount \in [Positions -> Nat] /\ \A q \in Positions : q # p => collateralAmount'[q] = collateralAmount[q]
        BY <1>1, <2>2
      <4>2. SumOver(collateralAmount', t, isLong)
              = SumOver(collateralAmount, t, isLong) + (IF Matches(p, t, isLong) THEN collateralAmount'[p] - collateralAmount[p] ELSE 0)
        BY ONLY <4>1, p \in Positions, ColumnUpdate
      <4>3. QED
        BY ONLY <4>1, <4>2
    <3>5. books[SumName(isLong)][t] = SumOver(collateralAmount, t, isLong)
      BY CollateralSumsMatchBySide
    <3>6. QED
      BY <3>2, <3>3, <3>4, <3>5
  <2>4. QED
    BY <2>3 DEF CollateralSumsMatch, SumName
<1>4. CASE AccrueStep
  BY <1>4 DEF AccrueStep, AccrueFunding, CollateralSumsMatch
<1>5. CASE UNCHANGED vars
  BY <1>5 DEF vars, positionVars, CollateralSumsMatch
<1>6. QED
  BY <1>1, <1>2, <1>3, <1>4, <1>5, StepKinds

LEMMA OpenInterestSufficesKept ==
  Typed /\ OpenInterestSuffices /\ [Next]_vars => OpenInterestSuffices'
<1> SUFFICES ASSUME Typed, OpenInterestSuffices, [Next]_vars
             PROVE  OpenInterestSuffices'
  OBVIOUS
<1>1. /\ TypeOK /\ sizeInUsd \in [Positions -> Nat] /\ sizeInTokens \in [Positions -> Nat]
      /\ openInterest \in [Tokens -> [BOOLEAN -> Nat]] /\ openInterestInTokens \in [Tokens -> [BOOLEAN -> Nat]]
  BY DEF Typed, TypeOK
<1>2. CASE QuietStep
  BY <1>2 DEF QuietStep, positionVars, OpenInterestSuffices
<1>3. CASE SomePositionStep
  <2>0. PICK p \in Positions : \E coll, size, tokens, interest, f, x :
               PositionStep(p, coll, size, tokens, interest, f, x)
    BY <1>3 DEF SomePositionStep
  <2>1. PICK coll, size, tokens, interest, f, x :
               p \in Positions /\ PositionStep(p, coll, size, tokens, interest, f, x)
    BY <2>0
  <2> DEFINE change == tokens - sizeInTokens[p]
  <2>2. /\ size \in Nat /\ tokens \in Nat /\ interest \in Int /\ interest >= size - sizeInUsd[p]
        /\ sizeInUsd' = [sizeInUsd EXCEPT ![p] = size]
        /\ sizeInTokens' = [sizeInTokens EXCEPT ![p] = tokens]
        /\ OpenInterestOf(openInterest, p) + interest >= 0
        /\ OpenInterestOf(openInterestInTokens, p) + change >= 0
        /\ openInterest' = OpenInterestPlus(openInterest, p, interest)
        /\ openInterestInTokens' = OpenInterestPlus(openInterestInTokens, p, change)
    BY <2>1 DEF PositionStep
  <2>3. change \in Int /\ sizeInUsd[p] \in Nat
    BY <1>1, <2>2
  <2>4. ASSUME NEW t \in Tokens, NEW isLong \in BOOLEAN
        PROVE  /\ openInterest'[t][isLong] >= SumOver(sizeInUsd', t, isLong)
               /\ openInterestInTokens'[t][isLong] = SumOver(sizeInTokens', t, isLong)
    <3>1. openInterest'[t][isLong] = openInterest[t][isLong] + (IF Matches(p, t, isLong) THEN interest ELSE 0)
      BY <1>1, <2>2, OpenInterestEntries
    <3>2. SumOver(sizeInUsd', t, isLong)
            = SumOver(sizeInUsd, t, isLong) + (IF Matches(p, t, isLong) THEN size - sizeInUsd[p] ELSE 0)
      <4>1. /\ sizeInUsd' \in [Positions -> Nat] /\ sizeInUsd'[p] = size
            /\ sizeInUsd \in [Positions -> Nat] /\ \A q \in Positions : q # p => sizeInUsd'[q] = sizeInUsd[q]
        BY <1>1, <2>2
      <4>2. SumOver(sizeInUsd', t, isLong)
              = SumOver(sizeInUsd, t, isLong) + (IF Matches(p, t, isLong) THEN sizeInUsd'[p] - sizeInUsd[p] ELSE 0)
        BY ONLY <4>1, p \in Positions, ColumnUpdate
      <4>3. QED
        BY ONLY <4>1, <4>2
    <3>3. SumOver(sizeInTokens', t, isLong)
            = SumOver(sizeInTokens, t, isLong) + (IF Matches(p, t, isLong) THEN change ELSE 0)
      <4>1. /\ sizeInTokens' \in [Positions -> Nat] /\ sizeInTokens'[p] = tokens
            /\ sizeInTokens \in [Positions -> Nat] /\ \A q \in Positions : q # p => sizeInTokens'[q] = sizeInTokens[q]
        BY <1>1, <2>2
      <4>2. SumOver(sizeInTokens', t, isLong)
              = SumOver(sizeInTokens, t, isLong) + (IF Matches(p, t, isLong) THEN sizeInTokens'[p] - sizeInTokens[p] ELSE 0)
        BY ONLY <4>1, p \in Positions, ColumnUpdate
      <4>3. QED
        BY ONLY <4>1, <4>2 DEF change
    <3> HIDE DEF change
    <3>4. openInterestInTokens'[t][isLong]
            = openInterestInTokens[t][isLong] + (IF Matches(p, t, isLong) THEN change ELSE 0)
      BY <1>1, <2>2, <2>3, OpenInterestEntries
    <3>5. /\ openInterest[t][isLong] >= SumOver(sizeInUsd, t, isLong)
          /\ openInterestInTokens[t][isLong] = SumOver(sizeInTokens, t, isLong)
      BY DEF OpenInterestSuffices
    <3>6. SumOver(sizeInUsd, t, isLong) \in Nat /\ openInterest[t][isLong] \in Nat
      BY <1>1, ColumnType
    <3>7. openInterestInTokens'[t][isLong] = SumOver(sizeInTokens', t, isLong)
      BY <3>3, <3>4, <3>5
    <3>8. openInterest'[t][isLong] >= SumOver(sizeInUsd', t, isLong)
      <4>1. CASE Matches(p, t, isLong)
        BY <2>2, <2>3, <3>1, <3>2, <3>5, <3>6, <4>1
      <4>2. CASE ~Matches(p, t, isLong)
        BY <3>1, <3>2, <3>5, <3>6, <4>2
      <4>3. QED
        BY <4>1, <4>2
    <3>9. QED
      BY <3>7, <3>8
  <2>5. QED
    BY <2>4 DEF OpenInterestSuffices
<1>4. CASE AccrueStep
  BY <1>4 DEF AccrueStep, AccrueFunding, OpenInterestSuffices
<1>5. CASE UNCHANGED vars
  BY <1>5 DEF vars, positionVars, OpenInterestSuffices
<1>6. QED
  BY <1>1, <1>2, <1>3, <1>4, <1>5, StepKinds

LEMMA ClosedIsEmptyKept ==
  Typed /\ ClosedIsEmpty /\ [Next]_vars => ClosedIsEmpty'
<1> SUFFICES ASSUME Typed, ClosedIsEmpty, [Next]_vars
             PROVE  ClosedIsEmpty'
  OBVIOUS
<1>1. /\ TypeOK /\ sizeInUsd \in [Positions -> Nat] /\ sizeInTokens \in [Positions -> Nat]
      /\ collateralAmount \in [Positions -> Nat] /\ FundingDueType
  BY DEF Typed, TypeOK, FundingDueType
<1>2. CASE QuietStep
  BY <1>2 DEF QuietStep, positionVars, ClosedIsEmpty
<1>3. CASE SomePositionStep
  <2>0. PICK p \in Positions : \E coll, size, tokens, interest, f, x :
               PositionStep(p, coll, size, tokens, interest, f, x)
    BY <1>3 DEF SomePositionStep
  <2>1. PICK coll, size, tokens, interest, f, x :
               p \in Positions /\ PositionStep(p, coll, size, tokens, interest, f, x)
    BY <2>0
  <2>2. /\ size = 0 <=> tokens = 0
        /\ size = 0 => coll = 0
        /\ sizeInUsd' = [sizeInUsd EXCEPT ![p] = size]
        /\ sizeInTokens' = [sizeInTokens EXCEPT ![p] = tokens]
        /\ collateralAmount' = [collateralAmount EXCEPT ![p] = coll]
        /\ fundingDue' = [fundingDue EXCEPT ![p] = [t \in Tokens |-> 0]]
    BY <2>1 DEF PositionStep, FundingSettled
  <2>3. ASSUME NEW q \in Positions
        PROVE  /\ sizeInUsd'[q] = 0 <=> sizeInTokens'[q] = 0
               /\ sizeInUsd'[q] = 0 => collateralAmount'[q] = 0 /\ \A t \in Tokens : fundingDue'[q][t] = 0
    <3>1. CASE q = p
      BY <1>1, <2>2, <3>1 DEF FundingDueType
    <3>2. CASE q # p
      BY <1>1, <2>2, <3>2 DEF FundingDueType, ClosedIsEmpty
    <3>3. QED
      BY <3>1, <3>2
  <2>4. QED
    BY <2>3 DEF ClosedIsEmpty
<1>4. CASE AccrueStep
  <2>1. PICK p \in Positions, q \in Positions, owed \in 0..1 : AccrueFunding(p, q, owed)
    BY <1>4 DEF AccrueStep
  <2>2. /\ sizeInUsd[p] > 0 /\ sizeInUsd[q] > 0
        /\ UNCHANGED <<books, openInterest, openInterestInTokens, sizeInUsd, sizeInTokens, collateralAmount>>
        /\ \A r \in Positions, t \in Tokens :
              fundingDue'[r][t] = IF t # CollateralToken(p) THEN fundingDue[r][t]
                                  ELSE IF r = p THEN fundingDue[r][t] + 1
                                  ELSE IF r = q THEN fundingDue[r][t] - owed ELSE fundingDue[r][t]
    BY <1>1, <2>1, AccrueTypes
  <2>3. \A r \in Positions : sizeInUsd[r] = 0 => \A t \in Tokens : fundingDue'[r][t] = fundingDue[r][t]
    BY <2>2
  <2>4. QED
    BY <2>2, <2>3 DEF ClosedIsEmpty
<1>5. CASE UNCHANGED vars
  BY <1>5 DEF vars, positionVars, ClosedIsEmpty
<1>6. QED
  BY <1>1, <1>2, <1>3, <1>4, <1>5, StepKinds

LEMMA InitSums == Init => CollateralSumsMatch /\ OpenInterestSuffices /\ ClosedIsEmpty
<1> SUFFICES ASSUME Init
             PROVE  CollateralSumsMatch /\ OpenInterestSuffices /\ ClosedIsEmpty
  OBVIOUS
<1>1. "longCollateral" \in Buckets /\ "shortCollateral" \in Buckets
  BY BucketNames
<1>2. CollateralSumsMatch
  BY <1>1, ColumnOfZeros DEF Init, CollateralSumsMatch
<1>3. OpenInterestSuffices
  BY ColumnOfZeros DEF Init, OpenInterestSuffices
<1>4. ClosedIsEmpty
  BY DEF Init, ClosedIsEmpty
<1>5. QED
  BY <1>2, <1>3, <1>4

-----------------------------------------------------------------------------
(* The theorems *)

(***************************************************************************)
(* Types: no size in dollars or tokens and no collateral falls below zero, *)
(* however a decrease is rounded and whatever costs come before.           *)
(***************************************************************************)
THEOREM MarketTypeOK == Spec => []TypeOK
BY AlwaysTyped, PTL DEF Typed

(***************************************************************************)
(* The collateral sums of the market are those of its positions, for any   *)
(* number of positions.                                                    *)
(***************************************************************************)
THEOREM MarketCollateralSumsMatch == Spec => []CollateralSumsMatch
<1>1. Init => CollateralSumsMatch
  BY InitSums
<1>2. Typed /\ CollateralSumsMatch /\ [Next]_vars => CollateralSumsMatch'
  BY CollateralSumsMatchKept
<1>3. QED
  BY <1>1, <1>2, AlwaysTyped, PTL DEF Spec

(***************************************************************************)
(* The open interest covers that of the positions: closing one never       *)
(* fails for want of it, whatever was rounded.                             *)
(***************************************************************************)
THEOREM MarketOpenInterestSuffices == Spec => []OpenInterestSuffices
<1>1. Init => OpenInterestSuffices
  BY InitSums
<1>2. Typed /\ OpenInterestSuffices /\ [Next]_vars => OpenInterestSuffices'
  BY OpenInterestSufficesKept
<1>3. QED
  BY <1>1, <1>2, AlwaysTyped, PTL DEF Spec

(***************************************************************************)
(* Dollars and tokens of a position end together, and with them its        *)
(* collateral and its funding.                                             *)
(***************************************************************************)
THEOREM MarketClosedIsEmpty == Spec => []ClosedIsEmpty
<1>1. Init => ClosedIsEmpty
  BY InitSums
<1>2. Typed /\ ClosedIsEmpty /\ [Next]_vars => ClosedIsEmpty'
  BY ClosedIsEmptyKept
<1>3. QED
  BY <1>1, <1>2, AlwaysTyped, PTL DEF Spec

(***************************************************************************)
(* What a step leaves over is nothing, a gift, or the output of a forced   *)
(* close.                                                                  *)
(***************************************************************************)
Strands(p) ==
  CloseOf(p) /\
    \E kind \in OrderKinds, pnl \in Profits, impactDiff \in ImpactDiffs, fees \in FeeChoices,
       prices \in Prices, swap \in SwapChoices \cup {NoSwap} :
      StrandsProfit(ForcedClose(p, kind, pnl, impactDiff, fees, prices, swap))

LEMMA SurplusOfStep ==
  ASSUME TypeOK, Next
  PROVE  SurplusKept \/ GiftStep \/ \E p \in Positions : Strands(p)
<1>1. books \in Books /\ \A t \in Tokens : books["swapImpactPool"][t] >= 0
  BY DEF TypeOK, Books, Recorded
<1>2. CASE SomePositionStep
  <2>0. PICK p \in Positions : \E coll, size, tokens, interest, f, x :
               PositionStep(p, coll, size, tokens, interest, f, x) /\ LeftOver(p, size, x)
    BY <1>2 DEF SomePositionStep
  <2>1. PICK coll, size, tokens, interest, f, x :
               p \in Positions /\ PositionStep(p, coll, size, tokens, interest, f, x) /\ LeftOver(p, size, x)
    BY <2>0
  <2>2. Moved(books, books', CollateralToken(p), x, 0)
    BY <2>1 DEF PositionStep, Settled
  <2>3. CollateralToken(p) \in Tokens
    BY PositionKeysType
  <2>4. CASE x = 0
    BY <1>1, <2>2, <2>3, <2>4, MovedNothing DEF SurplusKept
  <2>5. CASE x # 0
    <3>1. /\ size = 0 /\ sizeInUsd[p] > 0
          /\ \E d \in OrdersOfSize(p, sizeInUsd[p]) :
               DecreasePosition(d) /\ ~HasEnoughCollateral(d) /\ x = Output(d)
      BY <2>1, <2>5 DEF LeftOver
    <3>2. PICK d \in OrdersOfSize(p, sizeInUsd[p]) :
                 DecreasePosition(d) /\ ~HasEnoughCollateral(d) /\ x = Output(d)
      BY <3>1
    <3>3. sizeInUsd[p] \in Nat /\ sizeInUsd[p] # 0
      BY <3>1 DEF TypeOK
    <3>4. d \in [position : {p}, size : {sizeInUsd[p]}, fees : FeeChoices, prices : Prices,
                  kind : OrderKinds, withdraw : {0}, pnl : Profits, impactDiff : ImpactDiffs,
                  swap : SwapChoices \cup {NoSwap}]
      BY <3>2, <3>3 DEF OrdersOfSize
    <3>5. d = ForcedClose(p, d.kind, d.pnl, d.impactDiff, d.fees, d.prices, d.swap)
      BY <3>4 DEF ForcedClose
    <3>6. /\ FeeChoices \subseteq FeeRecords /\ SwapChoices \subseteq SwapRecords
          /\ Profits \subseteq Int /\ ImpactDiffs \subseteq Nat
      BY MarketAssumption
    <3>7. d \in Decreases /\ d.position = p
      BY <3>3, <3>4, <3>6 DEF Decreases
    <3>8. CanTakeProfit(d)
      BY <3>2 DEF DecreasePosition
    <3>9. Output(d) \in Int /\ Output(d) >= 0
      BY <1>1, <3>7, <3>8, OutputNotNegative, ProfitPaid
    <3>10. Surplus(books, Opposite(Token(d))) \in Int
      BY <1>1, <2>3, <3>7, SurplusType, TwoTokens DEF Token
    <3>11. /\ Surplus(books', Token(d)) = Surplus(books, Token(d)) + Output(d)
           /\ Surplus(books', Opposite(Token(d))) = Surplus(books, Opposite(Token(d)))
      BY <2>2, <3>2, <3>7, <3>10 DEF Moved, Token
    <3>12. StrandsProfit(d)
      BY <2>5, <3>2, <3>9, <3>11 DEF StrandsProfit
    <3>13. sizeInUsd'[p] = 0
      BY <2>1, <3>1 DEF PositionStep, TypeOK
    <3>14. /\ d.kind \in OrderKinds /\ d.pnl \in Profits /\ d.impactDiff \in ImpactDiffs
           /\ d.fees \in FeeChoices /\ d.prices \in Prices /\ d.swap \in SwapChoices \cup {NoSwap}
      BY <3>4
    <3>15. StrandsProfit(ForcedClose(p, d.kind, d.pnl, d.impactDiff, d.fees, d.prices, d.swap))
      BY <3>5, <3>12
    <3>16. Strands(p)
      BY ONLY <3>1, <3>13, <3>14, <3>15 DEF Strands, CloseOf
    <3>17. QED
      BY <3>16
  <2>6. QED
    BY <2>4, <2>5
<1>3. CASE AccrueStep
  BY <1>3 DEF AccrueStep, AccrueFunding, SurplusKept
<1>4. QED
  BY <1>2, <1>3, StepKinds

(***************************************************************************)
(* Tokens that are nobody's are gifts, or the stranded profit of a forced  *)
(* close: every other step books all that it moves.                        *)
(***************************************************************************)
THEOREM MarketNothingStranded == Spec => NothingStranded
<1> DEFINE A == SurplusKept \/ GiftStep \/ \E p \in Positions : Strands(p)
<1>1. Typed /\ [Next]_vars => [A]_vars
  BY SurplusOfStep DEF Typed
<1> DEFINE B == \/ \A t \in Tokens : Surplus(books', t) = Surplus(books, t)
                \/ \E t \in Tokens, amount \in Gifts : DirectTransfer(t, amount)
                \/ \E p \in Positions : CloseOf(p) /\
                     \E kind \in OrderKinds, pnl \in Profits, impactDiff \in ImpactDiffs, fees \in FeeChoices,
                        prices \in Prices, swap \in SwapChoices \cup {NoSwap} :
                       StrandsProfit(ForcedClose(p, kind, pnl, impactDiff, fees, prices, swap))
<1>2. A => B
  BY DEF SurplusKept, GiftStep, Strands
<1>3. [][B]_vars => NothingStranded
  BY DEF NothingStranded
<1> HIDE DEF A, B
<1>4. QED
  BY <1>1, <1>2, <1>3, AlwaysTyped, PTL DEF Spec

SurplusGrows == \A t \in Tokens : Surplus(books', t) >= Surplus(books, t)

LEMMA SurplusNeverFalls == Typed /\ [Next]_vars => [SurplusGrows]_books
<1> SUFFICES ASSUME TypeOK, Next
             PROVE  SurplusGrows
  BY DEF Typed, vars
<1>1. books \in Books /\ NotNegative(books)
  BY DEF TypeOK, Books, NotNegative
<1>2. \A t \in Tokens : Surplus(books, t) \in Int
  BY <1>1, SurplusType
<1>3. CASE SurplusKept
  BY <1>2, <1>3 DEF SurplusKept, SurplusGrows
<1>4. CASE GiftStep
  <2>1. PICK t \in Tokens, amount \in Gifts : DirectTransfer(t, amount)
    BY <1>4 DEF GiftStep
  <2>2. amount \in Nat
    BY MarketAssumption
  <2>3. QED
    BY <1>1, <2>1, <2>2, GiftIsQuiet DEF SurplusGrows
<1>5. ASSUME NEW p \in Positions, Strands(p)
      PROVE  SurplusGrows
  <2>1. PICK kind \in OrderKinds, pnl \in Profits, impactDiff \in ImpactDiffs, fees \in FeeChoices,
             prices \in Prices, swap \in SwapChoices \cup {NoSwap} :
               StrandsProfit(ForcedClose(p, kind, pnl, impactDiff, fees, prices, swap))
    BY <1>5 DEF Strands
  <2> DEFINE d == ForcedClose(p, kind, pnl, impactDiff, fees, prices, swap)
  <2>2. sizeInUsd[p] \in Nat
    BY DEF TypeOK
  <2>3. /\ FeeChoices \subseteq FeeRecords /\ SwapChoices \subseteq SwapRecords
        /\ Profits \subseteq Int /\ ImpactDiffs \subseteq Nat
    BY MarketAssumption
  <2>4. d \in Decreases
    BY <2>2, <2>3 DEF Decreases, ForcedClose
  <2> HIDE DEF d
  <2>5. /\ Output(d) > 0
        /\ Surplus(books', Token(d)) = Surplus(books, Token(d)) + Output(d)
        /\ Surplus(books', Opposite(Token(d))) = Surplus(books, Opposite(Token(d)))
    BY <2>1 DEF StrandsProfit, d
  <2>6. Token(d) \in Tokens /\ Output(d) \in Int
    BY <1>1, <2>4, DecreaseTypes, ProfitPaid
  <2>7. Opposite(Token(d)) \in Tokens /\ \A u \in Tokens : u = Token(d) \/ u = Opposite(Token(d))
    BY <2>6, TwoTokens
  <2>8. Surplus(books, Token(d)) \in Int /\ Surplus(books, Opposite(Token(d))) \in Int
    BY <1>2, <2>6, <2>7
  <2>9. /\ Surplus(books', Token(d)) >= Surplus(books, Token(d))
        /\ Surplus(books', Opposite(Token(d))) >= Surplus(books, Opposite(Token(d)))
    BY <2>5, <2>6, <2>8
  <2>10. QED
    BY <2>7, <2>9 DEF SurplusGrows
<1>6. QED
  BY <1>3, <1>4, <1>5, SurplusOfStep

(***************************************************************************)
(* No step takes out of the market what it does not take off the books.    *)
(***************************************************************************)
THEOREM MarketNothingLeaks == Spec => NothingLeaks
<1>1. [][SurplusGrows]_books => NothingLeaks
  BY DEF NothingLeaks, SurplusGrows
<1>2. QED
  BY <1>1, SurplusNeverFalls, AlwaysTyped, PTL DEF Spec

BooksCovered == \A t \in Tokens : Surplus(books, t) >= 0

(***************************************************************************)
(* So a market always has, of either token, all that its books give to     *)
(* anyone: the pool, the position impact and the fees, what is claimable,  *)
(* and the collateral and funding of the open positions.                   *)
(***************************************************************************)
THEOREM MarketCoversBooks == Spec => []BooksCovered
<1>1. Init => BooksCovered
  <2> SUFFICES ASSUME Init, NEW t \in Tokens
               PROVE  Surplus(books, t) >= 0
    BY DEF BooksCovered
  <2>1. \A b \in Buckets : books[b][t] = 0
    BY DEF Init
  <2>2. QED
    BY <2>1, BucketNames DEF Surplus
<1>2. Typed /\ Typed' /\ BooksCovered /\ [Next]_vars => BooksCovered'
  <2> SUFFICES ASSUME Typed, Typed', BooksCovered, [SurplusGrows]_books, NEW t \in Tokens
               PROVE  Surplus(books', t) >= 0
    BY SurplusNeverFalls DEF BooksCovered
  <2>1. books \in Books /\ books' \in Books
    BY DEF Typed, TypeOK, Books
  <2>2. CASE books' = books
    BY <2>2 DEF BooksCovered
  <2>3. CASE SurplusGrows
    <3>1. Surplus(books', t) >= Surplus(books, t) /\ Surplus(books, t) >= 0
      BY <2>3 DEF SurplusGrows, BooksCovered
    <3>2. Surplus(books, t) \in Int /\ Surplus(books', t) \in Int
      BY <2>1, SurplusType
    <3>3. QED
      BY <3>1, <3>2
  <2>4. QED
    BY <2>2, <2>3
<1>3. QED
  BY <1>1, <1>2, AlwaysTyped, PTL DEF Spec

-----------------------------------------------------------------------------
(* Funding *)

Due(due, t) == SumTo([p \in Positions |-> due[p][t]], NumPositions)

LEMMA DueUpdate ==
  ASSUME NEW due \in [Positions -> [Tokens -> Int]], NEW new \in [Positions -> [Tokens -> Int]],
         NEW p \in Positions, NEW t \in Tokens, \A q \in Positions : q # p => new[q][t] = due[q][t]
  PROVE  Due(new, t) = Due(due, t) + (new[p][t] - due[p][t])
<1> DEFINE f == [q \in Positions |-> due[q][t]]
           g == [q \in Positions |-> new[q][t]]
<1>1. Positions = 1..NumPositions /\ NumPositions \in Nat
  BY PositionKeysType DEF Positions
<1>2. f \in [1..NumPositions -> Int] /\ g \in [1..NumPositions -> Int] /\ p \in 1..NumPositions
  BY <1>1
<1>3. f[p] = due[p][t] /\ g[p] = new[p][t] /\ \A q \in 1..NumPositions : q # p => g[q] = f[q]
  BY <1>1
<1>4. Due(due, t) = SumTo(f, NumPositions) /\ Due(new, t) = SumTo(g, NumPositions)
  BY DEF Due
<1> HIDE DEF f, g
<1>5. SumTo(g, NumPositions) = SumTo(f, NumPositions) + (g[p] - f[p])
  BY ONLY <1>1, <1>2, <1>3, SumUpdate
<1>6. QED
  BY <1>3, <1>4, <1>5

LEMMA DueType ==
  ASSUME NEW due \in [Positions -> [Tokens -> Int]], NEW t \in Tokens
  PROVE  Due(due, t) \in Int
<1> DEFINE f == [q \in Positions |-> due[q][t]]
<1>1. Positions = 1..NumPositions /\ NumPositions \in Nat
  BY PositionKeysType DEF Positions
<1>2. f \in [1..NumPositions -> Int]
  BY <1>1
<1>3. Due(due, t) = SumTo(f, NumPositions)
  BY DEF Due
<1> HIDE DEF f
<1>4. PrefixSums(f, NumPositions)[NumPositions] \in Int
  BY <1>1, <1>2, PrefixSumsType
<1>5. QED
  BY <1>3, <1>4 DEF SumTo

Shortfall == \E p \in Positions : CloseOf(p) /\ FundingFee(p) > collateralAmount[p]

BackingKept == \A t \in Tokens : FundingBacking(fundingDue', books', t) >= FundingBacking(fundingDue, books, t)

LEMMA BackingIsDue ==
  ASSUME NEW due, NEW m, NEW t
  PROVE  FundingBacking(due, m, t) = Due(due, t) + m["funding"][t] - m["claimableFunding"][t]
BY DEF FundingBacking, Due

(***************************************************************************)
(* A position that settles pays what it owes, and is credited with what it *)
(* is owed; what it no longer owes or is owed is the same.                 *)
(***************************************************************************)
LEMMA PositionStepBacked ==
  ASSUME Typed, NEW p \in Positions, NEW coll, NEW size, NEW tokens, NEW interest, NEW x,
         PositionStep(p, coll, size, tokens, interest, FundingFee(p), x)
  PROVE  BackingKept
<1> DEFINE f == FundingFee(p)
           c == CollateralToken(p)
<1>1. /\ books \in Books /\ books' \in Books
      /\ SumsChange(books, books', p, coll - collateralAmount[p], f)
      /\ \A u \in Tokens :
           books'["claimableFunding"][u] = books["claimableFunding"][u] + ClaimableFunding(p, u)
      /\ fundingDue' = [fundingDue EXCEPT ![p] = [t \in Tokens |-> 0]]
  BY DEF PositionStep, Settled, Moved, FundingSettled
<1>2. fundingDue \in [Positions -> [Tokens -> Int]] /\ FundingDueType
  BY DEF Typed, TypeOK, FundingDueType
<1>3. /\ fundingDue' \in [Positions -> [Tokens -> Int]]
      /\ \A t \in Tokens : fundingDue'[p][t] = 0
      /\ \A q \in Positions : q # p => fundingDue'[q] = fundingDue[q]
  BY <1>1, <1>2
<1>4. ASSUME NEW t \in Tokens
      PROVE  FundingBacking(fundingDue', books', t) >= FundingBacking(fundingDue, books, t)
  <2> DEFINE due == fundingDue[p][t]
             claim == ClaimableFunding(p, t)
             paid == IF t = c THEN f ELSE 0
  <2>1. due \in Int /\ f \in Nat /\ claim \in Nat
    BY <1>2, FundingTypes
  <2>2. due + claim = paid
    <3>1. claim = AtLeastZero(-due)
      BY DEF ClaimableFunding
    <3>2. t = c => f = AtLeastZero(due)
      BY DEF FundingFee
    <3>3. t # c => due <= 0
      BY DEF Typed, OwesCollateralToken
    <3> HIDE DEF due, claim, f, c
    <3>4. QED
      BY <2>1, <3>1, <3>2, <3>3 DEF AtLeastZero
  <2>3. Due(fundingDue', t) = Due(fundingDue, t) + (fundingDue'[p][t] - due)
    <3>1. \A q \in Positions : q # p => fundingDue'[q][t] = fundingDue[q][t]
      BY <1>3
    <3>2. QED
      BY ONLY <1>2, <1>3, <3>1, p \in Positions, t \in Tokens, DueUpdate
  <2>4. /\ books'["funding"][t] = books["funding"][t] + paid
        /\ books'["claimableFunding"][t] = books["claimableFunding"][t] + claim
    BY <1>1 DEF SumsChange
  <2>5. /\ books["funding"][t] \in Int /\ books["claimableFunding"][t] \in Int
        /\ Due(fundingDue, t) \in Int /\ fundingDue'[p][t] = 0
    BY <1>1, <1>2, <1>3, EntryType, BucketNames, DueType
  <2>6. /\ FundingBacking(fundingDue', books', t)
              = Due(fundingDue', t) + books'["funding"][t] - books'["claimableFunding"][t]
        /\ FundingBacking(fundingDue, books, t)
              = Due(fundingDue, t) + books["funding"][t] - books["claimableFunding"][t]
    BY BackingIsDue
  <2>7. paid \in Int
    BY <2>1
  <2> HIDE DEF due, claim, paid
  <2>8. QED
    BY <2>1, <2>2, <2>3, <2>4, <2>5, <2>6, <2>7
<1>5. QED
  BY <1>4 DEF BackingKept

(***************************************************************************)
(* Time makes a position owe at least what another comes to be owed.       *)
(***************************************************************************)
LEMMA AccrueBacked ==
  ASSUME Typed, NEW p \in Positions, NEW q \in Positions, NEW owed \in 0..1, AccrueFunding(p, q, owed)
  PROVE  BackingKept
<1> DEFINE c == CollateralToken(p)
           one == [fundingDue EXCEPT ![p][c] = @ + 1]
<1>1. fundingDue \in [Positions -> [Tokens -> Int]] /\ FundingDueType /\ books \in Books
  BY DEF Typed, TypeOK, FundingDueType, Books
<1>2. /\ p # q /\ c \in Tokens /\ books' = books
      /\ fundingDue' \in [Positions -> [Tokens -> Int]]
      /\ \A r \in Positions, t \in Tokens :
           fundingDue'[r][t] = IF t # c THEN fundingDue[r][t]
                               ELSE IF r = p THEN fundingDue[r][t] + 1
                               ELSE IF r = q THEN fundingDue[r][t] - owed ELSE fundingDue[r][t]
  BY <1>1, AccrueTypes
<1> HIDE DEF c
<1>3. /\ one \in [Positions -> [Tokens -> Int]]
      /\ \A r \in Positions, t \in Tokens :
           one[r][t] = IF r = p /\ t = c THEN fundingDue[r][t] + 1 ELSE fundingDue[r][t]
  BY <1>1, <1>2
<1> HIDE DEF one
<1>4. ASSUME NEW t \in Tokens
      PROVE  Due(fundingDue', t) >= Due(fundingDue, t)
  <2>1. Due(one, t) = Due(fundingDue, t) + (one[p][t] - fundingDue[p][t])
    <3>1. \A r \in Positions : r # p => one[r][t] = fundingDue[r][t]
      BY <1>3
    <3>2. QED
      BY ONLY <1>1, <1>3, <3>1, p \in Positions, t \in Tokens, DueUpdate
  <2>2. Due(fundingDue', t) = Due(one, t) + (fundingDue'[q][t] - one[q][t])
    <3>1. \A r \in Positions : r # q => fundingDue'[r][t] = one[r][t]
      BY <1>2, <1>3
    <3>2. QED
      BY ONLY <1>2, <1>3, <3>1, q \in Positions, t \in Tokens, DueUpdate
  <2>3. Due(fundingDue, t) \in Int /\ fundingDue[p][t] \in Int /\ fundingDue[q][t] \in Int /\ owed \in Nat /\ owed <= 1
    BY <1>1, DueType
  <2>4. CASE t = c
    <3>1. one[p][t] = fundingDue[p][t] + 1 /\ one[q][t] = fundingDue[q][t] /\ fundingDue'[q][t] = fundingDue[q][t] - owed
      BY <1>2, <1>3, <2>4
    <3>2. QED
      BY <2>1, <2>2, <2>3, <3>1
  <2>5. CASE t # c
    <3>1. one[p][t] = fundingDue[p][t] /\ one[q][t] = fundingDue[q][t] /\ fundingDue'[q][t] = fundingDue[q][t]
      BY <1>2, <1>3, <2>5
    <3>2. QED
      BY <2>1, <2>2, <2>3, <3>1
  <2>6. QED
    BY <2>4, <2>5
<1>5. ASSUME NEW t \in Tokens
      PROVE  FundingBacking(fundingDue', books', t) >= FundingBacking(fundingDue, books, t)
  <2>1. Due(fundingDue', t) >= Due(fundingDue, t)
    BY <1>4
  <2>2. /\ books["funding"][t] \in Int /\ books["claimableFunding"][t] \in Int
        /\ Due(fundingDue, t) \in Int /\ Due(fundingDue', t) \in Int
    BY <1>1, <1>2, EntryType, BucketNames, DueType
  <2>3. /\ FundingBacking(fundingDue', books', t)
              = Due(fundingDue', t) + books["funding"][t] - books["claimableFunding"][t]
        /\ FundingBacking(fundingDue, books, t)
              = Due(fundingDue, t) + books["funding"][t] - books["claimableFunding"][t]
    BY <1>2, BackingIsDue
  <2>4. QED
    BY <2>1, <2>2, <2>3
<1>6. QED
  BY <1>5 DEF BackingKept

LEMMA BackingOfStep ==
  ASSUME Typed, Next
  PROVE  BackingKept \/ Shortfall
<1>1. TypeOK /\ books \in Books /\ fundingDue \in [Positions -> [Tokens -> Int]] /\ sizeInUsd \in [Positions -> Nat]
  BY DEF Typed, TypeOK, Books
<1>2. CASE QuietStep
  <2>1. ASSUME NEW t \in Tokens
        PROVE  FundingBacking(fundingDue', books', t) >= FundingBacking(fundingDue, books, t)
    <3>1. /\ fundingDue' = fundingDue /\ books' \in Books
          /\ books'["funding"][t] - books'["claimableFunding"][t] = books["funding"][t] - books["claimableFunding"][t]
      BY <1>2 DEF QuietStep, positionVars
    <3>2. /\ books["funding"][t] \in Int /\ books["claimableFunding"][t] \in Int
          /\ books'["funding"][t] \in Int /\ books'["claimableFunding"][t] \in Int
          /\ Due(fundingDue, t) \in Int
      BY <1>1, <3>1, EntryType, BucketNames, DueType
    <3>3. /\ FundingBacking(fundingDue', books', t)
                = Due(fundingDue, t) + books'["funding"][t] - books'["claimableFunding"][t]
          /\ FundingBacking(fundingDue, books, t)
                = Due(fundingDue, t) + books["funding"][t] - books["claimableFunding"][t]
      BY <3>1, BackingIsDue
    <3>4. QED
      BY <3>1, <3>2, <3>3
  <2>2. QED
    BY <2>1 DEF BackingKept
<1>3. CASE SomePositionStep
  <2>0. PICK p \in Positions : \E coll, size, tokens, interest, f, x :
               PositionStep(p, coll, size, tokens, interest, f, x) /\ FundingSettledBy(p, size, f)
    BY <1>3 DEF SomePositionStep
  <2>1. PICK coll, size, tokens, interest, f, x :
               p \in Positions /\ PositionStep(p, coll, size, tokens, interest, f, x) /\ FundingSettledBy(p, size, f)
    BY <2>0
  <2>2. CASE f = FundingFee(p)
    BY <2>1, <2>2, PositionStepBacked
  <2>3. CASE size = 0 /\ sizeInUsd[p] > 0 /\ FundingFee(p) > collateralAmount[p]
    <3>1. sizeInUsd'[p] = 0
      BY <1>1, <2>1, <2>3 DEF PositionStep
    <3>2. QED
      BY <2>3, <3>1 DEF Shortfall, CloseOf
  <2>4. QED
    BY <2>1, <2>2, <2>3 DEF FundingSettledBy
<1>4. CASE AccrueStep
  BY <1>4, AccrueBacked DEF AccrueStep
<1>5. QED
  BY <1>1, <1>2, <1>3, <1>4, StepKinds

(***************************************************************************)
(* Claimable funding is backed by what was paid and what is still owed,    *)
(* and loses backing only with a position that owed more than it had.      *)
(***************************************************************************)
THEOREM MarketFundingBacked == Spec => FundingBacked
<1> DEFINE A == BackingKept \/ Shortfall
           B == \/ \A t \in Tokens :
                      FundingBacking(fundingDue', books', t) >= FundingBacking(fundingDue, books, t)
                \/ \E p \in Positions : CloseOf(p) /\ FundingFee(p) > collateralAmount[p]
<1>1. Typed /\ [Next]_vars => [A]_vars
  BY BackingOfStep
<1>2. A => B
  BY DEF BackingKept, Shortfall
<1>3. [][B]_vars => FundingBacked
  BY DEF FundingBacked
<1> HIDE DEF A, B
<1>4. QED
  BY <1>1, <1>2, <1>3, AlwaysTyped, PTL DEF Spec

=============================================================================
