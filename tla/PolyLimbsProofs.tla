-------------------------- MODULE PolyLimbsProofs --------------------------
(***************************************************************************)
(* The byte arithmetic of Poly1305 is exact, for every radix, every length   *)
(* of r, every clamp, key and message, and in each of the three builds; so    *)
(* the bytes implement the whole-number arithmetic of PolyLazy, and with      *)
(* PolyLazyProofs the RFC's MAC.                                            *)
(***************************************************************************)
EXTENDS PolyLimbsProperties, CommonLemmas

Last == 2 * NR + 1

LEMMA Sizes ==
  /\ NR \in Nat /\ NR >= 1 /\ Last \in Nat /\ Last = 2 * NR + 1 /\ NR + 1 \in Nat
  /\ Radix \in Nat /\ Radix >= 16 /\ Byte = 0 .. Radix - 1
  /\ Radix \div 4 \in Nat /\ 4 * (Radix \div 4) = Radix
  /\ Radix \div 16 \in Nat /\ 16 * (Radix \div 16) = Radix
<1>1. NR \in Nat /\ NR >= 1 /\ Radix \in Nat /\ Radix >= 16 /\ Radix % 16 = 0
  BY LimbAssumption
<1>2. Radix \div 16 \in Nat /\ Radix = (Radix \div 16) * 16
  BY <1>1, DivParts
<1>3. Radix = (4 * (Radix \div 16)) * 4 + 0 /\ 4 * (Radix \div 16) \in Nat
  BY <1>1, <1>2
<1>4. Radix \div 4 = 4 * (Radix \div 16)
  <2> DEFINE q == 4 * (Radix \div 16)
  <2>1. q \in Int /\ Radix = q * 4 + 0
    BY <1>3
  <2> HIDE DEF q
  <2>2. (q * 4 + 0) \div 4 = q
    BY <2>1, DivMod
  <2> QED BY <2>1, <2>2 DEF q
<1> QED BY <1>1, <1>2, <1>3, <1>4 DEF Last, Byte

-----------------------------------------------------------------------------
(* Weights and sums                                                         *)

(* What the recursive definition says.                                       *)
LEMMA WeightsAre ==
  /\ Weight(0) = 1
  /\ \A k \in 0 .. Last : Weight(k) \in Nat /\ Weight(k) >= 1
  /\ \A k \in 0 .. Last - 1 : Weight(k + 1) = Radix * Weight(k)
<1> DEFINE X == {n \in Nat : n >= 1}
           F == [k \in 1 .. Last |-> [n \in X |-> Radix * n]]
           unfold(w) == [k \in 0 .. 2 * NR + 1 |-> IF k = 0 THEN 1 ELSE Radix * w[k - 1]]
<1>1. \A n \in X : Radix * n \in X
  <2> TAKE n \in X
  <2>1. Radix * n >= n
    BY Sizes, Z3
  <2> QED BY Sizes, <2>1
<1>2. F \in [1 .. Last -> [X -> X]] /\ 1 \in X
  <2> HIDE DEF X
  <2>1. F \in [1 .. Last -> [X -> X]]
    BY <1>1
  <2>2. 1 \in X
    BY DEF X
  <2> QED BY <2>1, <2>2
<1>3. PICK p \in [0 .. Last -> X] : Iterates(p, 1, F, Last)
  <2> HIDE DEF X, F
  <2> QED BY <1>2, Sizes, Iteration
<1>4. \A k \in 0 .. Last : p[k] = IF k = 0 THEN 1 ELSE Radix * p[k - 1]
  <2> TAKE k \in 0 .. Last
  <2>1. CASE k # 0
    <3>1. k \in 1 .. Last /\ k - 1 \in 0 .. Last
      BY Sizes, <2>1
    <3>2. p[k] = F[k][p[k - 1]] /\ p[k - 1] \in X
      BY <1>3, <3>1 DEF Iterates
    <3> QED BY <2>1, <3>1, <3>2
  <2> QED BY <1>3, <2>1 DEF Iterates
<1>5. p = unfold(p)
  <2>1. Last = 2 * NR + 1
    BY Sizes
  <2> QED BY <1>4, <2>1
<1>6. Weights = unfold(Weights)
  <2>1. Weights = CHOOSE w : w = unfold(w)
    BY DEF Weights
  <2> HIDE DEF unfold
  <2> QED BY <1>5, <2>1
<1>7. \A k \in 0 .. Last : Weights[k] = IF k = 0 THEN 1 ELSE Radix * Weights[k - 1]
  BY <1>6, Sizes
<1>8. \A k \in 0 .. Last : Weights[k] \in X
  <2> DEFINE S == {k \in Nat : k \in 0 .. Last => Weights[k] \in X}
  <2>1. 0 \in S
    BY <1>7, Sizes
  <2>2. ASSUME NEW k \in Nat, k \in S PROVE k + 1 \in S
    <3> SUFFICES ASSUME k + 1 \in 0 .. Last PROVE Weights[k + 1] \in X
      OBVIOUS
    <3>1. k \in 0 .. Last /\ k + 1 # 0 /\ (k + 1) - 1 = k
      BY Sizes
    <3>2. Weights[k + 1] = Radix * Weights[k] /\ Weights[k] \in X
      BY <1>7, <2>2, <3>1
    <3> HIDE DEF X
    <3> QED BY <1>1, <3>2
  <2>3. Nat \subseteq S
    <3> HIDE DEF S
    <3> QED BY <2>1, <2>2, NatSetInduction
  <2> QED BY <2>3
<1>9. \A k \in 0 .. Last - 1 : Weights[k + 1] = Radix * Weights[k]
  <2> TAKE k \in 0 .. Last - 1
  <2>1. k + 1 \in 0 .. Last /\ k + 1 # 0 /\ (k + 1) - 1 = k
    BY Sizes
  <2> QED BY <1>7, <2>1
<1>10. Weights[0] = 1
  BY <1>7, Sizes
<1> QED BY <1>8, <1>9, <1>10 DEF Weight

(* Weights multiply as powers do.                                           *)
LEMMA WeightProduct ==
  ASSUME NEW a \in Nat, NEW b \in Nat, a + b <= Last
  PROVE  Weight(a + b) = Weight(a) * Weight(b)
<1> DEFINE S == {n \in Nat : a + n <= Last => Weight(a + n) = Weight(a) * Weight(n)}
<1>1. 0 \in S
  <2>1. a \in 0 .. Last \/ ~(a <= Last)
    BY Sizes
  <2>2. a <= Last => Weight(a) \in Nat /\ Weight(0) = 1
    BY <2>1, WeightsAre
  <2> QED BY <2>2
<1>2. ASSUME NEW n \in Nat, n \in S PROVE n + 1 \in S
  <2> SUFFICES ASSUME a + (n + 1) <= Last
               PROVE  Weight(a + (n + 1)) = Weight(a) * Weight(n + 1)
    OBVIOUS
  <2>1. /\ a + n \in 0 .. Last - 1 /\ n \in 0 .. Last - 1 /\ a \in 0 .. Last
        /\ n \in 0 .. Last /\ a + n <= Last
        /\ a + (n + 1) = (a + n) + 1
    BY Sizes
  <2>2. Weight(a + (n + 1)) = Radix * Weight(a + n) /\ Weight(n + 1) = Radix * Weight(n)
    BY <2>1, WeightsAre
  <2>3. Weight(a + n) = Weight(a) * Weight(n)
    BY <1>2, <2>1
  <2>4. Weight(a) \in Nat /\ Weight(n) \in Nat /\ Radix \in Nat
    BY <2>1, WeightsAre, Sizes
  <2> DEFINE x == Weight(a)  y == Weight(n)
  <2>5. Weight(a + (n + 1)) = Radix * (x * y) /\ Weight(n + 1) = Radix * y
    BY <2>2, <2>3
  <2>6. x \in Nat /\ y \in Nat
    BY <2>4
  <2> HIDE DEF x, y
  <2>7. Radix * (x * y) = x * (Radix * y)
    BY <2>4, <2>6, Z3
  <2>8. Weight(a + (n + 1)) = x * Weight(n + 1)
    BY <2>5, <2>7
  <2> QED BY <2>8 DEF x
<1>3. b \in S
  <2> HIDE DEF S
  <2> QED BY <1>1, <1>2, NatSetInduction
<1> QED BY <1>3

LEMMA LimbsDomain ==
  ASSUME NEW n \in Nat, NEW d \in Limbs(n)
  PROVE  Cardinality(DOMAIN d) = n /\ \A k \in 0 .. n - 1 : d[k] \in Byte /\ d[k] \in Nat
<1>1. DOMAIN d = 0 .. n - 1
  BY DEF Limbs
<1>2. Cardinality(0 .. n - 1) = n
  <2>1. Cardinality(0 .. n - 1) = IF 0 > n - 1 THEN 0 ELSE (n - 1) - 0 + 1
    BY FS_Interval
  <2> QED BY <2>1
<1> QED BY <1>1, <1>2, Sizes DEF Limbs

LEMMA SumsAre ==
  ASSUME NEW n \in 0 .. Last, NEW d \in Limbs(n)
  PROVE  /\ Val(d) = ValLow(d, n) /\ ValLow(d, 0) = 0
         /\ \A k \in 0 .. n : ValLow(d, k) \in Nat
         /\ \A k \in 0 .. n - 1 : ValLow(d, k + 1) = ValLow(d, k) + d[k] * Weight(k)
<1> DEFINE F == [k \in 1 .. n |-> [x \in Nat |-> x + d[k - 1] * Weight(k - 1)]]
           unfold(v) == [k \in 0 .. Cardinality(DOMAIN d) |->
                           IF k = 0 THEN 0 ELSE v[k - 1] + d[k - 1] * Weight(k - 1)]
<1>1. n \in Nat /\ Cardinality(DOMAIN d) = n /\ \A k \in 0 .. n - 1 : d[k] \in Nat
  BY Sizes, LimbsDomain
<1>2. \A k \in 1 .. n, x \in Nat : x + d[k - 1] * Weight(k - 1) \in Nat
  <2> TAKE k \in 1 .. n, x \in Nat
  <2>1. k - 1 \in 0 .. n - 1 /\ k - 1 \in 0 .. Last
    BY <1>1, Sizes
  <2>2. d[k - 1] \in Nat /\ Weight(k - 1) \in Nat
    BY <1>1, <2>1, WeightsAre
  <2> QED BY <2>2
<1>3. F \in [1 .. n -> [Nat -> Nat]]
  BY <1>2
<1>4. PICK p \in [0 .. n -> Nat] : Iterates(p, 0, F, n)
  <2> HIDE DEF F
  <2> QED BY <1>1, <1>3, Iteration
<1>5. \A k \in 0 .. n : p[k] = IF k = 0 THEN 0 ELSE p[k - 1] + d[k - 1] * Weight(k - 1)
  <2> TAKE k \in 0 .. n
  <2>1. CASE k # 0
    <3>1. k \in 1 .. n /\ k - 1 \in 0 .. n
      BY <1>1, <2>1
    <3>2. p[k] = F[k][p[k - 1]] /\ p[k - 1] \in Nat
      BY <1>4, <3>1 DEF Iterates
    <3> QED BY <2>1, <3>1, <3>2
  <2> QED BY <1>4, <2>1 DEF Iterates
<1>6. p = unfold(p)
  BY <1>1, <1>5
<1>7. Sums(d) = unfold(Sums(d))
  <2>1. Sums(d) = CHOOSE v : v = unfold(v)
    BY DEF Sums
  <2> HIDE DEF unfold
  <2> QED BY <1>6, <2>1
<1>8. \A k \in 0 .. n : ValLow(d, k) = IF k = 0 THEN 0
                                       ELSE ValLow(d, k - 1) + d[k - 1] * Weight(k - 1)
  BY <1>1, <1>7 DEF ValLow
<1>9. \A k \in 0 .. n : ValLow(d, k) \in Nat
  <2> DEFINE S == {k \in Nat : k <= n => ValLow(d, k) \in Nat}
  <2>1. 0 \in S
    BY <1>1, <1>8
  <2>2. ASSUME NEW k \in Nat, k \in S PROVE k + 1 \in S
    <3> SUFFICES ASSUME k + 1 <= n PROVE ValLow(d, k + 1) \in Nat
      OBVIOUS
    <3>1. k + 1 \in 1 .. n /\ k + 1 \in 0 .. n /\ k + 1 # 0 /\ (k + 1) - 1 = k
      BY <1>1
    <3>2. ValLow(d, k + 1) = ValLow(d, k) + d[k] * Weight(k) /\ ValLow(d, k) \in Nat
      BY <1>8, <2>2, <3>1
    <3> QED BY <1>2, <3>1, <3>2
  <2>3. Nat \subseteq S
    <3> HIDE DEF S
    <3> QED BY <2>1, <2>2, NatSetInduction
  <2> QED BY <1>1, <2>3
<1>10. \A k \in 0 .. n - 1 : ValLow(d, k + 1) = ValLow(d, k) + d[k] * Weight(k)
  <2> TAKE k \in 0 .. n - 1
  <2>1. k + 1 \in 0 .. n /\ k + 1 # 0 /\ (k + 1) - 1 = k
    BY <1>1
  <2> QED BY <1>8, <2>1
<1>11. Val(d) = ValLow(d, n) /\ ValLow(d, 0) = 0
  BY <1>1, <1>8 DEF Val
<1> QED BY <1>9, <1>10, <1>11

-----------------------------------------------------------------------------
(* Vectors as numbers                                                       *)

LEMMA SumBound ==
  ASSUME NEW n \in 0 .. Last, NEW d \in Limbs(n), NEW k \in 0 .. n
  PROVE  ValLow(d, k) \in Nat /\ ValLow(d, k) + 1 <= Weight(k)
<1> DEFINE S == {x \in Nat : x <= n => ValLow(d, x) + 1 <= Weight(x)}
<1>1. 0 \in S
  BY Sizes, SumsAre, WeightsAre
<1>2. ASSUME NEW x \in Nat, x \in S PROVE x + 1 \in S
  <2> SUFFICES ASSUME x + 1 <= n PROVE ValLow(d, x + 1) + 1 <= Weight(x + 1)
    OBVIOUS
  <2>1. x \in 0 .. n - 1 /\ x \in 0 .. n /\ x \in 0 .. Last - 1 /\ x \in 0 .. Last
    BY Sizes
  <2> DEFINE v == ValLow(d, x)  b == d[x]  w == Weight(x)
  <2>2. v \in Nat /\ w \in Nat /\ v + 1 <= w
    BY <1>2, <2>1, SumsAre, WeightsAre
  <2>3. ValLow(d, x + 1) = v + b * w /\ Weight(x + 1) = Radix * w
    BY <2>1, SumsAre, WeightsAre
  <2>4. b \in Nat /\ b <= Radix - 1 /\ Radix \in Nat
    BY <2>1, Sizes, LimbsDomain
  <2> HIDE DEF v, b, w
  <2>5. b * w <= (Radix - 1) * w
    BY <2>2, <2>4, Z3
  <2>6. (Radix - 1) * w = Radix * w - w
    BY <2>2, <2>4, Z3
  <2>7. v + b * w + 1 <= Radix * w
    BY <2>2, <2>4, <2>5, <2>6, Z3
  <2> QED BY <2>3, <2>7
<1>3. Nat \subseteq S
  <2> HIDE DEF S
  <2> QED BY <1>1, <1>2, NatSetInduction
<1> QED BY <1>3, Sizes, SumsAre

LEMMA SumMonotone ==
  ASSUME NEW n \in 0 .. Last, NEW d \in Limbs(n), NEW k \in 0 .. n, NEW l \in k .. n
  PROVE  ValLow(d, k) <= ValLow(d, l)
<1> DEFINE S == {x \in Nat : k + x <= n => ValLow(d, k) <= ValLow(d, k + x)}
<1>1. 0 \in S
  BY Sizes, SumsAre
<1>2. ASSUME NEW x \in Nat, x \in S PROVE x + 1 \in S
  <2> SUFFICES ASSUME k + (x + 1) <= n PROVE ValLow(d, k) <= ValLow(d, k + (x + 1))
    OBVIOUS
  <2>1. /\ k + x \in 0 .. n - 1 /\ k + x \in 0 .. n /\ k + x \in 0 .. Last
        /\ k + (x + 1) = (k + x) + 1
    BY Sizes
  <2> DEFINE t == d[k + x] * Weight(k + x)
  <2>2. t \in Nat
    <3>1. n \in Nat
      BY Sizes
    <3>2. d[k + x] \in Nat
      BY <2>1, <3>1, LimbsDomain
    <3>3. Weight(k + x) \in Nat
      BY <2>1, WeightsAre
    <3> QED BY <3>2, <3>3
  <2>3. ValLow(d, k + (x + 1)) = ValLow(d, k + x) + t
    BY <2>1, SumsAre
  <2>4. ValLow(d, k) <= ValLow(d, k + x) /\ ValLow(d, k + x) \in Nat /\ ValLow(d, k) \in Nat
    BY <1>2, <2>1, SumsAre, Sizes
  <2> HIDE DEF t
  <2> QED BY <2>2, <2>3, <2>4
<1>3. Nat \subseteq S
  <2> HIDE DEF S
  <2> QED BY <1>1, <1>2, NatSetInduction
<1>4. l - k \in Nat /\ k + (l - k) = l /\ l <= n
  BY Sizes
<1> QED BY <1>3, <1>4

LEMMA SumSame ==
  ASSUME NEW n \in 0 .. Last, NEW m \in 0 .. Last, NEW d \in Limbs(n), NEW e \in Limbs(m),
         NEW k \in 0 .. n, k <= m, \A x \in 0 .. k - 1 : d[x] = e[x]
  PROVE  ValLow(d, k) = ValLow(e, k)
<1> DEFINE S == {x \in Nat : x <= k => ValLow(d, x) = ValLow(e, x)}
<1>1. 0 \in S
  BY SumsAre
<1>2. ASSUME NEW x \in Nat, x \in S PROVE x + 1 \in S
  <2> SUFFICES ASSUME x + 1 <= k PROVE ValLow(d, x + 1) = ValLow(e, x + 1)
    OBVIOUS
  <2>1. x \in 0 .. k - 1 /\ x \in 0 .. n - 1 /\ x \in 0 .. m - 1 /\ x <= k
    BY Sizes
  <2>2. /\ ValLow(d, x + 1) = ValLow(d, x) + d[x] * Weight(x)
        /\ ValLow(e, x + 1) = ValLow(e, x) + e[x] * Weight(x)
    BY <2>1, SumsAre
  <2> QED BY <1>2, <2>1, <2>2
<1>3. Nat \subseteq S
  <2> HIDE DEF S
  <2> QED BY <1>1, <1>2, NatSetInduction
<1> QED BY <1>3, Sizes

(* Vectors that differ in one byte.                                         *)
LEMMA SumUpdate ==
  ASSUME NEW n \in 0 .. Last, NEW d \in Limbs(n), NEW e \in Limbs(n), NEW k \in 0 .. n - 1,
         \A x \in 0 .. n - 1 : x # k => d[x] = e[x]
  PROVE  Val(e) = Val(d) + (e[k] - d[k]) * Weight(k)
<1> DEFINE g == (e[k] - d[k]) * Weight(k)
           S == {x \in Nat : k + 1 + x <= n => ValLow(e, k + 1 + x) = ValLow(d, k + 1 + x) + g}
<1>0. /\ n \in Nat /\ k \in 0 .. Last /\ k \in 0 .. n /\ k + 1 \in 0 .. n
      /\ d[k] \in Nat /\ e[k] \in Nat /\ Weight(k) \in Nat
      /\ ValLow(d, k) \in Nat /\ ValLow(e, k) \in Nat
  <2>1. n \in Nat /\ k \in 0 .. Last /\ k \in 0 .. n /\ k + 1 \in 0 .. n
    BY Sizes
  <2>2. d[k] \in Nat /\ e[k] \in Nat
    BY <2>1, LimbsDomain
  <2>3. Weight(k) \in Nat
    BY <2>1, WeightsAre
  <2> QED BY <2>1, <2>2, <2>3, SumsAre
<1>g. g \in Int
  BY <1>0
<1>1. 0 \in S
  <2>1. ValLow(d, k) = ValLow(e, k)
    BY <1>0, SumSame
  <2>2. /\ ValLow(d, k + 1) = ValLow(d, k) + d[k] * Weight(k)
        /\ ValLow(e, k + 1) = ValLow(e, k) + e[k] * Weight(k)
    BY SumsAre
  <2>3. g = e[k] * Weight(k) - d[k] * Weight(k)
    <3> DEFINE a == e[k]  b == d[k]  w == Weight(k)
    <3>1. a \in Nat /\ b \in Nat /\ w \in Nat
      BY <1>0
    <3> HIDE DEF a, b, w
    <3>2. (a - b) * w = a * w - b * w
      BY <3>1, Z3
    <3> QED BY <3>2 DEF a, b, w
  <2> DEFINE p == e[k] * Weight(k)  q == d[k] * Weight(k)
  <2>4. p \in Nat /\ q \in Nat
    BY <1>0
  <2>5. ValLow(e, k + 1) = ValLow(d, k + 1) + g
    <3> HIDE DEF g
    <3> QED BY <1>0, <1>g, <2>1, <2>2, <2>3, <2>4
  <2>6. k + 1 + 0 = k + 1
    BY <1>0
  <2> HIDE DEF g
  <2> QED BY <2>5, <2>6
<1> HIDE DEF g
<1>2. ASSUME NEW x \in Nat, x \in S PROVE x + 1 \in S
  <2> SUFFICES ASSUME k + 1 + (x + 1) <= n
               PROVE  ValLow(e, k + 1 + (x + 1)) = ValLow(d, k + 1 + (x + 1)) + g
    OBVIOUS
  <2> DEFINE y == k + 1 + x
  <2>1. /\ y \in 0 .. n - 1 /\ y \in 0 .. n /\ y \in 0 .. Last /\ y # k /\ y <= n
        /\ k + 1 + (x + 1) = y + 1
    BY <1>0, Sizes
  <2>2. ValLow(e, y) = ValLow(d, y) + g
    BY <1>2, <2>1
  <2> HIDE DEF y
  <2>3. /\ ValLow(d, y + 1) = ValLow(d, y) + d[y] * Weight(y)
        /\ ValLow(e, y + 1) = ValLow(e, y) + d[y] * Weight(y)
    BY <2>1, SumsAre
  <2> DEFINE t == d[y] * Weight(y)
  <2>4. t \in Nat /\ ValLow(d, y) \in Nat /\ ValLow(e, y) \in Nat
    BY <1>0, <2>1, LimbsDomain, WeightsAre, SumsAre
  <2> HIDE DEF t
  <2>5. ValLow(e, y + 1) = ValLow(d, y + 1) + g
    BY <1>g, <2>2, <2>3, <2>4 DEF t
  <2> QED BY <2>1, <2>5
<1>3. Nat \subseteq S
  <2> HIDE DEF S
  <2> QED BY <1>1, <1>2, NatSetInduction
<1>4. n - (k + 1) \in Nat /\ k + 1 + (n - (k + 1)) = n /\ n <= n
  BY <1>0
<1>5. ValLow(e, n) = ValLow(d, n) + g
  BY <1>0, <1>3, <1>4
<1> QED BY <1>5, SumsAre DEF g

(* Zeros at the top add nothing.                                            *)
LEMMA SumTail ==
  ASSUME NEW n \in 0 .. Last, NEW d \in Limbs(n), NEW k \in 0 .. n,
         \A x \in k .. n - 1 : d[x] = 0
  PROVE  Val(d) = ValLow(d, k)
<1> DEFINE S == {x \in Nat : k + x <= n => ValLow(d, k + x) = ValLow(d, k)}
<1>1. 0 \in S
  BY Sizes
<1>2. ASSUME NEW x \in Nat, x \in S PROVE x + 1 \in S
  <2> SUFFICES ASSUME k + (x + 1) <= n PROVE ValLow(d, k + (x + 1)) = ValLow(d, k)
    OBVIOUS
  <2>1. /\ k + x \in 0 .. n - 1 /\ k + x \in k .. n - 1 /\ k + x \in 0 .. n
        /\ k + x \in 0 .. Last /\ k + (x + 1) = (k + x) + 1
    BY Sizes
  <2>2. ValLow(d, k + (x + 1)) = ValLow(d, k + x) + 0 * Weight(k + x)
    BY <2>1, SumsAre
  <2>3. Weight(k + x) \in Nat /\ ValLow(d, k + x) \in Nat
    BY <2>1, SumsAre, WeightsAre
  <2>4. ValLow(d, k + x) = ValLow(d, k)
    BY <1>2, <2>1, Sizes
  <2> QED BY <2>2, <2>3, <2>4
<1>3. Nat \subseteq S
  <2> HIDE DEF S
  <2> QED BY <1>1, <1>2, NatSetInduction
<1>4. n - k \in Nat /\ k + (n - k) = n /\ n <= n
  BY Sizes
<1>5. ValLow(d, n) = ValLow(d, k)
  BY <1>3, <1>4
<1> QED BY <1>5, SumsAre

LEMMA ValZero ==
  ASSUME NEW n \in 0 .. Last
  PROVE  Zero(n) \in Limbs(n) /\ Val(Zero(n)) = 0 /\ \A k \in 0 .. n : ValLow(Zero(n), k) = 0
<1>1. Zero(n) \in Limbs(n) /\ \A x \in 0 .. n - 1 : Zero(n)[x] = 0
  BY Sizes DEF Zero, Limbs
<1>2. Val(Zero(n)) = ValLow(Zero(n), 0) /\ ValLow(Zero(n), 0) = 0
  BY <1>1, Sizes, SumTail, SumsAre
<1>3. ASSUME NEW k \in 0 .. n PROVE ValLow(Zero(n), k) = 0
  <2>1. ValLow(Zero(n), k) <= ValLow(Zero(n), n) /\ ValLow(Zero(n), n) = 0
    BY <1>1, <1>2, Sizes, SumMonotone, SumsAre
  <2>2. ValLow(Zero(n), k) \in Nat
    BY <1>1, SumsAre
  <2> QED BY <2>1, <2>2
<1> QED BY <1>1, <1>2, <1>3

(* The lowest bytes are the remainder by their weight.                       *)
LEMMA SumMod ==
  ASSUME NEW n \in 0 .. Last, NEW d \in Limbs(n), NEW k \in 0 .. n
  PROVE  Val(d) % Weight(k) = ValLow(d, k)
<1> DEFINE v == ValLow(d, k)  w == Weight(k)
           S == {x \in Nat : k + x <= n => \E q \in Nat : ValLow(d, k + x) = q * w + v}
<1>0. n \in Nat /\ k \in 0 .. Last /\ v \in Nat /\ w \in Nat /\ v + 1 <= w /\ w > 0
  <2>1. n \in Nat /\ k \in 0 .. Last
    BY Sizes
  <2>2. w \in Nat /\ w >= 1
    BY <2>1, WeightsAre
  <2>3. v \in Nat /\ v + 1 <= w
    BY SumBound
  <2> QED BY <2>1, <2>2, <2>3
<1>1. 0 \in S
  <2>1. k + 0 = k /\ v = 0 * w + v
    BY <1>0
  <2> QED BY <2>1
<1>2. ASSUME NEW x \in Nat, x \in S PROVE x + 1 \in S
  <2> SUFFICES ASSUME k + (x + 1) <= n
               PROVE  \E q \in Nat : ValLow(d, k + (x + 1)) = q * w + v
    OBVIOUS
  <2>1. /\ k + x \in 0 .. n - 1 /\ k + x <= n /\ k + x \in 0 .. Last /\ x \in 0 .. Last
        /\ k + (x + 1) = (k + x) + 1 /\ k + x <= Last
    BY <1>0, Sizes
  <2>2. PICK q \in Nat : ValLow(d, k + x) = q * w + v
    BY <1>2, <2>1
  <2> DEFINE b == d[k + x]  u == Weight(x)
  <2>3. b \in Nat /\ u \in Nat
    BY <1>0, <2>1, LimbsDomain, WeightsAre
  <2>4. ValLow(d, k + (x + 1)) = (q * w + v) + b * (w * u)
    <3>1. Weight(k + x) = w * u
      BY <1>0, <2>1, WeightProduct
    <3> QED BY <2>1, <2>2, <3>1, SumsAre
  <2> HIDE DEF b, u, v, w
  <2>5. (q * w + v) + b * (w * u) = (q + b * u) * w + v
    <3>1. b * (w * u) = (b * u) * w
      BY <1>0, <2>3, Z3
    <3>2. (q + b * u) * w = q * w + (b * u) * w
      BY <1>0, <2>3, Z3
    <3> DEFINE f == q * w  g == (b * u) * w
    <3>3. f \in Nat /\ g \in Nat
      BY <1>0, <2>3
    <3> HIDE DEF f, g
    <3>4. (f + v) + g = (f + g) + v
      BY <1>0, <3>3
    <3> QED BY <3>1, <3>2, <3>4 DEF f, g
  <2>6. q + b * u \in Nat
    BY <2>3
  <2> QED BY <2>4, <2>5, <2>6
<1>3. Nat \subseteq S
  <2> HIDE DEF S
  <2> QED BY <1>1, <1>2, NatSetInduction
<1>4. n - k \in Nat /\ k + (n - k) = n /\ n <= n
  BY <1>0
<1>5. PICK q \in Nat : ValLow(d, n) = q * w + v
  BY <1>3, <1>4
<1>6. v \in 0 .. w - 1
  BY <1>0
<1>7. (q * w + v) % w = v
  <2> HIDE DEF v, w
  <2> QED BY <1>0, <1>6, DivMod
<1> QED BY <1>5, <1>7, SumsAre

-----------------------------------------------------------------------------
(* Chains of additions                                                      *)

(* A sum below (m + 1) * Radix is a byte and a carry of at most m.            *)
LEMMA ByteSum ==
  ASSUME NEW x \in Nat, NEW m \in Nat, x < (m + 1) * Radix
  PROVE  /\ x % Radix \in Byte /\ x \div Radix \in 0 .. m
         /\ x = (x \div Radix) * Radix + (x % Radix)
<1> DEFINE q == x \div Radix
<1>1. q \in Nat /\ x % Radix \in 0 .. Radix - 1 /\ x = q * Radix + (x % Radix)
  BY Sizes, DivParts
<1> HIDE DEF q
<1>2. q <= m
  <2> SUFFICES ASSUME q >= m + 1 PROVE FALSE
    BY <1>1
  <2>1. q * Radix >= (m + 1) * Radix
    BY <1>1, Sizes, Z3
  <2>2. q * Radix \in Nat /\ (m + 1) * Radix \in Nat
    BY <1>1, Sizes
  <2> QED BY <1>1, <2>1, <2>2, Sizes
<1> QED BY <1>1, <1>2, Sizes DEF q

LEMMA CarriesAre ==
  ASSUME NEW n \in Nat, NEW a \in Nat, NEW b \in Nat, n <= a, n <= b,
         NEW x \in Limbs(a), NEW y \in Limbs(b)
  PROVE  /\ Carries(x, y, n)[0] = 0
         /\ \A k \in 0 .. n - 1 :
              Carries(x, y, n)[k + 1] = (x[k] + y[k] + Carries(x, y, n)[k]) \div Radix
<1> DEFINE F == [k \in 1 .. n |-> [v \in Nat |-> (x[k - 1] + y[k - 1] + v) \div Radix]]
           unfold(c) == [k \in 0 .. n |-> IF k = 0 THEN 0
                                          ELSE (x[k - 1] + y[k - 1] + c[k - 1]) \div Radix]
<1>1. \A k \in 0 .. n - 1 : x[k] \in Nat /\ y[k] \in Nat
  BY LimbsDomain
<1>2. \A k \in 1 .. n, v \in Nat : (x[k - 1] + y[k - 1] + v) \div Radix \in Nat
  <2> TAKE k \in 1 .. n, v \in Nat
  <2>1. k - 1 \in 0 .. n - 1
    OBVIOUS
  <2>2. x[k - 1] + y[k - 1] + v \in Nat
    BY <1>1, <2>1
  <2> QED BY <2>2, Sizes, DivParts
<1>3. F \in [1 .. n -> [Nat -> Nat]]
  BY <1>2
<1>4. PICK p \in [0 .. n -> Nat] : Iterates(p, 0, F, n)
  <2> HIDE DEF F
  <2> QED BY <1>3, Iteration
<1>5. \A k \in 0 .. n : p[k] = IF k = 0 THEN 0 ELSE (x[k - 1] + y[k - 1] + p[k - 1]) \div Radix
  <2> TAKE k \in 0 .. n
  <2>1. CASE k # 0
    <3>1. k \in 1 .. n /\ k - 1 \in 0 .. n
      BY <2>1
    <3>2. p[k] = F[k][p[k - 1]] /\ p[k - 1] \in Nat
      BY <1>4, <3>1 DEF Iterates
    <3> QED BY <2>1, <3>1, <3>2
  <2> QED BY <1>4, <2>1 DEF Iterates
<1>6. p = unfold(p)
  BY <1>5
<1>7. Carries(x, y, n) = unfold(Carries(x, y, n))
  <2>1. Carries(x, y, n) = CHOOSE c : c = unfold(c)
    BY DEF Carries
  <2> HIDE DEF unfold
  <2> QED BY <1>6, <2>1
<1> DEFINE c == Carries(x, y, n)
<1>8. \A k \in 0 .. n : c[k] = IF k = 0 THEN 0 ELSE (x[k - 1] + y[k - 1] + c[k - 1]) \div Radix
  BY <1>7
<1> HIDE DEF c
<1>9. c[0] = 0
  BY <1>8
<1>10. \A k \in 0 .. n - 1 : c[k + 1] = (x[k] + y[k] + c[k]) \div Radix
  <2> TAKE k \in 0 .. n - 1
  <2>1. k + 1 \in 0 .. n /\ k + 1 # 0 /\ (k + 1) - 1 = k
    OBVIOUS
  <2> QED BY <1>8, <2>1
<1> QED BY <1>9, <1>10 DEF c

LEMMA ChainByte ==
  ASSUME NEW a \in Byte, NEW b \in Byte, NEW c \in {0, 1}
  PROVE  /\ (a + b + c) % Radix \in Byte /\ (a + b + c) \div Radix \in {0, 1}
         /\ a + b + c = ((a + b + c) \div Radix) * Radix + ((a + b + c) % Radix)
<1>1. a + b + c \in Nat /\ a + b + c < (1 + 1) * Radix
  BY Sizes
<1> DEFINE s == a + b + c
<1> HIDE DEF s
<1>2. s \in Nat /\ s < (1 + 1) * Radix
  BY <1>1 DEF s
<1>3. s % Radix \in Byte /\ s \div Radix \in 0 .. 1 /\ s = (s \div Radix) * Radix + (s % Radix)
  BY <1>2, ByteSum
<1> QED BY <1>3 DEF s

(* A chain of adc adds, but for the carry out of its last byte.               *)
LEMMA ChainAdds ==
  ASSUME NEW n \in 0 .. Last, NEW a \in n .. Last, NEW b \in n .. Last,
         NEW x \in Limbs(a), NEW y \in Limbs(b)
  PROVE  /\ AddChain(x, y, n) \in Limbs(n)
         /\ \E c \in {0, 1} :
              Val(AddChain(x, y, n)) + c * Weight(n) = ValLow(x, n) + ValLow(y, n)
<1> DEFINE c == Carries(x, y, n)
           s == AddChain(x, y, n)
<1>0. n \in Nat /\ a \in Nat /\ b \in Nat /\ a \in 0 .. Last /\ b \in 0 .. Last
  BY Sizes
<1>1. c[0] = 0 /\ \A k \in 0 .. n - 1 : c[k + 1] = (x[k] + y[k] + c[k]) \div Radix
  BY <1>0, CarriesAre
<1>2. s = [k \in 0 .. n - 1 |-> (x[k] + y[k] + c[k]) % Radix]
  BY DEF AddChain
<1>3. \A k \in 0 .. n - 1 : x[k] \in Byte /\ y[k] \in Byte
  BY <1>0, LimbsDomain
<1> HIDE DEF c, s
<1>4. \A k \in 0 .. n : c[k] \in {0, 1}
  <2> DEFINE S == {k \in Nat : k <= n => c[k] \in {0, 1}}
  <2>1. 0 \in S
    BY <1>1
  <2>2. ASSUME NEW k \in Nat, k \in S PROVE k + 1 \in S
    <3> SUFFICES ASSUME k + 1 <= n PROVE c[k + 1] \in {0, 1}
      OBVIOUS
    <3>1. k \in 0 .. n - 1 /\ k <= n
      BY <1>0
    <3>2. c[k] \in {0, 1}
      BY <2>2, <3>1
    <3> QED BY <1>1, <1>3, <3>1, <3>2, ChainByte
  <2>3. Nat \subseteq S
    <3> HIDE DEF S
    <3> QED BY <2>1, <2>2, NatSetInduction
  <2> QED BY <1>0, <2>3
<1>5. ASSUME NEW k \in 0 .. n - 1
      PROVE  s[k] \in Byte /\ x[k] + y[k] + c[k] = c[k + 1] * Radix + s[k]
  <2>1. c[k] \in {0, 1}
    BY <1>0, <1>4
  <2>2. s[k] = (x[k] + y[k] + c[k]) % Radix /\ c[k + 1] = (x[k] + y[k] + c[k]) \div Radix
    BY <1>1, <1>2
  <2> QED BY <1>3, <2>1, <2>2, ChainByte
<1>6. s \in Limbs(n)
  <2>1. s \in [0 .. n - 1 -> Byte]
    BY <1>2, <1>5
  <2> QED BY <2>1 DEF Limbs
<1>7. \A k \in 0 .. n : ValLow(s, k) + c[k] * Weight(k) = ValLow(x, k) + ValLow(y, k)
  <2> DEFINE S == {k \in Nat : k <= n =>
                     ValLow(s, k) + c[k] * Weight(k) = ValLow(x, k) + ValLow(y, k)}
  <2>1. 0 \in S
    <3>1. ValLow(s, 0) = 0 /\ ValLow(x, 0) = 0 /\ ValLow(y, 0) = 0
      BY <1>0, <1>6, SumsAre
    <3>2. Weight(0) = 1
      BY WeightsAre
    <3> QED BY <1>1, <3>1, <3>2
  <2>2. ASSUME NEW k \in Nat, k \in S PROVE k + 1 \in S
    <3> SUFFICES ASSUME k + 1 <= n
                 PROVE  ValLow(s, k + 1) + c[k + 1] * Weight(k + 1)
                          = ValLow(x, k + 1) + ValLow(y, k + 1)
      OBVIOUS
    <3>1. /\ k \in 0 .. n - 1 /\ k <= n /\ k \in 0 .. n /\ k + 1 \in 0 .. n
          /\ k \in 0 .. a - 1 /\ k \in 0 .. b - 1 /\ k \in 0 .. a /\ k \in 0 .. b
          /\ k \in 0 .. Last - 1 /\ k \in 0 .. Last
      BY <1>0, Sizes
    <3> DEFINE w == Weight(k)
               vs == ValLow(s, k)  vx == ValLow(x, k)  vy == ValLow(y, k)
               bs == s[k]  bx == x[k]  by == y[k]  cc == c[k]  dd == c[k + 1]
    <3>2. /\ ValLow(s, k + 1) = vs + bs * w /\ ValLow(x, k + 1) = vx + bx * w
          /\ ValLow(y, k + 1) = vy + by * w
      BY <1>0, <1>6, <3>1, SumsAre
    <3>3. Weight(k + 1) = Radix * w /\ w \in Nat
      BY <3>1, WeightsAre
    <3>4. vs \in Nat /\ vx \in Nat /\ vy \in Nat
      BY <1>0, <1>6, <3>1, SumsAre
    <3>5. /\ bs \in Nat /\ bx \in Nat /\ by \in Nat /\ cc \in Nat /\ dd \in Nat
          /\ bx + by + cc = dd * Radix + bs
      <4>1. \A v \in Byte : v \in Nat
        BY Sizes
      <4>2. s[k] \in Nat /\ x[k] \in Nat /\ y[k] \in Nat
        BY <1>3, <1>5, <3>1, <4>1
      <4>3. c[k] \in Nat /\ c[k + 1] \in Nat
        BY <1>4, <3>1
      <4> QED BY <1>5, <3>1, <4>2, <4>3
    <3>6. vs + cc * w = vx + vy
      BY <2>2, <3>1
    <3> HIDE DEF w, vs, vx, vy, bs, bx, by, cc, dd
    <3>7. (bx + by + cc) * w = bx * w + by * w + cc * w
      BY <3>3, <3>5, Z3
    <3>8. (dd * Radix + bs) * w = dd * (Radix * w) + bs * w
      BY <3>3, <3>5, Sizes, Z3
    <3>9. bx * w + by * w + cc * w = dd * (Radix * w) + bs * w
      BY <3>5, <3>7, <3>8
    <3>10. (vs + bs * w) + dd * (Radix * w) = (vx + bx * w) + (vy + by * w)
      <4> DEFINE f == bx * w  g == by * w  h == cc * w  i0 == bs * w  j0 == dd * (Radix * w)
      <4>1. f \in Nat /\ g \in Nat /\ h \in Nat /\ i0 \in Nat /\ j0 \in Nat
        BY <3>3, <3>5, Sizes
      <4> HIDE DEF f, g, h, i0, j0
      <4>2. f + g + h = j0 + i0 /\ vs + h = vx + vy
        BY <3>6, <3>9 DEF f, g, h, i0, j0
      <4>3. (vs + i0) + j0 = (vx + f) + (vy + g)
        BY <3>4, <4>1, <4>2
      <4> QED BY <4>3 DEF f, g, h, i0, j0
    <3> QED BY <3>2, <3>3, <3>10 DEF dd
  <2>3. Nat \subseteq S
    <3> HIDE DEF S
    <3> QED BY <2>1, <2>2, NatSetInduction
  <2> QED BY <1>0, <2>3
<1>8. Val(s) + c[n] * Weight(n) = ValLow(x, n) + ValLow(y, n) /\ c[n] \in {0, 1}
  BY <1>0, <1>4, <1>6, <1>7, SumsAre
<1> QED BY <1>6, <1>8 DEF s

LEMMA ChainExact ==
  ASSUME NEW n \in 0 .. Last, NEW a \in n .. Last, NEW b \in n .. Last,
         NEW x \in Limbs(a), NEW y \in Limbs(b),
         ValLow(x, n) + ValLow(y, n) < Weight(n)
  PROVE  Val(AddChain(x, y, n)) = ValLow(x, n) + ValLow(y, n)
<1> DEFINE s == AddChain(x, y, n)
<1>1. PICK c \in {0, 1} : Val(s) + c * Weight(n) = ValLow(x, n) + ValLow(y, n)
  BY ChainAdds
<1>2. s \in Limbs(n)
  BY ChainAdds
<1> HIDE DEF s
<1>3. Val(s) \in Nat /\ Weight(n) \in Nat
  BY <1>2, Sizes, SumsAre, WeightsAre
<1> QED BY <1>1, <1>3 DEF s

LEMMA ChainMod ==
  ASSUME NEW n \in 0 .. Last, NEW a \in n .. Last, NEW b \in n .. Last,
         NEW x \in Limbs(a), NEW y \in Limbs(b)
  PROVE  Val(AddChain(x, y, n)) = (ValLow(x, n) + ValLow(y, n)) % Weight(n)
<1> DEFINE s == AddChain(x, y, n)  w == Weight(n)
<1>1. PICK c \in {0, 1} : Val(s) + c * w = ValLow(x, n) + ValLow(y, n)
  BY ChainAdds
<1>2. s \in Limbs(n)
  BY ChainAdds
<1> HIDE DEF s
<1>3. Val(s) \in Nat /\ Val(s) + 1 <= w /\ w \in Nat
  BY <1>2, Sizes, SumsAre, SumBound, WeightsAre
<1> DEFINE v == Val(s)
<1> HIDE DEF w, v
<1>4. v \in 0 .. w - 1 /\ w > 0 /\ w \in Nat /\ v \in Nat
  BY <1>3 DEF v
<1>5. (c * w + v) % w = v
  BY <1>4, DivMod
<1>6. c * w + v = v + c * w
  BY <1>4
<1> QED BY <1>1, <1>5, <1>6 DEF s, w, v

-----------------------------------------------------------------------------
(* The multiplies' additions to the product                                 *)

LEMMA Increment ==
  ASSUME NEW b \in Byte
  PROVE  (b + 1) % Radix \in Byte /\ (b + 1) % Radix = IF b = Radix - 1 THEN 0 ELSE b + 1
<1>1. CASE b = Radix - 1
  <2>1. (0 + Radix) % Radix = 0
    BY Sizes, ModSmall
  <2>2. b + 1 = 0 + Radix
    BY <1>1, Sizes
  <2> QED BY <1>1, <2>1, <2>2, Sizes
<1>2. CASE b # Radix - 1
  <2>1. b + 1 \in 0 .. Radix - 1
    BY <1>2, Sizes
  <2>2. (b + 1) % Radix = b + 1
    BY <2>1, Sizes, ModSmall
  <2> QED BY <1>2, <2>1, <2>2, Sizes
<1> QED BY <1>1, <1>2

(* A ripple adds one at its byte if there is room above it.                   *)
LEMMA RippleAdds ==
  ASSUME NEW n \in 0 .. Last, NEW p \in Limbs(n), NEW x \in 0 .. n,
         Val(p) + Weight(x) < Weight(n)
  PROVE  poly_ripple(p, x) \in Limbs(n) /\ Val(poly_ripple(p, x)) = Val(p) + Weight(x)
<1> DEFINE e == poly_ripple(p, x)
           Full(k) == \A z \in x .. k - 1 : p[z] = Radix - 1
<1>0. n \in Nat /\ x \in Nat /\ x \in 0 .. Last /\ n \in 0 .. Last
  BY Sizes
<1>1. DOMAIN p = 0 .. n - 1 /\ \A k \in 0 .. n - 1 : p[k] \in Byte
  BY DEF Limbs
<1>2. e = [k \in 0 .. n - 1 |-> IF k >= x /\ Full(k) THEN (p[k] + 1) % Radix ELSE p[k]]
  BY <1>1 DEF poly_ripple
<1>f. /\ Full(x)
      /\ \A k \in x .. n - 1 : Full(k + 1) <=> Full(k) /\ p[k] = Radix - 1
  <2>1. Full(x)
    BY <1>0
  <2>2. ASSUME NEW k \in x .. n - 1 PROVE Full(k + 1) <=> Full(k) /\ p[k] = Radix - 1
    <3>1. \A z \in x .. (k + 1) - 1 : z \in x .. k - 1 \/ z = k
      BY <1>0
    <3>2. \A z \in x .. k - 1 : z \in x .. (k + 1) - 1
      BY <1>0
    <3>3. k \in x .. (k + 1) - 1
      BY <1>0
    <3> QED BY <3>1, <3>2, <3>3
  <2> QED BY <2>1, <2>2
<1> HIDE DEF e, Full
<1>3. e \in Limbs(n)
  <2>1. \A k \in 0 .. n - 1 : (p[k] + 1) % Radix \in Byte
    BY <1>1, Increment
  <2>2. e \in [0 .. n - 1 -> Byte]
    BY <1>1, <1>2, <2>1
  <2> QED BY <2>2 DEF Limbs
<1> DEFINE Out(k) == IF Full(k) THEN Weight(k) ELSE 0
<1>4. ASSUME NEW k \in x .. n - 1,
             ValLow(e, k) + Out(k) = ValLow(p, k) + Weight(x)
      PROVE  ValLow(e, k + 1) + Out(k + 1) = ValLow(p, k + 1) + Weight(x)
  <2>1. /\ k \in 0 .. n - 1 /\ k \in 0 .. n /\ k \in 0 .. Last /\ k \in 0 .. Last - 1 /\ k >= x
    BY <1>0, Sizes
  <2> DEFINE w == Weight(k)  u == Weight(x)  ve == ValLow(e, k)  vp == ValLow(p, k)
             be == e[k]  bp == p[k]
  <2>2. w \in Nat /\ u \in Nat /\ ve \in Nat /\ vp \in Nat /\ Weight(k + 1) = Radix * w
    BY <1>0, <1>3, <2>1, WeightsAre, SumsAre
  <2>3. ValLow(e, k + 1) = ve + be * w /\ ValLow(p, k + 1) = vp + bp * w
    BY <1>3, <2>1, SumsAre
  <2>4. be \in Nat /\ bp \in Nat /\ bp \in Byte
    BY <1>0, <1>1, <1>3, <2>1, LimbsDomain
  <2>5. CASE Full(k) /\ bp = Radix - 1
    <3>1. be = 0
      BY <1>2, <2>1, <2>4, <2>5, Increment
    <3>2. Out(k) = w /\ Out(k + 1) = Radix * w
      BY <1>f, <2>2, <2>5
    <3>3. ve + w = vp + u
      BY <1>4, <3>2
    <3> HIDE DEF w, u, ve, vp, be, bp, Out
    <3>4. bp * w = Radix * w - w
      <4>1. (Radix - 1) * w = Radix * w - w
        BY <2>2, Sizes, Z3
      <4> QED BY <2>5, <4>1
    <3>5. be * w = 0
      BY <2>2, <3>1
    <3> DEFINE g == Radix * w
    <3>6. g \in Nat
      BY <2>2, Sizes
    <3> HIDE DEF g
    <3>7. ve + 0 + g = vp + (g - w) + u
      BY <2>2, <3>3, <3>6
    <3>8. ValLow(e, k + 1) = ve + 0 /\ ValLow(p, k + 1) = vp + (g - w) /\ Out(k + 1) = g
      BY <2>3, <3>2, <3>4, <3>5 DEF g
    <3> QED BY <3>7, <3>8 DEF u
  <2>6. CASE Full(k) /\ bp # Radix - 1
    <3>1. be = bp + 1
      BY <1>2, <2>1, <2>4, <2>6, Increment
    <3>2. Out(k) = w /\ Out(k + 1) = 0
      BY <1>f, <2>6
    <3>3. ve + w = vp + u
      BY <1>4, <3>2
    <3> HIDE DEF w, u, ve, vp, be, bp, Out
    <3>4. be * w = bp * w + w
      BY <2>2, <2>4, <3>1, Z3
    <3> DEFINE g == bp * w
    <3>6. g \in Nat
      BY <2>2, <2>4
    <3> HIDE DEF g
    <3>7. ve + (g + w) + 0 = vp + g + u
      BY <2>2, <3>3, <3>6
    <3>8. ValLow(e, k + 1) = ve + (g + w) /\ ValLow(p, k + 1) = vp + g /\ Out(k + 1) = 0
      BY <2>3, <3>2, <3>4 DEF g
    <3> QED BY <3>7, <3>8 DEF u
  <2>7. CASE ~Full(k)
    <3>1. be = bp
      BY <1>2, <2>1, <2>7
    <3>2. Out(k) = 0 /\ Out(k + 1) = 0
      BY <1>f, <2>7
    <3>3. ve + 0 = vp + u
      BY <1>4, <3>2
    <3> DEFINE g == bp * w
    <3>6. g \in Nat
      BY <2>2, <2>4
    <3>8. ValLow(e, k + 1) = ve + g /\ ValLow(p, k + 1) = vp + g /\ Out(k + 1) = 0
      BY <2>3, <3>1, <3>2
    <3> HIDE DEF w, u, ve, vp, be, bp, Out, g
    <3>7. ve + g + 0 = vp + g + u
      BY <2>2, <3>3, <3>6
    <3> QED BY <3>7, <3>8 DEF u
  <2> QED BY <2>5, <2>6, <2>7
<1>5. ValLow(e, n) + Out(n) = ValLow(p, n) + Weight(x)
  <2> DEFINE S == {t \in Nat : x + t <= n =>
                     ValLow(e, x + t) + Out(x + t) = ValLow(p, x + t) + Weight(x)}
  <2>1. 0 \in S
    <3>1. ValLow(e, x) = ValLow(p, x)
      <4>1. \A k \in 0 .. x - 1 : k \in 0 .. n - 1 /\ ~(k >= x)
        BY <1>0
      <4>2. \A k \in 0 .. x - 1 : e[k] = p[k]
        BY <1>2, <4>1
      <4> QED BY <1>0, <1>3, <4>2, SumSame
    <3>2. Out(x) = Weight(x) /\ x + 0 = x
      BY <1>0, <1>f
    <3> QED BY <3>1, <3>2
  <2>2. ASSUME NEW t \in Nat, t \in S PROVE t + 1 \in S
    <3> SUFFICES ASSUME x + (t + 1) <= n
                 PROVE  ValLow(e, x + (t + 1)) + Out(x + (t + 1)) = ValLow(p, x + (t + 1)) + Weight(x)
      OBVIOUS
    <3>1. x + t \in x .. n - 1 /\ x + t <= n /\ x + (t + 1) = (x + t) + 1
      BY <1>0
    <3> HIDE DEF Out
    <3>2. ValLow(e, x + t) + Out(x + t) = ValLow(p, x + t) + Weight(x)
      BY <2>2, <3>1
    <3> QED BY <1>4, <3>1, <3>2
  <2>3. Nat \subseteq S
    <3> HIDE DEF S
    <3> QED BY <2>1, <2>2, NatSetInduction
  <2>4. n - x \in Nat /\ x + (n - x) = n /\ n <= n
    BY <1>0
  <2> QED BY <2>3, <2>4
<1>6. ~Full(n)
  <2> SUFFICES ASSUME Full(n) PROVE FALSE
    OBVIOUS
  <2>1. ValLow(e, n) + Weight(n) = Val(p) + Weight(x)
    BY <1>5, SumsAre
  <2>2. ValLow(e, n) \in Nat /\ Weight(n) \in Nat /\ Weight(x) \in Nat /\ Val(p) \in Nat
    BY <1>0, <1>3, SumsAre, WeightsAre
  <2> QED BY <2>1, <2>2
<1>7. Val(e) = ValLow(e, n) /\ Val(p) = ValLow(p, n) /\ ValLow(e, n) \in Nat
  BY <1>0, <1>3, SumsAre
<1>8. Val(e) = Val(p) + Weight(x)
  BY <1>5, <1>6, <1>7
<1> QED BY <1>3, <1>8 DEF e

(* A two-byte product lands at its place, its carry included.                 *)
LEMMA ProductAdds ==
  ASSUME NEW n \in 0 .. Last, NEW p \in Limbs(n), NEW k \in 0 .. n - 2,
         NEW lo \in Byte, NEW hi \in Byte,
         Val(p) + (lo + Radix * hi) * Weight(k) < Weight(n)
  PROVE  /\ AddProduct(p, k, lo, hi) \in Limbs(n)
         /\ Val(AddProduct(p, k, lo, hi)) = Val(p) + (lo + Radix * hi) * Weight(k)
<1> DEFINE low  == p[k] + lo
           d1   == low \div Radix
           high == p[k + 1] + hi + d1
           d2   == high \div Radix
           p1   == [p EXCEPT ![k] = low % Radix]
           sum  == [p EXCEPT ![k] = low % Radix, ![k + 1] = high % Radix]
           w    == Weight(k)
           all  == Val(p) + (lo + Radix * hi) * w
<1>0. /\ n \in Nat /\ k \in 0 .. n - 1 /\ k + 1 \in 0 .. n - 1 /\ k + 2 \in 0 .. n
      /\ k \in 0 .. Last - 1 /\ k + 1 \in 0 .. Last - 1 /\ k \in 0 .. Last
      /\ k + 2 \in 0 .. Last /\ k + 1 # k /\ (k + 1) + 1 = k + 2
  BY Sizes
<1>1. DOMAIN p = 0 .. n - 1 /\ \A x \in 0 .. n - 1 : p[x] \in Byte
  BY DEF Limbs
<1>n. \A v \in Byte : v \in Nat
  BY Sizes
<1>2. low % Radix \in Byte /\ d1 \in {0, 1} /\ low = d1 * Radix + (low % Radix)
  <2>1. 0 \in {0, 1} /\ p[k] \in Byte /\ p[k] + lo + 0 = p[k] + lo
    BY <1>0, <1>1, <1>n
  <2> QED BY <2>1, ChainByte
<1>3. high % Radix \in Byte /\ d2 \in {0, 1} /\ high = d2 * Radix + (high % Radix)
  <2> HIDE DEF d1
  <2> QED BY <1>0, <1>1, <1>2, ChainByte
<1>4. p1 \in Limbs(n) /\ sum \in Limbs(n)
  BY <1>1, <1>2, <1>3 DEF Limbs
<1>5. /\ p1[k] = low % Radix /\ sum[k + 1] = high % Radix /\ p1[k + 1] = p[k + 1]
      /\ \A x \in 0 .. n - 1 : x # k => p[x] = p1[x]
      /\ \A x \in 0 .. n - 1 : x # k + 1 => p1[x] = sum[x]
  BY <1>0, <1>1
<1>p. p[k] \in Nat /\ p[k + 1] \in Nat /\ lo \in Nat /\ hi \in Nat /\ w \in Nat /\ Val(p) \in Nat
  BY <1>0, <1>1, <1>n, WeightsAre, SumsAre
<1>w. Weight(k + 1) = Radix * w /\ Weight(k + 2) = Radix * (Radix * w)
  BY <1>0, WeightsAre
<1>q. Radix * (Radix * w) \in Nat
  <2>1. Weight(k + 2) \in Nat
    BY <1>0, WeightsAre
  <2> QED BY <1>w, <2>1
<1> HIDE DEF p1, sum
<1>6. Val(p1) = Val(p) + ((low % Radix) - p[k]) * w
  BY <1>0, <1>4, <1>5, SumUpdate
<1>7. Val(sum) = Val(p1) + ((high % Radix) - p[k + 1]) * (Radix * w)
  BY <1>0, <1>4, <1>5, <1>w, SumUpdate
<1>8. Val(sum) + d2 * (Radix * (Radix * w)) = all
  <2> DEFINE v == Val(p)  v1 == Val(p1)  v2 == Val(sum)
             a == p[k]  b == p[k + 1]  la == low % Radix  hb == high % Radix
  <2>1. v1 = v + (la - a) * w /\ v2 = v1 + (hb - b) * (Radix * w)
    BY <1>6, <1>7
  <2>2. a + lo = d1 * Radix + la /\ b + hi + d1 = d2 * Radix + hb
    BY <1>2, <1>3
  <2>3. /\ v \in Nat /\ a \in Nat /\ b \in Nat /\ la \in Nat /\ hb \in Nat
        /\ d1 \in Nat /\ d2 \in Nat /\ Radix \in Nat /\ w \in Nat /\ lo \in Nat /\ hi \in Nat
    <3>1. la \in Nat /\ hb \in Nat
      BY <1>2, <1>3, <1>n
    <3>2. d1 \in Nat /\ d2 \in Nat
      <4> HIDE DEF d1, d2
      <4> QED BY <1>2, <1>3
    <3>3. Radix \in Nat
      BY Sizes
    <3> QED BY <1>p, <3>1, <3>2, <3>3
  <2> HIDE DEF v, v1, v2, a, b, la, hb, d1, d2, w, low, high
  <2>4. (la - a) * w = lo * w - d1 * (Radix * w)
    <3>1. la - a = lo - d1 * Radix
      <4> DEFINE g == d1 * Radix
      <4>1. g \in Nat /\ a + lo = g + la
        BY <2>2, <2>3
      <4> HIDE DEF g
      <4>2. la - a = lo - g
        BY <2>3, <4>1
      <4> QED BY <4>2 DEF g
    <3>2. (lo - d1 * Radix) * w = lo * w - d1 * (Radix * w)
      BY <2>3, Z3
    <3> QED BY <3>1, <3>2
  <2>5. (hb - b) * (Radix * w) = hi * (Radix * w) + d1 * (Radix * w) - d2 * (Radix * (Radix * w))
    <3> DEFINE y == Radix * w
    <3>1. hb - b = (hi + d1) - d2 * Radix
      <4> DEFINE g == d2 * Radix
      <4>1. g \in Nat /\ b + hi + d1 = g + hb
        BY <2>2, <2>3
      <4> HIDE DEF g
      <4>2. hb - b = (hi + d1) - g
        BY <2>3, <4>1
      <4> QED BY <4>2 DEF g
    <3>2. y \in Nat
      BY <2>3
    <3> HIDE DEF y
    <3>3. ((hi + d1) - d2 * Radix) * y = hi * y + d1 * y - d2 * (Radix * y)
      BY <2>3, <3>2, Z3
    <3> QED BY <3>1, <3>3 DEF y
  <2>6. (lo + Radix * hi) * w = lo * w + hi * (Radix * w)
    BY <2>3, Z3
  <2> DEFINE f == lo * w  g == hi * (Radix * w)  h == d1 * (Radix * w)
             z == d2 * (Radix * (Radix * w))
  <2>7. f \in Nat /\ g \in Nat /\ h \in Nat /\ z \in Nat
    BY <2>3
  <2>8. v1 = v + (f - h) /\ v2 = v1 + (g + h - z)
    BY <2>1, <2>4, <2>5
  <2>9. all = v + (f + g)
    BY <2>6 DEF v
  <2> HIDE DEF f, g, h, z, all
  <2>10. v2 + z = v + (f + g)
    BY <2>3, <2>7, <2>8
  <2> QED BY <2>9, <2>10 DEF z, v2
<1> HIDE DEF all
<1>9. CASE high >= Radix
  <2>1. d2 = 1
    <3> DEFINE r == high % Radix
    <3>1. r \in Nat /\ r < Radix /\ high = d2 * Radix + r /\ Radix \in Nat
      BY <1>3, Sizes
    <3> HIDE DEF d2, r, high
    <3> QED BY <1>3, <1>9, <3>1
  <2>2. Val(sum) + Weight(k + 2) = all
    <3> DEFINE y == Radix * (Radix * w)
    <3>1. y \in Nat
      BY <1>q
    <3>2. Val(sum) + d2 * y = all
      BY <1>8
    <3> HIDE DEF y, d2
    <3>3. d2 * y = y
      BY <2>1, <3>1
    <3> QED BY <1>w, <3>2, <3>3 DEF y
  <2>3. poly_ripple(sum, k + 2) \in Limbs(n) /\ Val(poly_ripple(sum, k + 2)) = all
    <3>1. Val(sum) + Weight(k + 2) < Weight(n)
      BY <2>2 DEF all
    <3> QED BY <1>0, <1>4, <2>2, <3>1, RippleAdds
  <2>4. AddProduct(p, k, lo, hi) = poly_ripple(sum, k + 2)
    BY <1>9 DEF AddProduct, sum
  <2> QED BY <2>3, <2>4 DEF all
<1>10. CASE ~(high >= Radix)
  <2>1. d2 = 0
    <3> DEFINE r == high % Radix
    <3>1. r \in Nat /\ high = d2 * Radix + r /\ Radix \in Nat
      BY <1>3, <1>n, Sizes
    <3> HIDE DEF d2, r, high
    <3> QED BY <1>3, <1>10, <3>1
  <2>2. Val(sum) = all
    <3> DEFINE y == Radix * (Radix * w)
    <3>1. y \in Nat /\ Val(sum) \in Nat
      <4>1. ValLow(sum, n) \in Nat /\ Val(sum) = ValLow(sum, n)
        BY <1>0, <1>4, SumsAre
      <4> QED BY <1>q, <4>1
    <3>2. Val(sum) + d2 * y = all
      BY <1>8
    <3> HIDE DEF y, d2
    <3>3. d2 * y = 0
      BY <2>1, <3>1
    <3> QED BY <3>1, <3>2, <3>3
  <2>4. AddProduct(p, k, lo, hi) = sum
    BY <1>10 DEF AddProduct, sum
  <2> QED BY <1>4, <2>2, <2>4 DEF all
<1> QED BY <1>9, <1>10

-----------------------------------------------------------------------------
(* Products of two bytes                                                    *)

LEMMA ByteProduct ==
  ASSUME NEW a \in Byte, NEW b \in Byte
  PROVE  /\ a * b \in Nat /\ a * b <= (Radix - 1) * (Radix - 1)
         /\ (a * b) % Radix \in Byte /\ (a * b) \div Radix \in Byte
         /\ a * b = ((a * b) \div Radix) * Radix + ((a * b) % Radix)
<1> DEFINE t == a * b
<1>1. a \in Nat /\ b \in Nat /\ a <= Radix - 1 /\ b <= Radix - 1 /\ Radix \in Nat /\ Radix >= 16
  BY Sizes
<1>2. t \in Nat /\ t <= (Radix - 1) * (Radix - 1)
  <2>1. a * b <= (Radix - 1) * b
    BY <1>1, Z3
  <2>2. (Radix - 1) * b <= (Radix - 1) * (Radix - 1)
    BY <1>1, Z3
  <2>3. a * b \in Nat /\ (Radix - 1) * b \in Nat /\ (Radix - 1) * (Radix - 1) \in Nat
    BY <1>1
  <2> QED BY <2>1, <2>2, <2>3
<1>3. (Radix - 1) * (Radix - 1) < ((Radix - 1) + 1) * Radix
  <2>1. (Radix - 1) * (Radix - 1) <= (Radix - 1) * Radix
    BY <1>1, Z3
  <2>2. ((Radix - 1) + 1) * Radix = (Radix - 1) * Radix + Radix
    BY <1>1, Z3
  <2>3. (Radix - 1) * (Radix - 1) \in Nat /\ (Radix - 1) * Radix \in Nat
    BY <1>1
  <2> QED BY <1>1, <2>1, <2>2, <2>3
<1> HIDE DEF t
<1>4. t < ((Radix - 1) + 1) * Radix
  <2>1. (Radix - 1) * (Radix - 1) \in Nat /\ ((Radix - 1) + 1) * Radix \in Nat
    BY <1>1
  <2> QED BY <1>2, <1>3, <2>1
<1>5. t % Radix \in Byte /\ t \div Radix \in 0 .. Radix - 1 /\ t = (t \div Radix) * Radix + (t % Radix)
  <2>1. Radix - 1 \in Nat
    BY <1>1
  <2> QED BY <1>2, <1>4, <2>1, ByteSum
<1> QED BY <1>2, <1>5, Sizes DEF t

(* A byte-wide carry is enough for the compact row: a byte, a product of two  *)
(* and a carry byte make two bytes.                                         *)
LEMMA CompactStep ==
  ASSUME NEW a \in Byte, NEW b \in Byte, NEW x \in Byte, NEW c \in Byte
  PROVE  LET t     == a * b
             low   == x + (t % Radix)
             high  == ((t \div Radix) + (low \div Radix)) % Radix
             sum   == (low % Radix) + c
             carry == (high + (sum \div Radix)) % Radix
         IN  /\ sum % Radix \in Byte /\ carry \in Byte
             /\ (sum % Radix) + Radix * carry = x + t + c
<1> DEFINE t == a * b  t0 == t % Radix  t1 == t \div Radix
           low == x + t0  d1 == low \div Radix  l0 == low % Radix
           high == (t1 + d1) % Radix
           sum == l0 + c  d2 == sum \div Radix  s0 == sum % Radix
<1>0. Radix \in Nat /\ Radix >= 16 /\ x \in Nat /\ c \in Nat /\ x <= Radix - 1 /\ c <= Radix - 1
  BY Sizes
<1>n. \A v \in Byte : v \in Nat /\ v <= Radix - 1
  BY Sizes
<1>1. /\ t \in Nat /\ t <= (Radix - 1) * (Radix - 1) /\ t0 \in Byte /\ t1 \in Byte
      /\ t = t1 * Radix + t0
  BY ByteProduct
<1> HIDE DEF t, t0, t1
<1>2. d1 \in {0, 1} /\ l0 \in Byte /\ low = d1 * Radix + l0
  <2>1. x + t0 + 0 = x + t0
    BY <1>0, <1>1, <1>n
  <2> QED BY <1>1, <2>1, ChainByte
<1>3. d2 \in {0, 1} /\ s0 \in Byte /\ sum = d2 * Radix + s0
  <2> HIDE DEF l0
  <2>1. l0 + c + 0 = l0 + c
    BY <1>0, <1>2, <1>n
  <2> QED BY <1>2, <2>1, ChainByte
<1>4. low = x + t0 /\ sum = l0 + c
  OBVIOUS
<1>5. /\ t0 \in Nat /\ t1 \in Nat /\ d1 \in Nat /\ d2 \in Nat /\ l0 \in Nat /\ s0 \in Nat
      /\ low \in Nat
  <2> HIDE DEF d1, d2, l0, s0, low
  <2> QED BY <1>0, <1>1, <1>2, <1>3, <1>4, <1>n
<1> HIDE DEF low, d1, l0, sum, d2, s0
<1>s. (Radix - 1) * (Radix - 1) + Radix + Radix - 1 = Radix * Radix
  BY <1>0, Z3
<1>6. (t1 + d1 + d2) * Radix + s0 = x + t + c
  <2>1. (t1 + d1 + d2) * Radix = t1 * Radix + d1 * Radix + d2 * Radix
    BY <1>0, <1>5, Z3
  <2> DEFINE e == t1 * Radix  f == d1 * Radix  g == d2 * Radix
  <2>2. e \in Nat /\ f \in Nat /\ g \in Nat
    BY <1>0, <1>5
  <2>3. t = e + t0 /\ x + t0 = f + l0 /\ l0 + c = g + s0 /\ (t1 + d1 + d2) * Radix = e + f + g
    BY <1>1, <1>2, <1>3, <1>4, <2>1
  <2> HIDE DEF e, f, g
  <2>4. (e + f + g) + s0 = x + t + c
    BY <1>0, <1>1, <1>5, <2>2, <2>3
  <2> QED BY <2>3, <2>4
<1>7. t1 + d1 + d2 <= Radix - 1
  <2> SUFFICES ASSUME t1 + d1 + d2 >= Radix PROVE FALSE
    BY <1>0, <1>5
  <2> DEFINE n == t1 + d1 + d2
  <2>1. n \in Nat /\ n >= Radix
    BY <1>5
  <2>2. n * Radix + s0 = x + t + c
    BY <1>6
  <2> HIDE DEF n
  <2>3. n * Radix >= Radix * Radix
    BY <1>0, <2>1, Z3
  <2> DEFINE g == n * Radix  k == Radix * Radix  q == (Radix - 1) * (Radix - 1)
  <2>4. g \in Nat /\ k \in Nat /\ q \in Nat
    BY <1>0, <2>1
  <2>5. g + s0 = x + t + c /\ g >= k /\ q + Radix + Radix - 1 = k /\ t <= q
    BY <1>1, <1>s, <2>2, <2>3
  <2> HIDE DEF g, k, q
  <2> QED BY <1>0, <1>1, <1>5, <2>4, <2>5
<1>8. high = t1 + d1
  <2>1. t1 + d1 \in 0 .. Radix - 1
    BY <1>0, <1>5, <1>7
  <2> HIDE DEF high
  <2>2. (t1 + d1) % Radix = t1 + d1
    BY <1>0, <2>1, ModSmall
  <2> QED BY <2>2 DEF high
<1>9. (high + d2) % Radix = t1 + d1 + d2
  <2>1. high + d2 \in 0 .. Radix - 1 /\ high + d2 = t1 + d1 + d2
    BY <1>0, <1>5, <1>7, <1>8
  <2> HIDE DEF high
  <2>2. (high + d2) % Radix = high + d2
    BY <1>0, <2>1, ModSmall
  <2> QED BY <2>1, <2>2
<1> DEFINE carry == (high + d2) % Radix
<1>10. carry \in Byte /\ s0 \in Byte /\ s0 + Radix * carry = x + t + c
  <2>1. t1 + d1 + d2 \in 0 .. Radix - 1
    BY <1>0, <1>5, <1>7
  <2>2. carry \in Byte
    BY <1>9, <2>1, Sizes
  <2> DEFINE n == t1 + d1 + d2
  <2>3. n \in Nat /\ carry = n /\ n * Radix + s0 = x + t + c
    BY <1>5, <1>6, <1>9
  <2> HIDE DEF n, carry
  <2>4. Radix * n = n * Radix /\ n * Radix \in Nat
    BY <1>0, <2>3, Z3
  <2>5. s0 + n * Radix = n * Radix + s0
    BY <1>5, <2>4
  <2> QED BY <1>3, <2>2, <2>3, <2>4, <2>5
<1> QED BY <1>10 DEF t, t0, t1, low, d1, l0, high, sum, d2, s0, carry

(* The step of Profile A's table build.                                      *)
LEMMA ShoupRowExact ==
  ASSUME NEW rj \in Byte
  PROVE  /\ ShoupRow(rj) \in [Byte -> [lo : Byte, hi : Byte]]
         /\ \A x \in Byte : ShoupRow(rj)[x].lo + Radix * ShoupRow(rj)[x].hi = x * rj
<1> DEFINE X == [lo : Byte, hi : Byte, carry : Nat]
           first == [lo |-> 0, hi |-> 0, carry |-> 0]
           next(prev) == LET low  == prev.lo + rj + prev.carry
                             high == prev.hi + (low \div Radix)
                         IN  [lo |-> low % Radix, hi |-> high % Radix,
                              carry |-> high \div Radix]
           F == [x \in 1 .. Radix - 1 |-> [prev \in X |-> next(prev)]]
           unfold(row) ==
             [x \in Byte |->
                IF x = 0 THEN [lo |-> 0, hi |-> 0, carry |-> 0]
                ELSE LET prev == row[x - 1]
                         low  == prev.lo + rj + prev.carry
                         high == prev.hi + (low \div Radix)
                     IN  [lo |-> low % Radix, hi |-> high % Radix,
                          carry |-> high \div Radix]]
           row == CHOOSE g : g = unfold(g)
<1>0. Radix \in Nat /\ Radix >= 16 /\ Byte = 0 .. Radix - 1 /\ Radix - 1 \in Nat /\ rj \in Nat
  BY Sizes
<1>1. \A prev \in X : next(prev) \in X
  <2> TAKE prev \in X
  <2> DEFINE low == prev.lo + rj + prev.carry
  <2>1. low \in Nat /\ prev.hi \in Nat
    BY <1>0
  <2> HIDE DEF low
  <2>2. low \div Radix \in Nat /\ low % Radix \in Byte
    BY <1>0, <2>1, DivParts
  <2> DEFINE high == prev.hi + (low \div Radix)
  <2>3. high \in Nat
    BY <2>1, <2>2
  <2> HIDE DEF high
  <2>4. high \div Radix \in Nat /\ high % Radix \in Byte
    BY <1>0, <2>3, DivParts
  <2> QED BY <2>2, <2>4 DEF low, high
<1>2. F \in [1 .. Radix - 1 -> [X -> X]]
  <2> HIDE DEF X, next
  <2> QED BY <1>1
<1>3. PICK p \in [0 .. Radix - 1 -> X] : Iterates(p, first, F, Radix - 1)
  <2>1. first \in X
    BY <1>0
  <2> HIDE DEF X, F, first
  <2> QED BY <1>0, <1>2, <2>1, Iteration
<1>4. \A x \in Byte : p[x] = IF x = 0 THEN first ELSE next(p[x - 1])
  <2> TAKE x \in Byte
  <2>1. CASE x # 0
    <3>1. x \in 1 .. Radix - 1 /\ x - 1 \in 0 .. Radix - 1
      BY <1>0, <2>1
    <3>2. p[x] = F[x][p[x - 1]] /\ p[x - 1] \in X
      BY <1>3, <3>1 DEF Iterates
    <3> HIDE DEF X, next, first
    <3> QED BY <2>1, <3>1, <3>2
  <2> HIDE DEF next, X, F
  <2> QED BY <1>3, <2>1 DEF Iterates
<1>5. p = unfold(p)
  <2>1. p = [x \in Byte |-> IF x = 0 THEN first ELSE next(p[x - 1])]
    <3> HIDE DEF first, next, X
    <3> QED BY <1>0, <1>4
  <2> QED BY <2>1
<1>6. row = unfold(row)
  <2> HIDE DEF unfold
  <2> QED BY <1>5
<1>7. \A x \in Byte : row[x] = IF x = 0 THEN first ELSE next(row[x - 1])
  <2> HIDE DEF row
  <2> QED BY <1>6
<1>8. ShoupRow(rj) = [x \in Byte |-> [lo |-> row[x].lo, hi |-> row[x].hi]]
  BY DEF ShoupRow
<1> HIDE DEF row
<1>a. row[0] = first
  <2>1. 0 \in Byte
    BY <1>0
  <2> HIDE DEF first, next
  <2> QED BY <1>7, <2>1
<1>b. \A x \in Byte : x + 1 \in Byte => row[x + 1] = next(row[x])
  <2> HIDE DEF first, next
  <2> TAKE x \in Byte
  <2>1. x + 1 # 0 /\ (x + 1) - 1 = x
    BY <1>0
  <2> QED BY <1>7, <2>1
<1> DEFINE Good(x) == /\ row[x].lo \in Byte /\ row[x].hi \in Byte /\ row[x].carry = 0
                      /\ row[x].lo + Radix * row[x].hi = x * rj
<1>9. \A x \in Byte : Good(x)
  <2> DEFINE S == {x \in Nat : x <= Radix - 1 => Good(x)}
  <2>1. 0 \in S
    <3>1. row[0].lo = 0 /\ row[0].hi = 0 /\ row[0].carry = 0
      BY <1>a
    <3>2. 0 \in Byte /\ 0 + Radix * 0 = 0 * rj
      BY <1>0
    <3>3. Good(0)
      BY <3>1, <3>2
    <3> HIDE DEF Good
    <3> QED BY <3>3
  <2>2. ASSUME NEW x \in Nat, x \in S PROVE x + 1 \in S
    <3> SUFFICES ASSUME x + 1 <= Radix - 1 PROVE Good(x + 1)
      OBVIOUS
    <3>1. x + 1 \in Byte /\ x \in Byte /\ x <= Radix - 1 /\ x + 1 # 0 /\ (x + 1) - 1 = x
      BY <1>0
    <3>2. Good(x)
      BY <2>2, <3>1
    <3> DEFINE l == row[x].lo  h == row[x].hi
               low == l + rj + row[x].carry  high == h + (low \div Radix)
    <3>3. /\ row[x + 1].lo = low % Radix /\ row[x + 1].hi = high % Radix
          /\ row[x + 1].carry = high \div Radix
      <4>1. row[x + 1] = next(row[x])
        <5> HIDE DEF next
        <5> QED BY <1>b, <3>1
      <4> HIDE DEF Good, S
      <4> QED BY <4>1
    <3>4. l \in Byte /\ h \in Byte /\ row[x].carry = 0 /\ l + Radix * h = x * rj
      BY <3>2
    <3> DEFINE d == low \div Radix  l1 == low % Radix
    <3>5. d \in {0, 1} /\ l1 \in Byte /\ l + rj = d * Radix + l1
      <4>0. low = l + rj + row[x].carry /\ row[x].carry = 0
        BY <3>4
      <4> HIDE DEF Good, l, low
      <4>1. low = l + rj + 0
        BY <4>0
      <4>2. l + rj + 0 = l + rj
        BY <1>0, <3>4
      <4> QED BY <3>4, <4>1, <4>2, ChainByte
    <3>6. high = h + d
      OBVIOUS
    <3> HIDE DEF Good, l, h, low, high, d, l1
    <3>7. (h + d) * Radix + l1 = (x + 1) * rj
      <4>1. l \in Nat /\ h \in Nat /\ d \in Nat /\ l1 \in Nat
        BY <1>0, <3>4, <3>5
      <4>2. (h + d) * Radix = Radix * h + d * Radix /\ (x + 1) * rj = x * rj + rj
        BY <1>0, <4>1, Z3
      <4> DEFINE e == Radix * h  f == d * Radix  g == x * rj
      <4>3. e \in Nat /\ f \in Nat /\ g \in Nat
        BY <1>0, <4>1
      <4>4. l + e = g /\ l + rj = f + l1
        BY <3>4, <3>5
      <4> HIDE DEF e, f, g
      <4>5. (e + f) + l1 = g + rj
        <5>1. rj \in Nat
          BY <1>0
        <5>2. l \in Nat /\ l1 \in Nat
          BY <4>1
        <5> QED BY <4>3, <4>4, <5>1, <5>2
      <4> QED BY <4>2, <4>5 DEF e, f, g
    <3>8. h + d <= Radix - 1
      <4> SUFFICES ASSUME h + d >= Radix PROVE FALSE
        BY <1>0, <3>4, <3>5
      <4> DEFINE n == h + d  q == (x + 1) * rj  k == (Radix - 1) * (Radix - 1)
      <4>1. n \in Nat /\ n >= Radix /\ l1 \in Nat
        BY <1>0, <3>4, <3>5
      <4>2. q <= k /\ q \in Nat
        BY <3>1, ByteProduct
      <4>3. k = Radix * Radix - Radix - Radix + 1
        BY <1>0, Z3
      <4>4. n * Radix + l1 = q
        BY <3>7
      <4> HIDE DEF n, q, k
      <4>5. n * Radix >= Radix * Radix
        BY <1>0, <4>1, Z3
      <4> DEFINE e == n * Radix  f == Radix * Radix
      <4>6. e \in Nat /\ f \in Nat /\ e >= f /\ e + l1 = q /\ k = f - Radix - Radix + 1
        BY <1>0, <4>1, <4>3, <4>4, <4>5
      <4> HIDE DEF e, f
      <4> QED BY <1>0, <4>1, <4>2, <4>6
    <3>9. h + d \in 0 .. Radix - 1 /\ high = h + d
      BY <1>0, <3>4, <3>5, <3>6, <3>8
    <3>10. high % Radix = h + d /\ high \div Radix = 0
      <4>1. Radix > 0
        BY <1>0
      <4> QED BY <1>0, <3>9, <4>1, ModSmall
    <3>11. l1 + Radix * (h + d) = (x + 1) * rj
      <4> DEFINE n == h + d
      <4>1. n \in Nat /\ l1 \in Nat /\ n * Radix + l1 = (x + 1) * rj
        BY <1>0, <3>5, <3>7, <3>9
      <4> HIDE DEF n
      <4>2. Radix * n = n * Radix /\ n * Radix \in Nat
        BY <1>0, <4>1, Z3
      <4>3. l1 + n * Radix = n * Radix + l1
        BY <4>1, <4>2
      <4> QED BY <4>1, <4>2, <4>3 DEF n
    <3>12. /\ row[x + 1].lo = l1 /\ row[x + 1].hi = h + d /\ row[x + 1].carry = 0
           /\ h + d \in Byte
      BY <1>0, <3>3, <3>9, <3>10 DEF l1
    <3> QED BY <3>5, <3>11, <3>12 DEF Good
  <2>3. Nat \subseteq S
    <3> HIDE DEF S
    <3> QED BY <2>1, <2>2, NatSetInduction
  <2>4. \A x \in Byte : x \in Nat /\ x <= Radix - 1
    BY <1>0
  <2> HIDE DEF Good
  <2> QED BY <2>3, <2>4
<1> DEFINE tab == ShoupRow(rj)
<1>10. tab \in [Byte -> [lo : Byte, hi : Byte]]
  BY <1>8, <1>9
<1>11. \A x \in Byte : tab[x].lo + Radix * tab[x].hi = x * rj
  BY <1>8, <1>9
<1> QED BY <1>10, <1>11

-----------------------------------------------------------------------------
(* The reduction                                                            *)

HighPart(p) == [k \in 0 .. NR |-> ShiftHigh(p)[NR + k]]
LowPart(p)  == [k \in 0 .. NR |-> IF k < NR THEN p[k] ELSE p[k] % 4]

LEMMA Quarters ==
  ASSUME NEW b \in Byte
  PROVE  /\ b % 4 \in 0 .. 3 /\ b % 4 \in Byte
         /\ b \div 4 \in Nat /\ (b \div 4) + 1 <= Radix \div 4 /\ b = 4 * (b \div 4) + (b % 4)
<1>1. b \in Nat /\ b <= Radix - 1 /\ Radix \in Nat /\ Radix >= 16
  BY Sizes
<1> DEFINE q == b \div 4  r == b % 4  z == Radix \div 4
<1>2. q \in Nat /\ r \in 0 .. 3 /\ b = q * 4 + r
  BY <1>1, DivParts
<1>3. z \in Nat /\ 4 * z = Radix
  BY Sizes
<1> HIDE DEF q, r, z
<1>4. q + 1 <= z
  BY <1>1, <1>2, <1>3
<1>5. r \in Byte
  BY <1>1, <1>2, Sizes
<1> QED BY <1>2, <1>4, <1>5 DEF q, r, z

(* The high part of the product, shifted by two bits, is its quotient by       *)
(* 2^130, and what stays below is the remainder.                             *)
LEMMA SplitExact ==
  ASSUME NEW p \in Limbs(Last)
  PROVE  /\ LowPart(p) \in Limbs(NR + 1) /\ HighPart(p) \in Limbs(NR + 1)
         /\ ShiftHigh(p) \in Limbs(Last) /\ Top \in Nat /\ Top > 0 /\ Top = 4 * Weight(NR)
         /\ Val(HighPart(p)) = Val(p) \div Top /\ Val(LowPart(p)) = Val(p) % Top
<1> DEFINE h == HighPart(p)  l == LowPart(p)  w == Weight(NR)  c == p[NR] % 4
           base == ValLow(p, NR)
           z == Radix \div 4
<1>0. /\ NR \in Nat /\ NR >= 1 /\ Last = 2 * NR + 1 /\ Last \in 0 .. Last /\ NR \in 0 .. Last
      /\ NR + 1 \in 0 .. Last /\ NR \in 0 .. Last - 1 /\ z \in Nat /\ 4 * z = Radix
      /\ Radix \in Nat
  BY Sizes
<1>n. \A v \in Byte : v \in Nat /\ v <= Radix - 1
  BY Sizes
<1>1. DOMAIN p = 0 .. Last - 1 /\ \A k \in 0 .. Last - 1 : p[k] \in Byte
  BY DEF Limbs
<1>2. /\ \A k \in 0 .. NR - 1 : l[k] = p[k]
      /\ l[NR] = c /\ DOMAIN l = 0 .. NR
  BY <1>0 DEF LowPart
<1>3. l \in Limbs(NR + 1)
  <2>1. \A k \in 0 .. NR : l[k] \in Byte
    BY <1>0, <1>1, <1>2, Quarters
  <2>2. 0 .. (NR + 1) - 1 = 0 .. NR
    BY <1>0
  <2> QED BY <2>1, <2>2 DEF LowPart, Limbs
<1>4. \A k \in 0 .. NR :
        h[k] = (p[NR + k] \div 4) + (IF k < NR THEN (p[NR + k + 1] % 4) * z ELSE 0)
  <2> TAKE k \in 0 .. NR
  <2>1. NR + k \in 0 .. Last - 1 /\ ~(NR + k < NR) /\ (NR + k < 2 * NR <=> k < NR)
    BY <1>0
  <2> QED BY <1>1, <2>1 DEF HighPart, ShiftHigh
<1>5. \A k \in 0 .. Last - 1 :
        (p[k] \div 4) + (IF k < 2 * NR THEN (p[k + 1] % 4) * z ELSE 0) \in Byte
  <2> TAKE k \in 0 .. Last - 1
  <2> DEFINE q == p[k] \div 4  r == p[k + 1] % 4
  <2>1. q \in Nat /\ q + 1 <= z
    BY <1>1, Quarters
  <2>2. CASE k < 2 * NR
    <3>1. k + 1 \in 0 .. Last - 1
      BY <1>0, <2>2
    <3>2. r \in 0 .. 3
      BY <1>1, <3>1, Quarters
    <3> HIDE DEF q, r, z
    <3>3. q + r * z \in Nat /\ q + r * z <= Radix - 1
      <4>1. r = 0 \/ r = 1 \/ r = 2 \/ r = 3
        BY <3>2
      <4>2. 0 * z = 0 /\ 1 * z = z
        BY <1>0
      <4> QED BY <1>0, <2>1, <4>1, <4>2
    <3> QED BY <2>2, <3>3, Sizes DEF q, r
  <2>3. CASE ~(k < 2 * NR)
    <3> HIDE DEF q, z
    <3>1. q + 0 \in Nat /\ q + 0 <= Radix - 1
      BY <1>0, <2>1
    <3> QED BY <2>3, <3>1, Sizes DEF q
  <2> QED BY <2>2, <2>3
<1>6. ShiftHigh(p) \in Limbs(Last)
  <2>1. \A k \in 0 .. Last - 1 : ShiftHigh(p)[k] \in Byte
    BY <1>1, <1>5 DEF ShiftHigh
  <2> QED BY <1>1, <2>1 DEF ShiftHigh, Limbs
<1>7. h \in Limbs(NR + 1)
  <2>1. \A k \in 0 .. NR : NR + k \in 0 .. Last - 1
    BY <1>0
  <2>2. \A k \in 0 .. NR : h[k] \in Byte
    BY <1>6, <2>1 DEF HighPart, Limbs
  <2>3. 0 .. (NR + 1) - 1 = 0 .. NR
    BY <1>0
  <2> QED BY <2>2, <2>3 DEF HighPart, Limbs
<1> HIDE DEF h, l
<1>w. w \in Nat /\ w >= 1 /\ base \in Nat /\ base + 1 <= w /\ c \in 0 .. 3
  BY <1>0, <1>1, WeightsAre, SumBound, Quarters
<1>8. Val(l) = base + c * w
  <2>1. ValLow(l, NR) = base
    BY <1>0, <1>2, <1>3, SumSame
  <2>2. Val(l) = ValLow(l, NR + 1) /\ ValLow(l, NR + 1) = ValLow(l, NR) + l[NR] * w
    BY <1>0, <1>3, SumsAre
  <2> QED BY <1>2, <2>1, <2>2
<1> DEFINE rest(k) == IF k <= NR THEN (p[NR + k] % 4) * Weight(NR + k) ELSE 0
           Good(k) == 4 * (ValLow(h, k) * w) + base + c * w = ValLow(p, NR + k) + rest(k)
<1>9. Good(0)
  <2>1. ValLow(h, 0) = 0 /\ NR + 0 = NR /\ 0 <= NR
    BY <1>0, <1>7, SumsAre
  <2>2. c * w \in Nat /\ 0 * w = 0
    BY <1>w
  <2>3. rest(0) = c * w
    BY <2>1
  <2> DEFINE f == c * w
  <2> HIDE DEF f, w, base, rest
  <2>4. 4 * 0 + base + f = base + f
    BY <1>w, <2>2 DEF f
  <2> QED BY <2>1, <2>2, <2>3, <2>4 DEF f, base
<1>10. ASSUME NEW k \in 0 .. NR, Good(k) PROVE Good(k + 1)
  <2>1. /\ NR + k \in 0 .. Last - 1 /\ NR + k <= Last /\ k \in 0 .. Last /\ k \in 0 .. (NR + 1) - 1
        /\ NR + (k + 1) = (NR + k) + 1 /\ NR + k \in 0 .. Last /\ k \in Nat
    BY <1>0
  <2> DEFINE y == Weight(NR + k)  u == Weight(k)  b == p[NR + k]
             v == ValLow(h, k)  s == ValLow(p, NR + k)
             q == b \div 4  r == b % 4
  <2>2. y = w * u /\ u \in Nat /\ y \in Nat
    BY <1>0, <2>1, WeightsAre, WeightProduct
  <2>3. /\ ValLow(h, k + 1) = v + h[k] * u /\ ValLow(p, NR + (k + 1)) = s + b * y
        /\ v \in Nat /\ s \in Nat
    <3>1. ValLow(h, k + 1) = v + h[k] * u /\ v \in Nat
      BY <1>0, <1>7, <2>1, SumsAre
    <3>2. ValLow(p, NR + (k + 1)) = s + b * y /\ s \in Nat
      BY <1>0, <2>1, SumsAre
    <3> QED BY <3>1, <3>2
  <2>4. q \in Nat /\ r \in Nat /\ b = 4 * q + r /\ b \in Nat
    BY <1>1, <1>n, <2>1, Quarters
  <2>5. 4 * (v * w) + base + c * w = s + r * y
    BY <1>10
  <2>6. CASE k < NR
    <3> DEFINE t == p[NR + (k + 1)] % 4
    <3>1. NR + (k + 1) \in 0 .. Last - 1 /\ k + 1 <= NR /\ NR + k + 1 = NR + (k + 1)
      BY <1>0, <2>6
    <3>2. t \in Nat
      <4> DEFINE next == p[NR + (k + 1)]
      <4>1. next \in Byte
        BY <1>1, <3>1
      <4> HIDE DEF next
      <4>2. next % 4 \in Nat
        BY <4>1, Quarters
      <4> QED BY <4>2 DEF next
    <3>3. h[k] = q + t * z
      BY <1>4, <2>6, <3>1
    <3>4. Weight(NR + (k + 1)) = Radix * y
      BY <2>1, WeightsAre
    <3>5. rest(k + 1) = t * (Radix * y)
      BY <3>1, <3>4
    <3> HIDE DEF t, q, r, b, v, s, y, u, w, z, base, c, rest
    <3>6. 4 * ((v + (q + t * z) * u) * w) = 4 * (v * w) + 4 * (q * y) + t * (Radix * y)
      <4>1. (v + (q + t * z) * u) * w = v * w + q * (w * u) + (t * z) * (w * u)
        BY <1>0, <1>w, <2>2, <2>3, <2>4, <3>2, Z3
      <4>2. 4 * ((t * z) * y) = t * (Radix * y)
        <5>1. 4 * ((t * z) * y) = t * ((4 * z) * y)
          BY <1>0, <2>2, <3>2, Z3
        <5> QED BY <1>0, <5>1
      <4> DEFINE e == v * w  f == q * y  g == (t * z) * y
      <4>3. e \in Nat /\ f \in Nat /\ g \in Nat
        BY <1>0, <1>w, <2>2, <2>3, <2>4, <3>2
      <4>4. (v + (q + t * z) * u) * w = e + f + g
        BY <2>2, <4>1
      <4> HIDE DEF e, f, g
      <4>5. 4 * (e + f + g) = 4 * e + 4 * f + 4 * g
        BY <4>3
      <4> QED BY <4>2, <4>4, <4>5 DEF e, f, g
    <3>7. b * y = 4 * (q * y) + r * y
      BY <2>2, <2>4, Z3
    <3> DEFINE e == v * w  f == q * y  g == t * (Radix * y)  i0 == c * w  j0 == r * y
    <3>8. e \in Nat /\ f \in Nat /\ g \in Nat /\ i0 \in Nat /\ j0 \in Nat /\ base \in Nat /\ s \in Nat
      BY <1>0, <1>w, <2>2, <2>3, <2>4, <3>2
    <3>9. 4 * e + base + i0 = s + j0
      BY <2>5
    <3> HIDE DEF e, f, g, i0, j0
    <3>10. (4 * e + 4 * f + g) + base + i0 = (s + (4 * f + j0)) + g
      BY <3>8, <3>9
    <3>11. 4 * (ValLow(h, k + 1) * w) = 4 * e + 4 * f + g
      BY <2>3, <3>3, <3>6 DEF e, f, g
    <3>12. ValLow(p, NR + (k + 1)) = s + (4 * f + j0)
      BY <2>3, <3>7 DEF f, j0
    <3>13. 4 * (ValLow(h, k + 1) * w) + base + i0 = ValLow(p, NR + (k + 1)) + rest(k + 1)
      BY <3>5, <3>10, <3>11, <3>12 DEF g
    <3> QED BY <3>13 DEF i0
  <2>7. CASE ~(k < NR)
    <3>1. k = NR /\ ~(k + 1 <= NR)
      BY <1>0, <2>7
    <3>3. h[k] = q + 0 /\ q + 0 = q
      BY <1>4, <2>4, <2>7
    <3>5. rest(k + 1) = 0
      BY <3>1
    <3> HIDE DEF q, r, b, v, s, y, u, w, z, base, c, rest
    <3>6. 4 * ((v + q * u) * w) = 4 * (v * w) + 4 * (q * y)
      <4>1. (v + q * u) * w = v * w + q * (w * u)
        BY <1>w, <2>2, <2>3, <2>4, Z3
      <4> DEFINE e == v * w  f == q * y
      <4>3. e \in Nat /\ f \in Nat
        BY <1>w, <2>2, <2>3, <2>4
      <4>4. (v + q * u) * w = e + f
        BY <2>2, <4>1
      <4> HIDE DEF e, f
      <4>5. 4 * (e + f) = 4 * e + 4 * f
        BY <4>3
      <4> QED BY <4>4, <4>5 DEF e, f
    <3>7. b * y = 4 * (q * y) + r * y
      BY <2>2, <2>4, Z3
    <3> DEFINE e == v * w  f == q * y  i0 == c * w  j0 == r * y
    <3>8. e \in Nat /\ f \in Nat /\ i0 \in Nat /\ j0 \in Nat /\ base \in Nat /\ s \in Nat
      BY <1>w, <2>2, <2>3, <2>4
    <3>9. 4 * e + base + i0 = s + j0
      BY <2>5
    <3> HIDE DEF e, f, i0, j0
    <3>10. (4 * e + 4 * f) + base + i0 = (s + (4 * f + j0)) + 0
      BY <3>8, <3>9
    <3>11. 4 * (ValLow(h, k + 1) * w) = 4 * e + 4 * f
      BY <2>3, <3>3, <3>6 DEF e, f
    <3>12. ValLow(p, NR + (k + 1)) = s + (4 * f + j0)
      BY <2>3, <3>7 DEF f, j0
    <3>13. 4 * (ValLow(h, k + 1) * w) + base + i0 = ValLow(p, NR + (k + 1)) + rest(k + 1)
      BY <3>5, <3>10, <3>11, <3>12
    <3> QED BY <3>13 DEF i0
  <2> QED BY <2>6, <2>7
<1>11. Good(NR + 1)
  <2> DEFINE S == {k \in Nat : k <= NR + 1 => Good(k)}
  <2>1. 0 \in S
    <3> HIDE DEF Good
    <3> QED BY <1>9
  <2>2. ASSUME NEW k \in Nat, k \in S PROVE k + 1 \in S
    <3> HIDE DEF Good
    <3> SUFFICES ASSUME k + 1 <= NR + 1 PROVE Good(k + 1)
      OBVIOUS
    <3>1. k \in 0 .. NR /\ k <= NR + 1
      BY <1>0
    <3> QED BY <1>10, <2>2, <3>1
  <2>3. Nat \subseteq S
    <3> HIDE DEF S
    <3> QED BY <2>1, <2>2, NatSetInduction
  <2>4. NR + 1 \in Nat /\ NR + 1 <= NR + 1
    BY <1>0
  <2> HIDE DEF Good
  <2> QED BY <2>3, <2>4
<1>12. 4 * (Val(h) * w) + (base + c * w) = Val(p) /\ Val(h) \in Nat /\ Val(p) \in Nat
  <2>1. ~(NR + 1 <= NR) /\ NR + (NR + 1) = Last
    BY <1>0
  <2>2. Val(h) = ValLow(h, NR + 1) /\ Val(p) = ValLow(p, Last)
    BY <1>0, <1>7, SumsAre
  <2>3. Val(h) \in Nat /\ Val(p) \in Nat
    <3>1. ValLow(h, NR + 1) \in Nat
      BY <1>0, <1>7, SumsAre
    <3>2. ValLow(p, Last) \in Nat
      BY <1>0, SumsAre
    <3> QED BY <2>2, <3>1, <3>2
  <2>4. 4 * (Val(h) * w) + base + c * w = Val(p) + 0
    BY <1>11, <2>1, <2>2
  <2> DEFINE e == Val(h) * w  f == c * w  v == Val(p)
  <2>5. e \in Nat /\ f \in Nat /\ v \in Nat /\ 4 * e + base + f = v + 0
    BY <1>w, <2>3, <2>4
  <2> HIDE DEF e, f, v, base
  <2>6. 4 * e + (base + f) = v
    BY <1>w, <2>5
  <2> QED BY <2>3, <2>6 DEF e, f, v
<1>13. Val(l) \in 0 .. Top - 1 /\ Top \in Nat /\ Top > 0 /\ Top = 4 * w
  <2> HIDE DEF w, base, c
  <2>1. c * w <= 3 * w /\ c * w \in Nat
    <3>1. c = 0 \/ c = 1 \/ c = 2 \/ c = 3
      BY <1>w
    <3>2. 0 * w = 0 /\ 1 * w = w
      BY <1>w
    <3> QED BY <1>w, <3>1, <3>2
  <2>2. Top = 4 * w
    BY DEF Top, w
  <2> DEFINE f == c * w
  <2> HIDE DEF f
  <2>3. base + f \in 0 .. 4 * w - 1
    BY <1>w, <2>1 DEF f
  <2>4. 4 * w \in Nat /\ 4 * w > 0
    BY <1>w
  <2> QED BY <1>8, <2>2, <2>3, <2>4 DEF f
<1>14. Val(p) = Val(h) * Top + Val(l)
  <2> DEFINE v == Val(h)
  <2>1. v \in Nat
    BY <1>12
  <2> HIDE DEF w, v
  <2>2. v * (4 * w) = 4 * (v * w)
    BY <1>w, <2>1, Z3
  <2> QED BY <1>8, <1>12, <1>13, <2>2 DEF v
<1>15. Val(p) \div Top = Val(h) /\ Val(p) % Top = Val(l)
  <2> DEFINE x == Val(h)  y == Val(l)
  <2>1. x \in Int /\ y \in 0 .. Top - 1
    BY <1>12, <1>13
  <2> HIDE DEF x, y
  <2>2. (x * Top + y) \div Top = x /\ (x * Top + y) % Top = y
    BY <1>13, <2>1, DivMod
  <2> QED BY <1>14, <2>2 DEF x, y
<1> QED BY <1>3, <1>6, <1>7, <1>13, <1>15 DEF h, l

LEMMA ReduceStep ==
  ASSUME NEW h \in Byte, NEW o \in Byte, NEW c \in 0 .. 5
  PROVE  LET five  == 5 * o + c
             sum   == h + (five % Radix)
             carry == ((five \div Radix) + (sum \div Radix)) % Radix
         IN  /\ sum % Radix \in Byte /\ carry \in 0 .. 5
             /\ (sum % Radix) + Radix * carry = h + 5 * o + c
<1> DEFINE five == 5 * o + c  f0 == five % Radix  f1 == five \div Radix
           sum == h + f0  s0 == sum % Radix  s1 == sum \div Radix
<1>0. /\ Radix \in Nat /\ Radix >= 16 /\ h \in Nat /\ h <= Radix - 1
      /\ o \in Nat /\ o <= Radix - 1 /\ c \in Nat /\ c <= 5 /\ Byte = 0 .. Radix - 1
  BY Sizes
<1>1. five \in Nat /\ five = 5 * o + c
  BY <1>0
<1> HIDE DEF five
<1>2. f1 \in Nat /\ f0 \in 0 .. Radix - 1 /\ five = f1 * Radix + f0
  BY <1>0, <1>1, DivParts
<1>3. sum = h + f0
  OBVIOUS
<1> HIDE DEF f0, f1, sum
<1>4. sum \in Nat
  BY <1>0, <1>2, <1>3
<1>5. s1 \in Nat /\ s0 \in 0 .. Radix - 1 /\ sum = s1 * Radix + s0
  BY <1>0, <1>4, DivParts
<1> HIDE DEF s0, s1
<1> DEFINE n == f1 + s1
<1>6. n \in Nat /\ n * Radix + s0 = h + 5 * o + c
  <2>1. (f1 + s1) * Radix = f1 * Radix + s1 * Radix
    BY <1>0, <1>2, <1>5, Z3
  <2> DEFINE a == f1 * Radix  b == s1 * Radix
  <2>2. a \in Nat /\ b \in Nat /\ five = a + f0 /\ h + f0 = b + s0
    BY <1>0, <1>2, <1>3, <1>5
  <2> HIDE DEF a, b
  <2>3. (a + b) + s0 = h + 5 * o + c
    BY <1>0, <1>1, <1>2, <1>5, <2>2
  <2> QED BY <1>2, <1>5, <2>1, <2>3 DEF a, b
<1>7. n <= 5
  <2> SUFFICES ASSUME n >= 6 PROVE FALSE
    BY <1>6
  <2> HIDE DEF n
  <2>1. n * Radix >= 6 * Radix
    BY <1>0, <1>6, Z3
  <2> DEFINE a == n * Radix
  <2>2. a \in Nat /\ a >= 6 * Radix /\ a + s0 = h + 5 * o + c
    BY <1>0, <1>6, <2>1
  <2> HIDE DEF a
  <2> QED BY <1>0, <1>5, <2>2
<1>8. n % Radix = n
  <2>1. n \in 0 .. Radix - 1
    BY <1>0, <1>6, <1>7
  <2> HIDE DEF n
  <2> QED BY <1>0, <2>1, ModSmall
<1> DEFINE carry == (f1 + s1) % Radix
<1>9. carry = n
  BY <1>8
<1>10. s0 + Radix * n = h + 5 * o + c
  <2> HIDE DEF n
  <2>1. Radix * n = n * Radix /\ n * Radix \in Nat
    BY <1>0, <1>6, Z3
  <2>2. s0 + n * Radix = n * Radix + s0
    BY <1>5, <2>1
  <2> QED BY <1>6, <2>1, <2>2
<1>11. s0 \in Byte /\ carry \in 0 .. 5 /\ s0 + Radix * carry = h + 5 * o + c
  <2> HIDE DEF n, carry
  <2> QED BY <1>0, <1>5, <1>6, <1>7, <1>9, <1>10
<1> QED BY <1>11 DEF five, f0, f1, sum, s0, s1, carry

(* The clamp leaves r less than 1/16 of its range.                           *)
LEMMA ClampExact ==
  ASSUME NEW r \in Limbs(NR)
  PROVE  /\ poly1305_clamp(r) \in Limbs(NR)
         /\ Val(poly1305_clamp(r)) \in Nat /\ 16 * Val(poly1305_clamp(r)) < Weight(NR)
<1> DEFINE e == poly1305_clamp(r)  z == Radix \div 16
<1>0. /\ NR \in Nat /\ NR >= 1 /\ NR - 1 \in 0 .. NR - 1 /\ NR - 1 \in 0 .. NR /\ NR \in 0 .. Last
      /\ NR - 1 \in 0 .. Last /\ NR - 1 \in 0 .. Last - 1 /\ (NR - 1) + 1 = NR
      /\ Radix \in Nat /\ Radix >= 16 /\ z \in Nat /\ 16 * z = Radix /\ Byte = 0 .. Radix - 1
  BY Sizes
<1>z. z > 0
  <2> HIDE DEF z
  <2> QED BY <1>0
<1>1. \A k \in 0 .. NR - 1 : r[k] \in Byte
  BY DEF Limbs
<1>2. \A b \in Byte : b % z \in Byte /\ b % z \in 0 .. z - 1
  <2> TAKE b \in Byte
  <2> HIDE DEF z
  <2>1. b \in Nat
    BY <1>0
  <2>2. b % z \in 0 .. z - 1
    BY <1>0, <1>z, <2>1, DivParts
  <2> QED BY <1>0, <2>2
<1>3. \A b \in Byte : b - (b % 4) \in Byte
  <2> TAKE b \in Byte
  <2>1. b % 4 \in 0 .. 3 /\ b \div 4 \in Nat /\ b = 4 * (b \div 4) + (b % 4)
    BY Quarters
  <2> DEFINE q == b \div 4  m == b % 4
  <2> HIDE DEF q, m
  <2>2. b - m \in 0 .. Radix - 1
    BY <1>0, <2>1 DEF q, m
  <2> QED BY <1>0, <2>2 DEF m
<1>4. e \in Limbs(NR)
  <2>1. \A k \in 0 .. NR - 1 : e[k] \in Byte
    BY <1>1, <1>2, <1>3 DEF poly1305_clamp
  <2> QED BY <2>1 DEF poly1305_clamp, Limbs
<1>5. e[NR - 1] \in 0 .. z - 1
  <2>1. NR - 1 \in ClampHigh
    BY LimbAssumption
  <2> QED BY <1>0, <1>1, <1>2, <2>1 DEF poly1305_clamp
<1> HIDE DEF e
<1> DEFINE v == ValLow(e, NR - 1)  w == Weight(NR - 1)  b == e[NR - 1]
<1>6. Val(e) = v + b * w /\ v \in Nat /\ v + 1 <= w /\ w \in Nat /\ Weight(NR) = Radix * w
  <2>1. ValLow(e, (NR - 1) + 1) = v + b * w /\ Val(e) = ValLow(e, NR)
    BY <1>0, <1>4, SumsAre
  <2>2. v \in Nat /\ v + 1 <= w
    BY <1>0, <1>4, SumBound
  <2>3. w \in Nat /\ Weight((NR - 1) + 1) = Radix * w
    BY <1>0, WeightsAre
  <2> QED BY <1>0, <2>1, <2>2, <2>3
<1> HIDE DEF v, w, b, z
<1>7. b * w <= (z - 1) * w /\ b * w \in Nat
  <2>1. b \in Nat /\ b <= z - 1
    BY <1>0, <1>5 DEF b
  <2> QED BY <1>0, <1>6, <2>1, Z3
<1>8. (z - 1) * w = z * w - w /\ 16 * (z * w) = Radix * w
  <2>1. 16 * (z * w) = (16 * z) * w
    BY <1>0, <1>6, Z3
  <2>2. (z - 1) * w = z * w - w
    BY <1>0, <1>6, Z3
  <2> QED BY <1>0, <2>1, <2>2
<1> DEFINE f == b * w  g == z * w
<1>9. f \in Nat /\ g \in Nat /\ f <= g - w /\ 16 * g = Weight(NR) /\ Val(e) = v + f
  BY <1>0, <1>6, <1>7, <1>8
<1> HIDE DEF f, g
<1>10. v + f \in Nat /\ 16 * (v + f) < 16 * g
  BY <1>6, <1>9
<1>11. Val(e) \in Nat /\ 16 * Val(e) < Weight(NR)
  BY <1>9, <1>10
<1> QED BY <1>4, <1>11 DEF e

(* After a block, h is below 5/4 of 2^130 again.                             *)
LEMMA FoldBelow ==
  ASSUME NEW w \in Nat, NEW h \in Nat, NEW m \in Nat, NEW r \in Nat,
         w > 0, h < 5 * w, m < 2 * w, 16 * r < w, Top = 4 * w
  PROVE  Lazy!Fold((h + m) * r) \in Nat /\ Lazy!Fold((h + m) * r) < 5 * w
<1> DEFINE x == (h + m) * r  H == x \div Top  L == x % Top
<1>1. x \in Nat /\ Top \in Nat /\ Top > 0
  OBVIOUS
<1>x. x = (h + m) * r
  OBVIOUS
<1> HIDE DEF x
<1>2. H \in Nat /\ L \in 0 .. Top - 1 /\ x = H * Top + L
  BY <1>1, DivParts
<1> HIDE DEF H, L
<1>3. 16 * x <= (7 * w) * w
  <2>1. (h + m) * (16 * r) <= (7 * w) * (16 * r)
    <3> DEFINE a == h + m  b == 16 * r  c == 7 * w
    <3>1. a \in Nat /\ b \in Nat /\ c \in Nat /\ a <= c
      OBVIOUS
    <3> HIDE DEF a, b, c
    <3>2. a * b <= c * b
      BY <3>1, Z3
    <3> QED BY <3>2 DEF a, b, c
  <2>2. (7 * w) * (16 * r) <= (7 * w) * w
    <3> DEFINE b == 16 * r  c == 7 * w
    <3>1. b \in Nat /\ c \in Nat /\ b <= w
      OBVIOUS
    <3> HIDE DEF b, c
    <3>2. c * b <= c * w
      BY <3>1, Z3
    <3> QED BY <3>2 DEF b, c
  <2>3. 16 * x = (h + m) * (16 * r)
    BY <1>x, Z3
  <2> DEFINE a == (h + m) * (16 * r)  b == (7 * w) * (16 * r)  c == (7 * w) * w
  <2>4. a \in Nat /\ b \in Nat /\ c \in Nat /\ a <= b /\ b <= c /\ 16 * x = a
    BY <2>1, <2>2, <2>3
  <2> HIDE DEF a, b, c
  <2>5. 16 * x <= c
    BY <1>1, <2>4
  <2> QED BY <2>5 DEF c
<1>4. 64 * H <= 7 * w
  <2> SUFFICES ASSUME 64 * H >= 7 * w + 1 PROVE FALSE
    BY <1>2
  <2>1. (64 * H) * w >= (7 * w + 1) * w
    <3> DEFINE a == 64 * H  b == 7 * w + 1
    <3>1. a \in Nat /\ b \in Nat /\ a >= b
      BY <1>2
    <3> HIDE DEF a, b
    <3>2. a * w >= b * w
      BY <3>1, Z3
    <3> QED BY <3>2 DEF a, b
  <2>2. (7 * w + 1) * w = (7 * w) * w + w /\ 16 * (H * Top) = (64 * H) * w
    <3>1. (7 * w + 1) * w = (7 * w) * w + w
      BY Z3
    <3>2. 16 * (H * (4 * w)) = (64 * H) * w
      BY <1>2, Z3
    <3> QED BY <3>1, <3>2
  <2> DEFINE a == (64 * H) * w  c == (7 * w) * w  g == H * Top
  <2>3. a \in Nat /\ c \in Nat /\ g \in Nat
    BY <1>1, <1>2
  <2>4. 16 * x <= c /\ x = g + L /\ a >= c + w /\ 16 * g = a
    BY <1>2, <1>3, <2>1, <2>2
  <2> HIDE DEF a, c, g
  <2> QED BY <1>1, <1>2, <2>3, <2>4
<1>5. L + 5 * H \in Nat /\ L + 5 * H < 5 * w
  BY <1>2, <1>4
<1>6. Lazy!Fold((h + m) * r) = L + 5 * H
  BY DEF Lazy!Fold, L, H, x
<1> QED BY <1>5, <1>6

-----------------------------------------------------------------------------
(* The final step                                                           *)

LEMMA TopByte ==
  ASSUME NEW d \in Limbs(NR + 1)
  PROVE  /\ Val(d) \in Nat /\ d[NR] \in Byte /\ d[NR] \in Nat
         /\ ValLow(d, NR) \in 0 .. Weight(NR) - 1
         /\ Val(d) = d[NR] * Weight(NR) + ValLow(d, NR)
         /\ Val(d) \div Weight(NR) = d[NR] /\ Val(d) % Weight(NR) = ValLow(d, NR)
<1> DEFINE w == Weight(NR)  v == ValLow(d, NR)  b == d[NR]
<1>0. NR \in 0 .. Last /\ NR \in 0 .. NR + 1 /\ NR + 1 \in 0 .. Last /\ NR \in 0 .. (NR + 1) - 1 /\ NR + 1 \in Nat
  BY Sizes
<1>1. w \in Nat /\ w >= 1 /\ v \in Nat /\ v + 1 <= w
  BY <1>0, WeightsAre, SumBound
<1>2. b \in Byte /\ b \in Nat
  BY <1>0, LimbsDomain
<1>3. Val(d) = v + b * w
  BY <1>0, SumsAre
<1> HIDE DEF w, v, b
<1>4. v \in 0 .. w - 1 /\ w > 0 /\ b \in Int
  BY <1>1, <1>2
<1>5. (b * w + v) \div w = b /\ (b * w + v) % w = v
  BY <1>1, <1>4, DivMod
<1>6. b * w \in Nat
  BY <1>1, <1>2
<1> DEFINE f == b * w
<1> HIDE DEF f
<1>7. v + f = f + v /\ f + v \in Nat
  BY <1>1, <1>6 DEF f
<1>8. Val(d) = b * w + v /\ Val(d) \in Nat
  BY <1>3, <1>7 DEF f
<1> QED BY <1>2, <1>4, <1>5, <1>8 DEF w, v, b

LEMMA ValFive == Five \in Limbs(NR + 1) /\ Val(Five) = 5
<1>0. NR + 1 \in 0 .. Last /\ 1 \in 0 .. NR + 1 /\ 0 \in 0 .. (NR + 1) - 1 /\ (NR + 1) - 1 = NR /\ NR \in Nat
  BY Sizes
<1>1. Five \in Limbs(NR + 1)
  BY <1>0, Sizes DEF Five, Limbs
<1>2. Five[0] = 5 /\ \A k \in 1 .. (NR + 1) - 1 : Five[k] = 0
  BY <1>0 DEF Five
<1>3. Val(Five) = ValLow(Five, 1)
  BY <1>0, <1>1, <1>2, SumTail
<1>4. ValLow(Five, 0 + 1) = 0 + 5 * 1
  BY <1>0, <1>1, <1>2, SumsAre, WeightsAre
<1> QED BY <1>1, <1>3, <1>4

\* The accumulator after the conditional subtraction, and the tag.
Blended(h) ==
  LET plus5 == AddChain(h, Five, NR + 1)
  IN  [k \in 0 .. NR |-> IF ~Mask(h, plus5) THEN h[k]
                         ELSE IF k < NR THEN plus5[k] ELSE plus5[k] % 4]

LEMMA BlendExact ==
  ASSUME NEW h \in Limbs(NR + 1), Val(h) < 5 * Weight(NR)
  PROVE  /\ AddChain(h, Five, NR + 1) \in Limbs(NR + 1)
         /\ Blended(h) \in Limbs(NR + 1) /\ Val(Blended(h)) = Lazy!ReduceOnce(Val(h))
<1> DEFINE plus5 == AddChain(h, Five, NR + 1)  w == Weight(NR)  x == Val(h)
           b == plus5[NR]  v == ValLow(plus5, NR)
<1>0. /\ NR + 1 \in 0 .. Last /\ NR + 1 \in NR + 1 .. Last /\ NR \in 0 .. Last - 1 /\ NR \in 0 .. Last
      /\ Radix \in Nat /\ Radix >= 16 /\ NR \in Nat /\ NR >= 1 /\ (NR + 1) - 1 = NR
      /\ NR \in 0 .. NR + 1
  BY Sizes
<1>1. w \in Nat /\ w >= 16 /\ Weight(NR + 1) = Radix * w /\ Radix * w >= 16 * w
  <2>1. NR - 1 \in 0 .. Last - 1 /\ NR - 1 \in 0 .. Last /\ (NR - 1) + 1 = NR
    BY Sizes
  <2> DEFINE u == Weight(NR - 1)
  <2>2. u \in Nat /\ u >= 1 /\ w = Radix * u
    <3>1. Weight((NR - 1) + 1) = Radix * u
      BY <2>1, WeightsAre
    <3> QED BY <2>1, <3>1, WeightsAre
  <2>3. w \in Nat /\ Weight(NR + 1) = Radix * w
    BY <1>0, WeightsAre
  <2> HIDE DEF u, w
  <2>4. Radix * u >= 16 * 1
    <3>1. Radix * u >= 16 * u
      BY <1>0, <2>2, Z3
    <3>2. Radix * u \in Nat
      BY <1>0, <2>2
    <3> QED BY <2>2, <3>1, <3>2
  <2>5. Radix * w >= 16 * w
    BY <1>0, <2>3, Z3
  <2> QED BY <2>2, <2>3, <2>4, <2>5
<1>2. x \in Nat /\ x < 5 * w
  BY TopByte
<1>3. plus5 \in Limbs(NR + 1) /\ Val(plus5) = x + 5
  <2>1. ValLow(h, NR + 1) = x /\ ValLow(Five, NR + 1) = 5
    BY <1>0, ValFive, SumsAre
  <2>2. x + 5 < Weight(NR + 1)
    <3> DEFINE g == Radix * w
    <3>1. g \in Nat /\ g >= 16 * w
      BY <1>0, <1>1
    <3> HIDE DEF g, w, x
    <3>2. x + 5 < g
      BY <1>1, <1>2, <3>1
    <3> QED BY <1>1, <3>2 DEF g
  <2>3. ValLow(h, NR + 1) + ValLow(Five, NR + 1) < Weight(NR + 1)
    BY <2>1, <2>2
  <2>4. plus5 \in Limbs(NR + 1)
    BY <1>0, ValFive, ChainAdds
  <2>5. Val(plus5) = ValLow(h, NR + 1) + ValLow(Five, NR + 1)
    BY <1>0, <2>3, ValFive, ChainExact
  <2> QED BY <2>1, <2>4, <2>5
<1> HIDE DEF plus5
<1>4. b \in Byte /\ v \in 0 .. w - 1 /\ Val(plus5) = b * w + v
  BY <1>3, TopByte
<1> DEFINE q == b \div 4  r == b % 4
<1>5. q \in Nat /\ r \in 0 .. 3 /\ b = 4 * q + r /\ b % 4 \in Byte
  BY <1>4, Quarters
<1>6. LowPart(plus5) \in Limbs(NR + 1) /\ Val(LowPart(plus5)) = r * w + v
  <2> DEFINE l == LowPart(plus5)
  <2>1. \A k \in 0 .. NR : plus5[k] \in Byte
    BY <1>0, <1>3 DEF Limbs
  <2>2. l \in [0 .. NR -> Byte] /\ l[NR] = r /\ \A k \in 0 .. NR - 1 : l[k] = plus5[k]
    BY <1>0, <1>5, <2>1 DEF LowPart
  <2>3. l \in Limbs(NR + 1)
    BY <1>0, <2>2 DEF Limbs
  <2> HIDE DEF l, r
  <2>4. ValLow(l, NR) = v
    BY <1>0, <1>3, <2>2, <2>3, SumSame
  <2>5. Val(l) = l[NR] * w + ValLow(l, NR)
    BY <2>3, TopByte
  <2> QED BY <2>2, <2>3, <2>4, <2>5 DEF l
<1>7. Top \in Nat /\ Top > 0 /\ Top = 4 * w
  <2>1. Top = 4 * w
    BY DEF Top
  <2> HIDE DEF w
  <2> QED BY <1>1, <2>1
<1>8. (x + 5) \div Top = q /\ (x + 5) % Top = r * w + v
  <2> HIDE DEF b, v, w, q, r
  <2>1. r * w + v \in 0 .. Top - 1
    <3>1. r * w \in Nat /\ r * w <= 3 * w
      <4>1. r = 0 \/ r = 1 \/ r = 2 \/ r = 3
        BY <1>5
      <4>2. 0 * w = 0 /\ 1 * w = w
        BY <1>1
      <4> QED BY <1>1, <4>1, <4>2
    <3> DEFINE f == r * w
    <3> HIDE DEF f
    <3>2. f + v \in 0 .. 4 * w - 1
      BY <1>1, <1>4, <3>1 DEF f
    <3> QED BY <1>7, <3>2 DEF f
  <2>2. b * w + v = q * Top + (r * w + v)
    <3>1. (4 * q + r) * w = q * (4 * w) + r * w
      BY <1>1, <1>5, Z3
    <3> DEFINE f == q * (4 * w)  g == r * w
    <3>2. f \in Nat /\ g \in Nat
      BY <1>1, <1>5
    <3> HIDE DEF f, g
    <3>3. (f + g) + v = f + (g + v)
      BY <1>1, <1>4, <3>2
    <3> QED BY <1>5, <1>7, <3>1, <3>3 DEF f, g
  <2>3. (q * Top + (r * w + v)) \div Top = q /\ (q * Top + (r * w + v)) % Top = r * w + v
    <3> DEFINE y == r * w + v
    <3>1. y \in 0 .. Top - 1
      BY <2>1
    <3> DEFINE n == Top
    <3>2. n \in Nat /\ n > 0 /\ y \in 0 .. n - 1 /\ q \in Int
      BY <1>5, <1>7, <3>1
    <3> HIDE DEF y, n
    <3>3. (q * n + y) \div n = q /\ (q * n + y) % n = y
      BY <3>2, DivMod
    <3> QED BY <3>3 DEF y, n
  <2> QED BY <1>3, <1>4, <2>2, <2>3
<1>9. Mask(h, plus5) <=> q % 2 = 1
  BY DEF Mask
<1>10. CASE q % 2 = 1
  <2>1. Blended(h) = LowPart(plus5)
    BY <1>9, <1>10 DEF Blended, LowPart, plus5
  <2>2. Lazy!ReduceOnce(x) = (x + 5) % Top
    BY <1>8, <1>10 DEF Lazy!ReduceOnce
  <2> QED BY <1>3, <1>6, <1>8, <2>1, <2>2 DEF plus5
<1>11. CASE q % 2 # 1
  <2>1. Blended(h) = [k \in 0 .. NR |-> h[k]]
    BY <1>9, <1>11 DEF Blended, plus5
  <2>2. Blended(h) = h
    BY <1>0, <2>1 DEF Limbs
  <2>3. Lazy!ReduceOnce(x) = x
    BY <1>8, <1>11 DEF Lazy!ReduceOnce
  <2> QED BY <1>3, <2>2, <2>3 DEF plus5
<1> QED BY <1>10, <1>11

LEMMA TagExact ==
  ASSUME NEW full \in Limbs(NR + 1), NEW s \in Limbs(NR)
  PROVE  LET tag == AddChain(full, s, NR)
             h   == [k \in 0 .. NR |-> IF k < NR THEN tag[k] ELSE full[k]]
         IN  /\ tag \in Limbs(NR) /\ h \in Limbs(NR + 1)
             /\ Val(tag) = (Val(full) + Val(s)) % Weight(NR)
             /\ Val(h) = (Val(full) \div Weight(NR)) * Weight(NR) + Val(tag)
<1> DEFINE tag == AddChain(full, s, NR)  w == Weight(NR)
           h == [k \in 0 .. NR |-> IF k < NR THEN tag[k] ELSE full[k]]
           b == full[NR]  v == ValLow(full, NR)  y == Val(s)
<1>0. /\ NR \in 0 .. Last /\ NR + 1 \in NR .. Last /\ NR \in NR .. Last /\ NR \in Nat /\ NR >= 1
      /\ (NR + 1) - 1 = NR /\ NR + 1 \in 0 .. Last /\ NR \in 0 .. NR + 1
  BY Sizes
<1>1. tag \in Limbs(NR) /\ Val(tag) = (v + y) % w
  <2>1. y = ValLow(s, NR)
    BY <1>0, SumsAre
  <2> QED BY <1>0, <2>1, ChainAdds, ChainMod
<1>2. b \in Byte /\ b \in Nat /\ v \in 0 .. w - 1 /\ Val(full) = b * w + v /\ Val(full) \div w = b
  BY TopByte
<1>3. y \in Nat /\ w \in Nat /\ w > 0
  <2>1. ValLow(s, NR) \in Nat /\ y = ValLow(s, NR)
    BY <1>0, SumsAre
  <2>2. w \in Nat /\ w >= 1
    BY <1>0, WeightsAre
  <2> QED BY <2>1, <2>2
<1> HIDE DEF tag
<1>4. h \in Limbs(NR + 1) /\ h[NR] = b /\ \A k \in 0 .. NR - 1 : h[k] = tag[k]
  <2>1. \A k \in 0 .. NR - 1 : tag[k] \in Byte
    BY <1>1 DEF Limbs
  <2>2. h \in [0 .. NR -> Byte]
    BY <1>0, <1>2, <2>1
  <2> QED BY <1>0, <2>2 DEF Limbs
<1> HIDE DEF h
<1>5. Val(h) = b * w + Val(tag)
  <2>1. ValLow(h, NR) = ValLow(tag, NR)
    BY <1>0, <1>1, <1>4, SumSame
  <2>2. ValLow(tag, NR) = Val(tag)
    BY <1>0, <1>1, SumsAre
  <2> QED BY <1>4, <2>1, <2>2, TopByte
<1>6. (v + y) % w = (Val(full) + y) % w
  <2> DEFINE n == v + y
  <2> HIDE DEF w, v, b, y
  <2>1. n \in Nat
    BY <1>2, <1>3
  <2> HIDE DEF n
  <2> DEFINE q == n \div w  m == n % w
  <2>2. q \in Nat /\ m \in 0 .. w - 1 /\ n = q * w + m
    BY <1>3, <2>1, DivParts
  <2> HIDE DEF q, m
  <2>3. ((b + q) * w + m) % w = m
    <3>1. b + q \in Int
      BY <1>2, <2>2
    <3> QED BY <1>3, <2>2, <3>1, DivMod
  <2>4. (b + q) * w = b * w + q * w
    BY <1>2, <1>3, <2>2, Z3
  <2>5. Val(full) + y = (b + q) * w + m
    <3> DEFINE f == b * w  g == q * w
    <3>1. f \in Nat /\ g \in Nat
      BY <1>2, <1>3, <2>2
    <3>2. v + y = g + m /\ Val(full) = f + v
      BY <1>2, <2>2 DEF n
    <3> HIDE DEF f, g
    <3>3. (f + v) + y = (f + g) + m
      BY <1>2, <1>3, <2>2, <3>1, <3>2
    <3> QED BY <2>4, <3>2, <3>3 DEF f, g
  <2> QED BY <2>3, <2>5 DEF m, n
<1>7. Val(tag) = (Val(full) + y) % w
  BY <1>1, <1>6
<1>8. Val(h) = (Val(full) \div w) * w + Val(tag)
  BY <1>2, <1>5
<1> QED BY <1>1, <1>4, <1>7, <1>8 DEF h, tag
-----------------------------------------------------------------------------
(* The inductive invariant                                                  *)

\* The caller's block has been added to poly_h and not yet reduced.
Absorbing == pc \in {"multiply", "split", "reduce"}

\* Where the loops stand.
Positions ==
  /\ pc = "multiply" => i \in 0 .. NR
  /\ pc = "split" => IF body = "shoup" THEN i = NR + 1 /\ j = 0 ELSE i = 0 /\ j = NR
  /\ pc = "reduce" => i \in 0 .. NR
  /\ pc = "tables" => body = "shoup"
  /\ pc # "caller" => keyed

\* The clamped r is small, and between blocks poly_h is below 5/4 of 2^130.
Ranges ==
  /\ 16 * Val(poly_r) < Weight(NR)
  /\ keyed /\ ~Absorbing => Val(poly_h) < 5 * Weight(NR)

\* The history is the block's entry; until the split poly_h is the sum.
Entry ==
  /\ Absorbing => /\ call.h \in Limbs(NR + 1) /\ call.m \in Blocks
                  /\ Val(call.h) < 5 * Weight(NR)
  /\ pc \in {"multiply", "split"} => Val(poly_h) = Val(call.h) + Val(call.m)

\* The byte that a compact row ends on is still clear, and so is its carry after it.
CompactClear ==
  body = "compact" =>
    /\ pc = "multiply" => \A y \in NR + j + 1 .. 2 * NR : poly_product[y] = 0
    /\ pc = "split" => poly_carry = 0

Product   == (Val(call.h) + Val(call.m)) * Val(poly_r)
Overflows == [k \in 0 .. NR |-> Overflow(k)]

\* The bytes still to be folded are H, and those below i have been folded.
Folded ==
  pc = "reduce" =>
    /\ Overflows \in Limbs(NR + 1) /\ Val(Overflows) = Product \div Top
    /\ poly_carry \in 0 .. 5
    /\ Val(poly_h) + poly_carry * Weight(i) = (Product % Top) + 5 * ValLow(Overflows, i)

PolyInv ==
  /\ LimbTypeOK /\ TablesExact /\ Positions /\ Ranges /\ Entry
  /\ ProductSoFar /\ CompactClear /\ Folded

(* One partial product more in a schoolbook multiply, row by row of b.       *)
LEMMA PartialSums ==
  ASSUME NEW n \in 0 .. Last, NEW m \in 0 .. Last, n + m <= Last,
         NEW a \in Limbs(n), NEW b \in Limbs(m), NEW x \in 0 .. n - 1, NEW y \in 0 .. m - 1
  PROVE  LET now == Val(a) * ValLow(b, y) + ValLow(a, x) * b[y] * Weight(y)
             t   == (a[x] * b[y]) * Weight(x + y)
         IN  /\ now \in Nat /\ t \in Nat /\ now + t <= Val(a) * Val(b)
             /\ now + t = Val(a) * ValLow(b, y) + ValLow(a, x + 1) * b[y] * Weight(y)
             /\ x + 1 = n => now + t = Val(a) * ValLow(b, y + 1)
<1> DEFINE now == Val(a) * ValLow(b, y) + ValLow(a, x) * b[y] * Weight(y)
           t   == (a[x] * b[y]) * Weight(x + y)
           va == Val(a)  ax == ValLow(a, x)  a1 == ValLow(a, x + 1)  d == a[x]  u == Weight(x)
           vb == Val(b)  by == ValLow(b, y)  b1 == ValLow(b, y + 1)  e == b[y]  w == Weight(y)
<1>0. /\ n \in Nat /\ m \in Nat /\ x \in Nat /\ y \in Nat /\ x + y <= Last /\ x \in 0 .. n /\ y \in 0 .. m
      /\ x + 1 \in 0 .. n /\ y + 1 \in 0 .. m /\ n \in 0 .. n /\ n \in x + 1 .. n /\ m \in y + 1 .. m
      /\ x \in 0 .. Last /\ y \in 0 .. Last
  BY Sizes
<1>1. va \in Nat /\ ax \in Nat /\ a1 \in Nat /\ a1 = ax + d * u /\ va = ValLow(a, n)
  <2>1. va = ValLow(a, n)
    BY SumsAre
  <2>2. ax \in Nat /\ a1 \in Nat /\ ValLow(a, n) \in Nat
    BY <1>0, SumsAre
  <2>3. a1 = ax + d * u
    BY SumsAre
  <2> QED BY <2>1, <2>2, <2>3
<1>2. vb \in Nat /\ by \in Nat /\ b1 \in Nat /\ b1 = by + e * w /\ vb = ValLow(b, m)
  <2>1. vb = ValLow(b, m)
    BY SumsAre
  <2>2. by \in Nat /\ b1 \in Nat /\ ValLow(b, m) \in Nat
    BY <1>0, SumsAre
  <2>3. b1 = by + e * w
    BY SumsAre
  <2> QED BY <2>1, <2>2, <2>3
<1>3. a1 <= va /\ b1 <= vb
  <2>1. ValLow(a, x + 1) <= ValLow(a, n)
    BY <1>0, SumMonotone
  <2>2. ValLow(b, y + 1) <= ValLow(b, m)
    BY <1>0, SumMonotone
  <2> QED BY <1>1, <1>2, <2>1, <2>2
<1>4. d \in Nat /\ e \in Nat
  BY <1>0, LimbsDomain
<1>5. u \in Nat /\ w \in Nat /\ Weight(x + y) = u * w
  BY <1>0, WeightsAre, WeightProduct
<1>6. now = va * by + ax * e * w /\ t = (d * e) * (u * w)
  BY <1>5
<1> HIDE DEF now, t, va, ax, a1, d, u, vb, by, b1, e, w
<1>7. (d * e) * (u * w) = (d * u) * (e * w) /\ ax * e * w = ax * (e * w)
  <2>1. (d * e) * (u * w) = (d * u) * (e * w)
    BY <1>4, <1>5, Z3
  <2>2. ax * e * w = ax * (e * w)
    BY <1>1, <1>4, <1>5, Z3
  <2> QED BY <2>1, <2>2
<1> DEFINE g == e * w  f == d * u
<1>8. g \in Nat /\ f \in Nat
  BY <1>4, <1>5
<1>9. a1 * e * w = a1 * g
  BY <1>1, <1>4, <1>5, Z3
<1>10. now = va * by + ax * g /\ t = f * g /\ a1 = ax + f /\ b1 = by + g
  BY <1>1, <1>2, <1>6, <1>7
<1> HIDE DEF g, f
<1>11. a1 * g = ax * g + f * g
  BY <1>1, <1>8, <1>10, Z3
<1>12. va * b1 = va * by + va * g
  <2>1. va * (by + g) = va * by + va * g
    BY <1>1, <1>2, <1>8, Z3
  <2> QED BY <1>10, <2>1
<1>13. a1 * g <= va * g
  BY <1>1, <1>3, <1>8, Z3
<1>14. va * b1 <= va * vb
  BY <1>1, <1>2, <1>3, Z3
<1> DEFINE p == va * by  q == ax * g  r == f * g  s == a1 * g  vg == va * g  all == va * vb  c == va * b1
<1>15. p \in Nat /\ q \in Nat /\ r \in Nat /\ s \in Nat /\ vg \in Nat /\ all \in Nat /\ c \in Nat
  BY <1>1, <1>2, <1>8
<1>16. now = p + q /\ t = r /\ s = q + r /\ c = p + vg /\ s <= vg /\ c <= all
  BY <1>10, <1>11, <1>12, <1>13, <1>14
<1> HIDE DEF p, q, r, s, vg, all, c
<1>17. now \in Nat /\ t \in Nat /\ now + t <= all /\ now + t = p + s
  BY <1>15, <1>16
<1>18. x + 1 = n => now + t = c
  <2> SUFFICES ASSUME x + 1 = n PROVE now + t = c
    OBVIOUS
  <2>1. a1 = va
    BY <1>1 DEF a1
  <2>2. s = vg
    BY <2>1 DEF s, vg
  <2> QED BY <1>15, <1>16, <2>2
<1>19. p + s = va * by + a1 * e * w
  BY <1>9 DEF p, s
<1> QED BY <1>17, <1>18, <1>19 DEF now, t, p, s, c, all, va, by, a1, e, w, b1, vb, ax, d

LEMMA PolyInvInit == Init => PolyInv
<1> SUFFICES ASSUME Init PROVE PolyInv
  OBVIOUS
<1>1. /\ NR + 1 \in 0 .. Last /\ NR \in 0 .. Last /\ Last \in 0 .. Last /\ Last = 2 * NR + 1
      /\ 0 \in Byte /\ 0 \in 0 .. NR + 1 /\ 0 \in 0 .. NR
  BY Sizes
<1>2. Zero(NR + 1) \in Limbs(NR + 1) /\ Zero(NR) \in Limbs(NR) /\ Zero(2 * NR + 1) \in Limbs(2 * NR + 1)
      /\ Val(Zero(NR)) = 0
  BY <1>1, ValZero
<1>3. LimbTypeOK
  BY <1>1, <1>2 DEF Init, LimbTypeOK
<1>4. 16 * Val(poly_r) < Weight(NR)
  BY <1>1, <1>2, WeightsAre DEF Init
<1> QED BY <1>3, <1>4 DEF Init, PolyInv, TablesExact, Positions, Ranges, Entry, ProductSoFar,
                          CompactClear, Folded, Absorbing

LEMMA PolyInitStep ==
  ASSUME PolyInv, NEW k \in Keys, PolyInit(k)
  PROVE  PolyInv'
<1>1. /\ NR + 1 \in 0 .. Last /\ NR \in 0 .. Last /\ 0 \in 0 .. NR /\ 0 < NR
  BY Sizes
<1>2. k.r \in Limbs(NR) /\ k.s \in Limbs(NR)
  BY OperandAssumption
<1>3. Zero(NR + 1) \in Limbs(NR + 1) /\ Val(Zero(NR + 1)) = 0
  BY <1>1, ValZero
<1>4. pc' \in {"tables", "caller"} /\ keyed' = TRUE /\ (pc' = "tables" => body' = "shoup") /\ j' = 0
  BY DEF PolyInit, CallerTurn
<1>5. poly_r' \in Limbs(NR) /\ 16 * Val(poly_r') < Weight(NR)
  BY <1>2, ClampExact DEF PolyInit
<1>6. poly_h' \in Limbs(NR + 1) /\ Val(poly_h') = 0
  BY <1>3 DEF PolyInit
<1>7. LimbTypeOK'
  BY <1>1, <1>2, <1>4, <1>5, <1>6 DEF PolyInv, LimbTypeOK, PolyInit
<1>8. 0 < 5 * Weight(NR)
  BY <1>1, WeightsAre
<1>9. Ranges'
  BY <1>5, <1>6, <1>8 DEF Ranges
<1>10. TablesExact'
  <2>1. body' = "shoup" => pc' = "tables"
    BY DEF PolyInit
  <2>2. \A n \in 0 .. NR - 1 : ~(n < 0)
    OBVIOUS
  <2> QED BY <1>4, <2>1, <2>2 DEF TablesExact
<1> QED BY <1>4, <1>7, <1>9, <1>10 DEF PolyInv, Positions, Entry, ProductSoFar, CompactClear, Folded, Absorbing

LEMMA ShoupInitStep ==
  ASSUME PolyInv, ShoupInit
  PROVE  PolyInv'
<1>1. /\ pc = "tables" /\ body = "shoup" /\ keyed /\ pc' \in {"tables", "caller"} /\ j \in 0 .. NR - 1
      /\ poly_r \in Limbs(NR) /\ r_tab \in [0 .. NR - 1 -> [Byte -> [lo : Byte, hi : Byte]]]
      /\ poly_r' = poly_r /\ keyed' = keyed /\ body' = body /\ j' = j + 1
      /\ r_tab' = [r_tab EXCEPT ![j] = ShoupRow(poly_r[j])] /\ i' = i
      /\ (pc' = "caller" <=> j + 1 = NR)
  <2>1. /\ pc = "tables" /\ poly_r' = poly_r /\ keyed' = keyed /\ body' = body /\ j' = j + 1
        /\ r_tab' = [r_tab EXCEPT ![j] = ShoupRow(poly_r[j])] /\ i' = i
        /\ pc' = IF j + 1 = NR THEN "caller" ELSE "tables"
    BY DEF ShoupInit
  <2>2. /\ body = "shoup" /\ keyed /\ j \in 0 .. NR /\ j < NR
    BY <2>1 DEF PolyInv, LimbTypeOK, Positions
  <2>3. poly_r \in Limbs(NR) /\ r_tab \in [0 .. NR - 1 -> [Byte -> [lo : Byte, hi : Byte]]]
    BY DEF PolyInv, LimbTypeOK
  <2>4. j \in 0 .. NR - 1
    BY <2>2, Sizes
  <2>5. pc' \in {"tables", "caller"} /\ (pc' = "caller" <=> j + 1 = NR)
    BY <2>1
  <2> QED BY <2>1, <2>2, <2>3, <2>4, <2>5
<1>2. poly_r[j] \in Byte
  BY <1>1, Sizes, LimbsDomain
<1>3. r_tab' \in [0 .. NR - 1 -> [Byte -> [lo : Byte, hi : Byte]]]
  BY <1>1, <1>2, ShoupRowExact
<1>4. j + 1 \in 0 .. NR /\ (pc' = "tables" => j + 1 < NR)
  BY <1>1, Sizes
<1>5. LimbTypeOK'
  BY <1>1, <1>3, <1>4 DEF PolyInv, LimbTypeOK, ShoupInit
<1>6. Ranges'
  <2>1. 16 * Val(poly_r) < Weight(NR) /\ Val(poly_h) < 5 * Weight(NR)
    BY <1>1 DEF PolyInv, Ranges, Absorbing
  <2>2. poly_h' = poly_h
    BY DEF ShoupInit
  <2> QED BY <1>1, <2>1, <2>2 DEF Ranges
<1>7. TablesExact'
  <2> SUFFICES ASSUME NEW n \in 0 .. NR - 1, pc' # "tables" \/ n < j + 1, NEW x \in Byte
               PROVE  r_tab'[n][x].lo + Radix * r_tab'[n][x].hi = x * poly_r[n]
    BY <1>1 DEF TablesExact
  <2>1. n < j + 1 /\ (n # j => n < j)
    BY <1>1, Sizes
  <2>2. CASE n = j
    <3>1. r_tab'[n] = ShoupRow(poly_r[j])
      BY <1>1, <2>2
    <3> QED BY <1>2, <2>2, <3>1, ShoupRowExact
  <2>3. CASE n # j
    <3>1. r_tab'[n] = r_tab[n]
      BY <1>1, <2>3
    <3> QED BY <1>1, <2>1, <2>3, <3>1 DEF PolyInv, TablesExact
  <2> QED BY <2>2, <2>3
<1> QED BY <1>1, <1>5, <1>6, <1>7
        DEF PolyInv, Positions, Entry, ProductSoFar, CompactClear, Folded, Absorbing

\* A block has its high bit and no more above the bytes of the tag.
LEMMA BlockBelow ==
  ASSUME NEW m \in Blocks
  PROVE  m \in Limbs(NR + 1) /\ Val(m) \in Nat /\ Val(m) < 2 * Weight(NR)
<1> DEFINE w == Weight(NR)  v == ValLow(m, NR)  b == m[NR]
<1>1. m \in Limbs(NR + 1) /\ b <= 1
  BY OperandAssumption
<1>2. Val(m) \in Nat /\ b \in Nat /\ v \in 0 .. w - 1 /\ Val(m) = b * w + v
  BY <1>1, TopByte
<1>3. w \in Nat
  <2>1. NR \in 0 .. Last
    BY Sizes
  <2> QED BY <2>1, WeightsAre
<1> HIDE DEF w, v, b
<1>4. b = 0 \/ b = 1
  BY <1>1, <1>2
<1>5. 0 * w = 0 /\ 1 * w = w
  BY <1>3
<1>6. b * w + v < 2 * w
  BY <1>2, <1>3, <1>4, <1>5
<1> QED BY <1>1, <1>2, <1>6 DEF w

LEMMA BlockAddStep ==
  ASSUME PolyInv, NEW m \in Blocks, BlockAdd(m)
  PROVE  PolyInv'
<1> DEFINE w == Weight(NR)
<1>0. /\ NR + 1 \in 0 .. Last /\ NR + 1 \in NR + 1 .. Last /\ NR \in 0 .. Last /\ NR \in 0 .. Last - 1
      /\ 0 \in 0 .. NR + 1 /\ 0 \in 0 .. NR /\ 0 < NR /\ 0 \in Byte /\ NR \in Nat /\ Last = 2 * NR + 1
      /\ Last \in 0 .. Last /\ Radix \in Nat /\ Radix >= 16 /\ 0 \in 0 .. NR - 1
  BY Sizes
<1>1. /\ pc = "caller" /\ keyed /\ poly_h \in Limbs(NR + 1) /\ poly_r \in Limbs(NR) /\ TablesExact
      /\ Val(poly_h) < 5 * w
  BY DEF BlockAdd, CallerTurn, PolyInv, LimbTypeOK, Ranges, Absorbing
<1>2. /\ poly_h' = AddChain(poly_h, m, NR + 1) /\ poly_product' = Zero(2 * NR + 1)
      /\ poly_carry' = 0 /\ i' = 0 /\ j' = 0 /\ pc' = "multiply" /\ call' = [h |-> poly_h, m |-> m]
      /\ body' = body /\ poly_r' = poly_r /\ poly_s' = poly_s /\ r_tab' = r_tab /\ keyed' = keyed
      /\ poly1305_tag' = poly1305_tag
  BY DEF BlockAdd, key
<1>3. m \in Limbs(NR + 1) /\ Val(m) \in Nat /\ Val(m) < 2 * w
  BY BlockBelow
<1>4. poly_h' \in Limbs(NR + 1) /\ Val(poly_h') = Val(poly_h) + Val(m)
  <2>1. Val(poly_h) = ValLow(poly_h, NR + 1) /\ Val(m) = ValLow(m, NR + 1)
    BY <1>0, <1>1, <1>3, SumsAre
  <2>2. Val(poly_h) \in Nat
    BY <1>1, TopByte
  <2>3. Weight(NR + 1) = Radix * w /\ w \in Nat
    BY <1>0, WeightsAre
  <2>4. Radix * w >= 16 * w
    <3> HIDE DEF w
    <3> QED BY <1>0, <2>3, Z3
  <2>5. Val(poly_h) + Val(m) < Radix * w
    <3> DEFINE g == Radix * w  a == Val(poly_h)  b == Val(m)
    <3>1. g \in Nat /\ g >= 16 * w /\ a \in Nat /\ b \in Nat /\ a < 5 * w /\ b < 2 * w
      BY <1>0, <1>1, <1>3, <2>2, <2>3, <2>4
    <3> HIDE DEF g, a, b, w
    <3>2. a + b < g
      BY <2>3, <3>1
    <3> QED BY <3>2 DEF g, a, b
  <2>6. ValLow(poly_h, NR + 1) + ValLow(m, NR + 1) < Weight(NR + 1)
    BY <2>1, <2>3, <2>5
  <2>7. AddChain(poly_h, m, NR + 1) \in Limbs(NR + 1)
    BY <1>0, <1>1, <1>3, ChainAdds
  <2>8. Val(AddChain(poly_h, m, NR + 1)) = ValLow(poly_h, NR + 1) + ValLow(m, NR + 1)
    BY <1>0, <1>1, <1>3, <2>6, ChainExact
  <2> QED BY <1>2, <2>1, <2>7, <2>8
<1>5. poly_product' \in Limbs(2 * NR + 1) /\ Val(poly_product') = 0
      /\ \A y \in 0 .. 2 * NR : poly_product'[y] = 0
  <2>1. Zero(Last) \in Limbs(Last) /\ Val(Zero(Last)) = 0
    BY <1>0, ValZero
  <2>2. Last - 1 = 2 * NR
    BY <1>0
  <2> QED BY <1>0, <1>2, <2>1, <2>2 DEF Zero
<1>6. LimbTypeOK'
  BY <1>0, <1>2, <1>4, <1>5 DEF PolyInv, LimbTypeOK
<1>7. TablesExact'
  BY <1>1, <1>2 DEF TablesExact
<1>8. Ranges'
  BY <1>2 DEF PolyInv, Ranges, Absorbing
<1>9. Entry'
  BY <1>1, <1>2, <1>4 DEF Entry
<1>10. ProductSoFar'
  <2>1. /\ ValLow(poly_h', 0) = 0 /\ ValLow(poly_r', 0) = 0
        /\ Val(poly_h') \in Nat /\ Val(poly_r') \in Nat
    <3>1. ValLow(poly_h', 0) = 0
      BY <1>0, <1>4, SumsAre
    <3>2. ValLow(poly_r', 0) = 0 /\ Val(poly_r') \in Nat
      BY <1>0, <1>1, <1>2, SumsAre
    <3> QED BY <1>4, <3>1, <3>2, TopByte
  <2>2. Weight(0) = 1 /\ Weight(0 + 0) = 1 /\ poly_h'[0] \in Nat /\ poly_r'[0] \in Nat
    <3>1. poly_h'[0] \in Nat /\ poly_r'[0] \in Nat
      BY <1>0, <1>1, <1>2, <1>4, Sizes, LimbsDomain
    <3> QED BY <3>1, WeightsAre
  <2>3. Val(poly_product') + (IF body' = "compact" THEN poly_carry' * Weight(i' + j') ELSE 0) = 0
    BY <1>2, <1>5, <2>2
  <2>4. ValLow(poly_h', 0) * Val(poly_r') + poly_h'[0] * Weight(0) * ValLow(poly_r', 0) = 0
    BY <2>1, <2>2
  <2>5. Val(poly_h') * ValLow(poly_r', 0) + ValLow(poly_h', 0) * poly_r'[0] * Weight(0) = 0
    BY <2>1, <2>2
  <2> QED BY <1>0, <1>2, <2>3, <2>4, <2>5 DEF ProductSoFar
<1>11. CompactClear'
  <2>1. \A y \in NR + 0 + 1 .. 2 * NR : y \in 0 .. 2 * NR
    BY <1>0
  <2> QED BY <1>2, <1>5, <2>1 DEF CompactClear
<1> QED BY <1>0, <1>1, <1>2, <1>6, <1>7, <1>8, <1>9, <1>10, <1>11 DEF PolyInv, Positions, Folded

\* What a step of a multiply finds; no product of the operands overflows the buffer.
LEMMA MultiplyBase ==
  ASSUME PolyInv, pc = "multiply"
  PROVE  /\ i \in 0 .. NR /\ j \in 0 .. NR - 1 /\ i + j \in 0 .. Last - 2
         /\ poly_h \in Limbs(NR + 1) /\ poly_r \in Limbs(NR) /\ poly_product \in Limbs(Last)
         /\ poly_h[i] \in Byte /\ poly_r[j] \in Byte
         /\ Val(poly_h) * Val(poly_r) \in Nat /\ Val(poly_h) * Val(poly_r) < Weight(Last)
<1>0. /\ NR + 1 \in 0 .. Last /\ NR \in 0 .. Last /\ NR \in Nat /\ Last = 2 * NR + 1 /\ NR + 1 \in Nat
      /\ (NR + 1) + NR = Last /\ (NR + 1) - 1 = NR /\ NR + 1 \in 0 .. NR + 1 /\ NR \in 0 .. NR
  BY Sizes
<1>1. /\ i \in 0 .. NR /\ j \in 0 .. NR - 1 /\ poly_h \in Limbs(NR + 1) /\ poly_r \in Limbs(NR)
      /\ poly_product \in Limbs(Last)
  BY <1>0 DEF PolyInv, LimbTypeOK, Positions
<1>2. i + j \in 0 .. Last - 2
  BY <1>0, <1>1
<1>3. poly_h[i] \in Byte /\ poly_r[j] \in Byte
  BY <1>0, <1>1, LimbsDomain
<1> DEFINE a == Val(poly_h)  b == Val(poly_r)  u == Weight(NR + 1)  w == Weight(NR)
<1>4. a \in Nat /\ a + 1 <= u /\ u \in Nat
  <2>1. a = ValLow(poly_h, NR + 1)
    BY <1>0, <1>1, SumsAre
  <2>2. ValLow(poly_h, NR + 1) \in Nat /\ ValLow(poly_h, NR + 1) + 1 <= u
    BY <1>0, <1>1, SumBound
  <2> QED BY <1>0, <2>1, <2>2, WeightsAre
<1>5. b \in Nat /\ b + 1 <= w /\ w \in Nat
  <2>1. b = ValLow(poly_r, NR)
    BY <1>0, <1>1, SumsAre
  <2>2. ValLow(poly_r, NR) \in Nat /\ ValLow(poly_r, NR) + 1 <= w
    BY <1>0, <1>1, SumBound
  <2> QED BY <1>0, <2>1, <2>2, WeightsAre
<1>6. Weight(Last) = u * w
  BY <1>0, WeightProduct
<1> HIDE DEF a, b, u, w
<1>7. a * b <= u * b
  BY <1>4, <1>5, Z3
<1>8. u * b + u <= u * w
  <2>1. u * (b + 1) <= u * w
    BY <1>4, <1>5, Z3
  <2>2. u * (b + 1) = u * b + u
    BY <1>4, <1>5, Z3
  <2> QED BY <2>1, <2>2
<1>9. a * b \in Nat /\ u * b \in Nat /\ u * w \in Nat
  BY <1>4, <1>5
<1> DEFINE f == a * b  g == u * b  h == u * w
<1> HIDE DEF f, g, h
<1>10. f \in Nat /\ f < h
  <2>1. f \in Nat /\ g \in Nat /\ h \in Nat /\ f <= g /\ g + u <= h
    BY <1>7, <1>8, <1>9 DEF f, g, h
  <2> QED BY <1>4, <2>1
<1> QED BY <1>1, <1>2, <1>3, <1>6, <1>10 DEF f, h, a, b

\* What every step of a multiply leaves alone.
LEMMA MultiplyKeeps ==
  ASSUME PolyInv, pc = "multiply", pc' \in {"multiply", "split"},
         UNCHANGED <<key, poly_h, call>>,
         i' \in 0 .. NR + 1, j' \in 0 .. NR, poly_product' \in Limbs(Last), poly_carry' \in Byte,
         pc' = "multiply" => i' \in 0 .. NR /\ j' \in 0 .. NR - 1,
         pc' = "split" => IF body = "shoup" THEN i' = NR + 1 /\ j' = 0 ELSE i' = 0 /\ j' = NR,
         ProductSoFar', CompactClear'
  PROVE  PolyInv'
<1>1. /\ body' = body /\ poly_r' = poly_r /\ poly_s' = poly_s /\ r_tab' = r_tab /\ keyed' = keyed
      /\ poly1305_tag' = poly1305_tag /\ poly_h' = poly_h /\ call' = call
  BY DEF key
<1>2. NR \in Nat /\ Last = 2 * NR + 1
  BY Sizes
<1>3. LimbTypeOK'
  BY <1>1, <1>2 DEF PolyInv, LimbTypeOK
<1>4. TablesExact'
  BY <1>1 DEF PolyInv, TablesExact
<1>5. Positions'
  BY <1>1 DEF PolyInv, Positions
<1>6. Ranges' /\ Entry' /\ Folded'
  BY <1>1 DEF PolyInv, Ranges, Entry, Folded, Absorbing
<1> QED BY <1>3, <1>4, <1>5, <1>6 DEF PolyInv

LEMMA MultiplyRippleStep ==
  ASSUME PolyInv, MultiplyRipple
  PROVE  PolyInv'
<1> DEFINE t == poly_h[i] * poly_r[j]  w == Weight(i + j)
           now == Val(poly_h) * ValLow(poly_r, j) + ValLow(poly_h, i) * poly_r[j] * Weight(j)
<1>0. /\ NR + 1 \in 0 .. Last /\ NR \in 0 .. Last /\ NR \in Nat /\ Last = 2 * NR + 1 /\ NR >= 1
      /\ (NR + 1) + NR <= Last /\ (NR + 1) - 1 = NR /\ Last \in 0 .. Last
  BY Sizes
<1>1. /\ pc = "multiply" /\ body = "ripple" /\ poly_carry' = poly_carry /\ UNCHANGED <<key, poly_h, call>>
      /\ poly_product' = AddProduct(poly_product, i + j, t % Radix, t \div Radix)
      /\ IF i < NR THEN i' = i + 1 /\ j' = j ELSE i' = 0 /\ j' = j + 1
      /\ pc' = IF i = NR /\ j + 1 = NR THEN "split" ELSE "multiply"
  BY DEF MultiplyRipple
<1>2. /\ i \in 0 .. NR /\ j \in 0 .. NR - 1 /\ i + j \in 0 .. Last - 2
      /\ poly_h \in Limbs(NR + 1) /\ poly_r \in Limbs(NR) /\ poly_product \in Limbs(Last)
      /\ poly_h[i] \in Byte /\ poly_r[j] \in Byte
      /\ Val(poly_h) * Val(poly_r) \in Nat /\ Val(poly_h) * Val(poly_r) < Weight(Last)
  BY <1>1, MultiplyBase
<1>3. t % Radix \in Byte /\ t \div Radix \in Byte /\ (t % Radix) + Radix * (t \div Radix) = t
  <2>1. t \in Nat /\ t % Radix \in Byte /\ t \div Radix \in Byte /\ t = (t \div Radix) * Radix + (t % Radix)
    BY <1>2, ByteProduct
  <2> DEFINE q == t \div Radix  r == t % Radix
  <2> HIDE DEF t, q, r
  <2>2. q \in Nat /\ r \in Nat /\ Radix \in Nat /\ t = q * Radix + r
    BY <2>1, Sizes DEF q, r
  <2>3. Radix * q = q * Radix /\ q * Radix \in Nat
    BY <2>2, Z3
  <2>4. r + q * Radix = q * Radix + r
    BY <2>2, <2>3
  <2> QED BY <2>1, <2>2, <2>3, <2>4 DEF q, r
<1>4. Val(poly_product) = now
  <2>1. ProductSoFar /\ j < NR
    BY <1>0, <1>2 DEF PolyInv
  <2>2. Val(poly_product) + 0 = now
    BY <1>1, <2>1 DEF ProductSoFar
  <2>3. Val(poly_product) = ValLow(poly_product, Last) /\ ValLow(poly_product, Last) \in Nat
    BY <1>0, <1>2, SumsAre
  <2> QED BY <2>2, <2>3
<1>5. /\ now \in Nat /\ t * w \in Nat /\ now + t * w <= Val(poly_h) * Val(poly_r)
      /\ now + t * w = Val(poly_h) * ValLow(poly_r, j) + ValLow(poly_h, i + 1) * poly_r[j] * Weight(j)
      /\ i + 1 = NR + 1 => now + t * w = Val(poly_h) * ValLow(poly_r, j + 1)
  BY <1>0, <1>2, PartialSums
<1>6. w \in Nat /\ Weight(Last) \in Nat
  BY <1>0, <1>2, WeightsAre
<1>7. poly_product' \in Limbs(Last) /\ Val(poly_product') = now + t * w
  <2>1. Val(poly_product) + ((t % Radix) + Radix * (t \div Radix)) * w < Weight(Last)
    <3> HIDE DEF t, w, now
    <3> DEFINE a == Val(poly_h) * Val(poly_r)  b == t * w
    <3>1. a \in Nat /\ b \in Nat /\ now + b <= a /\ a < Weight(Last)
      BY <1>2, <1>5
    <3> HIDE DEF a, b
    <3>2. now + b < Weight(Last)
      BY <1>5, <1>6, <3>1
    <3> QED BY <1>3, <1>4, <3>2 DEF b
  <2> HIDE DEF t, now
  <2> QED BY <1>0, <1>1, <1>2, <1>3, <1>4, <2>1, ProductAdds
<1> HIDE DEF t, w, now
<1>8. /\ i' \in 0 .. NR + 1 /\ j' \in 0 .. NR /\ pc' \in {"multiply", "split"}
      /\ pc' = "multiply" => i' \in 0 .. NR /\ j' \in 0 .. NR - 1
      /\ pc' = "split" => i' = 0 /\ j' = NR
  BY <1>0, <1>1, <1>2
<1>9. body' = "ripple" /\ poly_h' = poly_h /\ poly_r' = poly_r
  BY <1>1 DEF key
<1>10. Val(poly_product') = Val(poly_h') * ValLow(poly_r', j')
                              + IF j' < NR THEN ValLow(poly_h', i') * poly_r'[j'] * Weight(j') ELSE 0
  <2>1. CASE i < NR
    <3>1. i' = i + 1 /\ j' = j /\ j < NR
      BY <1>0, <1>1, <1>2, <2>1
    <3> QED BY <1>5, <1>7, <1>9, <3>1
  <2>2. CASE i = NR
    <3>1. i' = 0 /\ j' = j + 1 /\ i + 1 = NR + 1 /\ j + 1 \in 0 .. NR
      BY <1>0, <1>1, <1>2, <2>2
    <3>2. Val(poly_product') = Val(poly_h) * ValLow(poly_r, j + 1) /\ Val(poly_product') \in Nat
      BY <1>5, <1>7, <3>1
    <3>3. ValLow(poly_h, 0) = 0
      BY <1>0, <1>2, SumsAre
    <3>4. j + 1 < NR => poly_r[j + 1] \in Nat /\ Weight(j + 1) \in Nat
      <4> SUFFICES ASSUME j + 1 < NR PROVE poly_r[j + 1] \in Nat /\ Weight(j + 1) \in Nat
        OBVIOUS
      <4>1. j + 1 \in 0 .. NR - 1 /\ j + 1 \in 0 .. Last
        BY <1>0, <3>1
      <4> QED BY <1>0, <1>2, <4>1, LimbsDomain, WeightsAre
    <3>5. j + 1 < NR => ValLow(poly_h, 0) * poly_r[j + 1] * Weight(j + 1) = 0
      BY <3>3, <3>4
    <3> QED BY <1>9, <3>1, <3>2, <3>5
  <2> QED BY <1>0, <1>2, <2>1, <2>2
<1>11. ProductSoFar'
  <2>1. Val(poly_product') \in Nat
    BY <1>5, <1>7
  <2>2. Val(poly_product') + 0 = Val(poly_product')
    BY <2>1
  <2> QED BY <1>9, <1>10, <2>2 DEF ProductSoFar
<1>12. CompactClear'
  BY <1>9 DEF CompactClear
<1>13. poly_carry' \in Byte
  BY <1>1 DEF PolyInv, LimbTypeOK
<1> QED BY <1>1, <1>7, <1>8, <1>11, <1>12, <1>13, MultiplyKeeps

LEMMA MultiplyShoupStep ==
  ASSUME PolyInv, MultiplyShoup
  PROVE  PolyInv'
<1> DEFINE t == r_tab[j][poly_h[i]]  w == Weight(i + j)  d == poly_r[j] * poly_h[i]
           now == Val(poly_r) * ValLow(poly_h, i) + ValLow(poly_r, j) * poly_h[i] * Weight(i)
           Done(x, y) == ValLow(poly_h, x) * Val(poly_r)
                           + IF x <= NR THEN poly_h[x] * Weight(x) * ValLow(poly_r, y) ELSE 0
<1>0. /\ NR + 1 \in 0 .. Last /\ NR \in 0 .. Last /\ NR \in Nat /\ Last = 2 * NR + 1 /\ NR >= 1
      /\ NR + (NR + 1) <= Last /\ (NR + 1) - 1 = NR /\ Last \in 0 .. Last /\ NR + 1 \in Nat
      /\ Byte \subseteq Nat
  BY Sizes
<1>1. /\ pc = "multiply" /\ body = "shoup" /\ poly_carry' = poly_carry /\ UNCHANGED <<key, poly_h, call>>
      /\ poly_product' = AddProduct(poly_product, i + j, t.lo, t.hi)
      /\ IF j + 1 < NR THEN i' = i /\ j' = j + 1 ELSE i' = i + 1 /\ j' = 0
      /\ pc' = IF i = NR /\ j + 1 = NR THEN "split" ELSE "multiply"
  BY DEF MultiplyShoup
<1>2. /\ i \in 0 .. NR /\ j \in 0 .. NR - 1 /\ i + j \in 0 .. Last - 2
      /\ poly_h \in Limbs(NR + 1) /\ poly_r \in Limbs(NR) /\ poly_product \in Limbs(Last)
      /\ poly_h[i] \in Byte /\ poly_r[j] \in Byte
      /\ Val(poly_h) * Val(poly_r) \in Nat /\ Val(poly_h) * Val(poly_r) < Weight(Last)
  BY <1>1, MultiplyBase
<1>3. t.lo \in Byte /\ t.hi \in Byte /\ t.lo + Radix * t.hi = d
  <2>1. keyed /\ r_tab \in [0 .. NR - 1 -> [Byte -> [lo : Byte, hi : Byte]]]
    BY <1>1 DEF PolyInv, Positions, LimbTypeOK
  <2>2. t \in [lo : Byte, hi : Byte]
    BY <1>2, <2>1
  <2>3. t.lo + Radix * t.hi = poly_h[i] * poly_r[j]
    BY <1>1, <1>2, <2>1 DEF PolyInv, TablesExact
  <2>4. poly_h[i] * poly_r[j] = poly_r[j] * poly_h[i]
    <3>1. poly_h[i] \in Nat /\ poly_r[j] \in Nat
      BY <1>0, <1>2
    <3> QED BY <3>1, Z3
  <2> QED BY <2>2, <2>3, <2>4
\* The rows of h, as PartialSums has them.
<1>4. \A x \in 0 .. NR, y \in 0 .. NR :
        Done(x, y) = Val(poly_r) * ValLow(poly_h, x) + ValLow(poly_r, y) * poly_h[x] * Weight(x)
  <2> TAKE x \in 0 .. NR, y \in 0 .. NR
  <2> DEFINE a == ValLow(poly_h, x)  b == Val(poly_r)  e == poly_h[x]  u == Weight(x)  c == ValLow(poly_r, y)
  <2>1. x \in 0 .. NR + 1 /\ x \in 0 .. (NR + 1) - 1 /\ x \in 0 .. Last /\ x <= NR
    BY <1>0
  <2>2. b \in Nat /\ c \in Nat
    <3>1. b = ValLow(poly_r, NR) /\ NR \in 0 .. NR
      BY <1>0, <1>2, SumsAre
    <3> QED BY <1>0, <1>2, <3>1, SumsAre
  <2>3. a \in Nat /\ e \in Nat /\ u \in Nat
    <3>1. a \in Nat
      BY <1>0, <1>2, <2>1, SumsAre
    <3>2. e \in Nat
      BY <1>0, <1>2, <2>1, LimbsDomain
    <3> QED BY <2>1, <3>1, <3>2, WeightsAre
  <2>4. Done(x, y) = a * b + e * u * c
    BY <2>1
  <2> HIDE DEF a, b, c, e, u, Done
  <2>5. a * b = b * a
    BY <2>2, <2>3, Z3
  <2>6. e * u * c = c * e * u
    BY <2>2, <2>3, Z3
  <2>7. Done(x, y) = b * a + c * e * u
    BY <2>4, <2>5, <2>6
  <2> QED BY <2>7 DEF a, b, c, e, u
<1>5. Val(poly_product) = now
  <2>1. ProductSoFar
    BY DEF PolyInv
  <2>2. Val(poly_product) + 0 = Done(i, j)
    BY <1>1, <2>1 DEF ProductSoFar
  <2>3. Val(poly_product) = ValLow(poly_product, Last) /\ ValLow(poly_product, Last) \in Nat
    BY <1>0, <1>2, SumsAre
  <2>4. Done(i, j) = now
    <3> HIDE DEF Done
    <3> QED BY <1>0, <1>2, <1>4
  <2> QED BY <2>2, <2>3, <2>4
<1>6. /\ now \in Nat /\ d * Weight(j + i) \in Nat /\ now + d * Weight(j + i) <= Val(poly_r) * Val(poly_h)
      /\ now + d * Weight(j + i)
           = Val(poly_r) * ValLow(poly_h, i) + ValLow(poly_r, j + 1) * poly_h[i] * Weight(i)
      /\ j + 1 = NR => now + d * Weight(j + i) = Val(poly_r) * ValLow(poly_h, i + 1)
  <2>1. i \in 0 .. (NR + 1) - 1
    BY <1>0, <1>2
  <2> QED BY <1>0, <1>2, <2>1, PartialSums
<1>7. j + i = i + j
  BY <1>2
<1>8. w \in Nat /\ Weight(Last) \in Nat
  BY <1>0, <1>2, WeightsAre
<1>9. Val(poly_r) * Val(poly_h) = Val(poly_h) * Val(poly_r)
  <2>1. Val(poly_r) \in Nat
    BY <1>0, <1>2, SumsAre
  <2>2. Val(poly_h) \in Nat
    BY <1>2, TopByte
  <2> DEFINE a == Val(poly_r)  b == Val(poly_h)
  <2> HIDE DEF a, b
  <2>3. a * b = b * a
    BY <2>1, <2>2, Z3 DEF a, b
  <2> QED BY <2>3 DEF a, b
<1>10. poly_product' \in Limbs(Last) /\ Val(poly_product') = now + d * w
  <2>1. Val(poly_product) + (t.lo + Radix * t.hi) * w < Weight(Last)
    <3> HIDE DEF t, now, Done, d
    <3> DEFINE a == Val(poly_h) * Val(poly_r)  b == d * w
    <3>1. a \in Nat /\ b \in Nat /\ now + b <= a /\ a < Weight(Last)
      BY <1>2, <1>6, <1>7, <1>9
    <3> HIDE DEF a, b, w
    <3>2. now + b < Weight(Last)
      BY <1>6, <1>8, <3>1
    <3> QED BY <1>3, <1>5, <3>2 DEF b
  <2> DEFINE lo == t.lo  hi == t.hi
  <2>2. lo \in Byte /\ hi \in Byte /\ lo + Radix * hi = d /\ Val(poly_product) + (lo + Radix * hi) * w < Weight(Last)
        /\ poly_product' = AddProduct(poly_product, i + j, lo, hi)
    BY <1>1, <1>3, <2>1
  <2> HIDE DEF t, now, d, Done, lo, hi
  <2>3. /\ AddProduct(poly_product, i + j, lo, hi) \in Limbs(Last)
        /\ Val(AddProduct(poly_product, i + j, lo, hi)) = Val(poly_product) + (lo + Radix * hi) * Weight(i + j)
    BY <1>0, <1>2, <2>2, ProductAdds
  <2> QED BY <1>5, <2>2, <2>3
<1>11. /\ i' \in 0 .. NR + 1 /\ j' \in 0 .. NR /\ pc' \in {"multiply", "split"}
       /\ pc' = "multiply" => i' \in 0 .. NR /\ j' \in 0 .. NR - 1
       /\ pc' = "split" => i' = NR + 1 /\ j' = 0
  <2> HIDE DEF t, now, Done, d
  <2> QED BY <1>0, <1>1, <1>2
<1>12. body' = "shoup" /\ poly_h' = poly_h /\ poly_r' = poly_r
  BY <1>1 DEF key
<1>13. Val(poly_product') = Done(i', j')
  <2>1. CASE j + 1 < NR
    <3>1. i' = i /\ j' = j + 1 /\ j + 1 \in 0 .. NR
      <4> HIDE DEF Done, now, t, d
      <4> QED BY <1>0, <1>1, <1>2, <2>1
    <3>2. Done(i, j + 1) = Val(poly_r) * ValLow(poly_h, i) + ValLow(poly_r, j + 1) * poly_h[i] * Weight(i)
      <4> HIDE DEF Done
      <4> QED BY <1>2, <1>4, <3>1
    <3> HIDE DEF Done, now, t, d
    <3> QED BY <1>6, <1>7, <1>10, <3>1, <3>2
  <2>2. CASE ~(j + 1 < NR)
    <3>1. i' = i + 1 /\ j' = 0 /\ j + 1 = NR /\ i + 1 \in 0 .. NR + 1
      BY <1>0, <1>1, <1>2, <2>2
    <3>2. Val(poly_product') = Val(poly_r) * ValLow(poly_h, i + 1)
      BY <1>6, <1>7, <1>10, <3>1
    <3>3. ValLow(poly_r, 0) = 0 /\ Val(poly_r) \in Nat
      BY <1>0, <1>2, SumsAre
    <3>4. ValLow(poly_h, i + 1) \in Nat
      BY <1>0, <1>2, <3>1, SumsAre
    <3>5. Val(poly_r) * ValLow(poly_h, i + 1) = ValLow(poly_h, i + 1) * Val(poly_r)
          /\ ValLow(poly_h, i + 1) * Val(poly_r) \in Nat
      <4> DEFINE a == Val(poly_r)  b == ValLow(poly_h, i + 1)
      <4>1. a \in Nat /\ b \in Nat
        BY <3>3, <3>4
      <4> HIDE DEF a, b
      <4>2. a * b = b * a /\ b * a \in Nat
        BY <4>1, Z3
      <4> QED BY <4>2 DEF a, b
    <3>6. Done(i + 1, 0) = ValLow(poly_h, i + 1) * Val(poly_r)
      <4>1. CASE i + 1 <= NR
        <5>1. i + 1 \in 0 .. (NR + 1) - 1 /\ i + 1 \in 0 .. Last
          BY <1>0, <3>1, <4>1
        <5>2. poly_h[i + 1] \in Nat /\ Weight(i + 1) \in Nat
          BY <1>0, <1>2, <5>1, LimbsDomain, WeightsAre
        <5>3. poly_h[i + 1] * Weight(i + 1) * ValLow(poly_r, 0) = 0
          BY <3>3, <5>2
        <5> QED BY <3>5, <4>1, <5>3
      <4>2. CASE ~(i + 1 <= NR)
        BY <3>5, <4>2
      <4> QED BY <4>1, <4>2
    <3> HIDE DEF Done
    <3> QED BY <3>1, <3>2, <3>5, <3>6
  <2> QED BY <2>1, <2>2
<1>14. ProductSoFar'
  <2>1. Val(poly_product') \in Nat
    BY <1>6, <1>7, <1>10
  <2>2. Val(poly_product') + 0 = Val(poly_product')
    BY <2>1
  <2> QED BY <1>12, <1>13, <2>2 DEF ProductSoFar
<1>15. CompactClear'
  BY <1>12 DEF CompactClear
<1>16. poly_carry' \in Byte
  BY <1>1 DEF PolyInv, LimbTypeOK
<1> QED BY <1>1, <1>10, <1>11, <1>14, <1>15, <1>16, MultiplyKeeps

LEMMA MultiplyCompactStep ==
  ASSUME PolyInv, MultiplyCompact
  PROVE  PolyInv'
<1> DEFINE t     == poly_h[i] * poly_r[j]
           low   == poly_product[i + j] + (t % Radix)
           high  == ((t \div Radix) + (low \div Radix)) % Radix
           sum   == (low % Radix) + poly_carry
           carry == (high + (sum \div Radix)) % Radix
           added == [poly_product EXCEPT ![i + j] = sum % Radix]
           s0 == sum % Radix
           w == Weight(i + j)
           now == Val(poly_h) * ValLow(poly_r, j) + ValLow(poly_h, i) * poly_r[j] * Weight(j)
<1>0. /\ NR + 1 \in 0 .. Last /\ NR \in 0 .. Last /\ NR \in Nat /\ Last = 2 * NR + 1 /\ NR >= 1
      /\ (NR + 1) + NR <= Last /\ (NR + 1) - 1 = NR /\ Last \in 0 .. Last
      /\ Byte \subseteq Nat /\ 0 \in Byte /\ Radix \in Nat /\ NR + 1 \in Nat
  BY Sizes
<1>1. /\ pc = "multiply" /\ body = "compact" /\ UNCHANGED <<key, poly_h, call>>
      /\ IF i < NR
         THEN poly_product' = added /\ poly_carry' = carry /\ i' = i + 1 /\ j' = j
         ELSE /\ poly_product' = [added EXCEPT ![i + j + 1] = carry]
              /\ poly_carry' = 0 /\ i' = 0 /\ j' = j + 1
      /\ pc' = IF i = NR /\ j + 1 = NR THEN "split" ELSE "multiply"
  BY DEF MultiplyCompact
<1>2. /\ i \in 0 .. NR /\ j \in 0 .. NR - 1 /\ i + j \in 0 .. Last - 2
      /\ poly_h \in Limbs(NR + 1) /\ poly_r \in Limbs(NR) /\ poly_product \in Limbs(Last)
      /\ poly_h[i] \in Byte /\ poly_r[j] \in Byte
  BY <1>1, MultiplyBase
<1>3. /\ i + j \in 0 .. Last - 1 /\ i + j \in 0 .. Last /\ i + j + 1 \in 0 .. Last - 1 /\ i + j + 1 \in 0 .. Last
      /\ (i + j) + 1 = i + j + 1 /\ poly_carry \in Byte /\ i + j # i + j + 1
  <2> HIDE DEF t, low, high, sum, carry, added, s0, w, now
  <2>1. poly_carry \in Byte
    BY DEF PolyInv, LimbTypeOK
  <2> QED BY <1>0, <1>2, <2>1
<1>4. poly_product[i + j] \in Byte
  BY <1>0, <1>2, <1>3, LimbsDomain
<1>5. s0 \in Byte /\ carry \in Byte /\ s0 + Radix * carry = poly_product[i + j] + t + poly_carry
  BY <1>2, <1>3, <1>4, CompactStep
<1> HIDE DEF s0, carry
<1>6. Val(poly_product) + poly_carry * w = now
  <2>1. ProductSoFar /\ j < NR
    BY <1>0, <1>2 DEF PolyInv
  <2> QED BY <1>1, <2>1 DEF ProductSoFar
<1>7. /\ now \in Nat /\ t * w \in Nat
      /\ now + t * w = Val(poly_h) * ValLow(poly_r, j) + ValLow(poly_h, i + 1) * poly_r[j] * Weight(j)
      /\ i + 1 = NR + 1 => now + t * w = Val(poly_h) * ValLow(poly_r, j + 1)
  BY <1>0, <1>2, PartialSums
<1>8. w \in Nat /\ Weight(i + j + 1) = Radix * w /\ Weight(i + j + 1) \in Nat
  BY <1>0, <1>3, WeightsAre
<1> DEFINE p1 == [poly_product EXCEPT ![i + j] = s0]
<1>9. added = p1
  BY DEF s0
<1> HIDE DEF added, low, high, sum
<1>10. /\ p1 \in Limbs(Last) /\ p1[i + j] = s0
       /\ \A y \in 0 .. Last - 1 : y # i + j => poly_product[y] = p1[y]
  <2>1. DOMAIN poly_product = 0 .. Last - 1
    BY <1>2 DEF Limbs
  <2>2. p1 \in Limbs(Last)
    BY <1>2, <1>5 DEF Limbs
  <2> HIDE DEF t, now, w
  <2> QED BY <1>3, <2>1, <2>2
<1> HIDE DEF p1
<1>11. Val(p1) + carry * Weight(i + j + 1) = now + t * w
  <2>1. Val(p1) = Val(poly_product) + (s0 - poly_product[i + j]) * w
    BY <1>0, <1>2, <1>3, <1>10, SumUpdate
  <2>2. Val(poly_product) \in Nat
    BY <1>0, <1>2, SumsAre
  <2>3. t \in Nat
    BY <1>2, ByteProduct
  <2> DEFINE x == poly_product[i + j]  v == Val(poly_product)  e == Val(p1)
  <2> HIDE DEF t, now, w
  <2>4. /\ s0 \in Nat /\ carry \in Nat /\ poly_carry \in Nat /\ x \in Nat /\ v \in Nat
        /\ s0 + Radix * carry = x + t + poly_carry /\ v + poly_carry * w = now /\ e = v + (s0 - x) * w
        /\ w \in Nat /\ now \in Nat
    BY <1>0, <1>7, <1>8, <1>3, <1>4, <1>5, <1>6, <2>1, <2>2
  <2> HIDE DEF x, v, e
  <2>5. e + carry * (Radix * w) = now + t * w
    <3>1. Radix \in Nat
      BY Sizes
    <3>2. (s0 + Radix * carry) * w = s0 * w + (Radix * carry) * w
      BY <2>4, <3>1, Z3
    <3>3. (x + t + poly_carry) * w = x * w + t * w + poly_carry * w
      BY <2>3, <2>4, Z3
    <3>4. (s0 - x) * w = s0 * w - x * w
      BY <2>4, Z3
    <3>5. carry * (Radix * w) = (Radix * carry) * w
      BY <2>4, <3>1, Z3
    <3> DEFINE sw == s0 * w  xw == x * w  tw == t * w  cw == poly_carry * w  yw == (Radix * carry) * w
    <3>6. sw \in Nat /\ xw \in Nat /\ tw \in Nat /\ cw \in Nat /\ yw \in Nat
      BY <2>3, <2>4, <3>1
    <3>7. sw + yw = xw + tw + cw /\ e = v + (sw - xw) /\ v + cw = now
      BY <2>4, <3>2, <3>3, <3>4
    <3> HIDE DEF sw, xw, tw, cw, yw
    <3>8. e + yw = now + tw
      BY <2>4, <3>6, <3>7
    <3> QED BY <3>5, <3>8 DEF yw, tw
  <2> QED BY <1>8, <2>5 DEF e
<1> HIDE DEF t, now
<1>12. body' = "compact" /\ poly_h' = poly_h /\ poly_r' = poly_r
  BY <1>1 DEF key
<1>13. CASE i < NR
  <2>1. /\ poly_product' = p1 /\ poly_carry' = carry /\ i' = i + 1 /\ j' = j /\ pc' = "multiply"
        /\ i' \in 0 .. NR /\ i' \in 0 .. NR + 1 /\ j' \in 0 .. NR - 1 /\ j' \in 0 .. NR /\ i' + j' = i + j + 1 /\ j' < NR
    <3> HIDE DEF w
    <3> QED BY <1>0, <1>1, <1>2, <1>9, <1>13
  <2>2. Val(poly_product') + poly_carry' * Weight(i' + j')
          = Val(poly_h') * ValLow(poly_r', j') + ValLow(poly_h', i') * poly_r'[j'] * Weight(j')
    BY <1>7, <1>11, <1>12, <2>1
  <2>3. ProductSoFar'
    BY <1>12, <2>1, <2>2 DEF ProductSoFar
  <2>4. CompactClear'
    <3>1. \A y \in NR + j + 1 .. 2 * NR : y \in 0 .. Last - 1 /\ y # i + j
      <4> HIDE DEF w
      <4> QED BY <1>0, <1>2, <1>13
    <3>2. \A y \in NR + j + 1 .. 2 * NR : poly_product[y] = 0
      BY <1>1 DEF PolyInv, CompactClear
    <3>3. \A y \in NR + j + 1 .. 2 * NR : p1[y] = 0
      BY <1>10, <3>1, <3>2
    <3> QED BY <2>1, <3>3 DEF CompactClear
  <2>5. poly_product' \in Limbs(Last) /\ poly_carry' \in Byte
    BY <1>5, <1>10, <2>1
  <2> QED BY <1>1, <2>1, <2>3, <2>4, <2>5, MultiplyKeeps
<1>14. CASE ~(i < NR)
  <2> DEFINE p2 == [p1 EXCEPT ![i + j + 1] = carry]
  <2>1. /\ i = NR /\ poly_product' = p2 /\ poly_carry' = 0 /\ i' = 0 /\ j' = j + 1
        /\ i' \in 0 .. NR /\ i' \in 0 .. NR + 1 /\ j' \in 0 .. NR /\ pc' \in {"multiply", "split"}
        /\ (pc' = "multiply" => j' \in 0 .. NR - 1) /\ (pc' = "split" => j' = NR)
        /\ i + 1 = NR + 1 /\ NR + j + 1 = i + j + 1 /\ NR + j + 1 \in NR + j + 1 .. 2 * NR
    <3> HIDE DEF w
    <3> QED BY <1>0, <1>1, <1>2, <1>9, <1>14
  <2>2. \A y \in NR + j + 1 .. 2 * NR : poly_product[y] = 0 /\ y \in 0 .. Last - 1 /\ y # i + j
    <3>1. \A y \in NR + j + 1 .. 2 * NR : poly_product[y] = 0
      BY <1>1 DEF PolyInv, CompactClear
    <3>2. \A y \in NR + j + 1 .. 2 * NR : y \in 0 .. Last - 1 /\ y # i + j
      <4> HIDE DEF w
      <4> QED BY <1>0, <1>2, <2>1
    <3> QED BY <3>1, <3>2
  <2>3. \A y \in NR + j + 1 .. 2 * NR : p1[y] = 0
    BY <1>10, <2>2
  <2>4. /\ p2 \in Limbs(Last) /\ p2[i + j + 1] = carry
        /\ \A y \in 0 .. Last - 1 : y # i + j + 1 => p1[y] = p2[y]
    <3>1. DOMAIN p1 = 0 .. Last - 1
      BY <1>10 DEF Limbs
    <3>2. p2 \in Limbs(Last)
      BY <1>5, <1>10 DEF Limbs
    <3> QED BY <1>3, <3>1, <3>2
  <2> HIDE DEF p2
  <2>5. Val(p2) = now + t * w
    <3>1. Val(p2) = Val(p1) + (carry - p1[i + j + 1]) * Weight(i + j + 1)
      BY <1>0, <1>3, <1>10, <2>4, SumUpdate
    <3>2. p1[i + j + 1] = 0
      BY <2>1, <2>3
    <3>3. carry - 0 = carry
      BY <1>0, <1>5
    <3> QED BY <1>11, <3>1, <3>2, <3>3
  <2>6. Val(poly_product') = Val(poly_h') * ValLow(poly_r', j') /\ Val(poly_product') \in Nat
    BY <1>7, <1>12, <2>1, <2>5
  <2>7. ValLow(poly_h', i') = 0 /\ Weight(i' + j') \in Nat
    <3>1. ValLow(poly_h, 0) = 0
      BY <1>0, <1>2, SumsAre
    <3>2. 0 + (j + 1) \in 0 .. Last
      <4> HIDE DEF w
      <4> QED BY <1>0, <1>2
    <3> QED BY <1>12, <2>1, <3>1, <3>2, WeightsAre
  <2>8. j' < NR => ValLow(poly_h', i') * poly_r'[j'] * Weight(j') = 0
    <3> SUFFICES ASSUME j' < NR PROVE ValLow(poly_h', i') * poly_r'[j'] * Weight(j') = 0
      OBVIOUS
    <3>1. j' \in 0 .. NR - 1 /\ j' \in 0 .. Last
      <4> HIDE DEF w
      <4> QED BY <1>0, <2>1
    <3>2. poly_r'[j'] \in Nat /\ Weight(j') \in Nat
      BY <1>0, <1>2, <1>12, <3>1, LimbsDomain, WeightsAre
    <3> QED BY <2>7, <3>2
  <2>9. ProductSoFar'
    <3>1. Val(poly_product') + poly_carry' * Weight(i' + j') = Val(poly_product')
      BY <2>1, <2>6, <2>7
    <3>2. Val(poly_h') * ValLow(poly_r', j')
            + (IF j' < NR THEN ValLow(poly_h', i') * poly_r'[j'] * Weight(j') ELSE 0) = Val(poly_product')
      BY <2>6, <2>8
    <3> QED BY <1>12, <3>1, <3>2 DEF ProductSoFar
  <2>10. CompactClear'
    <3>1. \A y \in NR + (j + 1) + 1 .. 2 * NR : y \in NR + j + 1 .. 2 * NR /\ y # i + j + 1
      <4> HIDE DEF w
      <4> QED BY <1>0, <1>2, <2>1
    <3>2. \A y \in NR + (j + 1) + 1 .. 2 * NR : p2[y] = 0
      BY <2>2, <2>3, <2>4, <3>1
    <3> QED BY <2>1, <3>2 DEF CompactClear
  <2>11. poly_product' \in Limbs(Last) /\ poly_carry' \in Byte
    BY <1>0, <2>1, <2>4
  <2> QED BY <1>1, <2>1, <2>9, <2>10, <2>11, MultiplyKeeps
<1> QED BY <1>13, <1>14

LEMMA ReduceSplitStep ==
  ASSUME PolyInv, ReduceSplit
  PROVE  PolyInv'
<1>0. /\ NR + 1 \in 0 .. Last /\ NR \in 0 .. Last /\ NR \in Nat /\ Last = 2 * NR + 1 /\ 0 \in 0 .. NR
      /\ Last \in 0 .. Last /\ 0 \in Byte /\ 0 \in 0 .. 5 /\ 0 \in 0 .. Last /\ 0 \in 0 .. NR + 1
      /\ NR \in 0 .. NR /\ NR + 1 \in 0 .. NR + 1
  BY Sizes
<1>1. /\ pc = "split" /\ pc' = "reduce" /\ poly_carry' = 0 /\ i' = 0 /\ j' = 0 /\ UNCHANGED <<key, call>>
      /\ poly_h' = [k \in 0 .. NR |-> IF k < NR THEN poly_product[k] ELSE poly_product[k] % 4]
      /\ poly_product' = IF body = "compact" THEN ShiftHigh(poly_product) ELSE poly_product
  BY DEF ReduceSplit
<1>2. /\ body' = body /\ poly_r' = poly_r /\ poly_s' = poly_s /\ r_tab' = r_tab /\ keyed' = keyed
      /\ poly1305_tag' = poly1305_tag /\ call' = call
  BY <1>1 DEF key
<1>3. /\ poly_h \in Limbs(NR + 1) /\ poly_r \in Limbs(NR) /\ poly_product \in Limbs(Last)
      /\ Val(poly_h) = Val(call.h) + Val(call.m)
      /\ IF body = "shoup" THEN i = NR + 1 /\ j = 0 ELSE i = 0 /\ j = NR
      /\ body = "compact" => poly_carry = 0
  BY <1>0, <1>1 DEF PolyInv, LimbTypeOK, Positions, Entry, CompactClear
<1>4. Val(poly_product) = Product
  <2>1. Val(poly_product) \in Nat
    BY <1>0, <1>3, SumsAre
  <2>2. Val(poly_h) \in Nat /\ Val(poly_h) = ValLow(poly_h, NR + 1)
    BY <1>0, <1>3, SumsAre, TopByte
  <2>3. Val(poly_r) \in Nat /\ Val(poly_r) = ValLow(poly_r, NR)
    BY <1>0, <1>3, SumsAre
  <2>4. Val(poly_h) * Val(poly_r) \in Nat
    BY <2>2, <2>3
  <2>5. Product = Val(poly_h) * Val(poly_r)
    BY <1>3 DEF Product
  <2>6. ProductSoFar
    BY DEF PolyInv
  <2>7. CASE body = "shoup"
    <3>1. i = NR + 1 /\ j = 0 /\ ~(i <= NR) /\ body # "compact"
      BY <1>0, <1>3, <2>7
    <3>2. Val(poly_product) + 0 = ValLow(poly_h, NR + 1) * Val(poly_r) + 0
      BY <1>1, <2>6, <2>7, <3>1 DEF ProductSoFar
    <3> QED BY <2>1, <2>2, <2>4, <2>5, <3>2
  <2>8. CASE body # "shoup"
    <3>1. i = 0 /\ j = NR /\ ~(j < NR)
      BY <1>0, <1>3, <2>8
    <3>2. Val(poly_product) + (IF body = "compact" THEN poly_carry * Weight(i + j) ELSE 0)
            = Val(poly_h) * ValLow(poly_r, NR) + 0
      BY <1>1, <2>6, <2>8, <3>1 DEF ProductSoFar
    <3>3. body = "compact" => poly_carry * Weight(i + j) = 0
      BY <1>0, <1>3, <3>1, WeightsAre
    <3> QED BY <2>1, <2>3, <2>4, <2>5, <3>2, <3>3
  <2> QED BY <2>7, <2>8
<1>5. /\ LowPart(poly_product) \in Limbs(NR + 1) /\ HighPart(poly_product) \in Limbs(NR + 1)
      /\ ShiftHigh(poly_product) \in Limbs(Last)
      /\ Val(HighPart(poly_product)) = Product \div Top /\ Val(LowPart(poly_product)) = Product % Top
  BY <1>3, <1>4, SplitExact
<1>6. poly_h' = LowPart(poly_product)
  BY <1>1 DEF LowPart
<1>7. Overflows' = HighPart(poly_product)
  <2>1. CASE body = "compact"
    BY <1>1, <1>2, <2>1 DEF Overflows, Overflow, HighPart
  <2>2. CASE body # "compact"
    BY <1>1, <1>2, <2>2 DEF Overflows, Overflow, HighPart
  <2> QED BY <2>1, <2>2
<1>8. Product' = Product
  BY <1>2 DEF Product
<1>9. poly_product' \in Limbs(2 * NR + 1)
  BY <1>0, <1>1, <1>3, <1>5
<1>10. LimbTypeOK'
  BY <1>0, <1>1, <1>2, <1>5, <1>6, <1>9 DEF PolyInv, LimbTypeOK
<1>11. Folded'
  <2>1. ValLow(HighPart(poly_product), 0) = 0 /\ Weight(0) = 1
    BY <1>0, <1>5, SumsAre, WeightsAre
  <2>2. Val(LowPart(poly_product)) \in Nat
    BY <1>5, TopByte
  <2>3. Val(poly_h') + poly_carry' * Weight(i') = (Product' % Top) + 5 * ValLow(Overflows', i')
    <3>1. Val(poly_h') = Product % Top /\ Product % Top \in Nat
      BY <1>5, <1>6, <2>2
    <3>2. poly_carry' * Weight(i') = 0
      BY <1>1, <2>1
    <3>3. ValLow(Overflows', i') = 0
      BY <1>1, <1>7, <2>1
    <3>4. Product' % Top = Product % Top
      BY <1>8
    <3> QED BY <3>1, <3>2, <3>3, <3>4
  <2>4. Overflows' \in Limbs(NR + 1) /\ Val(Overflows') = Product' \div Top /\ poly_carry' \in 0 .. 5
    BY <1>0, <1>1, <1>5, <1>7, <1>8
  <2> QED BY <2>3, <2>4 DEF Folded
<1>12. TablesExact'
  BY <1>1, <1>2 DEF PolyInv, TablesExact
<1>13. Positions'
  BY <1>0, <1>1, <1>2 DEF PolyInv, Positions
<1>14. Ranges' /\ Entry'
  BY <1>1, <1>2 DEF PolyInv, Ranges, Entry, Absorbing
<1>15. ProductSoFar' /\ CompactClear'
  BY <1>1 DEF ProductSoFar, CompactClear
<1> QED BY <1>10, <1>11, <1>12, <1>13, <1>14, <1>15 DEF PolyInv

\* The numbers of a reduction are natural numbers.
LEMMA ProductNatural ==
  ASSUME PolyInv, pc = "reduce"
  PROVE  /\ Val(call.h) \in Nat /\ Val(call.m) \in Nat /\ Val(poly_r) \in Nat
         /\ Product \in Nat /\ Product % Top \in Nat
<1>0. NR \in 0 .. Last
  BY Sizes
<1>1. call.h \in Limbs(NR + 1) /\ call.m \in Blocks /\ poly_r \in Limbs(NR)
  BY DEF PolyInv, Entry, Absorbing, LimbTypeOK
<1>2. Val(call.h) \in Nat
  BY <1>1, TopByte
<1>3. Val(call.m) \in Nat
  BY <1>1, BlockBelow
<1>4. Val(poly_r) \in Nat
  BY <1>0, <1>1, SumsAre
<1>5. Product \in Nat
  BY <1>2, <1>3, <1>4 DEF Product
<1> DEFINE n == Top
<1>6. n \in Nat /\ n > 0
  <2>1. Weight(NR) \in Nat /\ Weight(NR) >= 1
    BY <1>0, WeightsAre
  <2> QED BY <2>1 DEF Top
<1> HIDE DEF n
<1>7. Product % n \in 0 .. n - 1
  BY <1>5, <1>6, DivParts
<1>8. Product % n \in Nat
  BY <1>6, <1>7
<1> QED BY <1>2, <1>3, <1>4, <1>5, <1>8 DEF n

\* One byte of 5 * H; after the last one poly_h is the fold and no carry is left.
LEMMA ReduceTurnFolds ==
  ASSUME PolyInv, ReduceTurn
  PROVE  /\ poly_h' \in Limbs(NR + 1) /\ poly_carry' \in 0 .. 5 /\ Overflows' = Overflows
         /\ Val(poly_h') + poly_carry' * Weight(i + 1) = (Product % Top) + 5 * ValLow(Overflows, i + 1)
         /\ i = NR => Val(poly_h') = Lazy!Fold(Product) /\ Val(poly_h') < 5 * Weight(NR)
<1> DEFINE o == Overflow(i)  five == 5 * o + poly_carry  sum == poly_h[i] + (five % Radix)
           carry == ((five \div Radix) + (sum \div Radix)) % Radix
           s0 == sum % Radix  w == Weight(i)  x == poly_h[i]  l == Product % Top
           low == ValLow(Overflows, i)
<1>0. /\ NR + 1 \in 0 .. Last /\ NR \in 0 .. Last /\ NR \in Nat /\ Last = 2 * NR + 1 /\ NR + 1 \in Nat
      /\ Byte \subseteq Nat /\ Radix \in Nat /\ Radix >= 16 /\ NR \in 0 .. Last - 1 /\ NR + 1 \in 0 .. NR + 1
      /\ (NR + 1) - 1 = NR /\ 5 <= Radix - 1
  BY Sizes
<1>1. /\ pc = "reduce" /\ i' = i + 1 /\ UNCHANGED <<key, poly_product, call>>
      /\ poly_h' = [poly_h EXCEPT ![i] = s0] /\ poly_carry' = carry
  BY DEF ReduceTurn
<1>2. /\ i \in 0 .. NR /\ poly_h \in Limbs(NR + 1) /\ Overflows \in Limbs(NR + 1) /\ poly_carry \in 0 .. 5
      /\ Val(Overflows) = Product \div Top
      /\ Val(poly_h) + poly_carry * w = l + 5 * low
  BY <1>1 DEF PolyInv, LimbTypeOK, Positions, Folded
<1>i. i \in 0 .. (NR + 1) - 1 /\ i \in 0 .. Last - 1 /\ i \in 0 .. Last /\ i \in 0 .. NR + 1 /\ i + 1 \in 0 .. NR + 1
  <2> HIDE DEF o, five, sum, carry, s0, w, x, l, low
  <2> QED BY <1>0, <1>2
<1>3. x \in Byte /\ o \in Byte
  <2>1. Overflows[i] = o
    BY <1>2 DEF Overflows
  <2>2. Overflows[i] \in Byte /\ x \in Byte
    BY <1>0, <1>2, <1>i, LimbsDomain
  <2> QED BY <2>1, <2>2
<1>4. s0 \in Byte /\ carry \in 0 .. 5 /\ s0 + Radix * carry = x + 5 * o + poly_carry
  <2> HIDE DEF o, w, l, low
  <2> QED BY <1>2, <1>3, ReduceStep
<1>5. Overflows' = Overflows /\ body' = body /\ call' = call /\ poly_r' = poly_r
  BY <1>1 DEF Overflows, Overflow, key
<1> HIDE DEF five, sum, carry, s0
<1>6. poly_h' \in Limbs(NR + 1) /\ poly_h'[i] = s0 /\ \A k \in 0 .. (NR + 1) - 1 : k # i => poly_h[k] = poly_h'[k]
  <2>1. DOMAIN poly_h = 0 .. (NR + 1) - 1
    BY <1>2 DEF Limbs
  <2>2. poly_h' \in Limbs(NR + 1)
    BY <1>1, <1>2, <1>4 DEF Limbs
  <2> HIDE DEF o, w, x, l, low
  <2> QED BY <1>1, <1>i, <2>1, <2>2
<1>7. Val(poly_h') = Val(poly_h) + (s0 - x) * w
  BY <1>0, <1>2, <1>6, <1>i, SumUpdate
<1>8. w \in Nat /\ Weight(i + 1) = Radix * w
  BY <1>i, WeightsAre
<1>9. ValLow(Overflows, i + 1) = low + o * w /\ low \in Nat
  <2>1. ValLow(Overflows, i + 1) = low + Overflows[i] * w /\ low \in Nat
    BY <1>0, <1>2, <1>i, SumsAre
  <2>2. Overflows[i] = o
    BY <1>2 DEF Overflows
  <2> QED BY <2>1, <2>2
<1>10. l \in Nat /\ Product \in Nat /\ Val(call.h) \in Nat /\ Val(call.m) \in Nat /\ Val(poly_r) \in Nat
  BY <1>1, ProductNatural
<1>11. Val(poly_h) \in Nat /\ Val(poly_h') \in Nat
  BY <1>2, <1>6, TopByte
<1>12. Val(poly_h') + carry * Weight(i + 1) = l + 5 * ValLow(Overflows, i + 1)
  <2> DEFINE v == Val(poly_h)  e == Val(poly_h')  c == poly_carry
  <2>1. /\ s0 \in Nat /\ carry \in Nat /\ c \in Nat /\ x \in Nat /\ o \in Nat /\ v \in Nat /\ e \in Nat
        /\ s0 + Radix * carry = x + 5 * o + c /\ v + c * w = l + 5 * low /\ e = v + (s0 - x) * w
    <3>1. s0 \in Nat /\ carry \in Nat /\ c \in Nat
      BY <1>0, <1>2, <1>4
    <3>2. x \in Nat /\ o \in Nat
      BY <1>0, <1>3
    <3> HIDE DEF x, o, w, l, low
    <3> QED BY <1>2, <1>4, <1>7, <1>11, <3>1, <3>2
  <2> HIDE DEF v, e, c, x, o, w, l, low
  <2>2. (s0 + Radix * carry) * w = s0 * w + carry * (Radix * w)
    BY <1>0, <1>8, <2>1, Z3
  <2>3. (x + 5 * o + c) * w = x * w + 5 * (o * w) + c * w
    BY <1>8, <2>1, Z3
  <2>4. (s0 - x) * w = s0 * w - x * w
    BY <1>8, <2>1, Z3
  <2> DEFINE sw == s0 * w  xw == x * w  ow == o * w  cw == c * w  yw == carry * (Radix * w)
  <2>5. sw \in Nat /\ xw \in Nat /\ ow \in Nat /\ cw \in Nat /\ yw \in Nat
    BY <1>0, <1>8, <2>1
  <2>6. sw + yw = xw + 5 * ow + cw /\ e = v + (sw - xw) /\ v + cw = l + 5 * low
    BY <2>1, <2>2, <2>3, <2>4
  <2> HIDE DEF sw, xw, ow, cw, yw
  <2>7. e + yw = l + 5 * (low + ow)
    BY <1>9, <1>10, <2>1, <2>5, <2>6
  <2> QED BY <1>8, <1>9, <2>7 DEF yw, ow, e
<1>13. i = NR => Val(poly_h') = Lazy!Fold(Product) /\ Val(poly_h') < 5 * Weight(NR)
  <2> SUFFICES ASSUME i = NR PROVE Val(poly_h') = Lazy!Fold(Product) /\ Val(poly_h') < 5 * Weight(NR)
    OBVIOUS
  <2>1. ValLow(Overflows, NR + 1) = Product \div Top
    BY <1>0, <1>2, SumsAre
  <2>2. Val(poly_h') + carry * Weight(NR + 1) = Lazy!Fold(Product)
    BY <1>12, <2>1 DEF Lazy!Fold
  <2> DEFINE u == Weight(NR)  f == Lazy!Fold(Product)
  <2>3. u \in Nat /\ u >= 1 /\ Weight(NR + 1) = Radix * u
    BY <1>0, WeightsAre
  <2>4. f \in Nat /\ f < 5 * u
    <3> DEFINE a == Val(call.h)  b == Val(call.m)  r == Val(poly_r)
    <3>1. a < 5 * u /\ b < 2 * u /\ 16 * r < u /\ a \in Nat /\ b \in Nat /\ r \in Nat /\ u > 0
      <4>1. b < 2 * u
        BY <1>1, BlockBelow DEF PolyInv, Entry, Absorbing
      <4> QED BY <1>1, <1>10, <2>3, <4>1 DEF PolyInv, Entry, Absorbing, Ranges
    <3>2. Top = 4 * u
      BY DEF Top
    <3> HIDE DEF a, b, r, u, f
    <3>3. Lazy!Fold((a + b) * r) \in Nat /\ Lazy!Fold((a + b) * r) < 5 * u
      BY <2>3, <3>1, <3>2, FoldBelow
    <3> QED BY <3>3 DEF f, a, b, r, Product
  <2> DEFINE e == Val(poly_h')  g == carry * (Radix * u)
  <2>5. carry = 0
    <3> SUFFICES ASSUME carry >= 1 PROVE FALSE
      BY <1>4
    <3> HIDE DEF u, f
    <3>1. Radix * u >= 16 * u
      BY <1>0, <2>3, Z3
    <3>2. carry * (Radix * u) >= Radix * u
      <4> DEFINE n == Radix * u
      <4>1. n \in Nat /\ carry \in Nat
        BY <1>0, <1>4, <2>3
      <4> HIDE DEF n
      <4>2. carry * n >= n
        BY <4>1, Z3
      <4> QED BY <4>2 DEF n
    <3> DEFINE n == Radix * u
    <3>3. n \in Nat /\ g \in Nat /\ g >= n /\ n >= 16 * u /\ e + g = f /\ e \in Nat
      BY <1>0, <1>4, <1>11, <2>2, <2>3, <3>1, <3>2 DEF f
    <3> HIDE DEF n, g, e
    <3> QED BY <2>3, <2>4, <3>3
  <2>6. g = 0
    BY <1>0, <2>3, <2>5
  <2>7. e = f
    <3>1. e + g = f /\ e \in Nat
      BY <1>11, <2>2, <2>3
    <3> HIDE DEF e, g, f
    <3> QED BY <2>6, <3>1
  <2> QED BY <2>4, <2>7
<1> QED BY <1>1, <1>4, <1>5, <1>6, <1>12, <1>13

LEMMA ReduceTurnStep ==
  ASSUME PolyInv, ReduceTurn
  PROVE  PolyInv'
<1>0. NR \in Nat /\ 0 .. 5 \subseteq Byte
  BY Sizes
<1>1. /\ poly_h' \in Limbs(NR + 1) /\ poly_carry' \in 0 .. 5 /\ Overflows' = Overflows
      /\ Val(poly_h') + poly_carry' * Weight(i + 1) = (Product % Top) + 5 * ValLow(Overflows, i + 1)
      /\ i = NR => Val(poly_h') = Lazy!Fold(Product) /\ Val(poly_h') < 5 * Weight(NR)
  BY ReduceTurnFolds
<1>2. /\ pc = "reduce" /\ i' = i + 1 /\ pc' = IF i = NR THEN "caller" ELSE "reduce"
      /\ body' = body /\ poly_r' = poly_r /\ poly_s' = poly_s /\ r_tab' = r_tab /\ keyed' = keyed
      /\ poly1305_tag' = poly1305_tag /\ call' = call /\ poly_product' = poly_product /\ j' = j
  BY DEF ReduceTurn, key
<1>3. i \in 0 .. NR
  BY <1>2 DEF PolyInv, Positions
<1>4. i' \in 0 .. NR + 1 /\ (pc' = "reduce" => i' \in 0 .. NR)
  BY <1>0, <1>2, <1>3
<1>5. LimbTypeOK'
  BY <1>0, <1>1, <1>2, <1>4 DEF PolyInv, LimbTypeOK
<1>6. TablesExact'
  BY <1>2 DEF PolyInv, TablesExact
<1>7. Positions'
  BY <1>2, <1>4 DEF PolyInv, Positions
<1>8. Ranges'
  BY <1>1, <1>2 DEF PolyInv, Ranges, Absorbing
<1>9. Entry'
  BY <1>2 DEF PolyInv, Entry, Absorbing
<1>10. ProductSoFar' /\ CompactClear'
  BY <1>2 DEF ProductSoFar, CompactClear
<1>11. Folded'
  <2>1. Product' = Product
    BY <1>2 DEF Product
  <2>2. Overflows \in Limbs(NR + 1) /\ Val(Overflows) = Product \div Top
    BY <1>2 DEF PolyInv, Folded
  <2>3. Overflows' \in Limbs(NR + 1) /\ Val(Overflows') = Product' \div Top
    BY <1>1, <2>1, <2>2
  <2>4. Val(poly_h') + poly_carry' * Weight(i') = (Product' % Top) + 5 * ValLow(Overflows', i')
    BY <1>1, <1>2, <2>1
  <2> QED BY <1>1, <2>3, <2>4 DEF Folded
<1> QED BY <1>5, <1>6, <1>7, <1>8, <1>9, <1>10, <1>11 DEF PolyInv

LEMMA FinalExact ==
  ASSUME PolyInv, PolyFinal
  PROVE  /\ poly1305_tag' \in Limbs(NR) /\ poly_h' \in Limbs(NR + 1) /\ poly_product' \in Limbs(Last)
         /\ Val(poly1305_tag') = (Lazy!ReduceOnce(Val(poly_h)) + Val(poly_s)) % Weight(NR)
         /\ Val(poly_h') = (Lazy!ReduceOnce(Val(poly_h)) \div Weight(NR)) * Weight(NR) + Val(poly1305_tag')
<1> DEFINE plus5 == AddChain(poly_h, Five, NR + 1)
           full  == Blended(poly_h)
           tag   == AddChain(full, poly_s, NR)
           h     == [k \in 0 .. NR |-> IF k < NR THEN tag[k] ELSE full[k]]
<1>0. NR \in Nat /\ Last = 2 * NR + 1 /\ (NR + 1) - 1 = NR /\ Last - 1 = 2 * NR
  BY Sizes
<1>1. /\ poly_h \in Limbs(NR + 1) /\ poly_s \in Limbs(NR) /\ poly_product \in Limbs(Last)
      /\ Val(poly_h) < 5 * Weight(NR)
  BY <1>0 DEF PolyFinal, CallerTurn, PolyInv, LimbTypeOK, Ranges, Absorbing
<1>2. /\ poly1305_tag' = tag /\ poly_h' = h
      /\ poly_product' = [k \in 0 .. 2 * NR |-> IF k <= NR THEN plus5[k] ELSE poly_product[k]]
  BY DEF PolyFinal, Blended
<1>3. /\ plus5 \in Limbs(NR + 1) /\ full \in Limbs(NR + 1) /\ Val(full) = Lazy!ReduceOnce(Val(poly_h))
  BY <1>1, BlendExact
<1> HIDE DEF plus5, full
<1>4. /\ tag \in Limbs(NR) /\ h \in Limbs(NR + 1)
      /\ Val(tag) = (Val(full) + Val(poly_s)) % Weight(NR)
      /\ Val(h) = (Val(full) \div Weight(NR)) * Weight(NR) + Val(tag)
  BY <1>1, <1>3, TagExact
<1> HIDE DEF tag, h
<1>5. poly_product' \in Limbs(Last)
  <2>1. \A k \in 0 .. NR : plus5[k] \in Byte
    BY <1>0, <1>3 DEF Limbs
  <2>2. \A k \in 0 .. 2 * NR : poly_product[k] \in Byte
    BY <1>0, <1>1 DEF Limbs
  <2>3. \A k \in 0 .. 2 * NR : k <= NR => k \in 0 .. NR
    BY <1>0
  <2>4. poly_product' \in [0 .. 2 * NR -> Byte]
    BY <1>2, <2>1, <2>2, <2>3
  <2> QED BY <1>0, <2>4 DEF Limbs
<1> QED BY <1>2, <1>3, <1>4, <1>5

LEMMA PolyFinalStep ==
  ASSUME PolyInv, PolyFinal
  PROVE  PolyInv'
<1>1. /\ pc = "caller" /\ pc' = "caller" /\ keyed' = FALSE /\ body' = body /\ poly_r' = poly_r
      /\ poly_s' = poly_s /\ r_tab' = r_tab /\ poly_carry' = poly_carry /\ i' = i /\ j' = j
  BY DEF PolyFinal, CallerTurn
<1>2. poly1305_tag' \in Limbs(NR) /\ poly_h' \in Limbs(NR + 1) /\ poly_product' \in Limbs(Last)
  BY FinalExact
<1>3. LimbTypeOK'
  BY <1>1, <1>2 DEF PolyInv, LimbTypeOK, Last
<1>4. Ranges'
  BY <1>1 DEF PolyInv, Ranges
<1> QED BY <1>1, <1>3, <1>4 DEF PolyInv, TablesExact, Positions, Entry, ProductSoFar, CompactClear, Folded, Absorbing

-----------------------------------------------------------------------------
(* The theorems                                                             *)

LEMMA PolyInvariant == Spec => []PolyInv
<1>1. ASSUME PolyInv, [Next]_vars PROVE PolyInv'
  <2>1. ASSUME NEW k \in Keys, PolyInit(k) PROVE PolyInv'
    BY <1>1, <2>1, PolyInitStep
  <2>2. ASSUME ShoupInit PROVE PolyInv'
    BY <1>1, <2>2, ShoupInitStep
  <2>3. ASSUME NEW m \in Blocks, BlockAdd(m) PROVE PolyInv'
    BY <1>1, <2>3, BlockAddStep
  <2>4. ASSUME MultiplyRipple PROVE PolyInv'
    BY <1>1, <2>4, MultiplyRippleStep
  <2>5. ASSUME MultiplyShoup PROVE PolyInv'
    BY <1>1, <2>5, MultiplyShoupStep
  <2>6. ASSUME MultiplyCompact PROVE PolyInv'
    BY <1>1, <2>6, MultiplyCompactStep
  <2>7. ASSUME ReduceSplit PROVE PolyInv'
    BY <1>1, <2>7, ReduceSplitStep
  <2>8. ASSUME ReduceTurn PROVE PolyInv'
    BY <1>1, <2>8, ReduceTurnStep
  <2>9. ASSUME PolyFinal PROVE PolyInv'
    BY <1>1, <2>9, PolyFinalStep
  <2>10. ASSUME UNCHANGED vars PROVE PolyInv'
    <3>1. /\ body' = body /\ poly_h' = poly_h /\ poly_r' = poly_r /\ poly_s' = poly_s
          /\ poly_product' = poly_product /\ poly1305_tag' = poly1305_tag /\ r_tab' = r_tab
          /\ poly_carry' = poly_carry /\ i' = i /\ j' = j /\ pc' = pc /\ keyed' = keyed /\ call' = call
      BY <2>10 DEF vars
    <3>2. LimbTypeOK' /\ TablesExact' /\ Positions' /\ ProductSoFar' /\ CompactClear'
      BY <1>1, <3>1 DEF PolyInv, LimbTypeOK, TablesExact, Positions, ProductSoFar, CompactClear
    <3>3. Ranges' /\ Entry'
      BY <1>1, <3>1 DEF PolyInv, Ranges, Entry, Absorbing
    <3>4. Folded'
      <4>1. Overflows' = Overflows /\ Product' = Product
        BY <3>1 DEF Overflows, Overflow, Product
      <4> QED BY <1>1, <3>1, <4>1 DEF PolyInv, Folded
    <3> QED BY <3>2, <3>3, <3>4 DEF PolyInv
  <2> QED BY <1>1, <2>1, <2>2, <2>3, <2>4, <2>5, <2>6, <2>7, <2>8, <2>9, <2>10 DEF Next
<1> QED BY <1>1, PolyInvInit, PTL DEF Spec

(* In any of the three builds every byte of the operands, of the product, of  *)
(* the tables and of the carries stays a byte, and no loop of poly1305_core.s *)
(* indexes past its operand, for every radix and every length of r.          *)
THEOREM LimbTypes == Spec => []LimbTypeOK
<1>1. PolyInv => LimbTypeOK
  BY DEF PolyInv
<1> QED BY <1>1, PolyInvariant, PTL

(* Profile A's incremental tables, one carry running through all the steps of *)
(* shoup_k_loop, are the multiples of the clamped r: every entry of all        *)
(* tables as soon as the build has ended, whatever the key.                  *)
THEOREM ShoupTables == Spec => []TablesExact
<1>1. PolyInv => TablesExact
  BY DEF PolyInv
<1> QED BY <1>1, PolyInvariant, PTL

(* At every step of the three schoolbook multiplies the product buffer and the *)
(* pending carry are exactly the partial products so far: the ripple ends      *)
(* inside the buffer, and the compact row's byte of carry never wraps.        *)
THEOREM MultipliesExact == Spec => []ProductSoFar
<1>1. PolyInv => ProductSoFar
  BY DEF PolyInv
<1> QED BY <1>1, PolyInvariant, PTL

(* At every byte of poly1305_reduce what is folded and what is left make       *)
(* L + 5 * H, with the carry that the next byte picks up.                    *)
THEOREM ReductionExact == Spec => []ReducedSoFar
<1>1. ASSUME PolyInv PROVE ReducedSoFar
  <2> DEFINE H == Product \div Top  l == Product % Top  low == ValLow(Overflows, i)
             c == poly_carry * Weight(i)  v == Val(poly_h)
  <2> SUFFICES ASSUME pc = "reduce" PROVE v + c + 5 * (H - (H % Weight(i))) = l + 5 * H
    BY DEF ReducedSoFar, Product
  <2>1. /\ Overflows \in Limbs(NR + 1) /\ Val(Overflows) = H /\ poly_carry \in 0 .. 5
        /\ v + c = l + 5 * low /\ i \in 0 .. NR /\ poly_h \in Limbs(NR + 1)
    BY <1>1 DEF PolyInv, Folded, Positions, LimbTypeOK
  <2>2. /\ NR + 1 \in 0 .. Last /\ i \in 0 .. NR + 1 /\ i \in 0 .. Last
    BY <2>1, Sizes
  <2>3. H % Weight(i) = low
    BY <2>1, <2>2, SumMod
  <2>4. low \in Nat /\ H \in Nat
    <3>1. H = ValLow(Overflows, NR + 1) /\ NR + 1 \in 0 .. NR + 1
      BY <2>1, <2>2, Sizes, SumsAre
    <3> QED BY <2>1, <2>2, <3>1, SumsAre
  <2>5. v \in Nat
    BY <2>1, TopByte
  <2>6. c \in Nat
    <3>1. Weight(i) \in Nat /\ poly_carry \in Nat
      BY <2>1, <2>2, WeightsAre
    <3> QED BY <3>1
  <2>7. l \in Nat
    BY <1>1, ProductNatural
  <2> HIDE DEF H, l, low, c, v
  <2>8. v + c = l + 5 * low /\ H - (H % Weight(i)) = H - low
    BY <2>1, <2>3
  <2> DEFINE e == H - (H % Weight(i))
  <2>9. e = H - low
    BY <2>8
  <2> HIDE DEF e
  <2>10. v + c + 5 * e = l + 5 * H
    BY <2>4, <2>5, <2>6, <2>7, <2>8, <2>9
  <2> QED BY <2>10 DEF e
<1> QED BY <1>1, PolyInvariant, PTL

(* The bytes' keys, pads and blocks are operands that the whole-number        *)
(* specification allows: they satisfy PolyLazy's assumptions.                *)
LEMMA LazyOperands ==
  /\ Weight(NR) \in Nat /\ Weight(NR) >= 4 /\ Top = 4 * Weight(NR)
  /\ ClampedValues \subseteq Nat /\ \A x \in ClampedValues : 64 * x <= Top
  /\ BlockValues \subseteq Nat /\ \A m \in BlockValues : 2 * m <= Top
  /\ PadValues \subseteq Nat /\ \A x \in PadValues : x < Weight(NR)
<1> DEFINE w == Weight(NR)
<1>0. /\ NR \in 0 .. Last /\ NR \in 0 .. NR /\ NR - 1 \in 0 .. Last - 1 /\ NR - 1 \in 0 .. Last /\ (NR - 1) + 1 = NR
      /\ Radix \in Nat /\ Radix >= 16
  BY Sizes
<1>1. w \in Nat /\ w >= 4 /\ Top = 4 * w
  <2> DEFINE u == Weight(NR - 1)
  <2>1. u \in Nat /\ u >= 1
    BY <1>0, WeightsAre
  <2>2. Weight((NR - 1) + 1) = Radix * u
    BY <1>0, WeightsAre
  <2>3. w = Radix * u /\ w \in Nat
    BY <1>0, <2>2, WeightsAre
  <2> HIDE DEF u, w
  <2>4. Radix * u >= 16 * u
    BY <1>0, <2>1, Z3
  <2>5. w >= 4
    <3> DEFINE g == Radix * u
    <3>1. g \in Nat /\ g >= 16 * u /\ w = g
      BY <1>0, <2>1, <2>3, <2>4
    <3> HIDE DEF g
    <3> QED BY <2>1, <3>1
  <2> QED BY <2>3, <2>5 DEF w, Top
<1>2. ASSUME NEW k \in Keys
      PROVE  /\ Val(poly1305_clamp(k.r)) \in Nat /\ 16 * Val(poly1305_clamp(k.r)) < w
             /\ Val(k.s) \in Nat /\ Val(k.s) < w
  <2>1. k.r \in Limbs(NR) /\ k.s \in Limbs(NR)
    BY OperandAssumption
  <2>2. Val(poly1305_clamp(k.r)) \in Nat /\ 16 * Val(poly1305_clamp(k.r)) < w
    BY <2>1, ClampExact
  <2>3. Val(k.s) = ValLow(k.s, NR)
    BY <1>0, <2>1, SumsAre
  <2>4. ValLow(k.s, NR) \in Nat /\ ValLow(k.s, NR) + 1 <= w
    BY <1>0, <2>1, SumBound
  <2> HIDE DEF w
  <2> QED BY <1>1, <2>2, <2>3, <2>4
<1>3. ASSUME NEW m \in Blocks PROVE Val(m) \in Nat /\ Val(m) < 2 * w
  BY BlockBelow
<1> HIDE DEF w
<1>4. ClampedValues \subseteq Nat /\ \A x \in ClampedValues : 64 * x <= Top
  <2> SUFFICES ASSUME NEW x \in ClampedValues PROVE x \in Nat /\ 64 * x <= Top
    OBVIOUS
  <2>1. PICK k \in Keys : x = Val(poly1305_clamp(k.r))
    BY DEF ClampedValues
  <2>2. x \in Nat /\ 16 * x < w
    BY <1>2, <2>1
  <2> QED BY <1>1, <2>2
<1>5. PadValues \subseteq Nat /\ \A x \in PadValues : x < w
  BY <1>2 DEF PadValues
<1>6. BlockValues \subseteq Nat /\ \A m \in BlockValues : 2 * m <= Top
  <2> SUFFICES ASSUME NEW x \in BlockValues PROVE x \in Nat /\ 2 * x <= Top
    OBVIOUS
  <2>1. PICK m \in Blocks : x = Val(m)
    BY DEF BlockValues
  <2>2. x \in Nat /\ x < 2 * w
    BY <1>3, <2>1
  <2> QED BY <1>1, <2>2
<1> QED BY <1>1, <1>4, <1>5, <1>6 DEF w

\* The barred accumulator: a block is absorbed when its reduction ends.
Acc   == Val(IF pc \in {"multiply", "split", "reduce"} THEN call.h ELSE poly_h)
Phase == IF keyed THEN "keyed" ELSE "idle"

\* Every step of the bytes is a step of the whole numbers or none.
LEMMA LazyStep ==
  ASSUME PolyInv, [Next]_vars
  PROVE  [Lazy!Next]_(Lazy!vars)
<1>s. ASSUME Acc' = Acc, Phase' = Phase, poly_r' = poly_r, poly_s' = poly_s, poly1305_tag' = poly1305_tag
      PROVE  [Lazy!Next]_(Lazy!vars)
  BY <1>s DEF Lazy!vars, Acc, Phase
<1>1. ASSUME NEW k \in Keys, PolyInit(k) PROVE [Lazy!Next]_(Lazy!vars)
  <2>1. /\ pc' \in {"tables", "caller"} /\ keyed' = TRUE /\ poly_h' = Zero(NR + 1)
        /\ poly_r' = poly1305_clamp(k.r) /\ poly_s' = k.s /\ poly1305_tag' = poly1305_tag
    BY <1>1 DEF PolyInit, CallerTurn
  <2>2. Val(Zero(NR + 1)) = 0
    BY Sizes, ValZero
  <2>3. Acc' = 0 /\ Phase' = "keyed"
    BY <2>1, <2>2 DEF Acc, Phase
  <2>4. Lazy!Start(Val(poly1305_clamp(k.r)), Val(k.s))
    BY <2>1, <2>3 DEF Lazy!Start, Acc, Phase
  <2>5. Val(poly1305_clamp(k.r)) \in ClampedValues /\ Val(k.s) \in PadValues
    BY DEF ClampedValues, PadValues
  <2> QED BY <2>4, <2>5 DEF Lazy!Next
<1>2. ASSUME ShoupInit PROVE [Lazy!Next]_(Lazy!vars)
  <2>1. /\ pc = "tables" /\ pc' \in {"tables", "caller"} /\ poly_h' = poly_h /\ keyed' = keyed
        /\ poly_r' = poly_r /\ poly_s' = poly_s /\ poly1305_tag' = poly1305_tag
    BY <1>2 DEF ShoupInit
  <2> QED BY <1>s, <2>1 DEF Acc, Phase
<1>3. ASSUME NEW m \in Blocks, BlockAdd(m) PROVE [Lazy!Next]_(Lazy!vars)
  <2>1. /\ pc = "caller" /\ pc' = "multiply" /\ call' = [h |-> poly_h, m |-> m] /\ keyed' = keyed
        /\ poly_r' = poly_r /\ poly_s' = poly_s /\ poly1305_tag' = poly1305_tag
    BY <1>3 DEF BlockAdd, CallerTurn, key
  <2> QED BY <1>s, <2>1 DEF Acc, Phase
<1>4. ASSUME MultiplyRipple \/ MultiplyShoup \/ MultiplyCompact PROVE [Lazy!Next]_(Lazy!vars)
  <2>1. /\ pc = "multiply" /\ pc' \in {"multiply", "split"} /\ call' = call /\ keyed' = keyed
        /\ poly_r' = poly_r /\ poly_s' = poly_s /\ poly1305_tag' = poly1305_tag
    BY <1>4 DEF MultiplyRipple, MultiplyShoup, MultiplyCompact, key
  <2> QED BY <1>s, <2>1 DEF Acc, Phase
<1>5. ASSUME ReduceSplit PROVE [Lazy!Next]_(Lazy!vars)
  <2>1. /\ pc = "split" /\ pc' = "reduce" /\ call' = call /\ keyed' = keyed
        /\ poly_r' = poly_r /\ poly_s' = poly_s /\ poly1305_tag' = poly1305_tag
    BY <1>5 DEF ReduceSplit, key
  <2> QED BY <1>s, <2>1 DEF Acc, Phase
<1>6. ASSUME ReduceTurn PROVE [Lazy!Next]_(Lazy!vars)
  <2>1. /\ pc = "reduce" /\ pc' = (IF i = NR THEN "caller" ELSE "reduce") /\ call' = call /\ keyed' = keyed
        /\ poly_r' = poly_r /\ poly_s' = poly_s /\ poly1305_tag' = poly1305_tag
    BY <1>6 DEF ReduceTurn, key
  <2>2. keyed /\ call.m \in Blocks
    BY <2>1 DEF PolyInv, Positions, Entry, Absorbing
  <2>3. CASE i # NR
    BY <1>s, <2>1, <2>3 DEF Acc, Phase
  <2>4. CASE i = NR
    <3>1. Val(poly_h') = Lazy!Fold((Val(call.h) + Val(call.m)) * Val(poly_r))
      BY <1>6, <2>4, ReduceTurnFolds DEF Product
    <3>2. Acc = Val(call.h) /\ Acc' = Val(poly_h') /\ Phase = "keyed" /\ Phase' = "keyed"
      BY <2>1, <2>2, <2>4 DEF Acc, Phase
    <3>3. Lazy!Block(Val(call.m))
      BY <2>1, <3>1, <3>2 DEF Lazy!Block, Acc, Phase
    <3>4. Val(call.m) \in BlockValues
      BY <2>2 DEF BlockValues
    <3> QED BY <3>3, <3>4 DEF Lazy!Next
  <2> QED BY <2>3, <2>4
<1>7. ASSUME PolyFinal PROVE [Lazy!Next]_(Lazy!vars)
  <2>1. /\ pc = "caller" /\ pc' = "caller" /\ keyed /\ keyed' = FALSE
        /\ poly_r' = poly_r /\ poly_s' = poly_s
    BY <1>7 DEF PolyFinal, CallerTurn
  <2>2. /\ Val(poly1305_tag') = (Lazy!ReduceOnce(Val(poly_h)) + Val(poly_s)) % Weight(NR)
        /\ Val(poly_h') = (Lazy!ReduceOnce(Val(poly_h)) \div Weight(NR)) * Weight(NR) + Val(poly1305_tag')
    BY <1>7, FinalExact
  <2>3. Acc = Val(poly_h) /\ Acc' = Val(poly_h') /\ Phase = "keyed" /\ Phase' = "idle"
    BY <2>1 DEF Acc, Phase
  <2>4. Lazy!Finish
    BY <2>1, <2>2, <2>3 DEF Lazy!Finish, Acc, Phase
  <2> QED BY <2>4 DEF Lazy!Next
<1>8. ASSUME UNCHANGED vars PROVE [Lazy!Next]_(Lazy!vars)
  <2>1. /\ pc' = pc /\ call' = call /\ poly_h' = poly_h /\ keyed' = keyed
        /\ poly_r' = poly_r /\ poly_s' = poly_s /\ poly1305_tag' = poly1305_tag
    BY <1>8 DEF vars
  <2> QED BY <1>s, <2>1 DEF Acc, Phase
<1> QED BY <1>1, <1>2, <1>3, <1>4, <1>5, <1>6, <1>7, <1>8 DEF Next

(* Byte by byte, in all three builds and through Profile A's tables, the       *)
(* library's Poly1305 is the whole-number arithmetic: a block is absorbed at   *)
(* the last byte of its reduction, and poly1305_final leaves that arithmetic's *)
(* tag.                                                                     *)
THEOREM BytesImplementLazy == Spec => ImplementsLazy
<1>1. Init => Lazy!Init
  <2> SUFFICES ASSUME Init PROVE Lazy!Init
    OBVIOUS
  <2>1. /\ pc = "caller" /\ keyed = FALSE /\ poly_h = Zero(NR + 1) /\ poly_r = Zero(NR)
        /\ poly_s = Zero(NR) /\ poly1305_tag = Zero(NR)
    BY DEF Init
  <2>2. Val(Zero(NR + 1)) = 0 /\ Val(Zero(NR)) = 0
    <3>1. NR \in 0 .. Last /\ NR + 1 \in 0 .. Last
      BY Sizes
    <3> QED BY <3>1, ValZero
  <2> QED BY <2>1, <2>2 DEF Lazy!Init
<1>2. PolyInv /\ [Next]_vars => [Lazy!Next]_(Lazy!vars)
  BY LazyStep
<1> QED BY <1>1, <1>2, PolyInvariant, PTL DEF Spec, ImplementsLazy, Lazy!Spec

\* PolyLazyProofs' theorems about the numbers that the bytes stand for.
Numbers == INSTANCE PolyLazyProofs WITH
             TagSpace <- Weight(NR), Rs <- ClampedValues, Ss <- PadValues,
             Blocks <- BlockValues,
             poly_h <- Val(IF pc \in {"multiply", "split", "reduce"} THEN call.h
                                                                     ELSE poly_h),
             poly_r <- Val(poly_r), poly_s <- Val(poly_s),
             poly1305_tag <- Val(poly1305_tag),
             phase <- (IF keyed THEN "keyed" ELSE "idle")

(* The bytes are Poly1305: what the 6502 code does to its buffers, seen        *)
(* through the numbers they stand for, is the RFC's MAC, and the tag it leaves *)
(* is the RFC's tag of the key and the blocks.                               *)
THEOREM BytesImplementMac == Spec => Lazy!ImplementsMac
<1>1. Numbers!Spec => Numbers!ImplementsMac
  BY LazyOperands, Numbers!LazyImplementsMac
<1>2. Lazy!Init => Numbers!Init
  BY DEF Lazy!Init, Numbers!Init
<1>3. [Lazy!Next]_(Lazy!vars) => [Numbers!Next]_(Numbers!vars)
  BY DEF Lazy!Next, Lazy!vars, Lazy!Start, Lazy!Block, Lazy!Finish, Lazy!Fold, Lazy!ReduceOnce,
         Numbers!Next, Numbers!vars, Numbers!Start, Numbers!Block, Numbers!Finish, Numbers!Fold,
         Numbers!ReduceOnce
<1>4. Numbers!Mac!MacInit => Lazy!Mac!MacInit
  BY DEF Numbers!Mac!MacInit, Lazy!Mac!MacInit, Lazy!P, Numbers!P
<1>5. [Numbers!Mac!MacNext]_(Numbers!Mac!macVars) => [Lazy!Mac!MacNext]_(Lazy!Mac!macVars)
  BY DEF Numbers!Mac!MacNext, Numbers!Mac!macVars, Numbers!Mac!MacStart, Numbers!Mac!MacBlock,
         Numbers!Mac!MacFinish, Lazy!Mac!MacNext, Lazy!Mac!macVars, Lazy!Mac!MacStart,
         Lazy!Mac!MacBlock, Lazy!Mac!MacFinish, Lazy!P, Numbers!P
<1>6. Numbers!Spec => Lazy!ImplementsMac
  BY <1>1, <1>4, <1>5, PTL DEF Numbers!ImplementsMac, Lazy!ImplementsMac, Numbers!Mac!MacSpec,
                               Lazy!Mac!MacSpec
<1>7. Lazy!Spec => Numbers!Spec
  BY <1>2, <1>3, PTL DEF Lazy!Spec, Numbers!Spec
<1> QED BY <1>6, <1>7, BytesImplementLazy, PTL DEF ImplementsLazy

=============================================================================
