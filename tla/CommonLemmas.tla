---------------------------- MODULE CommonLemmas ----------------------------
(***************************************************************************)
(* Quotients and remainders, induction, what iterates or increases, and    *)
(* how sequences are joined and cut.                                       *)
(***************************************************************************)
EXTENDS Integers, TLAPS, FiniteSetTheorems, SequenceTheorems

LEMMA DivParts ==
  ASSUME NEW c \in Nat, c > 0, NEW x \in Nat
  PROVE  /\ x \div c \in Nat /\ x % c \in 0 .. c - 1
         /\ x = (x \div c) * c + (x % c)
<1> DEFINE q == x \div c  r == x % c
<1>1. q \in Int /\ r \in 0 .. c - 1 /\ x = c * q + r
  BY Z3
<1> HIDE DEF q, r
<1>2. q \in Nat
  <2> SUFFICES ASSUME q <= -1 PROVE FALSE
    BY <1>1
  <2>1. c * q <= -c
    BY <1>1, Z3
  <2> QED BY <1>1, <2>1, Z3
<1>3. c * q = q * c
  BY <1>2, Z3
<1> QED BY <1>1, <1>2, <1>3 DEF q, r

(* The quotient and the remainder are the only pair that composes x.         *)
LEMMA DivMod ==
  ASSUME NEW c \in Nat, c > 0, NEW q \in Int, NEW i \in 0 .. c - 1
  PROVE  (q * c + i) \div c = q /\ (q * c + i) % c = i
<1> DEFINE x == q * c + i  d == x \div c  r == x % c
<1>1. x \in Int /\ q * c \in Int
  BY Z3
<1>2. d \in Int /\ r \in 0 .. c - 1 /\ x = c * d + r
  BY <1>1, Z3
<1>x. x = q * c + i OBVIOUS
<1> HIDE DEF x, d, r
<1>3. ~(d >= q + 1)
  <2> SUFFICES ASSUME d >= q + 1 PROVE FALSE OBVIOUS
  <2>1. c * d >= c * (q + 1)
    BY <1>2, Z3
  <2>2. c * (q + 1) = q * c + c
    BY Z3
  <2> QED BY <1>1, <1>2, <1>x, <2>1, <2>2, Z3
<1>4. ~(d <= q - 1)
  <2> SUFFICES ASSUME d <= q - 1 PROVE FALSE OBVIOUS
  <2>1. c * d <= c * (q - 1)
    BY <1>2, Z3
  <2>2. c * (q - 1) = q * c - c
    BY Z3
  <2> QED BY <1>1, <1>2, <1>x, <2>1, <2>2, Z3
<1>5. d = q
  BY <1>2, <1>3, <1>4
<1>6. c * d = q * c
  BY <1>5, Z3
<1>7. r = i
  BY <1>1, <1>2, <1>6, <1>x
<1> QED BY <1>5, <1>7 DEF d, r, x

(* The remainder of a successor, as a counter computes it.                   *)
LEMMA ModNext ==
  ASSUME NEW m \in Nat, m > 0, NEW x \in Nat
  PROVE  /\ x % m \in 0 .. m - 1
         /\ (x + 1) % m = IF (x % m) + 1 = m THEN 0 ELSE (x % m) + 1
<1> DEFINE q == x \div m  r == x % m
<1>1. q \in Nat /\ r \in 0 .. m - 1 /\ x = q * m + r
  BY DivParts
<1> HIDE DEF q, r
<1>3. q * m \in Nat /\ (q + 1) * m = q * m + m
  BY <1>1, Z3
<1>4. CASE r + 1 = m
  <2>1. x + 1 = (q + 1) * m + 0
    BY <1>1, <1>3, <1>4, Z3
  <2>2. ((q + 1) * m + 0) % m = 0
    BY <1>1, DivMod
  <2> QED BY <1>1, <1>4, <2>1, <2>2 DEF r
<1>5. CASE r + 1 # m
  <2>1. x + 1 = q * m + (r + 1)
    BY <1>1, <1>3, Z3
  <2>2. (q * m + (r + 1)) % m = r + 1
    BY <1>1, <1>5, DivMod
  <2> QED BY <1>1, <1>5, <2>1, <2>2 DEF r
<1> QED BY <1>1, <1>4, <1>5 DEF r

(* Small remainders, on either side of zero.                                *)
LEMMA ModSmall ==
  ASSUME NEW c \in Nat, c > 0, NEW i \in 0 .. c - 1
  PROVE  i % c = i /\ i \div c = 0 /\ (i + c) % c = i /\ (i + c) \div c = 1
         /\ (i - c) % c = i
<1>1. (0 * c + i) % c = i /\ (0 * c + i) \div c = 0
  BY DivMod
<1>2. (1 * c + i) % c = i /\ (1 * c + i) \div c = 1
  BY DivMod
<1>3. ((-1) * c + i) % c = i
  BY DivMod
<1>4. 0 * c + i = i /\ 1 * c + i = i + c /\ (-1) * c + i = i - c
  BY Z3
<1> QED BY <1>1, <1>2, <1>3, <1>4

\* How much a sum has of a unit more than one of its terms has.
LEMMA Quotients ==
  ASSUME NEW a \in Nat, NEW b \in Nat, NEW k \in Nat, k > 0
  PROVE  /\ (a + b) \div k \in Nat /\ a \div k \in Nat /\ b \div k \in Nat
         /\ (a + b) \div k <= a + b /\ b \div k <= b
         /\ (a + b) \div k - a \div k \in b \div k .. b \div k + 1
         /\ k = 1 => (a + b) \div k = a + b /\ a \div k = a /\ b \div k = b
<1> DEFINE p == a \div k  r == a % k  q == b \div k  s == b % k  c == a + b  d == c \div k  t == c % k
<1>1. /\ p \in Nat /\ r \in 0 .. k - 1 /\ a = p * k + r
      /\ q \in Nat /\ s \in 0 .. k - 1 /\ b = q * k + s
  BY DivParts
<1>2. c \in Nat
  OBVIOUS
<1>3. d \in Nat /\ t \in 0 .. k - 1 /\ c = d * k + t
  <2> HIDE DEF c
  <2> QED BY <1>2, DivParts
<1>4. c = p * k + r + q * k + s
  BY <1>1
<1> HIDE DEF p, r, q, s, d, t
<1>5. /\ p * k \in Int /\ q * k \in Int /\ d * k \in Int
      /\ (p + q) * k = p * k + q * k /\ (p + q + 1) * k = p * k + q * k + k
  BY <1>1, <1>3, Z3
<1>6. ASSUME NEW x \in Nat, NEW y \in Nat, x < y PROVE x * k + k <= y * k
  <2>1. x * k + k = (x + 1) * k /\ (x + 1) * k <= y * k
    BY <1>6, Z3
  <2>2. x * k \in Int /\ y * k \in Int /\ (x + 1) * k \in Int
    BY Z3
  <2> QED BY <2>1, <2>2
<1>7. d >= p + q
  <2>1. ASSUME d < p + q PROVE FALSE
    <3>1. p + q \in Nat
      BY <1>1
    <3>2. d * k + k <= (p + q) * k
      BY <1>3, <1>6, <2>1, <3>1
    <3> DEFINE u == d * k  v == p * k  w == q * k
    <3>3. u + k <= v + w /\ u + t = v + r + w + s /\ u \in Int /\ v \in Int /\ w \in Int
      BY <1>3, <1>4, <1>5, <3>2
    <3> HIDE DEF u, v, w, c
    <3> QED BY <1>1, <1>3, <3>3
  <2> QED BY <1>1, <1>3, <2>1
<1>8. d <= p + q + 1
  <2>1. ASSUME d > p + q + 1 PROVE FALSE
    <3>1. p + q + 1 \in Nat /\ p + q + 1 < d
      BY <1>1, <2>1
    <3>2. (p + q + 1) * k + k <= d * k
      BY <1>3, <1>6, <3>1
    <3> DEFINE u == d * k  v == p * k  w == q * k
    <3>3. v + w + k + k <= u /\ u + t = v + r + w + s /\ u \in Int /\ v \in Int /\ w \in Int
      BY <1>3, <1>4, <1>5, <3>2
    <3> HIDE DEF u, v, w, c
    <3> QED BY <1>1, <1>3, <3>3
  <2> QED BY <1>1, <1>3, <2>1
<1>9. ASSUME NEW x \in Nat, NEW y \in Nat, NEW z \in 0 .. k - 1, y = x * k + z PROVE x <= y
  <2>1. x * k >= x /\ x * k \in Int
    BY Z3
  <2> DEFINE u == x * k
  <2>2. u >= x /\ u \in Int /\ y = u + z
    BY <1>9, <2>1
  <2> HIDE DEF u
  <2> QED BY <2>2
<1>10. d <= c /\ q <= b
  BY <1>1, <1>2, <1>3, <1>9
<1>11. ASSUME k = 1 PROVE d = c /\ p = a /\ q = b
  <2>1. d * 1 = d /\ p * 1 = p /\ q * 1 = q
    BY <1>1, <1>3
  <2> HIDE DEF c
  <2> QED BY <1>1, <1>2, <1>3, <1>11, <2>1
<1>12. d - p \in q .. q + 1
  BY <1>1, <1>3, <1>7, <1>8
<1> QED BY <1>1, <1>3, <1>10, <1>11, <1>12 DEF p, q, d, c

-----------------------------------------------------------------------------
(* Induction on the naturals, with the predicate as a set.                   *)
LEMMA NatSetInduction ==
  ASSUME NEW S, 0 \in S, \A n \in Nat : n \in S => n + 1 \in S
  PROVE  Nat \subseteq S
<1> DEFINE T == {0 .. n - 1 : n \in Nat \ S}
<1>1. SUFFICES ASSUME Nat \ S # {} PROVE FALSE
  OBVIOUS
<1>2. T # {} /\ T \subseteq FiniteSubsetsOf(Nat)
  <2>1. \A n \in Nat : IsFiniteSet(0 .. n - 1)
    BY FS_Interval
  <2> QED BY <1>1, <2>1 DEF FiniteSubsetsOf
<1>3. PICK x \in T : \A y \in T : <<y, x>> \notin StrictSubsetOrdering(Nat)
  <2> HIDE DEF T
  <2> QED BY <1>2, WFMin, FS_StrictSubsetOrderingWellFounded
<1>4. PICK n \in Nat \ S : x = 0 .. n - 1
  BY <1>3
<1>5. n # 0 /\ n - 1 \in Nat
  BY <1>4
<1>6. n - 1 \notin S
  BY <1>4, <1>5
<1>7. 0 .. (n - 1) - 1 \in T
  BY <1>5, <1>6
<1>8. (n - 1) \in 0 .. n - 1 /\ (n - 1) \notin 0 .. (n - 1) - 1
  BY <1>5
<1>9. <<0 .. (n - 1) - 1, 0 .. n - 1>> \in StrictSubsetOrdering(Nat)
  <2>1. 0 .. (n - 1) - 1 \subseteq 0 .. n - 1
    BY <1>5
  <2> QED BY <1>5, <1>8, <2>1 DEF StrictSubsetOrdering
<1> QED BY <1>3, <1>4, <1>7, <1>9

Iterates(p, x0, F, N) == p[0] = x0 /\ \A i \in 1 .. N : p[i] = F[i][p[i - 1]]

(* A set of numbers has a least one.                                         *)
LEMMA Least ==
  ASSUME NEW S \in SUBSET Nat, S # {}
  PROVE  \E x \in S : \A y \in S : x <= y
<1> SUFFICES ASSUME \A x \in S : \E y \in S : ~(x <= y) PROVE FALSE
  OBVIOUS
<1> DEFINE T == {n \in Nat : \A x \in S : x > n}
<1>1. 0 \in T
  OBVIOUS
<1>2. \A n \in Nat : n \in T => n + 1 \in T
  <2> SUFFICES ASSUME NEW n \in T, NEW x \in S, ~(x > n + 1) PROVE FALSE
    OBVIOUS
  <2>1. x = n + 1
    OBVIOUS
  <2>2. PICK y \in S : ~(x <= y)
    OBVIOUS
  <2> QED BY <2>1, <2>2
<1>3. Nat \subseteq T
  <2> HIDE DEF T
  <2> QED BY <1>1, <1>2, NatSetInduction
<1>4. PICK x \in S : TRUE
  OBVIOUS
<1> QED BY <1>3, <1>4

(* A function that applies F[1], F[2], ... in turn exists.                    *)
LEMMA Iteration ==
  ASSUME NEW X, NEW x0 \in X, NEW N \in Nat, NEW F \in [1 .. N -> [X -> X]]
  PROVE  \E p \in [0 .. N -> X] : Iterates(p, x0, F, N)
<1> USE DEF Iterates
<1> DEFINE S == {n \in Nat : n <= N => \E p \in [0 .. n -> X] : Iterates(p, x0, F, n)}
<1>1. 0 \in S
  <2>1. [i \in 0 .. 0 |-> x0] \in [0 .. 0 -> X]
    OBVIOUS
  <2>2. Iterates([i \in 0 .. 0 |-> x0], x0, F, 0)
    OBVIOUS
  <2> QED BY <2>1, <2>2
<1>2. ASSUME NEW n \in Nat, n \in S PROVE n + 1 \in S
  <2> SUFFICES ASSUME n + 1 <= N
               PROVE  \E p \in [0 .. n + 1 -> X] : Iterates(p, x0, F, n + 1)
    OBVIOUS
  <2>1. PICK p \in [0 .. n -> X] : Iterates(p, x0, F, n)
    BY <1>2
  <2> DEFINE q == [i \in 0 .. n + 1 |-> IF i = n + 1 THEN F[n + 1][p[n]] ELSE p[i]]
  <2>2. q \in [0 .. n + 1 -> X]
    BY <2>1
  <2>3. Iterates(q, x0, F, n + 1)
    <3>1. q[0] = x0
      BY <2>1
    <3>2. ASSUME NEW i \in 1 .. n + 1 PROVE q[i] = F[i][q[i - 1]]
      <4>1. CASE i = n + 1
        <5>1. i - 1 = n /\ i - 1 \in 0 .. n + 1 /\ i - 1 # n + 1
          BY <4>1
        <5>2. q[i] = F[n + 1][p[n]] /\ q[i - 1] = p[i - 1]
          BY <4>1, <5>1
        <5> HIDE DEF q
        <5> QED BY <4>1, <5>1, <5>2
      <4>2. CASE i # n + 1
        <5>1. i \in 1 .. n /\ q[i] = p[i] /\ q[i - 1] = p[i - 1]
          BY <4>2
        <5> QED BY <2>1, <5>1
      <4> QED BY <4>1, <4>2
    <3> QED BY <3>1, <3>2
  <2> QED BY <2>2, <2>3
<1>3. N \in S
  <2> HIDE DEF S
  <2> QED BY <1>1, <1>2, NatSetInduction
<1> QED BY <1>3

(* What increases at each of N steps within N values takes every one.         *)
LEMMA Increasing ==
  ASSUME NEW N \in Nat, NEW b \in Int, NEW f, \A n \in 1 .. N : f[n] \in b + 1 .. b + N,
         \A n \in 1 .. N - 1 : f[n] < f[n + 1]
  PROVE  \A n \in 1 .. N : f[n] = b + n
<1> DEFINE U == {n \in Nat : n \in 1 .. N => f[n] >= b + n}
           D == {k \in Nat : k \in 0 .. N - 1 => f[N - k] <= b + (N - k)}
<1>1. Nat \subseteq U
  <2>1. 0 \in U
    OBVIOUS
  <2>2. ASSUME NEW n \in Nat, n \in U PROVE n + 1 \in U
    <3> SUFFICES ASSUME n + 1 \in 1 .. N PROVE f[n + 1] >= b + (n + 1)
      OBVIOUS
    <3>1. CASE n = 0
      BY <3>1
    <3>2. CASE n # 0
      <4>1. n \in 1 .. N - 1 /\ n \in 1 .. N
        BY <3>2
      <4>2. f[n] >= b + n /\ f[n] < f[n + 1] /\ f[n] \in Int /\ f[n + 1] \in Int
        BY <2>2, <4>1
      <4> QED BY <4>2
    <3> QED BY <3>1, <3>2
  <2> HIDE DEF U
  <2> QED BY <2>1, <2>2, NatSetInduction
<1>2. Nat \subseteq D
  <2>1. 0 \in D
    OBVIOUS
  <2>2. ASSUME NEW k \in Nat, k \in D PROVE k + 1 \in D
    <3> SUFFICES ASSUME k + 1 \in 0 .. N - 1 PROVE f[N - (k + 1)] <= b + (N - (k + 1))
      OBVIOUS
    <3> DEFINE n == N - (k + 1)
    <3>1. n \in 1 .. N - 1 /\ n + 1 = N - k /\ k \in 0 .. N - 1
      OBVIOUS
    <3>2. f[N - k] <= b + (N - k) /\ f[n] < f[n + 1]
      BY <2>2, <3>1
    <3>3. f[n] \in Int /\ f[n + 1] \in Int /\ f[n + 1] <= b + (n + 1)
      BY <3>1, <3>2
    <3>4. f[n] <= b + n
      BY <3>1, <3>2, <3>3
    <3> QED BY <3>4
  <2> HIDE DEF D
  <2> QED BY <2>1, <2>2, NatSetInduction
<1>3. ASSUME NEW n \in 1 .. N PROVE f[n] = b + n
  <2>1. n \in U /\ N - n \in D /\ N - n \in 0 .. N - 1 /\ N - (N - n) = n
    BY <1>1, <1>2
  <2>2. f[n] >= b + n /\ f[n] <= b + n /\ f[n] \in Int
    BY <2>1
  <2> QED BY <2>2
<1> QED BY <1>3

\* One turn of the recursion by which MapThenSumSet adds g up over S.
Summing(h, g, S) ==
  [s \in SUBSET S |-> IF s = {} THEN 0
                      ELSE LET x == CHOOSE x \in s : TRUE IN g[x] + h[s \ {x}]]

\* The sum is a natural number, and zero only if every summand is.
LEMMA SumOver ==
  ASSUME NEW S, IsFiniteSet(S), NEW g \in [S -> Nat]
  PROVE  LET it == CHOOSE h : h = Summing(h, g, S)
         IN  it[S] \in Nat /\ (it[S] = 0 <=> \A x \in S : g[x] = 0)
<1> DEFINE X == SUBSET S  N == Cardinality(S)
           step(h, s) == IF s = {} THEN 0
                         ELSE LET x == CHOOSE x \in s : TRUE IN g[x] + h[s \ {x}]
           it == CHOOSE h : h = Summing(h, g, S)
<1>1. N \in Nat /\ \A s \in X : IsFiniteSet(s) /\ Cardinality(s) \in Nat /\ Cardinality(s) <= N
  BY FS_Subset, FS_CardinalityType
<1>2. ASSUME NEW s \in X, s # {}
      PROVE  LET x == CHOOSE x \in s : TRUE
             IN  x \in s /\ g[x] \in Nat /\ s \ {x} \in X /\ Cardinality(s \ {x}) = Cardinality(s) - 1
  <2> DEFINE x == CHOOSE y \in s : TRUE
  <2>1. x \in s
    BY <1>2
  <2> HIDE DEF x
  <2>2. Cardinality(s \ {x}) = Cardinality(s) - 1
    BY <1>1, <2>1, FS_RemoveElement
  <2> QED BY <2>1, <2>2 DEF x
<1> HIDE DEF N
<1> DEFINE T == {n \in Nat : \E h \in [X -> Nat] : \A s \in X :
                               Cardinality(s) <= n => h[s] = step(h, s)}
<1>3. 0 \in T
  <2> DEFINE h == [s \in X |-> 0]
  <2>1. \A s \in X : Cardinality(s) <= 0 => s = {}
    BY <1>1, FS_EmptySet
  <2>2. h \in [X -> Nat] /\ \A s \in X : Cardinality(s) <= 0 => h[s] = step(h, s)
    BY <2>1
  <2> HIDE DEF h, step
  <2> QED BY <2>2
<1>4. ASSUME NEW n \in Nat, n \in T PROVE n + 1 \in T
  <2> HIDE DEF step
  <2>1. PICK h \in [X -> Nat] : \A s \in X : Cardinality(s) <= n => h[s] = step(h, s)
    BY <1>4
  <2> DEFINE k == [s \in X |-> step(h, s)]
  <2>2. \A s \in X : step(h, s) \in Nat
    BY <1>2 DEF step
  <2>3. k \in [X -> Nat] /\ \A s \in X : k[s] = step(h, s)
    BY <2>2
  <2> HIDE DEF k
  <2>4. ASSUME NEW s \in X, Cardinality(s) <= n + 1 PROVE k[s] = step(k, s)
    <3>1. CASE s = {}
      BY <2>3, <3>1 DEF step
    <3>2. CASE s # {}
      <4> DEFINE x == CHOOSE y \in s : TRUE  t == s \ {x}
      <4>1. t \in X /\ Cardinality(t) = Cardinality(s) - 1
        BY <1>2, <3>2
      <4>a. step(h, s) = g[x] + h[t] /\ step(k, s) = g[x] + k[t]
        BY <3>2 DEF step
      <4> HIDE DEF t
      <4>2. Cardinality(t) <= n
        BY <1>1, <2>4, <4>1
      <4>3. h[t] = k[t]
        BY <2>1, <2>3, <4>1, <4>2
      <4> QED BY <2>3, <4>a, <4>3
    <3> QED BY <3>1, <3>2
  <2> QED BY <2>3, <2>4
<1>5. N \in T
  <2> HIDE DEF T
  <2> QED BY <1>1, <1>3, <1>4, NatSetInduction
<1>6. it = Summing(it, g, S)
  <2> HIDE DEF step
  <2>1. PICK h \in [X -> Nat] : \A s \in X : Cardinality(s) <= N => h[s] = step(h, s)
    BY <1>5
  <2>2. \A s \in X : h[s] = step(h, s)
    BY <1>1, <2>1
  <2>3. Summing(h, g, S) = [s \in X |-> step(h, s)]
    BY DEF Summing, step
  <2>4. h = Summing(h, g, S)
    BY <2>2, <2>3
  <2> QED BY <2>4
<1>7. \A s \in X : it[s] = step(it, s)
  <2> HIDE DEF it
  <2> QED BY <1>6 DEF Summing
<1> HIDE DEF it
<1> DEFINE Sound(s) == it[s] \in Nat /\ (it[s] = 0 <=> \A x \in s : g[x] = 0)
           V == {n \in Nat : \A s \in X : Cardinality(s) = n => Sound(s)}
<1>8. 0 \in V
  <2>1. \A s \in X : Cardinality(s) = 0 => s = {}
    BY <1>1, FS_EmptySet
  <2> QED BY <1>7, <2>1
<1>9. ASSUME NEW n \in Nat, n \in V PROVE n + 1 \in V
  <2> SUFFICES ASSUME NEW s \in X, Cardinality(s) = n + 1 PROVE Sound(s)
    OBVIOUS
  <2>1. s # {}
    <3>1. Cardinality({}) = 0
      BY FS_EmptySet
    <3> QED BY <3>1
  <2> DEFINE x == CHOOSE y \in s : TRUE  t == s \ {x}
  <2>2. x \in s /\ g[x] \in Nat /\ t \in X /\ Cardinality(t) = n
    BY <1>2, <2>1
  <2>3. it[s] = g[x] + it[t]
    BY <1>7, <2>1
  <2>4. s = t \cup {x}
    BY <2>2
  <2> HIDE DEF x, t
  <2>5. Sound(t)
    BY <1>9, <2>2
  <2>6. it[t] \in Nat /\ (it[t] = 0 <=> \A y \in t : g[y] = 0)
    BY <2>5
  <2>7. it[s] \in Nat /\ (it[s] = 0 <=> g[x] = 0 /\ it[t] = 0)
    BY <2>2, <2>3, <2>6
  <2> QED BY <2>4, <2>6, <2>7
<1>10. N \in V
  <2> HIDE DEF V
  <2> QED BY <1>1, <1>8, <1>9, NatSetInduction
<1> QED BY <1>10 DEF N, it

-----------------------------------------------------------------------------
(* Sequences joined and cut.                                                 *)

\* t behind s.
LEMMA JoinParts ==
  ASSUME NEW S, NEW s \in Seq(S), NEW T, NEW t \in Seq(T)
  PROVE  LET u == s \o t
         IN  /\ u \in Seq(S \cup T) /\ Len(u) = Len(s) + Len(t)
             /\ \A i \in 1 .. Len(s) : u[i] = s[i]
             /\ \A i \in 1 .. Len(t) : u[Len(s) + i] = t[i]
<1> DEFINE U == S \cup T  u == s \o t  n == Len(s)  m == Len(t)
<1>1. s \in Seq(U) /\ t \in Seq(U)
  BY SeqMonotonic
<1> HIDE DEF U
<1>2. /\ u \in Seq(U) /\ Len(u) = n + m
      /\ \A i \in 1 .. n + m : u[i] = IF i <= n THEN s[i] ELSE t[i - n]
  BY <1>1, ConcatProperties
<1>3. n \in Nat /\ m \in Nat
  BY LenProperties
<1> HIDE DEF u, n, m
<1>4. \A i \in 1 .. n : u[i] = s[i]
  BY <1>2, <1>3
<1>5. ASSUME NEW i \in 1 .. m PROVE u[n + i] = t[i]
  <2>1. n + i \in 1 .. n + m /\ ~(n + i <= n) /\ (n + i) - n = i
    BY <1>3
  <2> QED BY <1>2, <2>1
<1> QED BY <1>2, <1>4, <1>5 DEF U, u, n, m

\* h goes along f for n steps, and on along g for m.
Along(h, f, g, n, m) ==
  /\ \A i \in 0 .. n - 1 : h[i] = f[i]
  /\ \A i \in 0 .. m : h[n + i] = g[i]

LEMMA GoAlong ==
  ASSUME NEW n \in Nat, NEW m \in Nat, NEW f, NEW g
  PROVE  \E h : Along(h, f, g, n, m)
<1> DEFINE h == [i \in 0 .. n + m |-> IF i < n THEN f[i] ELSE g[i - n]]
<1>1. \A i \in 0 .. n - 1 : h[i] = f[i]
  OBVIOUS
<1>2. \A i \in 0 .. m : h[n + i] = g[i]
  <2> TAKE i \in 0 .. m
  <2>1. n + i \in 0 .. n + m /\ ~(n + i < n) /\ (n + i) - n = i
    OBVIOUS
  <2> QED BY <2>1
<1> HIDE DEF h
<1>3. Along(h, f, g, n, m)
  BY <1>1, <1>2 DEF Along
<1> QED BY <1>3

\* The n sequences of g are over S, which has nothing but their elements.
Over(S, g, n) ==
  /\ \A i \in 1 .. n : g[i] \in Seq(S)
  /\ \A s \in Seq(S), i \in 1 .. n : s \o g[i] \in Seq(S)
  /\ \A x \in S : \E i \in 1 .. n : \E j \in 1 .. Len(g[i]) : x = g[i][j]

LEMMA OneSet ==
  ASSUME NEW n \in Nat, NEW g, \A i \in 1 .. n : \E V : g[i] \in Seq(V)
  PROVE  \E S : Over(S, g, n)
<1> DEFINE S == UNION {{g[i][j] : j \in 1 .. Len(g[i])} : i \in 1 .. n}
<1>1. ASSUME NEW i \in 1 .. n PROVE g[i] \in Seq(S)
  <2>1. PICK V : g[i] \in Seq(V)
    OBVIOUS
  <2>2. Len(g[i]) \in Nat /\ g[i] \in [1 .. Len(g[i]) -> V]
    BY <2>1, LenProperties
  <2>3. \A j \in 1 .. Len(g[i]) : g[i][j] \in S
    OBVIOUS
  <2> HIDE DEF S
  <2>4. g[i] \in [1 .. Len(g[i]) -> S]
    BY <2>2, <2>3
  <2> QED BY <2>2, <2>4, SeqDef
<1>2. \A x \in S : \E i \in 1 .. n : \E j \in 1 .. Len(g[i]) : x = g[i][j]
  OBVIOUS
<1> HIDE DEF S
<1>3. \A s \in Seq(S), i \in 1 .. n : s \o g[i] \in Seq(S)
  BY <1>1, ConcatProperties
<1>4. Over(S, g, n)
  BY <1>1, <1>2, <1>3 DEF Over
<1> QED BY <1>4

\* The recursion by which FlattenSeq joins g's sequences one after another.
Unfold(h, g, n) == [i \in 1 .. n |-> IF i = 1 THEN g[i] ELSE h[i - 1] \o g[i]]

LEMMA Unfolded ==
  ASSUME NEW n \in Nat, n > 0, NEW g, g = [i \in 1 .. n |-> g[i]], NEW T,
         \A i \in 1 .. n : g[i] \in T, \A s \in T, i \in 1 .. n : s \o g[i] \in T
  PROVE  Len(g) = n /\ \E h : h = Unfold(h, g, n)
<1>1. Len(g) = n
  <2>1. g \in [1 .. n -> T] /\ DOMAIN g = 1 .. n
    OBVIOUS
  <2>2. g \in Seq(T)
    BY <2>1, SeqDef
  <2>3. Len(g) \in Nat /\ 1 .. Len(g) = 1 .. n
    BY <2>1, <2>2, LenProperties
  <2> QED BY <2>3
<1> DEFINE F == [i \in 1 .. n - 1 |-> [s \in T |-> s \o g[i + 1]]]
<1>2. F \in [1 .. n - 1 -> [T -> T]]
  <2>1. \A i \in 1 .. n - 1 : i + 1 \in 1 .. n
    OBVIOUS
  <2> QED BY <2>1
<1>3. n - 1 \in Nat /\ 1 \in 1 .. n
  OBVIOUS
<1>4. PICK p \in [0 .. n - 1 -> T] : Iterates(p, g[1], F, n - 1)
  <2>1. g[1] \in T
    BY <1>3
  <2> HIDE DEF F
  <2> QED BY <1>2, <1>3, <2>1, Iteration
<1> DEFINE h == [i \in 1 .. n |-> p[i - 1]]
<1>5. \A i \in 1 .. n : p[i - 1] = IF i = 1 THEN g[i] ELSE p[(i - 1) - 1] \o g[i]
  <2> TAKE i \in 1 .. n
  <2>1. CASE i = 1
    <3>1. i - 1 = 0
      BY <2>1
    <3> QED BY <1>4, <2>1, <3>1 DEF Iterates
  <2>2. CASE i # 1
    <3>1. i - 1 \in 1 .. n - 1 /\ (i - 1) - 1 \in 0 .. n - 1 /\ (i - 1) + 1 = i
      BY <2>2
    <3>2. p[i - 1] = F[i - 1][p[(i - 1) - 1]] /\ p[(i - 1) - 1] \in T
      BY <1>4, <3>1 DEF Iterates
    <3>3. F[i - 1][p[(i - 1) - 1]] = p[(i - 1) - 1] \o g[(i - 1) + 1]
      BY <3>1, <3>2
    <3> HIDE DEF F
    <3> QED BY <2>2, <3>1, <3>2, <3>3
  <2> QED BY <2>1, <2>2
<1>6. h = Unfold(h, g, n)
  <2>1. \A i \in 1 .. n : i # 1 => h[i - 1] = p[(i - 1) - 1]
    OBVIOUS
  <2>2. \A i \in 1 .. n : h[i] = IF i = 1 THEN g[i] ELSE h[i - 1] \o g[i]
    <3>1. \A i \in 1 .. n : h[i] = p[i - 1]
      OBVIOUS
    <3> HIDE DEF h
    <3> QED BY <1>5, <2>1, <3>1
  <2>3. h = [i \in 1 .. n |-> h[i]]
    OBVIOUS
  <2> HIDE DEF h
  <2> QED BY <2>2, <2>3 DEF Unfold
<1> HIDE DEF h
<1> QED BY <1>1, <1>6

\* What is left of a sequence from one of its positions on.
LEMMA Suffix ==
  ASSUME NEW S, NEW f \in Seq(S), NEW k \in 1 .. Len(f) + 1
  PROVE  LET r == SubSeq(f, k, Len(f))
         IN  /\ r \in Seq(S) /\ Len(r) = Len(f) - k + 1
             /\ \A i \in 1 .. Len(r) : r[i] = f[k + i - 1]
             /\ r = <<>> <=> k = Len(f) + 1
             /\ k <= Len(f) => Head(r) = f[k] /\ Tail(r) = SubSeq(f, k + 1, Len(f))
             /\ \A m \in 1 .. Len(r) + 1 : SubSeq(r, m, Len(r)) = SubSeq(f, k + m - 1, Len(f))
<1> DEFINE n == Len(f)  r == SubSeq(f, k, n)
<1>1. n \in Nat /\ \A i \in 1 .. n : f[i] \in S
  BY LenProperties, ElementOfSeq
<1>2. k \in Int /\ n \in Int /\ k \in Nat
  BY <1>1
<1> HIDE DEF n
<1>3. \A i \in k .. n : f[i] \in S
  BY <1>1, <1>2
<1>4. /\ r \in Seq(S) /\ Len(r) = (IF k <= n THEN n - k + 1 ELSE 0)
      /\ \A i \in 1 .. n - k + 1 : r[i] = f[k + i - 1]
  BY <1>2, <1>3, SubSeqProperties
<1>5. Len(r) = n - k + 1
  BY <1>2, <1>4 DEF n
<1>6. r = <<>> <=> k = n + 1
  <2>1. r = <<>> => Len(r) = 0
    BY EmptySeq
  <2>2. r # <<>> => Len(r) \in Nat \ {0}
    <3> HIDE DEF r
    <3> QED BY <1>4, EmptySeq
  <2> HIDE DEF r
  <2> QED BY <1>2, <1>5, <2>1, <2>2
<1>7. k <= n => Head(r) = f[k] /\ Tail(r) = SubSeq(f, k + 1, n)
  BY <1>1, <1>2, HeadTailOfSubSeq DEF n
<1>8. ASSUME NEW m \in 1 .. Len(r) + 1 PROVE SubSeq(r, m, Len(r)) = SubSeq(f, k + m - 1, n)
  <2>1. m \in Int /\ Len(r) \in Int /\ k + m - 1 \in Int
    BY <1>2, <1>5
  <2> DEFINE a == SubSeq(r, m, Len(r))  b == SubSeq(f, k + m - 1, n)
  <2>2. /\ a \in Seq(S) /\ Len(a) = (IF m <= Len(r) THEN Len(r) - m + 1 ELSE 0)
        /\ \A i \in 1 .. Len(r) - m + 1 : a[i] = r[m + i - 1]
    <3> HIDE DEF r, a, b
    <3>1. \A i \in m .. Len(r) : i \in 1 .. Len(r)
      BY <2>1
    <3>2. \A i \in m .. Len(r) : r[i] \in S
      BY <1>4, <3>1, ElementOfSeq
    <3> QED BY <2>1, <3>2, SubSeqProperties DEF a
  <2>3. /\ b \in Seq(S) /\ Len(b) = (IF k + m - 1 <= n THEN n - (k + m - 1) + 1 ELSE 0)
        /\ \A i \in 1 .. n - (k + m - 1) + 1 : b[i] = f[(k + m - 1) + i - 1]
    <3>1. \A i \in k + m - 1 .. n : f[i] \in S
      BY <1>1, <1>2
    <3> QED BY <1>2, <2>1, <3>1, SubSeqProperties
  <2> HIDE DEF a, b
  <2>4. Len(a) = Len(b) /\ Len(a) = n - (k + m - 1) + 1
    BY <1>2, <1>5, <2>1, <2>2, <2>3
  <2>5. ASSUME NEW i \in 1 .. Len(a) PROVE a[i] = b[i]
    <3>1. m + i - 1 \in 1 .. n - k + 1 /\ k + (m + i - 1) - 1 = (k + m - 1) + i - 1
          /\ i \in 1 .. Len(r) - m + 1 /\ i \in 1 .. n - (k + m - 1) + 1
      BY <1>2, <1>5, <2>1, <2>4
    <3>2. a[i] = r[m + i - 1] /\ r[m + i - 1] = f[k + (m + i - 1) - 1]
      BY <1>4, <2>2, <3>1
    <3> QED BY <2>3, <3>1, <3>2
  <2> QED BY <2>2, <2>3, <2>4, <2>5, SeqEqual DEF a, b
<1> QED BY <1>4, <1>5, <1>6, <1>7, <1>8 DEF n

\* One element, and what comes behind it.
LEMMA HeadTailOfJoin ==
  ASSUME NEW T, NEW u \in Seq(T), NEW r \in Seq(T), NEW x, Len(u) = 1, u[1] = x
  PROVE  Head(u \o r) = x /\ Tail(u \o r) = r
<1> DEFINE w == u \o r  n == Len(r)
<1>1. w \in Seq(T) /\ Len(w) = 1 + n /\ n \in Nat
      /\ \A i \in 1 .. 1 + n : w[i] = IF i <= 1 THEN u[i] ELSE r[i - 1]
  <2>1. /\ w \in Seq(T) /\ Len(w) = Len(u) + Len(r)
        /\ \A i \in 1 .. Len(u) + Len(r) : w[i] = IF i <= Len(u) THEN u[i] ELSE r[i - Len(u)]
    BY ConcatProperties
  <2>2. n \in Nat
    BY LenProperties
  <2> HIDE DEF w
  <2> QED BY <2>1, <2>2
<1> HIDE DEF w, n
<1>2. Head(w) = w[1] /\ w # <<>>
  <2>1. Len(w) # 0
    BY <1>1
  <2>2. w # <<>>
    BY <2>1, EmptySeq
  <2> QED BY <1>1, <2>2
<1>3. w[1] = x
  BY <1>1
<1>4. Tail(w) \in Seq(T) /\ Len(Tail(w)) = n /\ \A i \in 1 .. n : Tail(w)[i] = w[i + 1]
  <2>1. Len(w) - 1 = n
    BY <1>1
  <2> QED BY <1>1, <1>2, <2>1, HeadTailProperties
<1> DEFINE t == Tail(w)
<1> HIDE DEF t
<1>5. \A i \in 1 .. n : t[i] = r[i]
  <2> TAKE i \in 1 .. n
  <2>1. i + 1 \in 1 .. 1 + n /\ ~(i + 1 <= 1) /\ (i + 1) - 1 = i
    BY <1>1
  <2> QED BY <1>1, <1>4, <2>1 DEF t
<1>6. t = r
  BY <1>4, <1>5, SeqEqual DEF n, t
<1> QED BY <1>2, <1>3, <1>6 DEF w, t

\* What is left behind the first three.
LEMMA ThreeTails ==
  ASSUME NEW S, NEW s \in Seq(S), s # <<>>, Tail(s) # <<>>, Tail(Tail(s)) # <<>>
  PROVE  SubSeq(s, 4, Len(s)) = Tail(Tail(Tail(s)))
<1> DEFINE n == Len(s)  a == Tail(s)  b == Tail(a)  c == Tail(b)  d == SubSeq(s, 4, n)
<1>1. n \in Nat /\ n # 0 /\ a \in Seq(S) /\ Len(a) = n - 1 /\ \A i \in 1 .. n - 1 : a[i] = s[i + 1]
  BY HeadTailProperties, LenProperties, EmptySeq
<1>2. b \in Seq(S) /\ Len(b) = Len(a) - 1 /\ (\A i \in 1 .. Len(a) - 1 : b[i] = a[i + 1])
      /\ Len(a) \in Nat /\ Len(a) # 0
  BY <1>1, HeadTailProperties, LenProperties, EmptySeq
<1>3. c \in Seq(S) /\ Len(c) = Len(b) - 1 /\ (\A i \in 1 .. Len(b) - 1 : c[i] = b[i + 1])
      /\ Len(b) \in Nat /\ Len(b) # 0
  BY <1>2, HeadTailProperties, LenProperties, EmptySeq
<1>4. s \in [1 .. n -> S]
  BY LenProperties
<1> HIDE DEF n, a, b, c
<1>5. d \in Seq(S) /\ Len(d) = (IF 4 <= n THEN n - 3 ELSE 0) /\ \A i \in 1 .. n - 3 : d[i] = s[4 + i - 1]
  <2>1. \A i \in 4 .. n : s[i] \in S
    BY <1>1, <1>4
  <2> QED BY <1>1, <2>1, SubSeqProperties
<1>6. Len(c) = n - 3 /\ Len(d) = n - 3 /\ n - 3 \in Nat
  BY <1>1, <1>2, <1>3, <1>5
<1>7. \A i \in 1 .. n - 3 : c[i] = d[i]
  <2> TAKE i \in 1 .. n - 3
  <2>1. c[i] = b[i + 1]
    BY <1>1, <1>2, <1>3
  <2>2. b[i + 1] = a[(i + 1) + 1]
    BY <1>1, <1>2, <1>3
  <2>3. a[(i + 1) + 1] = s[((i + 1) + 1) + 1]
    BY <1>1, <1>2, <1>3
  <2>4. d[i] = s[4 + i - 1] /\ 4 + i - 1 = ((i + 1) + 1) + 1
    BY <1>1, <1>5
  <2> QED BY <2>1, <2>2, <2>3, <2>4
<1> HIDE DEF d
<1>8. c = d
  BY <1>3, <1>5, <1>6, <1>7, SeqEqual
<1> QED BY <1>8 DEF a, b, c, d, n

=============================================================================
