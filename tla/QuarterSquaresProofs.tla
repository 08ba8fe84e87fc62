------------------------ MODULE QuarterSquaresProofs ------------------------
(***************************************************************************)
(* The table builder and the branchless multiply are exact for every radix.  *)
(***************************************************************************)
EXTENDS QuarterSquares, CommonLemmas

Square(k) == (k * k) \div 4

(* A number below Radix^2 is its two digits, the high one needing no mask.   *)
LEMMA TwoDigits ==
  ASSUME NEW v \in 0 .. Radix * Radix - 1
  PROVE  /\ v % Radix \in Byte /\ (v \div Radix) % Radix \in Byte
         /\ Word(v % Radix, (v \div Radix) % Radix) = v
<1> DEFINE q == v \div Radix
<1>r. Radix \in Nat /\ Radix >= 4
  BY RadixAssumption
<1>v. v \in Nat
  BY <1>r, Z3
<1>1. q \in Nat /\ v % Radix \in 0 .. Radix - 1 /\ v = q * Radix + (v % Radix)
  BY <1>r, <1>v, DivParts
<1> HIDE DEF q
<1>2. q < Radix
  <2> SUFFICES ASSUME q >= Radix PROVE FALSE
    BY <1>1, <1>r
  <2>1. q * Radix >= Radix * Radix
    BY <1>1, <1>r, Z3
  <2> QED BY <1>1, <1>r, <2>1, Z3
<1>3. q % Radix = q
  BY <1>1, <1>2, <1>r, ModSmall
<1>4. q * Radix = Radix * q
  BY <1>1, <1>r, Z3
<1> QED BY <1>1, <1>2, <1>3, <1>4, <1>r DEF q, Word, Byte

(* Every square of an index, divided by four, fits in two digits.            *)
LEMMA SquareFits ==
  ASSUME NEW k \in Index
  PROVE  Square(k) \in 0 .. Radix * Radix - 1
<1> DEFINE q == (k * k) \div 4
<1>r. Radix \in Nat /\ Radix >= 4 /\ k \in Nat /\ k <= 2 * Radix - 1
  BY RadixAssumption DEF Index
<1>1. k * k \in Nat
  BY <1>r, Z3
<1>2. q \in Nat /\ 4 * q <= k * k
  BY <1>1, DivParts
<1> HIDE DEF q
<1>3. k * k <= (2 * Radix - 1) * (2 * Radix - 1)
  <2>1. k * k <= k * (2 * Radix - 1)
    BY <1>r, Z3
  <2>2. k * (2 * Radix - 1) <= (2 * Radix - 1) * (2 * Radix - 1)
    BY <1>r, Z3
  <2> QED BY <1>r, <1>1, <2>1, <2>2, Z3
<1>4. (2 * Radix - 1) * (2 * Radix - 1) = 4 * (Radix * Radix) - 4 * Radix + 1
  BY <1>r, Z3
<1>5. Radix * Radix \in Nat
  BY <1>r, Z3
<1> QED BY <1>r, <1>1, <1>2, <1>3, <1>4, <1>5 DEF Square, q

(* The identity the multiply rests on.                                      *)
LEMMA QuarterDifference ==
  ASSUME NEW a \in Nat, NEW b \in Nat, NEW d \in Nat, d = a - b \/ d = b - a
  PROVE  /\ Square(d) \in Nat /\ a * b \in Nat
         /\ Square(a + b) = Square(d) + a * b
<1> DEFINE q == (d * d) \div 4  r == (d * d) % 4  m == a * b
<1>1. d * d \in Nat /\ m \in Nat
  BY Z3
<1>2. q \in Nat /\ r \in 0 .. 3 /\ d * d = q * 4 + r
  BY <1>1, DivParts
<1>3. (a + b) * (a + b) = d * d + 4 * m
  <2>1. d * d = a * a - 2 * (a * b) + b * b
    <3>1. CASE d = a - b
      BY <3>1, Z3
    <3>2. CASE d = b - a
      BY <3>2, Z3
    <3> QED BY <3>1, <3>2
  <2>2. (a + b) * (a + b) = a * a + 2 * (a * b) + b * b
    BY Z3
  <2>3. a * a \in Int /\ b * b \in Int /\ a * b \in Int
    BY Z3
  <2> QED BY <2>1, <2>2, <2>3
<1> HIDE DEF q, r, m
<1>4. (a + b) * (a + b) = (q + m) * 4 + r
  BY <1>1, <1>2, <1>3
<1>5. ((q + m) * 4 + r) \div 4 = q + m
  BY <1>1, <1>2, DivMod
<1> QED BY <1>1, <1>2, <1>4, <1>5 DEF Square, q, m

(* Digit-wise subtraction with a borrow, when the difference is not negative *)
(* and fits.                                                                *)
LEMMA DigitwiseDifference ==
  ASSUME NEW l1 \in Byte, NEW h1 \in Byte, NEW l2 \in Byte, NEW h2 \in Byte,
         NEW v \in 0 .. Radix * Radix - 1, Word(l1, h1) = Word(l2, h2) + v
  PROVE  /\ (l1 - l2) % Radix \in Byte
         /\ (h1 - h2 - Borrow(l1, l2)) % Radix \in Byte
         /\ Word((l1 - l2) % Radix, (h1 - h2 - Borrow(l1, l2)) % Radix) = v
<1> DEFINE bw == Borrow(l1, l2)  lo == (l1 - l2) % Radix  hi == h1 - h2 - bw
<1>r. Radix \in Nat /\ Radix >= 4
  BY RadixAssumption
<1>1. lo = l1 - l2 + Radix * bw /\ lo \in 0 .. Radix - 1 /\ bw \in {0, 1}
  <2>1. CASE l1 < l2
    <3> DEFINE w == l1 - l2 + Radix
    <3>1. w \in 0 .. Radix - 1 /\ w - Radix = l1 - l2
      BY <1>r, <2>1 DEF Byte
    <3> HIDE DEF w
    <3>2. (w - Radix) % Radix = w
      BY <1>r, <3>1, ModSmall
    <3>3. (l1 - l2) % Radix = w
      BY <3>1, <3>2
    <3> QED BY <1>r, <2>1, <3>1, <3>3 DEF Borrow, w
  <2>2. CASE ~(l1 < l2)
    <3>1. l1 - l2 \in 0 .. Radix - 1
      BY <1>r, <2>2 DEF Byte
    <3>2. (l1 - l2) % Radix = l1 - l2
      BY <1>r, <3>1, ModSmall
    <3> QED BY <1>r, <2>2, <3>1, <3>2 DEF Borrow, Byte
  <2> QED BY <2>1, <2>2
<1>i. hi \in Int /\ l1 \in Int /\ l2 \in Int /\ h1 \in Int /\ h2 \in Int /\ v \in Int
  BY <1>1, <1>r DEF Byte
<1> HIDE DEF bw, lo
<1>2. v = lo + Radix * hi
  <2>1. Radix * hi = Radix * h1 - Radix * h2 - Radix * bw
    BY <1>1, <1>i, <1>r, Z3 DEF hi
  <2>2. l1 + Radix * h1 = l2 + Radix * h2 + v
    BY DEF Word
  <2>3. Radix * h1 \in Int /\ Radix * h2 \in Int /\ Radix * bw \in Int
    BY <1>1, <1>i, <1>r, Z3
  <2> HIDE DEF hi
  <2> QED BY <1>1, <1>i, <1>r, <2>1, <2>2, <2>3
<1> HIDE DEF hi
<1>3. hi >= 0
  <2> SUFFICES ASSUME hi <= -1 PROVE FALSE
    BY <1>i
  <2>1. Radix * hi <= -Radix
    BY <1>i, <1>r, Z3
  <2> QED BY <1>1, <1>2, <1>i, <1>r, <2>1, Z3
<1>4. hi < Radix
  <2> SUFFICES ASSUME hi >= Radix PROVE FALSE
    BY <1>i, <1>r
  <2>1. Radix * hi >= Radix * Radix
    BY <1>i, <1>r, Z3
  <2> QED BY <1>1, <1>2, <1>i, <1>r, <2>1, Z3
<1>5. hi % Radix = hi
  BY <1>3, <1>4, <1>i, <1>r, ModSmall
<1> QED BY <1>1, <1>2, <1>3, <1>4, <1>5, <1>i, <1>r DEF Word, Byte, lo, hi, bw

(* The patched pages address the entry of the sum.                          *)
LEMMA SumIndexExact ==
  ASSUME NEW a \in Byte, NEW b \in Byte
  PROVE  SumIndex(a, b) = a + b /\ a + b \in Index
<1>1. Radix \in Nat /\ Radix >= 4 /\ a + b \in Nat
  BY RadixAssumption DEF Byte
<1> QED BY <1>1, DivParts DEF SumIndex, Index, Byte

(* Flip-and-negate is the absolute difference.                              *)
LEMMA AbsDiffExact ==
  ASSUME NEW a \in Byte, NEW b \in Byte
  PROVE  /\ AbsDiff(a, b) = IF b >= a THEN b - a ELSE a - b
         /\ AbsDiff(a, b) \in Index
<1>r. Radix \in Nat /\ Radix >= 4 /\ a \in 0 .. Radix - 1 /\ b \in 0 .. Radix - 1
  BY RadixAssumption DEF Byte
<1>1. CASE b >= a
  <2>1. (b - a) % Radix = b - a /\ (b - a - 0) % Radix = b - a
    <3>1. b - a \in 0 .. Radix - 1 /\ b - a - 0 = b - a
      BY <1>r, <1>1
    <3> QED BY <1>r, <3>1, ModSmall
  <2> QED BY <1>r, <1>1, <2>1 DEF AbsDiff, Index
<1>2. CASE ~(b >= a)
  <2>1. (b - a) % Radix = b - a + Radix
    <3>1. b - a + Radix \in 0 .. Radix - 1 /\ b - a + Radix - Radix = b - a
      BY <1>r, <1>2
    <3> QED BY <1>r, <3>1, ModSmall
  <2>2. Radix - 1 - (b - a + Radix) - (Radix - 1) = a - b - Radix
    BY <1>r
  <2>3. (a - b - Radix) % Radix = a - b
    <3>1. a - b \in 0 .. Radix - 1
      BY <1>r, <1>2
    <3> QED BY <1>r, <3>1, ModSmall
  <2>4. Radix - 1 # 0
    BY <1>r
  <2> QED BY <1>r, <1>2, <2>1, <2>2, <2>3, <2>4 DEF AbsDiff, Index
<1> QED BY <1>1, <1>2

(* So is the branching form.                                                *)
LEMMA BranchDiffExact ==
  ASSUME NEW a \in Byte, NEW b \in Byte
  PROVE  /\ BranchDiff(a, b) = IF b >= a THEN b - a ELSE a - b
         /\ BranchDiff(a, b) \in Index
<1>r. Radix \in Nat /\ Radix >= 4 /\ a \in 0 .. Radix - 1 /\ b \in 0 .. Radix - 1
  BY RadixAssumption DEF Byte
<1>1. CASE a >= b
  <2>1. (a - b) % Radix = a - b
    <3>1. a - b \in 0 .. Radix - 1
      BY <1>r, <1>1
    <3> QED BY <1>r, <3>1, ModSmall
  <2> QED BY <1>r, <1>1, <2>1 DEF BranchDiff, Index
<1>2. CASE ~(a >= b)
  <2>1. (a - b) % Radix = a - b + Radix
    <3>1. a - b + Radix \in 0 .. Radix - 1 /\ a - b + Radix - Radix = a - b
      BY <1>r, <1>2
    <3> QED BY <1>r, <3>1, ModSmall
  <2>2. Radix - 1 - (a - b + Radix) + 1 = b - a
    BY <1>r
  <2>3. (b - a) % Radix = b - a
    <3>1. b - a \in 0 .. Radix - 1
      BY <1>r, <1>2
    <3> QED BY <1>r, <3>1, ModSmall
  <2> QED BY <1>r, <1>2, <2>1, <2>2, <2>3 DEF BranchDiff, Index
<1> QED BY <1>1, <1>2

-----------------------------------------------------------------------------
(* The baked operands agree, the table is exact as far as it goes, and the    *)
(* last product is.                                                         *)
MulInv ==
  /\ TypeOK /\ TableExact /\ ProductExact
  /\ smc_sum_a_imm = smc_diff_a_imm
  /\ pc = "loop" => ~built /\ sq_i < 2 * Radix

LEMMA InitMul == Init => MulInv
<1> SUFFICES ASSUME Init PROVE MulInv OBVIOUS
<1>r. Radix \in Nat /\ Radix >= 4 /\ 0 \in Byte /\ 0 \in 0 .. 2 * Radix
      /\ 0 < 2 * Radix
  BY RadixAssumption DEF Byte
<1>1. PICK t \in Trash : /\ sqtab_lo = [k \in Index |-> t]
                         /\ sqtab_hi = [k \in Index |-> t]
  BY DEF Init
<1>2. t \in Byte
  BY TrashAssumption DEF Byte
<1>3. TypeOK
  BY <1>r, <1>1, <1>2 DEF Init, TypeOK
<1>4. TableExact /\ ProductExact
  BY DEF Init, TableExact, ProductExact
<1> QED BY <1>3, <1>4 DEF Init, MulInv

LEMMA StartBuildMul == MulInv /\ StartBuild => MulInv'
<1> SUFFICES ASSUME MulInv, StartBuild PROVE MulInv' OBVIOUS
<1> USE DEF MulInv, StartBuild
<1>r. Radix \in Nat /\ Radix >= 4 /\ 0 \in 0 .. 2 * Radix /\ 0 < 2 * Radix
      /\ 0 = 0 * 0 /\ \A k \in Index : ~(k < 0)
  BY RadixAssumption DEF Index
<1>1. TypeOK'
  BY <1>r DEF TypeOK
<1>2. TableExact'
  BY <1>r DEF TableExact
<1>3. ProductExact'
  BY DEF ProductExact, Word
<1> QED BY <1>r, <1>1, <1>2, <1>3

(* The recurrence is exact as long as the square is below the end.           *)
LEMMA NextSquareExact ==
  ASSUME NEW i \in Nat, i + 1 < 2 * Radix
  PROVE  NextSquare(i * i, i) = (i + 1) * (i + 1)
<1> DEFINE R2 == Radix * Radix  R3 == Radix * Radix * Radix  n == (i + 1) * (i + 1)
<1>r. Radix \in Nat /\ Radix >= 4
  BY RadixAssumption
<1>1. R2 \in Nat /\ R3 \in Nat /\ R2 >= 4 * Radix /\ R3 >= 4 * R2
  <2>1. R2 \in Nat /\ R2 >= 4 * Radix
    BY <1>r, Z3
  <2>2. R3 = Radix * R2
    BY <1>r, Z3
  <2> HIDE DEF R2
  <2>3. Radix * R2 \in Nat /\ Radix * R2 >= 4 * R2
    BY <1>r, <2>1, Z3
  <2> QED BY <2>1, <2>2, <2>3
<1>2. n \in Nat /\ i * i \in Nat /\ n = i * i + (2 * i + 1)
  BY Z3
<1>3. n < 4 * R2
  <2>1. (i + 1) * (i + 1) <= (i + 1) * (2 * Radix)
    BY <1>r, Z3
  <2>2. (i + 1) * (2 * Radix) < (2 * Radix) * (2 * Radix)
    BY <1>r, Z3
  <2>3. (2 * Radix) * (2 * Radix) = 4 * R2
    BY <1>r, Z3
  <2>4. (i + 1) * (2 * Radix) \in Int
    BY <1>r, Z3
  <2> HIDE DEF R2, R3
  <2> QED BY <1>1, <1>2, <2>1, <2>2, <2>3, <2>4 DEF n
<1>4. NextSquare(i * i, i) = (i * i + ((2 * i + 1) % R2)) % R3
  BY DEF NextSquare
<1> HIDE DEF R2, R3, n
<1>5. (2 * i + 1) % R2 = 2 * i + 1
  <2>1. 2 * i + 1 \in 0 .. R2 - 1 /\ R2 > 0
    BY <1>1, <1>r
  <2> QED BY <1>1, <2>1, ModSmall
<1>6. n % R3 = n
  <2>1. n \in 0 .. R3 - 1 /\ R3 > 0
    BY <1>1, <1>2, <1>3
  <2> QED BY <1>1, <2>1, ModSmall
<1> QED BY <1>2, <1>4, <1>5, <1>6 DEF n

(* The high byte of the index reaches 2 at the end, not before.              *)
LEMMA TableDoneExact ==
  ASSUME NEW i \in 0 .. 2 * Radix
  PROVE  TableDone(i) <=> i = 2 * Radix
<1>r. Radix \in Nat /\ Radix >= 4 /\ i \in Nat
  BY RadixAssumption
<1>1. CASE i = 2 * Radix
  <2>1. (2 * Radix + 0) \div Radix = 2
    BY <1>r, DivMod
  <2> QED BY <1>1, <1>r, <2>1 DEF TableDone
<1>2. CASE i < Radix
  <2>1. i \div Radix = 0
    BY <1>2, <1>r, ModSmall
  <2> QED BY <1>2, <1>r, <2>1 DEF TableDone
<1>3. CASE i >= Radix /\ i < 2 * Radix
  <2>1. i - Radix \in 0 .. Radix - 1 /\ i - Radix + Radix = i
    BY <1>3, <1>r
  <2>2. i \div Radix = 1
    BY <1>r, <2>1, ModSmall
  <2> QED BY <1>3, <1>r, <2>2 DEF TableDone
<1> QED BY <1>1, <1>2, <1>3, <1>r

LEMMA BuildTurnMul == MulInv /\ BuildTurn => MulInv'
<1> SUFFICES ASSUME MulInv, BuildTurn PROVE MulInv' OBVIOUS
<1> USE DEF MulInv, BuildTurn
<1>r. Radix \in Nat /\ Radix >= 4 /\ sq_i \in Nat /\ sq_i \in Index
      /\ sq_i <= 2 * Radix - 1
  BY RadixAssumption DEF TypeOK, Index
<1>1. sq_acc = sq_i * sq_i /\ sq_acc \in Nat
  BY DEF TableExact, TypeOK
<1> DEFINE v == Square(sq_i)
<1>2. v = Quarter(sq_acc) /\ v \in 0 .. Radix * Radix - 1
  BY <1>r, <1>1, SquareFits DEF Square, Quarter
<1> HIDE DEF v
<1>3. /\ sqtab_lo' = [sqtab_lo EXCEPT ![sq_i] = v % Radix]
      /\ sqtab_hi' = [sqtab_hi EXCEPT ![sq_i] = (v \div Radix) % Radix]
  BY <1>2
<1>4. /\ v % Radix \in Byte /\ (v \div Radix) % Radix \in Byte
      /\ Word(v % Radix, (v \div Radix) % Radix) = v
  BY <1>2, TwoDigits
<1>5. sqtab_lo' \in [Index -> Byte] /\ sqtab_hi' \in [Index -> Byte]
  BY <1>3, <1>4 DEF TypeOK
<1>6. ASSUME NEW k \in Index, k < sq_i'
      PROVE  Word(sqtab_lo'[k], sqtab_hi'[k]) = Square(k)
  <2>1. CASE k = sq_i
    BY <1>3, <1>4, <1>r, <2>1 DEF TypeOK, v
  <2>2. CASE k # sq_i
    <3>1. k < sq_i
      BY <1>6, <1>r, <2>2 DEF Index
    <3> QED BY <1>3, <2>2, <3>1 DEF TypeOK, TableExact, Square
  <2> QED BY <2>1, <2>2
<1>7. sq_i' = sq_i + 1 /\ sq_i' \in 0 .. 2 * Radix
  BY <1>r
<1>8. sq_acc' = NextSquare(sq_acc, sq_i) /\ sq_acc' \in Nat
  BY <1>r, <1>1 DEF NextSquare
<1>9. sq_i' < 2 * Radix => sq_acc' = sq_i' * sq_i'
  BY <1>1, <1>7, <1>8, <1>r, NextSquareExact
<1>10. TableDone(sq_i') <=> sq_i' = 2 * Radix
  BY <1>7, <1>r, TableDoneExact
<1>11. TypeOK'
  BY <1>5, <1>7, <1>8 DEF TypeOK
<1>12. TableExact'
  <2>1. pc' = "loop" => sq_acc' = sq_i' * sq_i'
    BY <1>7, <1>9, <1>10, <1>r
  <2>2. ASSUME NEW k \in Index, built' \/ (pc' = "loop" /\ k < sq_i')
        PROVE  Word(sqtab_lo'[k], sqtab_hi'[k]) = (k * k) \div 4
    <3>1. k < sq_i'
      BY <1>7, <1>10, <1>r, <2>2 DEF Index
    <3> QED BY <1>6, <3>1 DEF Square
  <2> QED BY <2>1, <2>2 DEF TableExact
<1>13. ProductExact'
  BY DEF ProductExact, Word
<1>14. pc' = "loop" => ~built' /\ sq_i' < 2 * Radix
  BY <1>7, <1>10, <1>r
<1> QED BY <1>11, <1>12, <1>13, <1>14

(* Baking both sites keeps them equal; the last answer is of the operands     *)
(* it was asked for, whatever is baked next.                                *)
LEMMA BakeMul == ASSUME NEW a \in Byte PROVE MulInv /\ Bake(a) => MulInv'
BY DEF MulInv, Bake, TypeOK, TableExact, ProductExact, Word

(* The two table reads, at the sum and at the difference, give the product.  *)
LEMMA LookupExact ==
  ASSUME NEW a \in Byte, NEW b \in Byte, NEW d \in Index,
         TypeOK, TableExact, built,
         d = (IF b >= a THEN b - a ELSE a - b), Lookup(a + b, d)
  PROVE  /\ poly_prod_lo' \in Byte /\ poly_prod_hi' \in Byte
         /\ Word(poly_prod_lo', poly_prod_hi') = a * b
<1> DEFINE s == a + b
<1>r. Radix \in Nat /\ Radix >= 4 /\ a \in 0 .. Radix - 1 /\ b \in 0 .. Radix - 1
  BY RadixAssumption DEF Byte
<1>1. s \in Index
  BY SumIndexExact
<1>2. Lookup(s, d)
  OBVIOUS
<1>3. Square(d) \in Nat /\ a * b \in Nat /\ Square(s) = Square(d) + a * b
  <2>1. d \in Nat /\ (d = a - b \/ d = b - a) /\ a \in Nat /\ b \in Nat
    BY <1>r DEF Index
  <2> QED BY <2>1, QuarterDifference
<1> HIDE DEF s
<1>4. a * b \in 0 .. Radix * Radix - 1
  <2>1. a * b <= a * (Radix - 1)
    BY <1>r, Z3
  <2>2. a * (Radix - 1) <= (Radix - 1) * (Radix - 1)
    BY <1>r, Z3
  <2>3. (Radix - 1) * (Radix - 1) = Radix * Radix - 2 * Radix + 1
    BY <1>r, Z3
  <2>4. a * (Radix - 1) \in Int /\ Radix * Radix \in Nat
    BY <1>r, Z3
  <2> QED BY <1>r, <1>3, <2>1, <2>2, <2>3, <2>4
<1>5. /\ sqtab_lo[s] \in Byte /\ sqtab_hi[s] \in Byte
      /\ sqtab_lo[d] \in Byte /\ sqtab_hi[d] \in Byte
  BY <1>1 DEF TypeOK
<1>6. /\ Word(sqtab_lo[s], sqtab_hi[s]) = Square(s)
      /\ Word(sqtab_lo[d], sqtab_hi[d]) = Square(d)
  BY <1>1 DEF TableExact, Square
<1>7. Word(sqtab_lo[s], sqtab_hi[s]) = Word(sqtab_lo[d], sqtab_hi[d]) + a * b
  BY <1>3, <1>6
<1> QED BY <1>2, <1>4, <1>5, <1>7, DigitwiseDifference DEF Lookup

LEMMA CtMulMul == ASSUME NEW b \in Byte PROVE MulInv /\ CtMul(b) => MulInv'
<1> SUFFICES ASSUME MulInv, CtMul(b) PROVE MulInv' OBVIOUS
<1> USE DEF MulInv, CtMul
<1>1. smc_sum_a_imm \in Byte /\ smc_sum_a_imm = smc_diff_a_imm /\ built
  BY DEF TypeOK
<1>2. /\ poly_prod_lo' \in Byte /\ poly_prod_hi' \in Byte
      /\ Word(poly_prod_lo', poly_prod_hi') = smc_sum_a_imm * b
  BY <1>1, SumIndexExact, AbsDiffExact, LookupExact
<1>3. TypeOK'
  BY <1>1, <1>2 DEF TypeOK
<1>4. TableExact'
  BY DEF TableExact, Word
<1>5. ProductExact'
  BY <1>2 DEF ProductExact
<1> QED BY <1>3, <1>4, <1>5

LEMMA MulLegacyMul ==
  ASSUME NEW a \in Byte, NEW b \in Byte PROVE MulInv /\ MulLegacy(a, b) => MulInv'
<1> SUFFICES ASSUME MulInv, MulLegacy(a, b) PROVE MulInv' OBVIOUS
<1> USE DEF MulInv, MulLegacy
<1>1. /\ poly_prod_lo' \in Byte /\ poly_prod_hi' \in Byte
      /\ Word(poly_prod_lo', poly_prod_hi') = a * b
  BY SumIndexExact, BranchDiffExact, LookupExact
<1>2. TypeOK'
  BY <1>1 DEF TypeOK
<1>3. TableExact'
  BY DEF TableExact, Word
<1>4. ProductExact'
  BY <1>1 DEF ProductExact
<1> QED BY <1>2, <1>3, <1>4

LEMMA ReclaimMul == MulInv /\ ReclaimTable => MulInv'
<1> SUFFICES ASSUME MulInv, ReclaimTable PROVE MulInv' OBVIOUS
<1> USE DEF MulInv, ReclaimTable
<1>1. PICK t \in Trash : /\ sqtab_lo' = [k \in Index |-> t]
                         /\ sqtab_hi' = [k \in Index |-> t]
  OBVIOUS
<1>2. t \in Byte
  BY TrashAssumption DEF Byte
<1>3. TypeOK'
  BY <1>1, <1>2 DEF TypeOK
<1>4. TableExact'
  BY DEF TableExact
<1>5. ProductExact'
  BY DEF ProductExact, Word
<1> QED BY <1>3, <1>4, <1>5

(* MulInv is inductive.                                                     *)
THEOREM MulInvariant == Spec => []MulInv
<1>1. MulInv /\ [Next]_vars => MulInv'
  <2> SUFFICES ASSUME MulInv, [Next]_vars PROVE MulInv' OBVIOUS
  <2>1. CASE UNCHANGED vars
    BY <2>1 DEF vars, MulInv, TypeOK, TableExact, ProductExact, Word
  <2> QED BY <2>1, StartBuildMul, BuildTurnMul, BakeMul, CtMulMul, MulLegacyMul, ReclaimMul
          DEF Next
<1> QED BY InitMul, <1>1, PTL DEF Spec

(* mul_tables_init writes floor(k^2/4) for every index of a table of any      *)
(* radix: the three-byte recurrence never loses a carry.                     *)
THEOREM AlwaysTableExact == Spec => []TableExact
<1>1. MulInv => TableExact
  BY DEF MulInv
<1> QED BY MulInvariant, <1>1, PTL

(* ct_mul_8x8 returns the exact product, whatever was baked, built and        *)
(* reclaimed before.                                                        *)
THEOREM AlwaysProductExact == Spec => []ProductExact
<1>1. MulInv => ProductExact
  BY DEF MulInv
<1> QED BY MulInvariant, <1>1, PTL
=============================================================================
