--------------------------- MODULE PolyLazyProofs ---------------------------
(***************************************************************************)
(* Lazy reduction stays in range, and computes Poly1305, for every size of    *)
(* the field: PolyLazy implements PolyMac.                                   *)
(***************************************************************************)
EXTENDS PolyLazy, CommonLemmas

(* Multiples of the modulus do not count.                                   *)
LEMMA ModShift ==
  ASSUME NEW c \in Nat, c > 0, NEW k \in Int, NEW y \in Nat, k * c + y \in Nat
  PROVE  (k * c + y) % c = y % c
<1> DEFINE q == y \div c  i == y % c
<1>1. q \in Nat /\ i \in 0 .. c - 1 /\ y = q * c + i
  BY DivParts
<1> HIDE DEF q, i
<1>2. k * c + y = (k + q) * c + i
  <2>1. (k + q) * c = k * c + q * c
    BY <1>1, Z3
  <2>2. k * c \in Int /\ q * c \in Int
    BY <1>1, Z3
  <2> QED BY <1>1, <2>1, <2>2
<1>3. ((k + q) * c + i) % c = i
  BY <1>1, DivMod
<1> QED BY <1>2, <1>3 DEF i

LEMMA Sizes == Top \in Nat /\ Top >= 16 /\ P \in Nat /\ P >= 11 /\ P = Top - 5
BY SpaceAssumption DEF P

(* Replacing 2^130 by 5 changes nothing modulo P.                            *)
LEMMA FoldCongruent ==
  ASSUME NEW x \in Nat
  PROVE  Fold(x) \in Nat /\ Fold(x) % P = x % P
<1> DEFINE q == x \div Top  l == x % Top
<1>t. Top \in Nat /\ Top >= 16 /\ P \in Nat /\ P >= 11 /\ P = Top - 5
  BY Sizes
<1>1. q \in Nat /\ l \in 0 .. Top - 1 /\ x = q * Top + l
  BY <1>t, DivParts
<1>2. Fold(x) = l + 5 * q
  BY DEF Fold
<1> HIDE DEF q, l
<1>3. x = q * P + (l + 5 * q)
  <2>1. q * P = q * Top - 5 * q
    BY <1>1, <1>t, Z3
  <2>2. q * Top \in Nat /\ q * P \in Nat
    BY <1>1, <1>t, Z3
  <2> QED BY <1>1, <2>1, <2>2
<1>4. l + 5 * q \in Nat
  BY <1>1, <1>t
<1>5. (q * P + (l + 5 * q)) % P = (l + 5 * q) % P
  <2>1. q * P + (l + 5 * q) \in Nat /\ q \in Int /\ P > 0
    BY <1>1, <1>3, <1>t
  <2> QED BY <1>4, <1>t, <2>1, ModShift
<1> QED BY <1>2, <1>3, <1>4, <1>5

(* A product of a lazily reduced accumulator and a clamped multiplier folds   *)
(* to a lazily reduced accumulator.                                         *)
LEMMA FoldInRange ==
  ASSUME NEW h \in Nat, NEW m \in Nat, NEW x \in Nat,
         4 * h < 5 * Top, 2 * m <= Top, 64 * x <= Top
  PROVE  4 * Fold((h + m) * x) < 5 * Top
<1> DEFINE y == (h + m) * x  q == y \div Top  l == y % Top
<1>t. Top \in Nat /\ Top >= 16
  BY Sizes
<1>1. y \in Nat
  BY Z3
<1>2. q \in Nat /\ l \in 0 .. Top - 1 /\ y = q * Top + l
  BY <1>1, <1>t, DivParts
<1>3. Fold((h + m) * x) = l + 5 * q
  BY DEF Fold
<1>4. 256 * y <= 7 * (Top * Top)
  <2>1. 4 * (h + m) <= 7 * Top
    BY <1>t
  <2>2. (4 * (h + m)) * (64 * x) <= (7 * Top) * (64 * x)
    BY <1>t, <2>1, Z3
  <2>3. (7 * Top) * (64 * x) <= (7 * Top) * Top
    BY <1>t, Z3
  <2>4. (4 * (h + m)) * (64 * x) = 256 * y
    BY Z3
  <2>5. (7 * Top) * Top = 7 * (Top * Top)
    BY <1>t, Z3
  <2>6. (7 * Top) * (64 * x) \in Int /\ Top * Top \in Int
    BY <1>t, Z3
  <2> HIDE DEF y
  <2> QED BY <1>1, <2>2, <2>3, <2>4, <2>5, <2>6
<1> HIDE DEF y, q, l
<1>5. 256 * q <= 7 * Top
  <2> SUFFICES ASSUME 256 * q > 7 * Top PROVE FALSE
    BY <1>2, <1>t
  <2>1. (256 * q) * Top > (7 * Top) * Top
    BY <1>2, <1>t, Z3
  <2>2. (256 * q) * Top = 256 * (q * Top) /\ (7 * Top) * Top = 7 * (Top * Top)
    BY <1>2, <1>t, Z3
  <2>3. q * Top \in Nat /\ Top * Top \in Nat
    BY <1>2, <1>t, Z3
  <2> QED BY <1>1, <1>2, <1>4, <1>t, <2>1, <2>2, <2>3
<1> QED BY <1>2, <1>3, <1>5, <1>t

(* In that range one conditional subtraction is a full reduction.            *)
LEMMA ReduceOnceExact ==
  ASSUME NEW h \in Nat, 4 * h < 5 * Top
  PROVE  ReduceOnce(h) = h % P /\ h % P \in Nat
<1>t. Top \in Nat /\ Top >= 16 /\ P \in Nat /\ P >= 11 /\ P = Top - 5
  BY Sizes
<1>1. CASE h + 5 < Top
  <2>1. h \in 0 .. P - 1 /\ h + 5 \in 0 .. Top - 1
    BY <1>1, <1>t
  <2>2. (h + 5) \div Top = 0 /\ h % P = h
    BY <1>t, <2>1, ModSmall
  <2>3. 0 % 2 = 0
    BY Z3
  <2> QED BY <2>2, <2>3 DEF ReduceOnce
<1>2. CASE h + 5 >= Top
  <2> DEFINE i == h + 5 - Top
  <2>1. i \in 0 .. Top - 1 /\ i \in 0 .. P - 1 /\ h + 5 = i + Top /\ h = i + P
    BY <1>2, <1>t
  <2> HIDE DEF i
  <2>2. (i + Top) \div Top = 1 /\ (i + Top) % Top = i /\ (i + P) % P = i
    BY <1>t, <2>1, ModSmall
  <2>3. 1 % 2 = 1
    BY Z3
  <2> QED BY <2>1, <2>2, <2>3 DEF ReduceOnce
<1> QED BY <1>1, <1>2, <1>t

-----------------------------------------------------------------------------
LazyInv == TypeOK /\ InRange

LEMMA InitLazy == Init => LazyInv
BY SpaceAssumption DEF Init, LazyInv, TypeOK, InRange

LEMMA StartLazy ==
  ASSUME NEW rr \in Rs, NEW ss \in Ss PROVE LazyInv /\ Start(rr, ss) => LazyInv'
BY Sizes DEF LazyInv, Start, TypeOK, InRange

LEMMA MultiplierFits == ASSUME TypeOK PROVE poly_r \in Nat /\ 64 * poly_r <= Top
BY ClampAssumption, Sizes DEF TypeOK

LEMMA BlockLazy ==
  ASSUME NEW m \in Blocks PROVE LazyInv /\ Block(m) => LazyInv'
<1> SUFFICES ASSUME LazyInv, Block(m) PROVE LazyInv' OBVIOUS
<1>1. m \in Nat /\ 2 * m <= Top
  BY BlockAssumption
<1>2. poly_h \in Nat /\ 4 * poly_h < 5 * Top /\ poly_r \in Nat /\ 64 * poly_r <= Top
  BY MultiplierFits DEF LazyInv, Block, TypeOK, InRange
<1>3. (poly_h + m) * poly_r \in Nat
  BY <1>1, <1>2, Z3
<1>4. poly_h' \in Nat /\ 4 * poly_h' < 5 * Top
  BY <1>1, <1>2, <1>3, FoldCongruent, FoldInRange DEF Block
<1> QED BY <1>4 DEF LazyInv, Block, TypeOK, InRange

LEMMA FinishLazy == LazyInv /\ Finish => LazyInv'
<1> SUFFICES ASSUME LazyInv, Finish PROVE LazyInv' OBVIOUS
<1> DEFINE full == ReduceOnce(poly_h)
           low  == (full + poly_s) % TagSpace
           high == (full \div TagSpace) * TagSpace
<1>1. full \in Nat /\ poly_s \in Nat
  BY PadAssumption, ReduceOnceExact DEF LazyInv, Finish, TypeOK, InRange
<1>2. /\ poly1305_tag' = low /\ poly_h' = high + low /\ phase' = "idle"
      /\ UNCHANGED <<poly_r, poly_s>>
  BY DEF Finish
<1> HIDE DEF full
<1>3. low \in 0 .. TagSpace - 1 /\ full \div TagSpace \in Nat
  <2>1. TagSpace \in Nat /\ TagSpace > 0 /\ full + poly_s \in Nat
    BY <1>1, SpaceAssumption
  <2> QED BY <1>1, <2>1, DivParts
<1>4. high \in Nat
  BY <1>3, SpaceAssumption, Z3
<1> HIDE DEF low, high
<1> QED BY <1>2, <1>3, <1>4, SpaceAssumption DEF LazyInv, TypeOK, InRange

(* TypeOK and InRange are inductive together.                                *)
THEOREM LazyInvariant == Spec => []LazyInv
<1>1. LazyInv /\ [Next]_vars => LazyInv'
  BY StartLazy, BlockLazy, FinishLazy
     DEF Next, vars, LazyInv, TypeOK, InRange
<1> QED BY InitLazy, <1>1, PTL DEF Spec

(* The accumulator never leaves its range: for any field, any clamped r and   *)
(* any message.                                                             *)
THEOREM AlwaysInRange == Spec => []InRange
<1>1. LazyInv => InRange
  BY DEF LazyInv
<1> QED BY LazyInvariant, <1>1, PTL

-----------------------------------------------------------------------------
LEMMA InitMac == Init => Mac!MacInit
BY DEF Init, Mac!MacInit

LEMMA StartMac ==
  ASSUME NEW rr \in Rs, NEW ss \in Ss PROVE Start(rr, ss) => Mac!MacStart(rr, ss)
<1>1. 0 % P = 0
  BY Sizes, ModSmall
<1> QED BY <1>1 DEF Start, Mac!MacStart

(* One block, on a representative that is not reduced.                       *)
LEMMA BlockMac ==
  ASSUME NEW m \in Blocks PROVE LazyInv /\ Block(m) => Mac!MacBlock(m)
<1> SUFFICES ASSUME LazyInv, Block(m) PROVE Mac!MacBlock(m) OBVIOUS
<1> DEFINE q == poly_h \div P  i == poly_h % P
           x == (poly_h + m) * poly_r  y == (i + m) * poly_r
<1>p. P \in Nat /\ P > 0
  BY Sizes
<1>1. m \in Nat /\ poly_h \in Nat /\ poly_r \in Nat
  BY BlockAssumption, MultiplierFits DEF LazyInv, TypeOK
<1>2. q \in Nat /\ i \in Nat /\ poly_h = q * P + i
  BY <1>1, <1>p, DivParts
<1>3. x \in Nat /\ poly_h' % P = x % P
  <2>1. x \in Nat
    BY <1>1, Z3
  <2> QED BY <2>1, FoldCongruent DEF Block
<1> HIDE DEF q, i
<1>4. y \in Nat
  BY <1>1, <1>2, Z3
<1>5. x = (q * poly_r) * P + y
  <2>1. (q * P + i + m) * poly_r = (q * poly_r) * P + (i + m) * poly_r
    BY <1>1, <1>2, <1>p, Z3
  <2>2. poly_h + m = q * P + i + m
    BY <1>2
  <2> QED BY <2>1, <2>2
<1>6. q * poly_r \in Int
  BY <1>1, <1>2, Z3
<1> HIDE DEF x, y
<1>7. x % P = y % P
  BY <1>3, <1>4, <1>5, <1>6, <1>p, ModShift
<1> QED BY <1>3, <1>7 DEF Block, Mac!MacBlock, i, y

LEMMA FinishMac == LazyInv /\ Finish => Mac!MacFinish
<1> SUFFICES ASSUME LazyInv, Finish PROVE Mac!MacFinish OBVIOUS
<1>1. ReduceOnce(poly_h) = poly_h % P
  BY ReduceOnceExact DEF LazyInv, Finish, TypeOK, InRange
<1> QED BY <1>1 DEF Finish, Mac!MacFinish

(* The library's lazily reduced arithmetic is Poly1305: the initial states    *)
(* correspond, and every step is a step of the RFC's MAC or no step of it.    *)
THEOREM LazyImplementsMac == Spec => ImplementsMac
<1>1. LazyInv /\ [Next]_vars => [Mac!MacNext]_(Mac!macVars)
  <2> SUFFICES ASSUME LazyInv, [Next]_vars
               PROVE  [Mac!MacNext]_(Mac!macVars)
    OBVIOUS
  <2>1. CASE UNCHANGED vars
    BY <2>1 DEF vars, Mac!macVars
  <2>2. ASSUME NEW rr \in Rs, NEW ss \in Ss, Start(rr, ss) PROVE Mac!MacNext
    BY <2>2, StartMac DEF Mac!MacNext
  <2>3. ASSUME NEW m \in Blocks, Block(m) PROVE Mac!MacNext
    BY <2>3, BlockMac DEF Mac!MacNext
  <2>4. CASE Finish
    BY <2>4, FinishMac DEF Mac!MacNext
  <2> QED BY <2>1, <2>2, <2>3, <2>4 DEF Next
<1> QED BY LazyInvariant, InitMac, <1>1, PTL DEF Spec, ImplementsMac, Mac!MacSpec
=============================================================================
