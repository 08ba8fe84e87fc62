------------------------ MODULE PolyLimbsProperties ------------------------
(* What the bytes of PolyLimbs add up to.                                    *)
EXTENDS PolyLimbs, FiniteSets

(* The powers of the radix, as far as the product reaches.                   *)
Weights ==
  LET w[k \in 0 .. 2 * NR + 1] == IF k = 0 THEN 1 ELSE Radix * w[k - 1] IN w

Weight(k) == Weights[k]

(* What the lowest bytes of a vector add up to, for any number of them.       *)
Sums(d) ==
  LET v[k \in 0 .. Cardinality(DOMAIN d)] ==
        IF k = 0 THEN 0 ELSE v[k - 1] + d[k - 1] * Weight(k - 1)
  IN  v

ValLow(d, n) == Sums(d)[n]

(* The number that a vector of bytes stands for.                            *)
Val(d) == ValLow(d, Cardinality(DOMAIN d))

Top == 4 * Weight(NR)

(* Bytes are bytes, and no loop indexes past its operands.                   *)
LimbTypeOK ==
  /\ poly_h \in Limbs(NR + 1) /\ poly_r \in Limbs(NR) /\ poly_s \in Limbs(NR)
  /\ poly_product \in Limbs(2 * NR + 1) /\ poly1305_tag \in Limbs(NR)
  /\ poly_carry \in Byte /\ i \in 0 .. NR + 1 /\ j \in 0 .. NR
  /\ pc \in {"caller", "tables", "multiply", "split", "reduce"}
  /\ pc \in {"tables", "multiply"} => j < NR
  /\ keyed \in BOOLEAN /\ body \in Bodies
  /\ r_tab \in [0 .. NR - 1 -> [Byte -> [lo : Byte, hi : Byte]]]

(* The incremental build is the multiplication table of the current r: the    *)
(* one carry that runs through all its steps never disturbs an entry.        *)
TablesExact ==
  body = "shoup" /\ keyed =>
    \A n \in 0 .. NR - 1 : pc # "tables" \/ n < j =>
      \A x \in Byte : r_tab[n][x].lo + Radix * r_tab[n][x].hi = x * poly_r[n]

(* In the middle of any of the multiplies, the product buffer and the carry   *)
(* not yet stored are the sum of the partial products so far: no ripple ends  *)
(* early or falls off the end, no byte-wide carry overflows, and the byte a   *)
(* compact row ends on was still clear.                                     *)
ProductSoFar ==
  pc \in {"multiply", "split"} =>
    Val(poly_product) + (IF body = "compact" THEN poly_carry * Weight(i + j) ELSE 0)
      = IF body = "shoup"
        THEN ValLow(poly_h, i) * Val(poly_r)
               + IF i <= NR THEN poly_h[i] * Weight(i) * ValLow(poly_r, j) ELSE 0
        ELSE Val(poly_h) * ValLow(poly_r, j)
               + IF j < NR THEN ValLow(poly_h, i) * poly_r[j] * Weight(j) ELSE 0

(* In the middle of the reduction, what is done and what is left of 5 * H     *)
(* make L + 5 * H; the last carry is therefore zero when poly_h has room.     *)
ReducedSoFar ==
  pc = "reduce" =>
    LET x == (Val(call.h) + Val(call.m)) * Val(poly_r)
        H == x \div Top
    IN  Val(poly_h) + (poly_carry * Weight(i)) + 5 * (H - (H % Weight(i)))
          = (x % Top) + 5 * H

(* A block that is being absorbed has not been absorbed yet; with that, the   *)
(* bytes implement the whole-number arithmetic.                             *)
ClampedValues == {Val(poly1305_clamp(k.r)) : k \in Keys}
PadValues     == {Val(k.s) : k \in Keys}
BlockValues   == {Val(m) : m \in Blocks}

Lazy == INSTANCE PolyLazy WITH
          TagSpace <- Weight(NR), Rs <- ClampedValues, Ss <- PadValues,
          Blocks <- BlockValues,
          poly_h <- Val(IF pc \in {"multiply", "split", "reduce"} THEN call.h
                                                                  ELSE poly_h),
          poly_r <- Val(poly_r), poly_s <- Val(poly_s),
          poly1305_tag <- Val(poly1305_tag),
          phase <- (IF keyed THEN "keyed" ELSE "idle")

ImplementsLazy == Lazy!Spec
=============================================================================
