----------------------------- MODULE PolyLimbs -----------------------------
(***************************************************************************)
(* Poly1305 byte by byte: the block addition, the three schoolbook           *)
(* multiplies, the reduction and the final step of poly1305_core.s, and       *)
(* Profile A's tables.  Bytes have Radix values and r has NR of them; the      *)
(* modulus is 4 * Radix^NR - 5.  All builds run side by side.                *)
(***************************************************************************)
EXTENDS Integers

CONSTANTS Radix,              \* 256
          NR,                 \* 16
          Bodies,             \* subset of {"ripple", "compact", "shoup"}
          ClampHigh,          \* bytes of r that lose their top four bits
          ClampLow,           \* bytes of r that lose their low two bits
          Keys,               \* [r, s], bytes as derived from the key stream
          Blocks,             \* NR bytes and a high bit: NR + 1 bytes
          MaxCallerSteps      \* how often the caller calls

ASSUME LimbAssumption ==
  /\ Radix \in Nat /\ Radix >= 16 /\ Radix % 16 = 0 /\ NR \in Nat \ {0}
  /\ NR - 1 \in ClampHigh /\ ClampHigh \cup ClampLow \subseteq 0 .. NR - 1

Byte  == 0 .. Radix - 1
Limbs(n) == [0 .. n - 1 -> Byte]
Zero(n)  == [k \in 0 .. n - 1 |-> 0]

ASSUME OperandAssumption ==
  /\ Keys \subseteq [r : Limbs(NR), s : Limbs(NR)]
  /\ Blocks \subseteq {m \in Limbs(NR + 1) : m[NR] <= 1}
  /\ Bodies \subseteq {"ripple", "compact", "shoup"}

VARIABLES
  body,                      \* which build this is
  poly_h, poly_r, poly_s, poly_product, poly1305_tag,
  r_tab,                     \* Profile A: x times r[j] at [j][x]
  poly_carry,                \* the running carry of a row or of the reduction
  i, j,                      \* where the loops, or the unrolled code, stand
  pc, keyed,
  call,                      \* history: poly_h and the block at block entry
  steps                      \* history: how often the caller called

vars == <<body, poly_h, poly_r, poly_s, poly_product, poly1305_tag, r_tab,
          poly_carry, i, j, pc, keyed, call, steps>>

key   == <<body, poly_r, poly_s, r_tab, keyed, poly1305_tag>>

Init ==
  /\ body \in Bodies
  /\ poly_h = Zero(NR + 1) /\ poly_r = Zero(NR) /\ poly_s = Zero(NR)
  /\ poly_product = Zero(2 * NR + 1) /\ poly1305_tag = Zero(NR)
  /\ r_tab = [n \in 0 .. NR - 1 |-> [x \in Byte |-> [lo |-> 0, hi |-> 0]]]
  /\ poly_carry = 0 /\ i = 0 /\ j = 0
  /\ pc = "caller" /\ keyed = FALSE
  /\ call = [h |-> Zero(NR + 1), m |-> Zero(NR + 1)]
  /\ steps = 0

(* The caller turns to the library again.                                   *)
CallerTurn == pc = "caller" /\ steps < MaxCallerSteps /\ steps' = steps + 1

-----------------------------------------------------------------------------
(* poly1305_init                                                            *)

(* Mutant: the low bits of the second group stay.                            *)
ClampHighOnly(r) ==
  [k \in 0 .. NR - 1 |-> IF k \in ClampHigh THEN r[k] % (Radix \div 16) ELSE r[k]]

poly1305_clamp(r) ==
  [k \in 0 .. NR - 1 |->
     IF k \in ClampHigh THEN r[k] % (Radix \div 16)
     ELSE IF k \in ClampLow THEN r[k] - (r[k] % 4)
     ELSE r[k]]

PolyInit(k) ==
  /\ CallerTurn
  /\ poly_r' = poly1305_clamp(k.r) /\ poly_s' = k.s
  /\ poly_h' = Zero(NR + 1)
  /\ keyed' = TRUE
  /\ j' = 0 /\ pc' = IF body = "shoup" THEN "tables" ELSE "caller"
  /\ UNCHANGED <<body, poly_product, poly1305_tag, r_tab, poly_carry, i, call>>

(* Mutant: the low byte's carry is cleared before it reaches the high byte.   *)
ShoupRowNoCarry(rj) ==
  LET row[x \in Byte] ==
        IF x = 0 THEN [lo |-> 0, hi |-> 0]
        ELSE LET prev == row[x - 1]
             IN  [lo |-> (prev.lo + rj) % Radix, hi |-> prev.hi]
  IN  [x \in Byte |-> row[x]]

(* One run of shoup_k_loop: each entry is the one before it plus r[j], and    *)
(* the carry a step leaves is the carry the next one starts with.            *)
ShoupRow(rj) ==
  LET row[x \in Byte] ==
        IF x = 0 THEN [lo |-> 0, hi |-> 0, carry |-> 0]
        ELSE LET prev == row[x - 1]
                 low  == prev.lo + rj + prev.carry
                 high == prev.hi + (low \div Radix)
             IN  [lo |-> low % Radix, hi |-> high % Radix,
                  carry |-> high \div Radix]
  IN  [x \in Byte |-> [lo |-> row[x].lo, hi |-> row[x].hi]]

ShoupInit ==
  /\ pc = "tables"
  /\ r_tab' = [r_tab EXCEPT ![j] = ShoupRow(poly_r[j])]
  /\ j' = j + 1
  /\ pc' = IF j + 1 = NR THEN "caller" ELSE "tables"
  /\ UNCHANGED <<body, poly_h, poly_r, poly_s, poly_product, poly1305_tag,
                 poly_carry, i, keyed, call, steps>>

-----------------------------------------------------------------------------
(* poly1305_block                                                           *)

(* A chain of adc over n bytes.                                             *)
Carries(x, y, n) ==
  LET c[k \in 0 .. n] == IF k = 0 THEN 0
                         ELSE (x[k - 1] + y[k - 1] + c[k - 1]) \div Radix
  IN  c

AddChain(x, y, n) ==
  LET c == Carries(x, y, n)
  IN  [k \in 0 .. n - 1 |-> (x[k] + y[k] + c[k]) % Radix]

(* h += block with its high bit; the product is cleared.                     *)
BlockAdd(m) ==
  /\ CallerTurn /\ keyed
  /\ poly_h' = AddChain(poly_h, m, NR + 1)
  /\ poly_product' = Zero(2 * NR + 1)
  /\ poly_carry' = 0 /\ i' = 0 /\ j' = 0
  /\ pc' = "multiply"
  /\ call' = [h |-> poly_h, m |-> m]
  /\ UNCHANGED key

(* inc from index x upward for as long as a byte wraps, up to the last.       *)
(* Mutant: the carry goes one byte up and no further.                       *)
RippleOnce(p, x) ==
  [y \in DOMAIN p |-> IF y = x THEN (p[y] + 1) % Radix ELSE p[y]]

poly_ripple(p, x) ==
  [y \in DOMAIN p |->
     IF y >= x /\ \A z \in x .. y - 1 : p[z] = Radix - 1
     THEN (p[y] + 1) % Radix
     ELSE p[y]]

(* A two-byte product added at byte k, its carry rippled.                    *)
AddProduct(p, k, lo, hi) ==
  LET low  == p[k] + lo
      high == p[k + 1] + hi + (low \div Radix)
      sum  == [p EXCEPT ![k] = low % Radix, ![k + 1] = high % Radix]
  IN  IF high >= Radix THEN poly_ripple(sum, k + 2) ELSE sum

(* Mutant: one row too many.                                                *)
MultiplyRippleOver ==
  /\ pc = "multiply" /\ body = "ripple"
  /\ LET t == poly_h[i] * poly_r[j]
     IN  poly_product' = AddProduct(poly_product, i + j, t % Radix, t \div Radix)
  /\ IF i < NR THEN i' = i + 1 /\ j' = j ELSE i' = 0 /\ j' = j + 1
  /\ pc' = IF i = NR /\ j = NR THEN "split" ELSE "multiply"
  /\ UNCHANGED <<key, poly_h, poly_carry, call, steps>>

(* The unrolled and the rolled bodies of Profile B, row by row of r.          *)
MultiplyRipple ==
  /\ pc = "multiply" /\ body = "ripple"
  /\ LET t == poly_h[i] * poly_r[j]
     IN  poly_product' = AddProduct(poly_product, i + j, t % Radix, t \div Radix)
  /\ IF i < NR THEN i' = i + 1 /\ j' = j ELSE i' = 0 /\ j' = j + 1
  /\ pc' = IF i = NR /\ j + 1 = NR THEN "split" ELSE "multiply"
  /\ UNCHANGED <<key, poly_h, poly_carry, call, steps>>

(* Profile A, row by row of h, from the tables.                             *)
MultiplyShoup ==
  /\ pc = "multiply" /\ body = "shoup"
  /\ LET t == r_tab[j][poly_h[i]]
     IN  poly_product' = AddProduct(poly_product, i + j, t.lo, t.hi)
  /\ IF j + 1 < NR THEN i' = i /\ j' = j + 1 ELSE i' = i + 1 /\ j' = 0
  /\ pc' = IF i = NR /\ j + 1 = NR THEN "split" ELSE "multiply"
  /\ UNCHANGED <<key, poly_h, poly_carry, call, steps>>

(* The compact body keeps a row's carry in one byte, and stores it above the  *)
(* row at its end.                                                          *)
MultiplyCompact ==
  /\ pc = "multiply" /\ body = "compact"
  /\ LET t     == poly_h[i] * poly_r[j]
         low   == poly_product[i + j] + (t % Radix)
         high  == ((t \div Radix) + (low \div Radix)) % Radix
         sum   == (low % Radix) + poly_carry
         carry == (high + (sum \div Radix)) % Radix
         added == [poly_product EXCEPT ![i + j] = sum % Radix]
     IN  IF i < NR
         THEN /\ poly_product' = added /\ poly_carry' = carry
              /\ i' = i + 1 /\ j' = j
         ELSE /\ poly_product' = [added EXCEPT ![i + j + 1] = carry]
              /\ poly_carry' = 0
              /\ i' = 0 /\ j' = j + 1
  /\ pc' = IF i = NR /\ j + 1 = NR THEN "split" ELSE "multiply"
  /\ UNCHANGED <<key, poly_h, call, steps>>

-----------------------------------------------------------------------------
(* poly1305_reduce                                                          *)

(* Two passes of ror over the high part, in place.                          *)
ShiftHigh(p) ==
  [k \in DOMAIN p |->
     IF k < NR THEN p[k]
     ELSE (p[k] \div 4)
            + (IF k < 2 * NR THEN (p[k + 1] % 4) * (Radix \div 4) ELSE 0)]

(* h = L, the low 130 bits; the compact body also shifts H into place.        *)
ReduceSplit ==
  /\ pc = "split"
  /\ poly_h' = [k \in 0 .. NR |-> IF k < NR THEN poly_product[k]
                                            ELSE poly_product[k] % 4]
  /\ poly_product' = IF body = "compact" THEN ShiftHigh(poly_product)
                                         ELSE poly_product
  /\ poly_carry' = 0 /\ i' = 0 /\ j' = 0
  /\ pc' = "reduce"
  /\ UNCHANGED <<key, call, steps>>

(* Byte k of H: shifted beforehand, or on the fly.                          *)
Overflow(k) ==
  IF body = "compact" THEN poly_product[NR + k] ELSE ShiftHigh(poly_product)[NR + k]

(* h[k] += 5 * H[k] + carry; the new carry is a byte.                         *)
(* Mutant: the carry out of the addition to h[k] is dropped.                 *)
ReduceTurnNoAdc ==
  /\ pc = "reduce"
  /\ LET five == 5 * Overflow(i) + poly_carry
     IN  /\ poly_h' = [poly_h EXCEPT ![i] = (@ + (five % Radix)) % Radix]
         /\ poly_carry' = five \div Radix
  /\ i' = i + 1
  /\ pc' = IF i = NR THEN "caller" ELSE "reduce"
  /\ UNCHANGED <<key, poly_product, j, call, steps>>

ReduceTurn ==
  /\ pc = "reduce"
  /\ LET five == 5 * Overflow(i) + poly_carry
         sum  == poly_h[i] + (five % Radix)
     IN  /\ poly_h' = [poly_h EXCEPT ![i] = sum % Radix]
         /\ poly_carry' = ((five \div Radix) + (sum \div Radix)) % Radix
  /\ i' = i + 1
  /\ pc' = IF i = NR THEN "caller" ELSE "reduce"
  /\ UNCHANGED <<key, poly_product, j, call, steps>>

-----------------------------------------------------------------------------
(* poly1305_final                                                           *)

(* Mutant: the mask is bit 130 of h instead of h + 5.                        *)
MaskOfH(h, plus5) == (h[NR] \div 4) % 2 = 1

(* The blend's mask: bit 130 of h + 5.                                      *)
Mask(h, plus5) == (plus5[NR] \div 4) % 2 = 1

Five == [k \in 0 .. NR |-> IF k = 0 THEN 5 ELSE 0]

PolyFinal ==
  /\ CallerTurn /\ keyed
  /\ LET plus5 == AddChain(poly_h, Five, NR + 1)
         mask  == Mask(poly_h, plus5)
         full  == [k \in 0 .. NR |-> IF ~mask THEN poly_h[k]
                                     ELSE IF k < NR THEN plus5[k] ELSE plus5[k] % 4]
         tag   == AddChain(full, poly_s, NR)
     IN  /\ poly_product' = [k \in 0 .. 2 * NR |->
                               IF k <= NR THEN plus5[k] ELSE poly_product[k]]
         /\ poly1305_tag' = tag
         /\ poly_h' = [k \in 0 .. NR |-> IF k < NR THEN tag[k] ELSE full[k]]
  /\ keyed' = FALSE
  /\ UNCHANGED <<body, poly_r, poly_s, r_tab, poly_carry, i, j, pc, call>>

-----------------------------------------------------------------------------
Next ==
  \/ \E k \in Keys : PolyInit(k)
  \/ ShoupInit
  \/ \E m \in Blocks : BlockAdd(m)
  \/ MultiplyRipple \/ MultiplyShoup \/ MultiplyCompact
  \/ ReduceSplit \/ ReduceTurn
  \/ PolyFinal

Spec == Init /\ [][Next]_vars
=============================================================================
