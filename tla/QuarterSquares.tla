--------------------------- MODULE QuarterSquares ---------------------------
(***************************************************************************)
(* Profile B multiplies bytes through a table of quarter squares:            *)
(*   a * b = floor((a + b)^2 / 4) - floor((a - b)^2 / 4)                     *)
(* mul_tables_init builds the table by a recurrence, ct_mul_8x8 reads it.    *)
(* Multi-byte cells are numbers modulo a power of Radix.                    *)
(***************************************************************************)
EXTENDS Integers

CONSTANTS Radix,        \* the values of a byte; 256
          Trash         \* what a consumer may leave in the table's memory

ASSUME RadixAssumption == Radix \in Nat /\ Radix >= 4
ASSUME TrashAssumption == Trash \subseteq 0 .. Radix - 1

VARIABLES sqtab_lo, sqtab_hi,            \* the two 512-entry halves
          sq_acc, sq_i,                  \* the builder's square and index
          smc_sum_a_imm, smc_diff_a_imm, \* operand a, baked in two places
          poly_prod_lo, poly_prod_hi,
          pc,                            \* "caller", or in the builder's loop
          built,                         \* history: the table is whole
          asked                          \* history: the last operands, or none

vars == <<sqtab_lo, sqtab_hi, sq_acc, sq_i, smc_sum_a_imm, smc_diff_a_imm,
          poly_prod_lo, poly_prod_hi, pc, built, asked>>

Byte    == 0 .. Radix - 1
Index   == 0 .. 2 * Radix - 1
Word(lo, hi) == lo + Radix * hi

(* Scratch is assembled as zero, the table's memory is the machine's.        *)
Init ==
  /\ \E t \in Trash : /\ sqtab_lo = [k \in Index |-> t]
                      /\ sqtab_hi = [k \in Index |-> t]
  /\ sq_acc = 0 /\ sq_i = 0
  /\ smc_sum_a_imm = 0 /\ smc_diff_a_imm = 0
  /\ poly_prod_lo = 0 /\ poly_prod_hi = 0
  /\ pc = "caller" /\ built = FALSE /\ asked = {}

-----------------------------------------------------------------------------
(* mul_tables_init                                                          *)

StartBuild ==
  /\ pc = "caller"
  /\ pc' = "loop" /\ built' = FALSE
  /\ sq_acc' = 0 /\ sq_i' = 0
  /\ UNCHANGED <<sqtab_lo, sqtab_hi, smc_sum_a_imm, smc_diff_a_imm,
                 poly_prod_lo, poly_prod_hi, asked>>

(* sq_sh, of which the low two bytes are stored.                            *)
Quarter(acc) == acc \div 4

(* i^2 -> (i+1)^2: the addend is 2i + 1 in two bytes, the sum has three.      *)
(* Mutant: the carry into the third byte is dropped.                        *)
NextSquareTwoBytes(acc, i) == (acc + (2 * i + 1)) % (Radix * Radix)

NextSquare(acc, i) ==
  (acc + ((2 * i + 1) % (Radix * Radix))) % (Radix * Radix * Radix)

(* The index is two bytes, and the loop ends when the high one reaches 2.    *)
TableDone(i) == i \div Radix = 2

(* One turn of @loop.                                                       *)
BuildTurn ==
  /\ pc = "loop"
  /\ sqtab_lo' = [sqtab_lo EXCEPT ![sq_i] = Quarter(sq_acc) % Radix]
  /\ sqtab_hi' = [sqtab_hi EXCEPT ![sq_i] = (Quarter(sq_acc) \div Radix) % Radix]
  /\ sq_acc' = NextSquare(sq_acc, sq_i)
  /\ sq_i' = sq_i + 1
  /\ IF TableDone(sq_i') THEN pc' = "caller" /\ built' = TRUE
                         ELSE UNCHANGED <<pc, built>>
  /\ UNCHANGED <<smc_sum_a_imm, smc_diff_a_imm, poly_prod_lo, poly_prod_hi, asked>>

-----------------------------------------------------------------------------
(* ct_mul_8x8                                                               *)

(* Both table pages are selected by patching the loads with the carry.       *)
SumIndex(a, b) == ((a + b) \div Radix) * Radix + ((a + b) % Radix)

(* |b - a| without a branch: flip by the borrow's mask, then take the mask    *)
(* off.                                                                     *)
(* Mutant: flipped, and not negated.                                        *)
AbsDiffFlip(a, b) ==
  LET raw == (b - a) % Radix IN IF b >= a THEN raw ELSE Radix - 1 - raw

AbsDiff(a, b) ==
  LET raw     == (b - a) % Radix
      mask    == IF b >= a THEN 0 ELSE Radix - 1
      flipped == IF mask = 0 THEN raw ELSE Radix - 1 - raw
  IN  (flipped - mask) % Radix

Borrow(x, y) == IF x < y THEN 1 ELSE 0

(* poly1305_multiply stores r[j] at both sites before a row.                 *)
Bake(a) ==
  /\ pc = "caller"
  /\ smc_sum_a_imm' = a /\ smc_diff_a_imm' = a
  /\ UNCHANGED <<sqtab_lo, sqtab_hi, sq_acc, sq_i, poly_prod_lo, poly_prod_hi,
                 pc, built, asked>>

(* Both multiplies end in the same two-byte table subtraction.               *)
Lookup(s, d) ==
  /\ poly_prod_lo' = (sqtab_lo[s] - sqtab_lo[d]) % Radix
  /\ poly_prod_hi' = (sqtab_hi[s] - sqtab_hi[d]
                        - Borrow(sqtab_lo[s], sqtab_lo[d])) % Radix

CtMul(b) ==
  /\ pc = "caller" /\ built
  /\ Lookup(SumIndex(smc_sum_a_imm, b), AbsDiff(smc_diff_a_imm, b))
  /\ asked' = {[a |-> smc_sum_a_imm, b |-> b]}
  /\ UNCHANGED <<sqtab_lo, sqtab_hi, sq_acc, sq_i, smc_sum_a_imm, smc_diff_a_imm,
                 pc, built>>

(* mul_8x8, the multiply it replaced, takes both operands in registers and    *)
(* branches on their order.                                                 *)
BranchDiff(a, b) ==
  LET raw == (a - b) % Radix
  IN  IF a >= b THEN raw ELSE (Radix - 1 - raw + 1) % Radix

MulLegacy(a, b) ==
  /\ pc = "caller" /\ built
  /\ Lookup(SumIndex(a, b), BranchDiff(a, b))
  /\ asked' = {[a |-> a, b |-> b]}
  /\ UNCHANGED <<sqtab_lo, sqtab_hi, sq_acc, sq_i, smc_sum_a_imm, smc_diff_a_imm,
                 pc, built>>

(* A consumer reuses the table's memory.                                    *)
ReclaimTable ==
  /\ pc = "caller"
  /\ \E t \in Trash : /\ sqtab_lo' = [k \in Index |-> t]
                      /\ sqtab_hi' = [k \in Index |-> t]
  /\ built' = FALSE
  /\ UNCHANGED <<sq_acc, sq_i, smc_sum_a_imm, smc_diff_a_imm, poly_prod_lo,
                 poly_prod_hi, pc, asked>>

-----------------------------------------------------------------------------
Next ==
  \/ StartBuild \/ BuildTurn \/ ReclaimTable
  \/ \E a \in Byte : Bake(a)
  \/ \E b \in Byte : CtMul(b)
  \/ \E a, b \in Byte : MulLegacy(a, b)

Spec == Init /\ [][Next]_vars

TypeOK ==
  /\ sqtab_lo \in [Index -> Byte] /\ sqtab_hi \in [Index -> Byte]
  /\ sq_acc \in Nat /\ sq_i \in 0 .. 2 * Radix
  /\ smc_sum_a_imm \in Byte /\ smc_diff_a_imm \in Byte
  /\ poly_prod_lo \in Byte /\ poly_prod_hi \in Byte
  /\ pc \in {"caller", "loop"} /\ built \in BOOLEAN
  /\ asked \subseteq [a : Byte, b : Byte]

(* The recurrence of mul_tables_init keeps an exact square in three bytes,   *)
(* and what it has written is floor(k^2 / 4): every entry, up to the last    *)
(* one at 2 * Radix - 1, fits the two halves.                               *)
TableExact ==
  /\ pc = "loop" => sq_acc = sq_i * sq_i
  /\ \A k \in Index : built \/ (pc = "loop" /\ k < sq_i) =>
       Word(sqtab_lo[k], sqtab_hi[k]) = (k * k) \div 4

(* Whatever was baked, built, reclaimed and multiplied before, ct_mul_8x8     *)
(* and mul_8x8 leave the exact product of their operands.                   *)
ProductExact ==
  \A q \in asked : Word(poly_prod_lo, poly_prod_hi) = q.a * q.b
=============================================================================
