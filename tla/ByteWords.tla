----------------------------- MODULE ByteWords -----------------------------
(***************************************************************************)
(* The 6502 arithmetic the drivers of the library share.  A byte holds     *)
(* 0 .. Radix-1, a word is two bytes and addresses Space = Radix^2 cells.   *)
(* The program has Radix = 256, ChaBlock = 64 and PolyBlock = 16; the       *)
(* algorithms only rely on the relations of WordsAssumption, so the model   *)
(* is checked with smaller numbers and proved for all of them.             *)
(***************************************************************************)
EXTENDS Integers

CONSTANTS
  Radix,      (* values of a byte: 256                                     *)
  ChaBlock,   (* bytes of a ChaCha20 keystream block: 64                   *)
  PolyBlock   (* bytes of a Poly1305 block: 16                             *)

ASSUME WordsAssumption ==
  /\ Radix \in Nat /\ ChaBlock \in Nat /\ PolyBlock \in Nat
  /\ PolyBlock >= 4               \* the three live length bytes are distinct
  /\ 2 * PolyBlock <= ChaBlock    \* r and s come out of one keystream block
  /\ ChaBlock < Radix             \* a block size is a byte

Space == Radix * Radix
Addr  == 0 .. Space - 1
Byte  == 0 .. Radix - 1

Lo(w) == w % Radix
Hi(w) == w \div Radix

(* clc; adc on the low byte, adc on the high byte: a 16-bit sum that wraps. *)
AddWord(w, n) == IF w + n >= Space THEN w + n - Space ELSE w + n

(* How far address a is past w, counting upwards and around the top.        *)
Offset(a, w) == IF a >= w THEN a - w ELSE a - w + Space

(* Mutant: every carry is taken for an overrun.                            *)
GuardRejectsTop(ptr, len) ==
  Hi(ptr) + Hi(len) + (IF Lo(ptr) + Lo(len) >= Radix THEN 1 ELSE 0) < Radix

(***************************************************************************)
(* AEAD_DOMAIN_GUARD.  The 17-bit sum ptr + len is formed bytewise.  Carry *)
(* clear accepts; carry set accepts only if both sum bytes are zero, i.e.  *)
(* the buffer ends exactly at the top of memory.                           *)
(***************************************************************************)
GuardAccepts(ptr, len) ==
  LET lo == Lo(ptr) + Lo(len)
      hi == Hi(ptr) + Hi(len) + (IF lo >= Radix THEN 1 ELSE 0)
  IN  \/ hi < Radix
      \/ hi = Radix /\ lo % Radix = 0

(* A 16-bit count (lo, hi) against a block size that fits a byte: the code  *)
(* looks at the high byte first and compares the low byte only if it is 0.  *)
HasBlock(lo, hi, size) == hi # 0 \/ lo >= size

(* sec; sbc #n on the low byte, sbc #0 on the high byte.                    *)
SubLo(lo, n)     == IF lo >= n THEN lo - n ELSE lo - n + Radix
SubHi(lo, hi, n) == IF lo >= n THEN hi ELSE IF hi = 0 THEN Radix - 1 ELSE hi - 1
=============================================================================
