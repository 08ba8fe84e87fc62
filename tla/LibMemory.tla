----------------------------- MODULE LibMemory -----------------------------
(***************************************************************************)
(* State that the stream cipher, the MAC and the AEAD wrapper share: the    *)
(* 64 KB the caller's buffers live in, and the 16-bit byte counter          *)
(* cc20_remain / cc20_remain_hi that every walker runs on.                  *)
(***************************************************************************)
EXTENDS AeadTerms

VARIABLES
  mem,             (* the caller's memory                                   *)
  cc20_remain,     (* low byte of the running count                         *)
  cc20_remain_hi   (* its high byte                                         *)

Remain  == cc20_remain + Radix * cc20_remain_hi
Drained == cc20_remain = 0 /\ cc20_remain_hi = 0

LoadRemain(len) ==
  /\ cc20_remain'    = Lo(len)
  /\ cc20_remain_hi' = Hi(len)

(* Mutant: the borrow does not reach the high byte.                        *)
TakeLowOnly(n) ==
  cc20_remain' = SubLo(cc20_remain, n) /\ UNCHANGED cc20_remain_hi

(* cc20_remain := cc20_remain - n, over both bytes.                         *)
TakeFromRemain(n) ==
  /\ cc20_remain'    = SubLo(cc20_remain, n)
  /\ cc20_remain_hi' = SubHi(cc20_remain, cc20_remain_hi, n)

MemoryTypeOK ==
  /\ mem \in [Addr -> ByteValue]
  /\ cc20_remain \in Byte
  /\ cc20_remain_hi \in Byte
=============================================================================
