----------------------------- MODULE AeadProofs -----------------------------
(***************************************************************************)
(* AeadLib in every execution, for every radix, block size and set of      *)
(* requests.  First its fields: what the byte-wise arithmetic computes,    *)
(* that each field holds a value of its width, that an AEAD call computes  *)
(* its tag under its own r and s and starts its data stream on block 1,    *)
(* whatever was called before, and that the stream meets each byte of the  *)
(* buffer once.  Then the tag: the walkers hand Poly1305 the message they  *)
(* were given, whole, once and in order; so an AEAD call implements the    *)
(* RFC's construction in one atomic step, and aead_decrypt opens exactly   *)
(* the packets that aead_encrypt has sealed.                               *)
(***************************************************************************)
EXTENDS AeadChannel, CommonLemmas, SequenceTheorems

(* The arithmetic on bytes and words.                                       *)

(* A word is made of its two bytes.                                         *)
LEMMA LoHi ==
  ASSUME NEW w \in Addr
  PROVE  /\ Lo(w) \in Byte /\ Hi(w) \in Byte
         /\ w = Lo(w) + Radix * Hi(w)
<1> USE WordsAssumption
<1>1. Radix \in Nat /\ Radix > 0 /\ w \in Nat /\ w < Radix * Radix
  BY DEF Addr, Space
<1>2. /\ w % Radix \in 0 .. Radix - 1 /\ w \div Radix \in Int
      /\ w = Radix * (w \div Radix) + (w % Radix)
  BY <1>1, Z3
<1>3. w \div Radix \in Nat
  BY <1>1, <1>2, Z3
<1>4. w \div Radix < Radix
  BY <1>1, <1>2, <1>3, Z3
<1> QED BY <1>1, <1>2, <1>3, <1>4 DEF Lo, Hi, Byte

(* The radix is small against the address space and above any block size.   *)
LEMMA Sizes ==
  /\ Radix \in Nat /\ ChaBlock \in Nat /\ PolyBlock \in Nat /\ Space \in Nat
  /\ 4 <= PolyBlock /\ PolyBlock < ChaBlock /\ ChaBlock < Radix
  /\ Radix < Space
<1>1. /\ Radix \in Nat /\ ChaBlock \in Nat /\ PolyBlock \in Nat
      /\ 4 <= PolyBlock /\ PolyBlock < ChaBlock /\ ChaBlock < Radix
  BY WordsAssumption
<1>2. Radix < Radix * Radix /\ Radix * Radix \in Nat
  BY <1>1, Z3
<1> QED BY <1>1, <1>2 DEF Space

(* A 16-bit sum stays in the address space, and is the sum unless it wraps.  *)
LEMMA AddWordFits ==
  ASSUME NEW w \in 0 .. Space, NEW n \in Byte
  PROVE  /\ AddWord(w, n) \in Addr
         /\ w + n < Space => AddWord(w, n) = w + n
  BY Sizes DEF AddWord, Addr, Byte

(* The entry guard accepts exactly the buffers that end within the address   *)
(* space, one that ends at its very top included.                           *)
THEOREM GuardExact ==
  ASSUME NEW ptr \in Addr, NEW len \in Addr
  PROVE  GuardAccepts(ptr, len) <=> ptr + len <= Space
<1> DEFINE pl == Lo(ptr)  ph == Hi(ptr)  ll == Lo(len)  lh == Hi(len)
           hi == ph + lh + (IF pl + ll >= Radix THEN 1 ELSE 0)
<1>1. /\ pl \in Byte /\ ph \in Byte /\ ll \in Byte /\ lh \in Byte
      /\ ptr + len = (pl + ll) + Radix * (ph + lh)
  <2>1. ptr = pl + Radix * ph /\ len = ll + Radix * lh
        /\ pl \in Byte /\ ph \in Byte /\ ll \in Byte /\ lh \in Byte
    BY LoHi
  <2> QED BY <2>1, Sizes, Z3 DEF Byte
<1>2. Radix \in Nat /\ Radix > 0 BY Sizes
<1> HIDE DEF pl, ph, ll, lh
<1>3. ptr + len = (IF pl + ll >= Radix THEN pl + ll - Radix ELSE pl + ll) + Radix * hi
  BY <1>1, <1>2, Z3 DEF Byte
<1>4. (pl + ll) % Radix = IF pl + ll >= Radix THEN pl + ll - Radix ELSE pl + ll
  BY <1>1, <1>2, Z3 DEF Byte
<1>5. GuardAccepts(ptr, len) <=> hi < Radix \/ (hi = Radix /\ (pl + ll) % Radix = 0)
  BY DEF GuardAccepts, pl, ph, ll, lh
<1> DEFINE lo == IF pl + ll >= Radix THEN pl + ll - Radix ELSE pl + ll
<1>6. lo \in 0 .. Radix - 1 /\ hi \in Nat
  BY <1>1, <1>2 DEF Byte
<1> HIDE DEF lo, hi
<1>7. (lo + Radix * hi <= Radix * Radix) <=> (hi < Radix \/ (hi = Radix /\ lo = 0))
  BY <1>2, <1>6, Z3
<1> QED BY <1>3, <1>4, <1>5, <1>7 DEF Space, lo, hi

(* Looking at the high byte first compares the whole 16-bit count.          *)
LEMMA HasBlockExact ==
  ASSUME NEW lo \in Byte, NEW hi \in Byte, NEW size \in 0 .. Radix
  PROVE  HasBlock(lo, hi, size) <=> lo + Radix * hi >= size
<1>1. Radix \in Nat BY Sizes
<1>2. CASE hi = 0
  BY <1>1, <1>2 DEF HasBlock, Byte
<1>3. CASE hi # 0
  <2>1. Radix * hi >= Radix BY <1>1, <1>3, Z3 DEF Byte
  <2> QED BY <1>1, <1>3, <2>1, Z3 DEF HasBlock, Byte
<1> QED BY <1>2, <1>3

(* The two-byte subtraction stays in bytes, and subtracts unless it borrows  *)
(* from nothing.                                                            *)
LEMMA TakeExact ==
  ASSUME NEW lo \in Byte, NEW hi \in Byte, NEW n \in Byte
  PROVE  /\ SubLo(lo, n) \in Byte /\ SubHi(lo, hi, n) \in Byte
         /\ n <= lo + Radix * hi =>
              SubLo(lo, n) + Radix * SubHi(lo, hi, n) = (lo + Radix * hi) - n
<1>1. Radix \in Nat /\ Radix > 0 BY Sizes
<1>2. SubLo(lo, n) \in Byte /\ SubHi(lo, hi, n) \in Byte
  BY <1>1 DEF SubLo, SubHi, Byte
<1>3. ASSUME n <= lo + Radix * hi
      PROVE  SubLo(lo, n) + Radix * SubHi(lo, hi, n) = (lo + Radix * hi) - n
  <2>1. CASE lo >= n
    BY <1>1, <2>1, Z3 DEF SubLo, SubHi, Byte
  <2>2. CASE lo < n
    <3>1. hi # 0 BY <1>1, <1>3, <2>2, Z3 DEF Byte
    <3>2. SubLo(lo, n) = lo - n + Radix /\ SubHi(lo, hi, n) = hi - 1
      BY <1>1, <2>2, <3>1 DEF SubLo, SubHi, Byte
    <3>3. Radix * (hi - 1) = Radix * hi - Radix
      BY <1>1, Z3 DEF Byte
    <3>4. Radix * hi \in Nat
      BY <1>1, Z3 DEF Byte
    <3> QED BY <1>1, <3>2, <3>3, <3>4, Z3 DEF Byte
  <2> QED BY <1>1, <2>1, <2>2 DEF Byte
<1> QED BY <1>2, <1>3

(* The first n addresses from w, when they do not run over the top.          *)
LEMMA OffsetInside ==
  ASSUME NEW w \in Addr, NEW n \in Nat, w + n <= Space, NEW a \in Addr
  PROVE  Offset(a, w) < n <=> a \in w .. w + n - 1
  BY Sizes DEF Offset, Addr

-----------------------------------------------------------------------------
(* Type correctness.                                                        *)

LEMMA LiteralType == ASSUME NEW v \in Byte PROVE Literal(v) \in ByteValue
BY Sizes DEF Literal, Byte, ByteValue, Atom, Zero

LEMMA XorType ==
  ASSUME NEW x \in ByteValue, NEW y \in ByteValue PROVE Xor(x, y) \in ByteValue
BY DEF Xor, ByteValue

LEMMA KsByteType ==
  ASSUME NEW k \in ChaState, NEW i \in 0 .. ChaBlock - 1
  PROVE  KsByte(k, i) \in ByteValue
BY DEF KsByte, ByteValue, ChaState, Atom

LEMMA ZeroStateType == ZeroState \in ChaState
BY CounterAssumption, Sizes DEF ZeroState, ChaState, KeyField, NonceField

LEMMA NextBlockType == ASSUME NEW s \in ChaState PROVE NextBlock(s) \in ChaState
BY CounterAssumption, Sizes DEF NextBlock, ChaState

LEMMA XorIntoType ==
  ASSUME NEW m \in [Addr -> ByteValue], NEW ptr \in Addr,
         NEW ks \in ChaState, NEW n \in 0 .. ChaBlock
  PROVE  XorInto(m, ptr, ks, n) \in [Addr -> ByteValue]
<1> SUFFICES ASSUME NEW a \in Addr, Offset(a, ptr) < n
             PROVE  Xor(m[a], KsByte(ks, Offset(a, ptr))) \in ByteValue
  BY DEF XorInto
<1>1. Offset(a, ptr) \in 0 .. ChaBlock - 1
  BY Sizes DEF Offset, Addr
<1> QED BY <1>1, KsByteType, XorType

LEMMA BlockBytesTypes ==
  ASSUME NEW m \in [Addr -> ByteValue], NEW p \in 0 .. Space, NEW n \in Nat
  PROVE  /\ BytesAt(m, p) \in BlockBytes
         /\ PadBytes(m, p, n) \in BlockBytes
         /\ ZeroBlock \in BlockBytes
<1>1. \A i \in 0 .. PolyBlock - 1 : AddWord(p, i) \in Addr
  BY Sizes, AddWordFits DEF Byte
<1>2. Zero \in ByteValue
  BY DEF Zero, ByteValue
<1> QED BY <1>1, <1>2 DEF BytesAt, PadBytes, ZeroBlock, BlockBytes

LEMMA MultiplierType ==
  ASSUME PolyTypeOK PROVE Multiplier \in OtkHalf
BY DEF PolyTypeOK, Multiplier

LEMMA AbsorbedType ==
  ASSUME PolyTypeOK, NEW h \in Accumulator,
         NEW bytes \in BlockBytes, NEW hibit \in {0, 1}
  PROVE  Absorbed(h, bytes, hibit) \in Accumulator
<1>1. [bytes |-> bytes, hibit |-> hibit, r |-> Multiplier] \in PolyTerm
  BY MultiplierType DEF PolyTerm
<1>2. h.clean \in BOOLEAN /\ h.blocks \in Seq(PolyTerm)
  BY DEF Accumulator
<1>3. (h.clean /\ (Profile = "A" \/ sqtab)) \in BOOLEAN
  BY <1>2 DEF PolyTypeOK
<1> HIDE DEF PolyTerm
<1>4. Append(h.blocks, [bytes |-> bytes, hibit |-> hibit, r |-> Multiplier])
        \in Seq(PolyTerm)
  BY <1>1, <1>2
<1> QED BY <1>3, <1>4 DEF Absorbed, Accumulator

LEMMA HalfType ==
  ASSUME NEW src \in ChaState \cup CallerOtks, NEW i \in {0, 1}
  PROVE  Half(src, i) \in OtkHalf /\ Clamp(Half(src, i)) \in OtkHalf
BY DEF Half, Clamp, OtkHalf

LEMMA FreshTypes == FreshH \in Accumulator /\ DirtyH \in Accumulator
BY DEF FreshH, DirtyH, Accumulator

LEMMA TagTypes ==
  /\ ZeroTag \in TagValue
  /\ \A t \in StrayTags : t \in TagValue
  /\ \A s \in OtkHalf, h \in Accumulator : [s |-> s, h |-> h] \in TagValue
BY DEF TagValue, ComputedTag

LEMMA InputTypes ==
  ASSUME NEW r \in AeadInput
  PROVE  /\ r.key \in KeyField /\ r.nonce \in NonceField
         /\ r.data_ptr \in Addr /\ r.data_len \in Addr
         /\ r.aad_ptr \in Addr /\ r.aad_len \in Byte /\ r.aad_len \in Addr
         /\ [key |-> r.key, nonce |-> r.nonce, ctr |-> 0] \in ChaState
         /\ [key |-> r.key, nonce |-> r.nonce, ctr |-> 1] \in ChaState
BY CounterAssumption, Sizes DEF AeadInput, ChaState, Byte, Addr

LEMMA EnterType ==
  ASSUME TypeOK, NEW o \in Operations, NEW ptr \in Addr, NEW len \in Addr,
         NEW state \in ChaState, Enter(o, ptr, len, state)
  PROVE  op' \in Operations /\ call' \in CallRecord
BY DEF TypeOK, MemoryTypeOK, PolyTypeOK, Enter, CallRecord

LEMMA LoadRemainType ==
  ASSUME NEW len \in Addr, LoadRemain(len)
  PROVE  /\ cc20_remain' \in Byte /\ cc20_remain_hi' \in Byte
         /\ cc20_remain' + Radix * cc20_remain_hi' = len
BY LoHi DEF LoadRemain

LEMMA TakeType ==
  ASSUME MemoryTypeOK, NEW n \in Byte, TakeFromRemain(n)
  PROVE  /\ cc20_remain' \in Byte /\ cc20_remain_hi' \in Byte
         /\ n <= Remain => Remain' = Remain - n
<1>1. cc20_remain \in Byte /\ cc20_remain_hi \in Byte
  BY DEF MemoryTypeOK
<1>2. /\ SubLo(cc20_remain, n) \in Byte /\ SubHi(cc20_remain, cc20_remain_hi, n) \in Byte
      /\ n <= cc20_remain + Radix * cc20_remain_hi =>
           SubLo(cc20_remain, n) + Radix * SubHi(cc20_remain, cc20_remain_hi, n)
             = (cc20_remain + Radix * cc20_remain_hi) - n
  BY <1>1, TakeExact
<1>3. /\ cc20_remain' = SubLo(cc20_remain, n)
      /\ cc20_remain_hi' = SubHi(cc20_remain, cc20_remain_hi, n)
  BY DEF TakeFromRemain
<1>4. /\ Remain = cc20_remain + Radix * cc20_remain_hi
      /\ Remain' = cc20_remain' + Radix * cc20_remain_hi'
  BY DEF Remain
<1> QED BY <1>2, <1>3, <1>4, Zenon

(* What chacha20_encrypt takes from a block is a byte count that the buffer  *)
(* still has.                                                               *)
LEMMA XorCountRange ==
  ASSUME MemoryTypeOK
  PROVE  /\ XorCount \in 0 .. ChaBlock /\ XorCount \in Byte
         /\ XorCount <= Remain
<1>1. cc20_remain \in Byte /\ cc20_remain_hi \in Byte /\ ChaBlock \in 0 .. Radix
  BY Sizes DEF MemoryTypeOK
<1>2. HasBlock(cc20_remain, cc20_remain_hi, ChaBlock) <=> Remain >= ChaBlock
  BY <1>1, HasBlockExact DEF Remain
<1>3. CASE HasBlock(cc20_remain, cc20_remain_hi, ChaBlock)
  BY <1>1, <1>2, <1>3, Sizes DEF XorCount, Byte
<1>4. CASE ~HasBlock(cc20_remain, cc20_remain_hi, ChaBlock)
  <2>1. cc20_remain_hi = 0 /\ cc20_remain < ChaBlock
    BY <1>1, <1>4, Sizes DEF HasBlock, Byte
  <2>2. Remain = cc20_remain
    BY <1>1, <2>1, Sizes DEF Remain, Byte
  <2> QED BY <1>1, <1>4, <2>1, <2>2, Sizes DEF XorCount, Byte
<1> QED BY <1>3, <1>4

-----------------------------------------------------------------------------
LEMMA InitType == Init => TypeOK
<1> SUFFICES ASSUME Init PROVE TypeOK OBVIOUS
<1> USE ZeroStateType, Sizes
<1>1. /\ InitMem \in [Addr -> ByteValue] /\ MaxCallerSteps \in Nat
      /\ 0 \in Addr /\ 0 \in Byte
  BY CallerAssumption DEF Addr, Byte
<1>2. MemoryTypeOK
  BY <1>1 DEF Init, MemoryTypeOK
<1>3. ChaChaTypeOK
  <2>1. cc20_keystream \in ChaState
    BY CounterAssumption DEF Init, ChaState, KeyField, NonceField
  <2> QED BY <1>1, <2>1 DEF Init, ChaChaTypeOK
<1>4. PolyTypeOK
  <2>1. Half(ZeroState, 0) \in OtkHalf /\ Half(ZeroState, 1) \in OtkHalf
    BY HalfType
  <2>2. ZeroBlock \in BlockBytes
    BY <1>1, BlockBytesTypes
  <2> QED BY <1>1, <2>1, <2>2, FreshTypes, TagTypes DEF Init, PolyTypeOK
<1>5. aead_in \in AeadInput
  BY <1>1 DEF Init, AeadInput, KeyField, NonceField
<1>6. call \in CallRecord
  BY <1>1, FreshTypes, TagTypes DEF Init, CallRecord
<1> QED BY <1>1, <1>2, <1>3, <1>4, <1>5, <1>6, TagTypes
        DEF Init, TypeOK, AEAD_OK, Locations, Operations

-----------------------------------------------------------------------------
LEMMA CallerStepType == TypeOK /\ CallerStep => TypeOK'
<1> SUFFICES ASSUME TypeOK, CallerStep PROVE TypeOK' OBVIOUS
<1> USE DEF TypeOK, MemoryTypeOK, ChaChaTypeOK, PolyTypeOK, CallerTurn, vars,
            remainVars, streamVars, keyVars, tableVars, blockVars, macVars,
            apiVars, Locations
<1>0. \A n \in 0 .. MaxCallerSteps : n < MaxCallerSteps => n + 1 \in 0 .. MaxCallerSteps
  BY CallerAssumption
<1>1. ASSUME NEW e \in Edits, StoreByte(e) PROVE TypeOK'
  <2>1. e.addr \in Addr /\ Literal(e.val) \in ByteValue
    BY CallerAssumption, LiteralType
  <2> QED BY <1>0, <1>1, <2>1 DEF StoreByte
<1>2. ASSUME NEW t \in StrayTags, StoreTag(t) PROVE TypeOK'
  BY <1>0, <1>2, TagTypes DEF StoreTag
<1>3. ASSUME ReclaimTable PROVE TypeOK'
  BY <1>0, <1>3 DEF ReclaimTable
<1>4. ASSUME NEW o \in {"encrypt", "decrypt"}, NEW req \in AeadRequests,
             CallAead(o, req)
      PROVE  TypeOK'
  <2>1. req \in AeadInput
    BY CallerAssumption
  <2>2. op' \in Operations /\ call' \in CallRecord
    <3> DEFINE state == [key |-> req.key, nonce |-> req.nonce, ctr |-> 1]
    <3>1. state \in ChaState /\ req.data_ptr \in Addr /\ req.data_len \in Addr
      BY <2>1, InputTypes
    <3>2. Enter(o, req.data_ptr, req.data_len, state) /\ o \in Operations
      BY <1>4 DEF CallAead, Operations
    <3> HIDE DEF state
    <3> QED BY <3>1, <3>2, EnterType
  <2> QED BY <1>0, <1>4, <2>1, <2>2 DEF CallAead
<1>5. ASSUME NEW in \in CipherInputs, CallChaChaInit(in) PROVE TypeOK'
  <2>1. in \in ChaState /\ StateFrom(in) \in ChaState
    BY CallerAssumption DEF StateFrom, ChaState
  <2> QED BY <1>0, <1>5, <2>1 DEF CallChaChaInit
<1>6. ASSUME CallChaChaBlock PROVE TypeOK'
  BY <1>0, <1>6, NextBlockType DEF CallChaChaBlock, RunBlock
<1>7. ASSUME NEW x \in Extents, CallChaChaEncrypt(x) PROVE TypeOK'
  <2>1. x.ptr \in Addr /\ x.len \in Addr
    BY CallerAssumption
  <2>2. op' \in Operations /\ call' \in CallRecord
    BY <1>7, <2>1, EnterType DEF CallChaChaEncrypt, Operations
  <2>3. cc20_remain' \in Byte /\ cc20_remain_hi' \in Byte
    BY <1>7, <2>1, LoadRemainType DEF CallChaChaEncrypt
  <2> QED BY <1>0, <1>7, <2>1, <2>2, <2>3 DEF CallChaChaEncrypt
<1>8. ASSUME CallLibInit PROVE TypeOK'
  BY <1>0, <1>8 DEF CallLibInit, BuildTables
<1>9. ASSUME NEW k \in CallerOtks, CallPolyInit(k) PROVE TypeOK'
  BY <1>0, <1>9, HalfType, FreshTypes DEF CallPolyInit, PolyInit, BuildTables
<1>10. ASSUME NEW x \in Extents, CallPolyUpdate(x) PROVE TypeOK'
  <2>1. x.ptr \in Addr /\ x.len \in Addr
    BY CallerAssumption
  <2>2. op' \in Operations /\ call' \in CallRecord
    BY <1>10, <2>1, EnterType DEF CallPolyUpdate, Operations
  <2>3. cc20_remain' \in Byte
    BY <1>10, <2>1, Sizes DEF CallPolyUpdate, Addr, Byte
  <2> QED BY <1>0, <1>10, <2>1, <2>2, <2>3 DEF CallPolyUpdate
<1>11. ASSUME NEW x \in Extents, NEW hibit \in {0, 1}, CallPolyBlock(x, hibit)
       PROVE  TypeOK'
  <2>1. x.ptr \in Addr /\ x.ptr \in 0 .. Space
    BY CallerAssumption, Sizes DEF Addr
  <2>2. poly_h' \in Accumulator
    BY <1>11, <2>1, BlockBytesTypes, AbsorbedType DEF CallPolyBlock, PolyAbsorb
  <2> QED BY <1>0, <1>11, <2>1, <2>2 DEF CallPolyBlock
<1>12. ASSUME CallPolyFinal PROVE TypeOK'
  BY <1>0, <1>12, FreshTypes, TagTypes DEF CallPolyFinal, PolyFinal
<1> QED BY <1>1, <1>2, <1>3, <1>4, <1>5, <1>6, <1>7, <1>8, <1>9, <1>10, <1>11,
           <1>12 DEF CallerStep

-----------------------------------------------------------------------------
(* One turn of a Poly1305 walker leaves the types alone.                     *)
LEMMA AbsorbStepType ==
  ASSUME TypeOK, NEW bytes \in BlockBytes, NEW hibit \in {0, 1},
         PolyAbsorb(bytes, hibit)
  PROVE  poly_h' \in Accumulator
BY AbsorbedType DEF TypeOK, PolyAbsorb, PolyTypeOK

LEMMA LengthsBlockType ==
  ASSUME NEW a \in Byte, NEW d \in Addr PROVE LengthsBlock(a, d) \in BlockBytes
<1>1. Literal(a) \in ByteValue /\ Literal(Lo(d)) \in ByteValue
      /\ Literal(Hi(d)) \in ByteValue
  BY LoHi, LiteralType
<1>2. ZeroBlock \in BlockBytes
  BY DEF ZeroBlock, BlockBytes, Zero, ByteValue
<1> QED BY <1>1, <1>2 DEF LengthsBlock, BlockBytes

LEMMA LibStepType == TypeOK /\ LibStep => TypeOK'
<1> SUFFICES ASSUME TypeOK, LibStep PROVE TypeOK' OBVIOUS
<1> USE DEF TypeOK, MemoryTypeOK, ChaChaTypeOK, PolyTypeOK, vars, remainVars,
            streamVars, keyVars, tableVars, blockVars, macVars, apiVars,
            ghostVars, Locations, Return
<1>a. /\ AEAD_OK \in Byte /\ AEAD_ERR_DOMAIN \in Byte /\ AEAD_ERR_AUTH \in Byte
  BY Sizes DEF AEAD_OK, AEAD_ERR_DOMAIN, AEAD_ERR_AUTH, Byte
<1>b. /\ aead_in.data_ptr \in Addr /\ aead_in.data_len \in Addr
      /\ aead_in.aad_ptr \in Addr /\ aead_in.aad_len \in Addr
      /\ aead_in.aad_len \in Byte
      /\ [key |-> aead_in.key, nonce |-> aead_in.nonce, ctr |-> 0] \in ChaState
  BY InputTypes
<1>c. /\ zp_ptr1 \in 0 .. Space /\ ScratchPtr = Space
      /\ PolyBlock \in Byte /\ PolyBlock \in Nat
  BY Sizes DEF ScratchPtr, Addr, Byte
<1>d. /\ AddWord(zp_ptr1, PolyBlock) \in Addr
      /\ BytesAt(mem, zp_ptr1) \in BlockBytes
      /\ PadBytes(mem, zp_ptr1, cc20_remain) \in BlockBytes
  <2>1. cc20_remain \in Nat
    BY Sizes DEF Byte
  <2> QED BY <1>c, <2>1, AddWordFits, BlockBytesTypes
<1>e. \A s \in ChaState, i \in {0, 1} :
        Half(s, i) \in OtkHalf /\ Clamp(Half(s, i)) \in OtkHalf
  BY HalfType
<1>f. ASSUME TakeFromRemain(PolyBlock)
      PROVE  cc20_remain' \in Byte /\ cc20_remain_hi' \in Byte
  BY <1>c, <1>f, TakeType
<1>1. CASE GuardReject
  BY <1>a, <1>1 DEF GuardReject
<1>2. CASE GuardAccept
  BY <1>2 DEF GuardAccept
<1>3. CASE DeriveOtk
  <2>1. cc20_in' \in ChaState /\ StateFrom(cc20_in') \in ChaState
    BY <1>3, <1>b DEF DeriveOtk, StateFrom, ChaState
  <2>2. cc20_keystream' \in ChaState /\ cc20_state' \in ChaState
    BY <1>3, <2>1, NextBlockType DEF DeriveOtk, RunBlock
  <2>3. poly_r' \in OtkHalf /\ poly_s' \in OtkHalf /\ r_tab' \in OtkHalf
        /\ poly_h' \in Accumulator
        /\ sqtab' \in BOOLEAN /\ sqtab_ready' \in BOOLEAN
    BY <1>3, <1>e, <2>2, FreshTypes DEF DeriveOtk, PolyInit, BuildTables
  <2> QED BY <1>3, <2>1, <2>2, <2>3 DEF DeriveOtk
<1>4. CASE LoadStream
  <2>1. cc20_remain' \in Byte /\ cc20_remain_hi' \in Byte
    BY <1>4, <1>b, LoadRemainType DEF LoadStream
  <2> QED BY <1>4, <1>b, <2>1 DEF LoadStream
<1>5. CASE StreamBlock
  <2>1. XorCount \in 0 .. ChaBlock /\ XorCount \in Byte
    BY XorCountRange
  <2>2. cc20_keystream' \in ChaState /\ cc20_state' \in ChaState
    BY <1>5, NextBlockType DEF StreamBlock, EncryptBlock, RunBlock
  <2>3. mem' \in [Addr -> ByteValue]
    BY <1>5, <2>1, <2>2, XorIntoType DEF StreamBlock, EncryptBlock
  <2>4. cc20_data_ptr' \in Addr
    BY <1>5, <2>1, AddWordFits, Sizes DEF StreamBlock, EncryptBlock, Addr
  <2>5. cc20_remain' \in Byte /\ cc20_remain_hi' \in Byte
    BY <1>5, <2>1, TakeType DEF StreamBlock, EncryptBlock
  <2> QED BY <1>5, <2>2, <2>3, <2>4, <2>5 DEF StreamBlock, EncryptBlock
<1>6. CASE StreamDone
  BY <1>a, <1>6 DEF StreamDone
<1>7. CASE LoadAad
  <2>1. /\ cc20_remain' \in Byte /\ cc20_remain_hi' \in Byte
        /\ zp_ptr1' \in Addr \cup {ScratchPtr} /\ pc' \in Locations
    BY <1>7, <1>b, LoadRemainType DEF LoadAad
  <2> QED BY <1>7, <2>1 DEF LoadAad
<1>8. CASE LoadCiphertext
  <2>1. /\ cc20_remain' \in Byte /\ cc20_remain_hi' \in Byte
        /\ zp_ptr1' \in Addr \cup {ScratchPtr} /\ pc' \in Locations
    BY <1>8, <1>b, LoadRemainType DEF LoadCiphertext
  <2> QED BY <1>8, <2>1 DEF LoadCiphertext
<1>9. CASE PaddedFull
  <2>1. poly_h' \in Accumulator
    BY <1>9, <1>d, AbsorbStepType DEF PaddedFull
  <2> QED BY <1>9, <1>d, <1>f, <2>1 DEF PaddedFull
<1>10. CASE PaddedPartial
  <2>1. aead_scratch' \in BlockBytes
    BY <1>10, <1>d DEF PaddedPartial
  <2>2. poly_h' \in Accumulator
    BY <1>10, <2>1, AbsorbStepType DEF PaddedPartial
  <2> QED BY <1>10, <2>1, <2>2 DEF PaddedPartial, AfterPadded
<1>11. CASE PaddedDone
  BY <1>11 DEF PaddedDone, AfterPadded
<1>12. CASE FinishTag
  <2>1. aead_scratch' \in BlockBytes
    BY <1>12, <1>b, LengthsBlockType DEF FinishTag
  <2>2. Absorbed(poly_h, aead_scratch', 1) \in Accumulator
    BY <2>1, AbsorbedType
  <2>3. poly1305_tag' \in TagValue /\ poly_h' \in Accumulator
    BY <1>12, <2>2, TagTypes, FreshTypes DEF FinishTag, PolyFinal
  <2> QED BY <1>12, <2>1, <2>3 DEF FinishTag
<1>13. CASE PublishTag
  BY <1>a, <1>13 DEF PublishTag
<1>14. CASE VerifyTag
  BY <1>a, <1>14 DEF VerifyTag
<1>15. CASE UpdateFull
  <2>1. poly_h' \in Accumulator
    BY <1>15, <1>d, AbsorbStepType DEF UpdateFull
  <2>2. cc20_remain' \in Byte
    BY <1>15, Sizes DEF UpdateFull, Byte
  <2> QED BY <1>15, <1>d, <2>1, <2>2 DEF UpdateFull
<1>16. CASE UpdatePartial
  <2>1. Literal(1) \in ByteValue /\ 0 \in Byte
    BY LiteralType, Sizes DEF Byte
  <2>2. aead_scratch' \in BlockBytes
    BY <1>16, <1>d, <2>1 DEF UpdatePartial, BlockBytes
  <2>3. poly_h' \in Accumulator
    BY <1>16, <2>2, AbsorbStepType DEF UpdatePartial
  <2> QED BY <1>16, <2>1, <2>2, <2>3 DEF UpdatePartial
<1>17. CASE UpdateDone
  BY <1>17 DEF UpdateDone
<1> QED BY <1>1, <1>2, <1>3, <1>4, <1>5, <1>6, <1>7, <1>8, <1>9, <1>10, <1>11,
           <1>12, <1>13, <1>14, <1>15, <1>16, <1>17 DEF LibStep

LEMMA StutterType == TypeOK /\ UNCHANGED vars => TypeOK'
BY DEF TypeOK, MemoryTypeOK, ChaChaTypeOK, PolyTypeOK, vars, remainVars,
       streamVars, keyVars, tableVars, blockVars, macVars, apiVars, ghostVars,
       Multiplier

(* Every field, cell and table of the library stays within its width and its *)
(* kind of value, in every sequence of calls, whatever the radix, the block  *)
(* sizes, the requests and the number of calls.                             *)
THEOREM TypeCorrect == Spec => []TypeOK
<1>1. Init => TypeOK
  BY InitType
<1>2. TypeOK /\ [Next]_vars => TypeOK'
  BY CallerStepType, LibStepType, StutterType DEF Next
<1> QED BY <1>1, <1>2, PTL DEF Spec

-----------------------------------------------------------------------------
(* The one-time key and the primed cipher state.                             *)

(* Which operation can be where.  Without it a step could carry one         *)
(* operation into the part of the program that belongs to another.          *)
ControlOK ==
  /\ pc \in {"guard", "otk", "load"} \cup TagPhase => op \in {"encrypt", "decrypt"}
  /\ pc = "publish" => op = "encrypt"
  /\ pc = "verify"  => op = "decrypt"
  /\ pc = "stream"  => op \in {"encrypt", "decrypt", "stream"}
  /\ pc = "update"  => op = "update"

(* The parts of MacKeyed.                                                   *)
MacPhase == pc \in TagPhase \/ (op = "encrypt" /\ pc \in {"load", "stream"})

Otk == [key |-> aead_in.key, nonce |-> aead_in.nonce, ctr |-> 0]

KeyLoaded ==
  /\ poly_s = Half(Otk, 1)
  /\ Multiplier = Clamp(Half(Otk, 0))
  /\ Profile = "B" => sqtab

Accumulates(h) ==
  /\ h.clean
  /\ \A b \in 1 .. Len(h.blocks) : h.blocks[b].r = Clamp(Half(Otk, 0))

KeyInv == ControlOK /\ ReadyMeansBuilt /\ Primed /\ MacKeyed

LEMMA MacKeyedParts ==
  /\ MacKeyed  <=> (MacPhase  => KeyLoaded  /\ Accumulates(poly_h))
  /\ MacKeyed' <=> (MacPhase' => KeyLoaded' /\ Accumulates(poly_h)')
BY DEF MacKeyed, MacPhase, KeyLoaded, Accumulates, Otk

-----------------------------------------------------------------------------
(* Absorbing a block under the packet's key keeps the accumulator clean.     *)
LEMMA AbsorbKeeps ==
  ASSUME TypeOK, KeyLoaded, Accumulates(poly_h),
         NEW bytes, NEW hibit
  PROVE  Accumulates(Absorbed(poly_h, bytes, hibit))
<1> DEFINE s == poly_h.blocks
           t == [bytes |-> bytes, hibit |-> hibit, r |-> Multiplier]
<1>1. s \in Seq(PolyTerm)
  BY DEF TypeOK, PolyTypeOK, Accumulator
<1>2. t.r = Clamp(Half(Otk, 0)) /\ (Profile = "A" \/ sqtab)
  BY ProfileAssumption DEF KeyLoaded
<1>3. /\ Absorbed(poly_h, bytes, hibit).clean
      /\ Absorbed(poly_h, bytes, hibit).blocks = Append(s, t)
  BY <1>2 DEF Absorbed, Accumulates
<1> HIDE DEF t
<1>4. ASSUME NEW b \in 1 .. Len(Append(s, t))
      PROVE  Append(s, t)[b].r = Clamp(Half(Otk, 0))
  <2>1. CASE b = Len(s) + 1
    BY <1>1, <1>2, <2>1
  <2>2. CASE b # Len(s) + 1
    <3>1. b \in 1 .. Len(s) /\ Append(s, t)[b] = s[b]
      BY <1>1, <2>2
    <3> QED BY <3>1 DEF Accumulates
  <2> QED BY <2>1, <2>2
<1> QED BY <1>3, <1>4 DEF Accumulates

(* aead_derive_otk loads the key, and its tail primes the cipher.            *)
LEMMA DeriveLoads ==
  ASSUME TypeOK, ReadyMeansBuilt, DeriveOtk
  PROVE  /\ KeyLoaded' /\ Accumulates(poly_h)' /\ ReadyMeansBuilt'
         /\ cc20_state' = [key |-> aead_in.key, nonce |-> aead_in.nonce, ctr |-> 1]
<1>1. cc20_in' = Otk /\ aead_in' = aead_in
  BY DEF DeriveOtk, Otk, apiVars
<1>2. StateFrom(cc20_in') = Otk
  BY <1>1 DEF StateFrom, Otk
<1>3. cc20_keystream' = Otk /\ cc20_state' = NextBlock(Otk)
  BY <1>2 DEF DeriveOtk, RunBlock
<1>4. /\ poly_r' = Clamp(Half(Otk, 0)) /\ poly_s' = Half(Otk, 1)
      /\ poly_h' = FreshH /\ BuildTables
      /\ r_tab' = IF Profile = "A" THEN Clamp(Half(Otk, 0)) ELSE r_tab
  BY <1>3 DEF DeriveOtk, PolyInit
<1>5. Otk' = Otk
  BY <1>1 DEF Otk
<1>6. KeyLoaded'
  BY <1>4, <1>5, ProfileAssumption
     DEF KeyLoaded, Multiplier, BuildTables, ReadyMeansBuilt, TypeOK, PolyTypeOK
<1>7. Accumulates(poly_h)'
  BY <1>4 DEF Accumulates, FreshH
<1>8. ReadyMeansBuilt'
  BY <1>4 DEF ReadyMeansBuilt, BuildTables
<1>9. NextBlock(Otk) = [key |-> aead_in.key, nonce |-> aead_in.nonce, ctr |-> 1]
  BY CounterAssumption, Sizes DEF NextBlock, Otk
<1> QED BY <1>3, <1>6, <1>7, <1>8, <1>9

-----------------------------------------------------------------------------
LEMMA KeyInit == Init => KeyInv
BY DEF Init, KeyInv, ControlOK, ReadyMeansBuilt, Primed, MacKeyed, TagPhase

LEMMA KeyCaller == TypeOK /\ KeyInv /\ CallerStep => KeyInv'
<1> SUFFICES ASSUME TypeOK, KeyInv, CallerStep PROVE KeyInv' OBVIOUS
<1>1. /\ pc = "caller"
      /\ \/ pc' = "caller"
         \/ pc' = "guard" /\ op' \in {"encrypt", "decrypt"}
         \/ pc' = "stream" /\ op' = "stream"
         \/ pc' = "update" /\ op' = "update"
  BY DEF CallerStep, CallerTurn, StoreByte, StoreTag, ReclaimTable, CallAead,
         CallChaChaInit, CallChaChaBlock, CallChaChaEncrypt, CallLibInit,
         CallPolyInit, CallPolyUpdate, CallPolyBlock, CallPolyFinal, Enter
<1>2. ControlOK'
  BY <1>1 DEF ControlOK, TagPhase
<1>3. Primed' /\ MacKeyed'
  BY <1>1 DEF Primed, MacKeyed, TagPhase
<1>4. ReadyMeansBuilt'
  BY DEF KeyInv, ReadyMeansBuilt, BuildTables, PolyInit, tableVars, keyVars,
         blockVars, macVars,
         CallerStep, StoreByte, StoreTag, ReclaimTable, CallAead,
         CallChaChaInit, CallChaChaBlock, CallChaChaEncrypt, CallLibInit,
         CallPolyInit, CallPolyUpdate, CallPolyBlock, CallPolyFinal
<1> QED BY <1>2, <1>3, <1>4 DEF KeyInv

(* A step that leaves key, tables and accumulator alone, or has the          *)
(* accumulator absorb a block, within the tag phase.                        *)
LEMMA MacStep ==
  ASSUME TypeOK, KeyLoaded, Accumulates(poly_h),
         UNCHANGED <<keyVars, tableVars, aead_in>>,
         poly_h' = poly_h \/ \E bytes, hibit : poly_h' = Absorbed(poly_h, bytes, hibit)
  PROVE  KeyLoaded' /\ Accumulates(poly_h)'
<1>1. KeyLoaded' /\ Otk' = Otk
  BY DEF KeyLoaded, Multiplier, Otk, keyVars, tableVars
<1>2. Accumulates(poly_h')
  BY AbsorbKeeps
<1>3. Accumulates(poly_h)' <=> Accumulates(poly_h')
  BY <1>1 DEF Accumulates
<1> QED BY <1>1, <1>2, <1>3

LEMMA KeyLib == TypeOK /\ KeyInv /\ LibStep => KeyInv'
<1> SUFFICES ASSUME TypeOK, KeyInv, LibStep PROVE KeyInv' OBVIOUS
<1> USE DEF KeyInv, vars, remainVars, streamVars, tableVars, blockVars,
            macVars, apiVars, ghostVars, Return
<1>1. CASE DeriveOtk
  <2>1. /\ pc = "otk" /\ pc' = IF op = "encrypt" THEN "load" ELSE "aad"
        /\ op' = op /\ aead_in' = aead_in
    BY <1>1 DEF DeriveOtk
  <2>2. ControlOK'
    BY <2>1 DEF ControlOK, TagPhase
  <2>3. KeyLoaded' /\ Accumulates(poly_h)' /\ ReadyMeansBuilt' /\ Primed'
    BY <1>1, <2>1, DeriveLoads DEF Primed
  <2> QED BY <2>2, <2>3, MacKeyedParts
<1>2. CASE ~DeriveOtk
  <2>1. op' = op /\ aead_in' = aead_in /\ UNCHANGED <<keyVars, tableVars>>
    BY <1>2 DEF LibStep, GuardReject, GuardAccept, LoadStream, StreamBlock,
         StreamDone, LoadAad, LoadCiphertext, PaddedFull, PaddedPartial,
         PaddedDone, FinishTag, PublishTag, VerifyTag, UpdateFull,
         UpdatePartial, UpdateDone
  <2>2. ReadyMeansBuilt'
    BY <2>1 DEF ReadyMeansBuilt
  <2>3. ControlOK'
    BY <1>2, <2>1 DEF ControlOK, TagPhase, LibStep, GuardReject, GuardAccept, LoadStream,
         StreamBlock, StreamDone, LoadAad, LoadCiphertext, PaddedFull,
         PaddedPartial, PaddedDone, AfterPadded, FinishTag, PublishTag,
         VerifyTag, UpdateFull, UpdatePartial, UpdateDone
  <2>4. Primed'
    BY <1>2, <2>1 DEF ControlOK, Primed, TagPhase, LibStep, GuardReject, GuardAccept,
         LoadStream, StreamBlock, StreamDone, LoadAad, LoadCiphertext,
         PaddedFull, PaddedPartial, PaddedDone, AfterPadded, FinishTag,
         PublishTag, VerifyTag, UpdateFull, UpdatePartial, UpdateDone
  <2>5. ASSUME MacPhase'
        PROVE  /\ MacPhase
               /\ \/ poly_h' = poly_h
                  \/ \E bytes, hibit : poly_h' = Absorbed(poly_h, bytes, hibit)
    BY <1>2, <2>1, <2>5 DEF ControlOK, MacPhase, PolyAbsorb, TagPhase, LibStep, GuardReject,
         GuardAccept, LoadStream, StreamBlock, StreamDone, LoadAad,
         LoadCiphertext, PaddedFull, PaddedPartial, PaddedDone, AfterPadded,
         FinishTag, PublishTag, VerifyTag, UpdateFull, UpdatePartial, UpdateDone
  <2>6. ASSUME MacPhase' PROVE KeyLoaded' /\ Accumulates(poly_h)'
    <3>1. KeyLoaded /\ Accumulates(poly_h)
      BY <2>5, <2>6, MacKeyedParts
    <3> HIDE DEF KeyInv
    <3> QED BY <2>1, <2>5, <2>6, <3>1, MacStep
  <2>7. MacKeyed'
    BY <2>6, MacKeyedParts
  <2> QED BY <2>2, <2>3, <2>4, <2>7
<1> QED BY <1>1, <1>2

LEMMA KeyStutter == KeyInv /\ UNCHANGED vars => KeyInv'
BY DEF KeyInv, ControlOK, ReadyMeansBuilt, Primed, MacKeyed, Multiplier, vars,
       remainVars, streamVars, keyVars, tableVars, blockVars, macVars, apiVars,
       ghostVars

LEMMA KeyInvariant == Spec => []KeyInv
<1>1. Init => KeyInv
  BY KeyInit
<1>2. TypeOK /\ KeyInv /\ [Next]_vars => KeyInv'
  BY KeyCaller, KeyLib, KeyStutter DEF Next
<1> QED BY <1>1, <1>2, TypeCorrect, PTL DEF Spec

(* In every execution the data stream of an AEAD call starts on block 1 of   *)
(* its own keystream, although nothing sets the cipher up for it.            *)
THEOREM AlwaysPrimed == Spec => []Primed
<1>1. KeyInv => Primed
  BY DEF KeyInv
<1> QED BY <1>1, KeyInvariant, PTL

(* In every execution an AEAD call's tag is computed under its own one-time  *)
(* key, from zero, through a table that is there, on either profile.         *)
THEOREM AlwaysMacKeyed == Spec => []MacKeyed
<1>1. KeyInv => MacKeyed
  BY DEF KeyInv
<1> QED BY <1>1, KeyInvariant, PTL
-----------------------------------------------------------------------------
(* The data stream: every byte of a buffer meets its own byte of keystream,  *)
(* once, nothing outside the buffer is touched, and nothing is decrypted      *)
(* before the tag compared equal.                                           *)

Done == call.len - Remain

(* The parts of StreamPosition.                                             *)
Positioned ==
  /\ Done \in 0 .. call.len
  /\ cc20_data_ptr = (call.ptr + Done) % Space
  /\ cc20_state = Abstract!BlockAfter(call.state, (Done + ChaBlock - 1) \div ChaBlock)
  /\ mem = Abstract!Streamed(call.mem, call.ptr, Done, call.state)

(* A stream that is not finished has consumed whole keystream blocks.        *)
Aligned == pc = "stream" /\ Remain # 0 => Done % ChaBlock = 0

(* What the history says of the call in progress.                           *)
EntryOK ==
  InAead => /\ call.ptr = aead_in.data_ptr /\ call.len = aead_in.data_len
            /\ call.state = [key |-> aead_in.key, nonce |-> aead_in.nonce, ctr |-> 1]

(* Past the guard the buffer ends within the address space.                  *)
DomainOK == pc \notin {"caller", "guard"} => call.ptr + call.len <= Space

(* Memory is as it was at the entry until the stream starts.                 *)
Untouched ==
  pc \in {"guard", "otk", "load", "update"}
    \/ (op = "decrypt" /\ pc \in TagPhase \cup {"verify"}) => mem = call.mem

Verified == op = "decrypt" /\ pc \in {"load", "stream"} => poly1305_tag = aead_tag

StreamInv ==
  EntryOK /\ DomainOK /\ Untouched /\ Verified /\ Aligned /\ StreamPosition /\ Confined

LEMMA StreamPositionParts ==
  /\ StreamPosition  <=> (pc  = "stream" => Positioned)
  /\ StreamPosition' <=> (pc' = "stream" => Positioned')
BY DEF StreamPosition, Positioned, Done

-----------------------------------------------------------------------------
(* chacha20_block's counter chain steps from one block of the stream to the  *)
(* next.                                                                    *)
LEMMA BlockAfterNext ==
  ASSUME NEW k \in ChaState, NEW n \in Nat
  PROVE  /\ NextBlock(Abstract!BlockAfter(k, n)) = Abstract!BlockAfter(k, n + 1)
         /\ Abstract!BlockAfter(k, 0) = k
         /\ Abstract!BlockAfter(k, n) \in ChaState
<1>1. CtrMod \in Nat /\ CtrMod > 0 /\ k.ctr \in 0 .. CtrMod - 1
  BY CounterAssumption, Sizes DEF ChaState
<1>2. k.ctr + n \in Nat /\ (k.ctr + n) + 1 = k.ctr + (n + 1)
  BY <1>1
<1>3. /\ (k.ctr + n) % CtrMod \in 0 .. CtrMod - 1
      /\ ((k.ctr + n) + 1) % CtrMod
           = IF ((k.ctr + n) % CtrMod) + 1 = CtrMod THEN 0 ELSE ((k.ctr + n) % CtrMod) + 1
  BY <1>1, <1>2, ModNext
<1>4. (0 * CtrMod + k.ctr) % CtrMod = k.ctr
  BY <1>1, DivMod
<1>5. 0 * CtrMod + k.ctr = k.ctr + 0
  BY <1>1, Z3
<1> QED BY <1>1, <1>2, <1>3, <1>4, <1>5
        DEF NextBlock, Abstract!BlockAfter, ChaState

-----------------------------------------------------------------------------
(* XORing n more bytes with block q extends the stream from q blocks to q    *)
(* blocks and n bytes.                                                      *)
LEMMA StreamExtends ==
  ASSUME NEW m \in [Addr -> ByteValue], NEW k \in ChaState, NEW p \in Addr,
         NEW q \in Nat, NEW n \in 1 .. ChaBlock, NEW d \in Nat,
         d = q * ChaBlock, p + d + n <= Space
  PROVE  XorInto(Abstract!Streamed(m, p, d, k), p + d, Abstract!BlockAfter(k, q), n)
           = Abstract!Streamed(m, p, d + n, k)
<1> DEFINE before == Abstract!Streamed(m, p, d, k)
           after  == Abstract!Streamed(m, p, d + n, k)
           ks(j)  == KsByte(Abstract!BlockAfter(k, j \div ChaBlock), j % ChaBlock)
           out(j) == [a \in Addr |-> IF a \in p .. p + j - 1
                                     THEN Xor(m[a], ks(a - p)) ELSE m[a]]
<1>0. ChaBlock \in Nat /\ ChaBlock > 0 /\ Space \in Nat /\ p \in Nat
  BY Sizes DEF Addr
<1>1. before = out(d) /\ after = out(d + n)
  BY DEF Abstract!Streamed, Abstract!Addr, Abstract!Space, Abstract!Xor,
         Abstract!KsByte, Addr, Space, Xor, KsByte
<1>2. XorInto(before, p + d, Abstract!BlockAfter(k, q), n)
        = [a \in Addr |-> IF Offset(a, p + d) < n
             THEN Xor(before[a], KsByte(Abstract!BlockAfter(k, q), Offset(a, p + d)))
             ELSE before[a]]
  BY DEF XorInto
<1>3. ASSUME NEW a \in Addr
      PROVE  (IF Offset(a, p + d) < n
              THEN Xor(before[a], KsByte(Abstract!BlockAfter(k, q), Offset(a, p + d)))
              ELSE before[a])
               = after[a]
  <2>1. p + d \in Addr /\ n \in Nat /\ (p + d) + n <= Space /\ a \in Nat
    BY <1>0 DEF Addr
  <2>2. Offset(a, p + d) < n <=> a \in (p + d) .. (p + d) + n - 1
    BY <2>1, OffsetInside
  <2> HIDE DEF before, after, ks
  <2>3. CASE a \in (p + d) .. (p + d) + n - 1
    <3> DEFINE i == a - (p + d)
    <3>1. i \in 0 .. ChaBlock - 1 /\ Offset(a, p + d) = i
      BY <1>0, <2>1, <2>3 DEF Offset
    <3>2. a - p = q * ChaBlock + i
      BY <1>0, <2>1, Z3
    <3>3. (a - p) \div ChaBlock = q /\ (a - p) % ChaBlock = i
      BY <1>0, <3>1, <3>2, DivMod
    <3>4. ks(a - p) = KsByte(Abstract!BlockAfter(k, q), i)
      BY <3>3 DEF ks
    <3>5. a \notin p .. p + d - 1 /\ a \in p .. p + (d + n) - 1
      BY <1>0, <2>1, <2>3
    <3>6. before[a] = m[a] /\ after[a] = Xor(m[a], ks(a - p))
      BY <1>1, <3>5
    <3> QED BY <2>2, <2>3, <3>1, <3>4, <3>6
  <2>4. CASE a \notin (p + d) .. (p + d) + n - 1
    <3>1. a \in p .. p + d - 1 <=> a \in p .. p + (d + n) - 1
      BY <1>0, <2>1, <2>4
    <3>2. before[a] = after[a]
      BY <1>1, <3>1
    <3> QED BY <2>2, <2>4, <3>2
  <2> QED BY <2>3, <2>4
<1>4. after = [a \in Addr |-> after[a]]
  BY <1>1
<1> HIDE DEF before, after, ks
<1>5. XorInto(before, p + d, Abstract!BlockAfter(k, q), n) = after
  BY <1>2, <1>3, <1>4
<1> QED BY <1>5 DEF before, after

(* A byte outside the part already streamed is the original one.             *)
LEMMA StreamedOutside ==
  ASSUME NEW m, NEW p, NEW d, NEW k, NEW a \in Addr, a \notin p .. p + d - 1
  PROVE  Abstract!Streamed(m, p, d, k)[a] = m[a]
BY DEF Abstract!Streamed, Abstract!Addr, Abstract!Space, Addr, Space

LEMMA StreamedNothing ==
  ASSUME NEW m \in [Addr -> ByteValue], NEW p \in Addr, NEW k
  PROVE  Abstract!Streamed(m, p, 0, k) = m
<1>1. \A a \in Addr : a \notin p .. p + 0 - 1
  BY Sizes DEF Addr
<1> QED BY <1>1 DEF Abstract!Streamed, Abstract!Addr, Abstract!Space, Addr, Space

-----------------------------------------------------------------------------
(* Starting, continuing and leaving the stream.                              *)

LEMMA RemainRange ==
  ASSUME MemoryTypeOK
  PROVE  /\ Remain \in Nat /\ (Drained <=> Remain = 0)
         /\ Remain # 0 => XorCount \in 1 .. ChaBlock
         /\ XorCount = ChaBlock \/ XorCount = Remain
<1>1. cc20_remain \in Nat /\ cc20_remain_hi \in Nat /\ Radix \in Nat /\ Radix > 0
      /\ ChaBlock \in Nat /\ ChaBlock > 0
  BY Sizes DEF MemoryTypeOK, Byte
<1>2. Radix * cc20_remain_hi \in Nat
      /\ (cc20_remain_hi # 0 => Radix * cc20_remain_hi > 0)
      /\ (cc20_remain_hi = 0 => Radix * cc20_remain_hi = 0)
  BY <1>1, Z3
<1>3. Remain \in Nat /\ (Drained <=> Remain = 0)
  BY <1>1, <1>2 DEF Remain, Drained
<1>4. XorCount = ChaBlock \/ (cc20_remain_hi = 0 /\ XorCount = cc20_remain)
  BY DEF XorCount, HasBlock
<1>5. XorCount = ChaBlock \/ XorCount = Remain
  BY <1>1, <1>2, <1>4 DEF Remain
<1>6. XorCount \in 0 .. ChaBlock
  BY XorCountRange
<1> QED BY <1>1, <1>3, <1>5, <1>6

(* Pointer, count and entry record agree when the stream starts.             *)
LEMMA StreamStarts ==
  ASSUME NEW x \in CallRecord, call' = x,
         Remain' = x.len, cc20_data_ptr' = x.ptr,
         cc20_state' = x.state, mem' = x.mem
  PROVE  Positioned' /\ Done' = 0
<1>1. x.ptr \in Addr /\ x.len \in Addr /\ x.state \in ChaState
      /\ x.mem \in [Addr -> ByteValue]
  BY DEF CallRecord
<1>2. Done' = 0 /\ 0 \in 0 .. x.len
  BY <1>1, Sizes DEF Done, Addr
<1>3. x.ptr = (x.ptr + 0) % Space
  BY <1>1, Sizes, Z3 DEF Addr
<1>4. (0 + ChaBlock - 1) \div ChaBlock = 0
  <2>1. ChaBlock \in Nat /\ ChaBlock > 0 /\ ChaBlock - 1 \in 0 .. ChaBlock - 1
    BY Sizes
  <2>2. (0 * ChaBlock + (ChaBlock - 1)) \div ChaBlock = 0
    BY <2>1, DivMod
  <2>3. 0 * ChaBlock + (ChaBlock - 1) = 0 + ChaBlock - 1
    BY <2>1, Z3
  <2> QED BY <2>2, <2>3
<1>5. Abstract!BlockAfter(x.state, 0) = x.state
  BY <1>1, BlockAfterNext
<1>6. Abstract!Streamed(x.mem, x.ptr, 0, x.state) = x.mem
  BY <1>1, StreamedNothing
<1> QED BY <1>2, <1>3, <1>4, <1>5, <1>6 DEF Positioned

(* One turn of chacha20_encrypt's loop.                                      *)
LEMMA StreamAdvances ==
  ASSUME TypeOK, Positioned, pc = "stream", Aligned, StreamBlock,
         call.ptr + call.len <= Space
  PROVE  /\ Positioned'
         /\ Remain' # 0 => Done' % ChaBlock = 0
<1> DEFINE n == XorCount  d == Done  q == Done \div ChaBlock
<1>1. /\ call.ptr \in Addr /\ call.len \in Addr /\ call.state \in ChaState
      /\ call.mem \in [Addr -> ByteValue] /\ MemoryTypeOK
  BY DEF TypeOK, CallRecord
<1>2. /\ ChaBlock \in Nat /\ ChaBlock > 0 /\ Space \in Nat
      /\ call.ptr \in Nat /\ call.len \in Nat
  BY <1>1, Sizes DEF Addr
<1>3. ~Drained /\ call' = call
  BY DEF StreamBlock, EncryptBlock, ghostVars
<1>4. /\ Remain \in Nat /\ Remain # 0 /\ n \in 1 .. ChaBlock /\ n \in Byte
      /\ n <= Remain /\ (n = ChaBlock \/ n = Remain)
  BY <1>1, <1>3, RemainRange, XorCountRange
<1>5. d \in Nat /\ d = call.len - Remain /\ d + n <= call.len
  BY <1>2, <1>4 DEF Positioned, Done
<1>6. q \in Nat /\ d = q * ChaBlock
  <2>1. d % ChaBlock = 0
    BY <1>4 DEF Aligned
  <2>2. q \in Nat /\ d = q * ChaBlock + (d % ChaBlock)
    BY <1>2, <1>5, DivParts
  <2>3. q * ChaBlock \in Nat
    BY <1>2, <2>2, Z3
  <2> QED BY <2>1, <2>2, <2>3
<1> HIDE DEF n, d, q
<1>7. Remain' = Remain - n
  BY <1>1, <1>4, TakeType DEF StreamBlock, EncryptBlock, n
<1>8. Done' = d + n
  BY <1>2, <1>3, <1>4, <1>5, <1>7 DEF Done
<1>9. call.ptr + d \in Addr /\ (call.ptr + d) + n <= Space
  BY <1>2, <1>4, <1>5 DEF Addr
<1>10. cc20_data_ptr = call.ptr + d
  <2>1. (call.ptr + d) % Space = call.ptr + d
    BY <1>2, <1>9, Z3 DEF Addr
  <2> QED BY <2>1 DEF Positioned, d
<1>11. cc20_state = Abstract!BlockAfter(call.state, q)
  <2>1. d + ChaBlock - 1 = q * ChaBlock + (ChaBlock - 1)
    BY <1>2, <1>5, <1>6
  <2>2. (d + ChaBlock - 1) \div ChaBlock = q
    BY <1>2, <1>6, <2>1, DivMod
  <2> QED BY <2>2 DEF Positioned, d
<1>12. /\ cc20_keystream' = cc20_state /\ cc20_state' = NextBlock(cc20_state)
       /\ mem' = XorInto(mem, cc20_data_ptr, cc20_keystream', n)
       /\ cc20_data_ptr' = AddWord(cc20_data_ptr, n)
  BY DEF StreamBlock, EncryptBlock, RunBlock, n
<1>13. cc20_data_ptr' = (call.ptr + Done') % Space
  <2> DEFINE s == call.ptr + d
  <2>1. s \in Nat /\ s < Space /\ s + n <= Space /\ n \in Nat
    BY <1>2, <1>4, <1>9 DEF Addr
  <2>2. AddWord(s, n) = IF s + n = Space THEN 0 ELSE s + n
    BY <1>2, <2>1 DEF AddWord
  <2>3. (s + n) % Space = IF s + n = Space THEN 0 ELSE s + n
    BY <1>2, <2>1, Z3
  <2>4. s + n = call.ptr + (d + n)
    BY <1>2, <1>5, <2>1
  <2> QED BY <1>8, <1>10, <1>12, <2>2, <2>3, <2>4
<1>14. (Done' + ChaBlock - 1) \div ChaBlock = q + 1
  <2>1. (q + 1) * ChaBlock = q * ChaBlock + ChaBlock
    BY <1>2, <1>6, Z3
  <2>2. Done' + ChaBlock - 1 = (q + 1) * ChaBlock + (n - 1)
    BY <1>2, <1>4, <1>5, <1>6, <1>8, <2>1
  <2>3. n - 1 \in 0 .. ChaBlock - 1 /\ q + 1 \in Int
    BY <1>2, <1>4, <1>6
  <2>4. ((q + 1) * ChaBlock + (n - 1)) \div ChaBlock = q + 1
    BY <1>2, <2>3, DivMod
  <2> QED BY <2>2, <2>4
<1>15. cc20_state' = Abstract!BlockAfter(call.state, q + 1)
  BY <1>1, <1>6, <1>11, <1>12, BlockAfterNext
<1>16. mem' = Abstract!Streamed(call.mem, call.ptr, Done', call.state)
  <2>1. mem = Abstract!Streamed(call.mem, call.ptr, d, call.state)
    BY DEF Positioned, d
  <2>2. call.ptr + d + n <= Space
    BY <1>2, <1>4, <1>5
  <2>3. XorInto(Abstract!Streamed(call.mem, call.ptr, d, call.state), call.ptr + d,
                Abstract!BlockAfter(call.state, q), n)
          = Abstract!Streamed(call.mem, call.ptr, d + n, call.state)
    BY <1>1, <1>4, <1>5, <1>6, <2>2, StreamExtends
  <2> QED BY <1>8, <1>10, <1>11, <1>12, <2>1, <2>3
<1>17. Done' \in 0 .. call.len
  BY <1>2, <1>4, <1>5, <1>8
<1>18. Positioned'
  BY <1>3, <1>13, <1>14, <1>15, <1>16, <1>17 DEF Positioned
<1>19. ASSUME Remain' # 0 PROVE Done' % ChaBlock = 0
  <2>1. n = ChaBlock
    BY <1>4, <1>7, <1>19
  <2>2. Done' = (q + 1) * ChaBlock + 0
    <3>1. (q + 1) * ChaBlock = q * ChaBlock + ChaBlock
      BY <1>2, <1>6, Z3
    <3> QED BY <1>2, <1>5, <1>6, <1>8, <2>1, <3>1
  <2> QED BY <1>2, <1>6, <2>2, DivMod
<1> QED BY <1>18, <1>19

-----------------------------------------------------------------------------
LEMMA StreamInit == Init => StreamInv
BY DEF Init, StreamInv, EntryOK, DomainOK, Untouched, Verified, Aligned,
       StreamPosition, Confined, InAead, TagPhase

LEMMA StreamCaller == TypeOK /\ TypeOK' /\ StreamInv /\ CallerStep => StreamInv'
<1> SUFFICES ASSUME TypeOK, TypeOK', CallerStep PROVE StreamInv' OBVIOUS
<1>1. CASE pc' = "caller"
  BY <1>1 DEF StreamInv, EntryOK, DomainOK, Untouched, Verified, Aligned,
              StreamPosition, Confined, InAead, TagPhase
<1>2. ASSUME NEW o \in {"encrypt", "decrypt"}, NEW req \in AeadRequests,
             CallAead(o, req)
      PROVE  StreamInv'
  <2>1. /\ pc' = "guard" /\ op' = o /\ mem' = mem /\ aead_in' = req
        /\ call'.mem = mem /\ call'.ptr = req.data_ptr /\ call'.len = req.data_len
        /\ call'.state = [key |-> req.key, nonce |-> req.nonce, ctr |-> 1]
    BY <1>2 DEF CallAead, Enter
  <2> QED BY <2>1 DEF StreamInv, EntryOK, DomainOK, Untouched, Verified, Aligned,
                      StreamPosition, Confined, TagPhase
<1>3. ASSUME NEW x \in Extents, CallChaChaEncrypt(x)
      PROVE  StreamInv'
  <2>1. /\ pc' = "stream" /\ op' = "stream" /\ mem' = mem
        /\ call'.mem = mem /\ call'.ptr = x.ptr /\ call'.len = x.len
        /\ call'.state = cc20_state /\ cc20_state' = cc20_state
        /\ cc20_data_ptr' = x.ptr /\ LoadRemain(x.len)
    BY <1>3 DEF CallChaChaEncrypt, Enter
  <2>2. x.len \in Addr /\ x.ptr + x.len <= Space
    BY CallerAssumption
  <2>3. Remain' = x.len
    BY <2>1, <2>2, LoadRemainType DEF Remain
  <2>4. call' \in CallRecord
    BY DEF TypeOK
  <2>5. Positioned' /\ Done' = 0
    BY <2>1, <2>3, <2>4, StreamStarts
  <2>6. Aligned'
    <3>1. 0 % ChaBlock = 0
      <4>1. (0 * ChaBlock + 0) % ChaBlock = 0
        BY Sizes, DivMod
      <4> QED BY <4>1, Sizes, Z3
    <3> QED BY <2>5, <3>1 DEF Aligned
  <2>7. StreamPosition'
    BY <2>5, StreamPositionParts
  <2> QED BY <2>1, <2>2, <2>6, <2>7
          DEF StreamInv, EntryOK, DomainOK, Untouched, Verified, Confined, InAead,
              TagPhase
<1>4. ASSUME NEW x \in Extents, CallPolyUpdate(x)
      PROVE  StreamInv'
  <2>1. /\ pc' = "update" /\ op' = "update" /\ mem' = mem
        /\ call'.mem = mem /\ call'.ptr = x.ptr /\ call'.len = x.len
    BY <1>4 DEF CallPolyUpdate, Enter
  <2>2. x.ptr + x.len <= Space
    BY CallerAssumption
  <2> QED BY <2>1, <2>2
          DEF StreamInv, EntryOK, DomainOK, Untouched, Verified, Aligned,
              StreamPosition, Confined, InAead, TagPhase
<1> QED BY <1>1, <1>2, <1>3, <1>4
        DEF CallerStep, CallerTurn, StoreByte, StoreTag, ReclaimTable,
            CallChaChaInit, CallChaChaBlock, CallLibInit, CallPolyInit,
            CallPolyBlock, CallPolyFinal

LEMMA StreamLib ==
  TypeOK /\ TypeOK' /\ KeyInv /\ StreamInv /\ LibStep => StreamInv'
<1> SUFFICES ASSUME TypeOK, TypeOK', KeyInv, StreamInv, LibStep PROVE StreamInv'
  OBVIOUS
<1> USE DEF StreamInv, KeyInv, vars, remainVars, streamVars, tableVars, blockVars,
            macVars, apiVars, ghostVars, Return
<1>1. /\ op' = op /\ call' = call /\ aead_in' = aead_in
      /\ pc # "caller" /\ pc' # "guard"
  BY DEF LibStep, GuardReject, GuardAccept, DeriveOtk, LoadStream, StreamBlock,
         StreamDone, LoadAad, LoadCiphertext, PaddedFull, PaddedPartial,
         PaddedDone, AfterPadded, FinishTag, PublishTag, VerifyTag, UpdateFull,
         UpdatePartial, UpdateDone
<1>2. EntryOK'
  BY <1>1 DEF EntryOK, InAead
<1>3. DomainOK'
  <2>1. CASE GuardAccept
    <3>1. /\ pc = "guard" /\ op \in {"encrypt", "decrypt"}
          /\ GuardAccepts(aead_in.data_ptr, aead_in.data_len)
      BY <2>1 DEF GuardAccept, InDomain, ControlOK
    <3>2. aead_in.data_ptr \in Addr /\ aead_in.data_len \in Addr
      BY InputTypes DEF TypeOK
    <3>3. aead_in.data_ptr + aead_in.data_len <= Space
      BY <3>1, <3>2, GuardExact
    <3> QED BY <1>1, <3>1, <3>3 DEF DomainOK, EntryOK, InAead
  <2>2. CASE ~GuardAccept
    BY <1>1, <2>2 DEF DomainOK, LibStep, GuardReject, DeriveOtk, LoadStream,
         StreamBlock, StreamDone, LoadAad, LoadCiphertext, PaddedFull,
         PaddedPartial, PaddedDone, FinishTag, PublishTag, VerifyTag,
         UpdateFull, UpdatePartial, UpdateDone
  <2> QED BY <2>1, <2>2
<1>4. CASE StreamBlock
  <2>1. pc = "stream" /\ pc' = "stream" /\ op \in {"encrypt", "decrypt", "stream"}
        /\ poly1305_tag' = poly1305_tag /\ aead_tag' = aead_tag
    BY <1>4 DEF StreamBlock, ControlOK
  <2>2. Positioned /\ call.ptr + call.len <= Space
    BY <2>1, StreamPositionParts DEF DomainOK
  <2>3. Positioned' /\ (Remain' # 0 => Done' % ChaBlock = 0)
    BY <1>4, <2>1, <2>2, StreamAdvances
  <2>4. StreamPosition' /\ Aligned'
    BY <2>3, StreamPositionParts DEF Aligned
  <2>5. Untouched' /\ Verified'
    BY <1>1, <2>1 DEF Untouched, Verified, TagPhase
  <2>6. ASSUME NEW a \in Addr, mem'[a] # call'.mem[a]
        PROVE  a \in call'.ptr .. call'.ptr + call'.len - 1
    <3>1. a \in call'.ptr .. call'.ptr + Done' - 1
      BY <2>3, <2>6, StreamedOutside DEF Positioned
    <3>2. Done' \in 0 .. call'.len /\ call'.ptr \in Nat /\ call'.len \in Nat
      BY <2>3, Sizes DEF Positioned, TypeOK, CallRecord, Addr
    <3> QED BY <3>1, <3>2
  <2>7. Confined'
    BY <1>1, <2>1, <2>5, <2>6 DEF Confined, Verified
  <2> QED BY <1>2, <1>3, <2>4, <2>5, <2>7
<1>5. CASE LoadStream
  <2>1. /\ pc = "load" /\ pc' = "stream" /\ op \in {"encrypt", "decrypt"}
        /\ mem' = mem /\ poly1305_tag' = poly1305_tag /\ aead_tag' = aead_tag
        /\ cc20_state' = cc20_state /\ cc20_data_ptr' = aead_in.data_ptr
        /\ LoadRemain(aead_in.data_len)
    BY <1>5 DEF LoadStream, ControlOK
  <2>2. /\ mem = call.mem /\ aead_in.data_ptr = call.ptr
        /\ aead_in.data_len = call.len /\ cc20_state = call.state
    BY <2>1 DEF Untouched, EntryOK, InAead, Primed
  <2>3. call \in CallRecord /\ call.len \in Addr
    BY DEF TypeOK, CallRecord
  <2>4. Remain' = call.len
    BY <2>1, <2>2, <2>3, LoadRemainType DEF Remain
  <2>5. Positioned' /\ Done' = 0
    BY <1>1, <2>1, <2>2, <2>3, <2>4, StreamStarts
  <2>6. 0 % ChaBlock = 0
    <3>1. (0 * ChaBlock + 0) % ChaBlock = 0
      BY Sizes, DivMod
    <3> QED BY <3>1, Sizes, Z3
  <2>7. StreamPosition' /\ Aligned'
    BY <2>5, <2>6, StreamPositionParts DEF Aligned
  <2>8. Untouched' /\ Verified' /\ Confined'
    BY <1>1, <2>1, <2>2 DEF Untouched, Verified, Confined, TagPhase
  <2> QED BY <1>2, <1>3, <2>7, <2>8
<1>6. CASE ~StreamBlock /\ ~LoadStream
  <2>1. mem' = mem /\ pc' # "stream"
    BY <1>6 DEF LibStep, GuardReject, GuardAccept, DeriveOtk, StreamDone, LoadAad,
         LoadCiphertext, PaddedFull, PaddedPartial, PaddedDone, AfterPadded,
         FinishTag, PublishTag, VerifyTag, UpdateFull, UpdatePartial, UpdateDone
  <2>2. StreamPosition' /\ Aligned'
    BY <2>1 DEF StreamPosition, Aligned
  <2>3. Untouched'
    BY <1>1, <1>6, <2>1 DEF ControlOK, Untouched, TagPhase, LibStep, GuardReject,
         GuardAccept, DeriveOtk, StreamDone, LoadAad, LoadCiphertext, PaddedFull,
         PaddedPartial, PaddedDone, AfterPadded, FinishTag, PublishTag,
         VerifyTag, UpdateFull, UpdatePartial, UpdateDone
  <2>4. Verified'
    BY <1>1, <1>6, <2>1 DEF ControlOK, Verified, TagPhase, LibStep, GuardReject,
         GuardAccept, DeriveOtk, StreamDone, LoadAad, LoadCiphertext, PaddedFull,
         PaddedPartial, PaddedDone, AfterPadded, FinishTag, PublishTag,
         VerifyTag, UpdateFull, UpdatePartial, UpdateDone
  <2>5. ASSUME op = "decrypt", mem # call.mem, pc' # "caller"
        PROVE  poly1305_tag' = poly1305_tag /\ aead_tag' = aead_tag
    BY <1>6, <2>5 DEF ControlOK, Untouched, TagPhase, LibStep, GuardReject,
         GuardAccept, DeriveOtk, StreamDone, LoadAad, LoadCiphertext, PaddedFull,
         PaddedPartial, PaddedDone, AfterPadded, FinishTag, PublishTag,
         VerifyTag, UpdateFull, UpdatePartial, UpdateDone
  <2>6. Confined'
    BY <1>1, <2>1, <2>5 DEF Confined
  <2> QED BY <1>2, <1>3, <2>2, <2>3, <2>4, <2>6
<1> QED BY <1>4, <1>5, <1>6

LEMMA StreamStutter == StreamInv /\ UNCHANGED vars => StreamInv'
BY DEF StreamInv, EntryOK, DomainOK, Untouched, Verified, Aligned, StreamPosition,
       Confined, InAead, Done, Remain, vars, remainVars, streamVars, keyVars,
       tableVars, blockVars, macVars, apiVars, ghostVars

LEMMA StreamInvariant == Spec => []StreamInv
<1>1. Init => StreamInv
  BY StreamInit
<1>2. TypeOK /\ TypeOK' /\ KeyInv /\ StreamInv /\ [Next]_vars => StreamInv'
  BY StreamCaller, StreamLib, StreamStutter DEF Next
<1> QED BY <1>1, <1>2, TypeCorrect, KeyInvariant, PTL DEF Spec

(* In every execution, for every radix, block size, buffer and counter,      *)
(* chacha20_encrypt has XORed each byte behind its pointer with its own      *)
(* keystream byte, once, and left the rest alone.                           *)
THEOREM StreamCorrect == Spec => []StreamPosition
<1>1. StreamInv => StreamPosition
  BY DEF StreamInv
<1> QED BY <1>1, StreamInvariant, PTL

(* In every execution a running call has changed nothing outside its buffer,  *)
(* and aead_decrypt nothing at all before the tag compared equal.            *)
THEOREM AlwaysConfined == Spec => []Confined
<1>1. StreamInv => Confined
  BY DEF StreamInv
<1> QED BY <1>1, StreamInvariant, PTL

-----------------------------------------------------------------------------
(* How many Poly1305 blocks n bytes take.                                   *)
BlocksOf(n) == (n + PolyBlock - 1) \div PolyBlock

(* Block b of the len bytes at p, zero-padded.                              *)
PadBlock(m, p, len, b) ==
  [i \in 0 .. PolyBlock - 1 |->
     LET j == (b - 1) * PolyBlock + i IN IF j < len THEN m[p + j] ELSE Zero]

(* Blocks of the text that a tag is over: associated data in ma, data in mc.  *)
AadBlocks(req)  == BlocksOf(req.aad_len)
DataBlocks(req) == BlocksOf(req.data_len)
TextLen(req)    == AadBlocks(req) + DataBlocks(req) + 1

TextBlock(req, ma, mc, b) ==
  IF b <= AadBlocks(req) THEN PadBlock(ma, req.aad_ptr, req.aad_len, b)
  ELSE IF b <= AadBlocks(req) + DataBlocks(req)
  THEN PadBlock(mc, req.data_ptr, req.data_len, b - AadBlocks(req))
  ELSE LengthsBlock(req.aad_len, req.data_len)

OtkOf(req) == [key |-> req.key, nonce |-> req.nonce, ctr |-> 0]

(* The first n blocks of that text as Poly1305 absorbs them.                 *)
TextTerms(req, ma, mc, n) ==
  [b \in 1 .. n |-> [bytes |-> TextBlock(req, ma, mc, b), hibit |-> 1,
                     r |-> Clamp(Half(OtkOf(req), 0))]]

(* The tag that RFC 8439 gives, block by block.                              *)
TagOf(req, ma, mc) ==
  [s |-> Half(OtkOf(req), 1),
   h |-> [clean |-> TRUE, blocks |-> TextTerms(req, ma, mc, TextLen(req))]]

LEMMA BlocksOfNat ==
  ASSUME NEW n \in Nat
  PROVE  /\ BlocksOf(n) \in Nat
         /\ \A k \in Nat : n = k * PolyBlock => BlocksOf(n) = k
         /\ \A k \in Nat, i \in 1 .. PolyBlock - 1 :
              n = k * PolyBlock + i => BlocksOf(n) = k + 1
<1>1. PolyBlock \in Nat /\ PolyBlock > 1
  BY Sizes
<1>2. n + PolyBlock - 1 \in Nat
  BY <1>1
<1>3. BlocksOf(n) \in Nat
  BY <1>1, <1>2, DivParts DEF BlocksOf
<1>4. ASSUME NEW k \in Nat, n = k * PolyBlock PROVE BlocksOf(n) = k
  <2>1. n + PolyBlock - 1 = k * PolyBlock + (PolyBlock - 1)
    BY <1>1, <1>4
  <2>2. (k * PolyBlock + (PolyBlock - 1)) \div PolyBlock = k
    BY <1>1, DivMod
  <2> QED BY <2>1, <2>2 DEF BlocksOf
<1>5. ASSUME NEW k \in Nat, NEW i \in 1 .. PolyBlock - 1, n = k * PolyBlock + i
      PROVE  BlocksOf(n) = k + 1
  <2>1. (k + 1) * PolyBlock = k * PolyBlock + PolyBlock
    BY <1>1, Z3
  <2>2. n + PolyBlock - 1 = (k + 1) * PolyBlock + (i - 1)
    BY <1>1, <1>5, <2>1, Z3
  <2>3. ((k + 1) * PolyBlock + (i - 1)) \div PolyBlock = k + 1
    BY <1>1, DivMod
  <2> QED BY <2>2, <2>3 DEF BlocksOf
<1> QED BY <1>3, <1>4, <1>5

LEMMA AddrNat == \A a \in Addr : a \in Nat
BY Sizes DEF Addr

LEMMA TextSizes ==
  ASSUME NEW req \in AeadInput
  PROVE  AadBlocks(req) \in Nat /\ DataBlocks(req) \in Nat /\ TextLen(req) \in Nat
<1>1. req.aad_len \in Nat /\ req.data_len \in Nat
  BY Sizes DEF AeadInput, Addr, Byte
<1> QED BY <1>1, BlocksOfNat DEF AadBlocks, DataBlocks, TextLen

(* The lengths block written byte by byte is the RFC's.                      *)
LEMMA LengthsExact ==
  ASSUME NEW a \in Byte, NEW d \in Addr
  PROVE  Abstract!Lengths(a, d) = LengthsBlock(a, d)
<1>1. /\ Radix \in Nat /\ Radix > 0 /\ PolyBlock \in Nat /\ PolyBlock >= 4
      /\ a \in 0 .. Radix - 1
  BY Sizes DEF Byte
<1> DEFINE half == PolyBlock \div 2
<1>2. half \in Nat /\ half >= 2 /\ half + 1 <= PolyBlock - 1
  BY <1>1, Z3
<1>3. a % Radix = a /\ a \div Radix = 0
  BY <1>1, ModSmall
<1> HIDE DEF half
<1>4. \A i \in 0 .. PolyBlock - 1 :
        Abstract!Lengths(a, d)[i] = LengthsBlock(a, d)[i]
  <2> TAKE i \in 0 .. PolyBlock - 1
  <2>0. \A v : Abstract!Literal(v) = Literal(v)
    BY DEF Abstract!Literal, Abstract!Zero, Literal, Zero
  <2>1. Abstract!Lengths(a, d)[i]
          = IF i < half THEN Literal(Abstract!Digit(a, i))
            ELSE Literal(Abstract!Digit(d, i - half))
    BY <2>0 DEF Abstract!Lengths, half
  <2>2. Abstract!Digit(a, i) = IF i = 0 THEN a ELSE 0
    BY <1>3 DEF Abstract!Digit
  <2>3. Abstract!Digit(d, i - half)
          = IF i = half THEN Lo(d) ELSE IF i = half + 1 THEN Hi(d) ELSE 0
    BY <1>2 DEF Abstract!Digit, Lo, Hi
  <2>4. LengthsBlock(a, d)[i]
          = IF i = half + 1 THEN Literal(Hi(d)) ELSE IF i = half THEN Literal(Lo(d))
            ELSE IF i = 0 THEN Literal(a) ELSE Zero
    BY <1>1, <1>2 DEF LengthsBlock, ZeroBlock, half
  <2>5. Literal(0) = Zero
    BY DEF Literal
  <2> QED BY <1>2, <2>1, <2>2, <2>3, <2>4, <2>5
<1>5. /\ Abstract!Lengths(a, d) = [i \in 0 .. PolyBlock - 1 |-> Abstract!Lengths(a, d)[i]]
      /\ LengthsBlock(a, d) = [i \in 0 .. PolyBlock - 1 |-> LengthsBlock(a, d)[i]]
  BY DEF Abstract!Lengths, LengthsBlock, ZeroBlock
<1> QED BY <1>4, <1>5

LEMMA PadBlockType ==
  ASSUME NEW m \in [Addr -> ByteValue], NEW p \in Addr, NEW len \in Addr,
         p + len <= Space, NEW b \in Nat \ {0}
  PROVE  PadBlock(m, p, len, b) \in BlockBytes
<1> SUFFICES ASSUME NEW i \in 0 .. PolyBlock - 1
             PROVE  (LET j == (b - 1) * PolyBlock + i
                     IN  IF j < len THEN m[p + j] ELSE Zero) \in ByteValue
  BY DEF PadBlock, BlockBytes
<1> DEFINE j == (b - 1) * PolyBlock + i
<1>1. PolyBlock \in Nat /\ b - 1 \in Nat /\ Space \in Nat
  BY Sizes
<1>2. j \in Nat
  BY <1>1, Z3
<1>3. Zero \in ByteValue
  BY DEF Zero, ByteValue
<1> HIDE DEF j
<1>4. j < len => p + j \in Addr
  BY <1>1, <1>2 DEF Addr
<1> QED BY <1>3, <1>4 DEF j

(* The abstract specification's tag, block by block.                         *)
LEMMA RfcTagIs ==
  ASSUME NEW req \in AeadInput, NEW ma \in [Addr -> ByteValue],
         NEW mc \in [Addr -> ByteValue], Abstract!Fits(req)
  PROVE  Abstract!RfcTag(req, ma, mc) = TagOf(req, ma, mc)
<1> DEFINE na == AadBlocks(req)  nd == DataBlocks(req)
           pa == Abstract!Padded(ma, req.aad_ptr, req.aad_len)
           pd == Abstract!Padded(mc, req.data_ptr, req.data_len)
           ls == <<Abstract!Lengths(req.aad_len, req.data_len)>>
           front == pa \o pd
           text == front \o ls
<1>1. /\ req.aad_ptr \in Addr /\ req.aad_len \in Addr /\ req.aad_len \in Byte
      /\ req.data_ptr \in Addr /\ req.data_len \in Addr
      /\ req.aad_ptr + req.aad_len <= Space /\ req.data_ptr + req.data_len <= Space
  BY InputTypes DEF Abstract!Fits, Abstract!Space, Space
<1>2. na \in Nat /\ nd \in Nat
  BY TextSizes
<1>3. pa = [b \in 1 .. na |-> PadBlock(ma, req.aad_ptr, req.aad_len, b)]
  BY DEF Abstract!Padded, Abstract!Zero, Zero, AadBlocks, BlocksOf, PadBlock
<1>4. pd = [b \in 1 .. nd |-> PadBlock(mc, req.data_ptr, req.data_len, b)]
  BY DEF Abstract!Padded, Abstract!Zero, Zero, DataBlocks, BlocksOf, PadBlock
<1>5. ls = <<LengthsBlock(req.aad_len, req.data_len)>>
  BY <1>1, LengthsExact
<1>6. LengthsBlock(req.aad_len, req.data_len) \in BlockBytes
  BY <1>1, LengthsBlockType
<1>7. /\ \A b \in 1 .. na : PadBlock(ma, req.aad_ptr, req.aad_len, b) \in BlockBytes
      /\ \A b \in 1 .. nd : PadBlock(mc, req.data_ptr, req.data_len, b) \in BlockBytes
  BY <1>1, <1>2, PadBlockType
<1>8. Abstract!RfcTag(req, ma, mc)
        = [s |-> Half(OtkOf(req), 1),
           h |-> [clean |-> TRUE,
                  blocks |-> [b \in DOMAIN text |->
                                [bytes |-> text[b], hibit |-> 1,
                                 r |-> Clamp(Half(OtkOf(req), 0))]]]]
  BY DEF Abstract!RfcTag, Abstract!Half, Abstract!Clamp, Half, Clamp, OtkOf
<1> HIDE DEF na, nd, pa, pd, ls
<1>9. pa \in Seq(BlockBytes) /\ Len(pa) = na
  BY <1>2, <1>3, <1>7
<1>10. pd \in Seq(BlockBytes) /\ Len(pd) = nd
  BY <1>2, <1>4, <1>7
<1>11. ls \in Seq(BlockBytes) /\ Len(ls) = 1
       /\ ls[1] = LengthsBlock(req.aad_len, req.data_len)
  BY <1>5, <1>6
<1>12. /\ front \in Seq(BlockBytes) /\ Len(front) = na + nd
       /\ \A b \in 1 .. na + nd : front[b] = IF b <= na THEN pa[b] ELSE pd[b - na]
  BY <1>9, <1>10, ConcatProperties
<1> HIDE DEF front
<1>13. /\ text \in Seq(BlockBytes) /\ Len(text) = na + nd + 1
       /\ \A b \in 1 .. na + nd + 1 :
            text[b] = IF b <= na + nd THEN front[b] ELSE ls[b - (na + nd)]
  <2> HIDE DEF text
  <2>1. /\ text \in Seq(BlockBytes) /\ Len(text) = Len(front) + Len(ls)
        /\ \A b \in 1 .. Len(front) + Len(ls) :
             text[b] = IF b <= Len(front) THEN front[b] ELSE ls[b - Len(front)]
    BY <1>11, <1>12, ConcatProperties DEF text
  <2> QED BY <1>2, <1>11, <1>12, <2>1
<1>14. DOMAIN text = 1 .. TextLen(req)
  <2>1. DOMAIN text = 1 .. Len(text)
    BY <1>13, LenProperties
  <2> QED BY <1>13, <2>1 DEF TextLen, na, nd
<1> HIDE DEF text
<1>15. ASSUME NEW b \in 1 .. TextLen(req)
       PROVE  text[b] = TextBlock(req, ma, mc, b)
  <2>1. b \in 1 .. na + nd + 1 /\ b \in Nat
    BY <1>2 DEF TextLen, na, nd
  <2>2. CASE b <= na
    <3>1. b \in 1 .. na /\ b \in 1 .. na + nd
      BY <1>2, <2>1, <2>2
    <3> QED BY <1>2, <1>3, <1>12, <1>13, <2>1, <3>1 DEF TextBlock, na
  <2>3. CASE b > na /\ b <= na + nd
    <3>1. b - na \in 1 .. nd /\ b \in 1 .. na + nd /\ ~(b <= na)
      BY <1>2, <2>1, <2>3
    <3>2. text[b] = pd[b - na]
      BY <1>12, <1>13, <2>1, <2>3, <3>1
    <3>3. pd[b - na] = PadBlock(mc, req.data_ptr, req.data_len, b - na)
      BY <1>4, <3>1
    <3> QED BY <2>3, <3>1, <3>2, <3>3 DEF TextBlock, na, nd
  <2>4. CASE b > na + nd
    <3>1. b - (na + nd) = 1 /\ ~(b <= na + nd) /\ ~(b <= na)
      BY <1>2, <2>1, <2>4
    <3> QED BY <1>11, <1>13, <2>1, <3>1 DEF TextBlock, na, nd
  <2> QED BY <1>2, <2>1, <2>2, <2>3, <2>4
<1> QED BY <1>8, <1>14, <1>15 DEF TagOf, TextTerms

-----------------------------------------------------------------------------
(* The walkers.  One that was given len bytes at ptr and has handed over n    *)
(* whole blocks stands here.                                                *)
Walking(ptr, len, n) ==
  /\ n \in Nat /\ n * PolyBlock + Remain = len
  /\ Remain # 0 => zp_ptr1 = ptr + n * PolyBlock

(* A walker that has just been given its pointer and its count.              *)
LEMMA WalkStarts ==
  ASSUME NEW len \in Addr, LoadRemain(len)
  PROVE  0 * PolyBlock + Remain' = len
<1>1. Remain' = len
  BY LoadRemainType DEF Remain
<1>2. 0 * PolyBlock = 0 /\ len \in Nat
  BY Sizes, Z3 DEF Addr
<1> QED BY <1>1, <1>2

(* Block n + 1 of the buffer is where the pointer stands.                     *)
LEMMA WalkBlock ==
  ASSUME TypeOK, NEW ptr \in Addr, NEW len \in Addr, ptr + len <= Space,
         NEW n \in Nat, Walking(ptr, len, n), Remain # 0
  PROVE  /\ n * PolyBlock \in Nat /\ Remain \in Nat
         /\ zp_ptr1 = ptr + n * PolyBlock /\ zp_ptr1 \in Addr
         /\ \A i \in 0 .. PolyBlock - 1 :
              /\ (n * PolyBlock + i < len <=> i < Remain)
              /\ i < Remain => mem[AddWord(zp_ptr1, i)] = mem[ptr + (n * PolyBlock + i)]
         /\ \A i \in 0 .. PolyBlock - 1 :
              PadBlock(mem, ptr, len, n + 1)[i]
                = IF i < Remain THEN mem[AddWord(zp_ptr1, i)] ELSE Zero
<1>1. /\ Radix \in Nat /\ PolyBlock \in Nat /\ Space \in Nat /\ PolyBlock < Radix
      /\ ptr \in Nat /\ len \in Nat
  BY Sizes DEF Addr
<1>2. n * PolyBlock \in Nat
  BY <1>1, Z3
<1>3. Remain \in Nat
  BY RemainRange DEF TypeOK
<1>4. zp_ptr1 = ptr + n * PolyBlock /\ n * PolyBlock + Remain = len
  BY DEF Walking
<1>5. zp_ptr1 \in Addr
  BY <1>1, <1>2, <1>3, <1>4 DEF Addr
<1>6. ASSUME NEW i \in 0 .. PolyBlock - 1
      PROVE  /\ n * PolyBlock + i < len <=> i < Remain
             /\ i < Remain => AddWord(zp_ptr1, i) = ptr + (n * PolyBlock + i)
  <2>1. i \in Nat /\ i < Radix
    BY <1>1
  <2>2. n * PolyBlock + i < len <=> i < Remain
    BY <1>2, <1>3, <1>4, <2>1
  <2>3. ASSUME i < Remain PROVE zp_ptr1 + i < Space
    BY <1>1, <1>2, <1>3, <1>4, <2>1, <2>3
  <2> QED BY <1>1, <1>2, <1>4, <2>1, <2>2, <2>3 DEF AddWord
<1>7. ASSUME NEW i \in 0 .. PolyBlock - 1
      PROVE  PadBlock(mem, ptr, len, n + 1)[i]
               = IF i < Remain THEN mem[AddWord(zp_ptr1, i)] ELSE Zero
  <2>1. (n + 1) - 1 = n
    OBVIOUS
  <2>2. PadBlock(mem, ptr, len, n + 1)[i]
          = IF n * PolyBlock + i < len THEN mem[ptr + (n * PolyBlock + i)] ELSE Zero
    BY <2>1 DEF PadBlock
  <2> QED BY <1>6, <2>2
<1> QED BY <1>2, <1>3, <1>4, <1>5, <1>6, <1>7

(* A turn of a walker's loop on a whole block.                               *)
LEMMA WalkFull ==
  ASSUME TypeOK, NEW ptr \in Addr, NEW len \in Addr, ptr + len <= Space,
         NEW n \in Nat, Walking(ptr, len, n), Remain >= PolyBlock,
         zp_ptr1' = AddWord(zp_ptr1, PolyBlock), Remain' = Remain - PolyBlock
  PROVE  /\ BytesAt(mem, zp_ptr1) = PadBlock(mem, ptr, len, n + 1)
         /\ (n + 1) * PolyBlock + Remain' = len
         /\ Remain' # 0 => zp_ptr1' = ptr + (n + 1) * PolyBlock
<1>1. /\ Radix \in Nat /\ PolyBlock \in Nat /\ Space \in Nat /\ PolyBlock < Radix
      /\ ptr \in Nat /\ len \in Nat /\ PolyBlock > 0
  BY Sizes DEF Addr
<1>2. Remain \in Nat
  BY RemainRange DEF TypeOK
<1>3. Remain # 0
  BY <1>1, <1>2
<1>4. /\ n * PolyBlock \in Nat
      /\ zp_ptr1 = ptr + n * PolyBlock /\ zp_ptr1 \in Addr
      /\ \A i \in 0 .. PolyBlock - 1 :
           PadBlock(mem, ptr, len, n + 1)[i]
             = IF i < Remain THEN mem[AddWord(zp_ptr1, i)] ELSE Zero
  BY <1>3, WalkBlock
<1>5. (n + 1) * PolyBlock = n * PolyBlock + PolyBlock
  BY <1>1, Z3
<1>6. \A i \in 0 .. PolyBlock - 1 :
        PadBlock(mem, ptr, len, n + 1)[i] = BytesAt(mem, zp_ptr1)[i]
  BY <1>1, <1>2, <1>4 DEF BytesAt
<1>7. BytesAt(mem, zp_ptr1) = PadBlock(mem, ptr, len, n + 1)
  BY <1>6 DEF BytesAt, PadBlock
<1>8. n * PolyBlock + Remain = len
  BY DEF Walking
<1>9. (n + 1) * PolyBlock + Remain' = len
  BY <1>1, <1>2, <1>4, <1>5, <1>8
<1>10. ASSUME Remain' # 0 PROVE zp_ptr1' = ptr + (n + 1) * PolyBlock
  <2>1. zp_ptr1 + PolyBlock < Space
    BY <1>1, <1>2, <1>4, <1>8, <1>10
  <2> QED BY <1>1, <1>4, <1>5, <2>1 DEF AddWord
<1> QED BY <1>7, <1>9, <1>10

(* The rest of the buffer, zero-filled, is its last block.                    *)
LEMMA WalkPartial ==
  ASSUME TypeOK, NEW ptr \in Addr, NEW len \in Addr, ptr + len <= Space,
         NEW n \in Nat, Walking(ptr, len, n), Remain \in 1 .. PolyBlock - 1
  PROVE  /\ PadBytes(mem, zp_ptr1, Remain) = PadBlock(mem, ptr, len, n + 1)
         /\ BlocksOf(len) = n + 1
<1>1. PolyBlock \in Nat /\ len \in Nat /\ Remain # 0
  BY Sizes DEF Addr
<1>2. \A i \in 0 .. PolyBlock - 1 :
        PadBlock(mem, ptr, len, n + 1)[i] = PadBytes(mem, zp_ptr1, Remain)[i]
  BY <1>1, WalkBlock DEF PadBytes
<1>3. PadBytes(mem, zp_ptr1, Remain) = PadBlock(mem, ptr, len, n + 1)
  BY <1>2 DEF PadBytes, PadBlock
<1>4. len = n * PolyBlock + Remain
  BY DEF Walking
<1> QED BY <1>1, <1>3, <1>4, BlocksOfNat

LEMMA WalkDone ==
  ASSUME NEW len \in Addr, NEW n \in Nat, NEW ptr, Walking(ptr, len, n), Remain = 0
  PROVE  BlocksOf(len) = n
<1>1. PolyBlock \in Nat /\ len \in Nat
  BY Sizes DEF Addr
<1>2. len = n * PolyBlock
  <2>1. n * PolyBlock \in Nat
    BY <1>1, Z3
  <2> QED BY <2>1 DEF Walking
<1> QED BY <1>1, <1>2, BlocksOfNat

(* While bytes remain, the next block is one of the buffer's.                 *)
LEMMA WalkInside ==
  ASSUME TypeOK, NEW len \in Addr, NEW n \in Nat, NEW ptr, Walking(ptr, len, n),
         Remain # 0
  PROVE  n + 1 <= BlocksOf(len)
<1>1. PolyBlock \in Nat /\ PolyBlock > 1 /\ len \in Nat
  BY Sizes DEF Addr
<1>2. Remain \in Nat
  BY RemainRange DEF TypeOK
<1>3. n * PolyBlock \in Nat /\ (n + 1) * PolyBlock = n * PolyBlock + PolyBlock
  BY <1>1, Z3
<1>4. len + PolyBlock - 1 = (n + 1) * PolyBlock + (Remain - 1)
  BY <1>1, <1>2, <1>3 DEF Walking
<1> DEFINE x == len + PolyBlock - 1  q == x \div PolyBlock  r == x % PolyBlock
<1>5. x \in Nat /\ x >= (n + 1) * PolyBlock
  BY <1>1, <1>2, <1>3, <1>4
<1>6. q \in Nat /\ r \in 0 .. PolyBlock - 1 /\ x = q * PolyBlock + r
  BY <1>1, <1>5, DivParts
<1> HIDE DEF x, q, r
<1>7. ASSUME q <= n PROVE FALSE
  <2>1. q * PolyBlock <= n * PolyBlock
    BY <1>1, <1>6, <1>7, Z3
  <2>2. q * PolyBlock \in Nat
    BY <1>1, <1>6, Z3
  <2> QED BY <1>1, <1>3, <1>5, <1>6, <2>1, <2>2
<1> QED BY <1>6, <1>7 DEF BlocksOf, x, q

-----------------------------------------------------------------------------
(* What the accumulator has absorbed of the text, and where that leaves the   *)
(* walkers and the tag.                                                     *)
TextSoFar(n) ==
  n \in Nat /\ poly_h.blocks = TextTerms(aead_in, mem, mem, n)

(* The associated data's n-th block follows n - 1 others.                     *)
InAad == Len(poly_h.blocks)
InData == Len(poly_h.blocks) - AadBlocks(aead_in)

Absorbing ==
  /\ pc = "aad" \/ (op = "encrypt" /\ pc \in {"load", "stream"})
       => poly_h.blocks = << >>
  /\ pc = "pad_aad" => /\ Walking(aead_in.aad_ptr, aead_in.aad_len, InAad)
                       /\ TextSoFar(InAad)
  /\ pc = "ct" => TextSoFar(AadBlocks(aead_in))
  /\ pc = "pad_ct" => /\ Walking(aead_in.data_ptr, aead_in.data_len, InData)
                      /\ TextSoFar(AadBlocks(aead_in) + InData)
  /\ pc = "lengths" => TextSoFar(AadBlocks(aead_in) + DataBlocks(aead_in))

Computed ==
  /\ pc = "publish" => poly1305_tag = TagOf(aead_in, mem, mem)
  /\ pc = "verify" \/ (op = "decrypt" /\ pc \in {"load", "stream"})
       => poly1305_tag = TagOf(aead_in, call.mem, call.mem)

(* aead_tag is the caller's until the call returns.                          *)
TagKept == InAead => aead_tag = call.tag

AadDomainOK == InAead /\ pc # "guard" => aead_in.aad_ptr + aead_in.aad_len <= Space

(* aead_encrypt's tag is over the finished ciphertext.                        *)
Finished ==
  op = "encrypt" /\ pc \in TagPhase \cup {"publish"}
    => mem = Abstract!Streamed(call.mem, call.ptr, call.len, call.state)

TagInv == TagKept /\ AadDomainOK /\ Finished /\ Absorbing /\ Computed

(* Absorbing the next block of the text.                                     *)
LEMMA TextGrows ==
  ASSUME TypeOK, KeyLoaded, Accumulates(poly_h), NEW n \in Nat, TextSoFar(n),
         NEW bytes, bytes = TextBlock(aead_in, mem, mem, n + 1)
  PROVE  /\ Absorbed(poly_h, bytes, 1).blocks = TextTerms(aead_in, mem, mem, n + 1)
         /\ Len(poly_h.blocks) = n
         /\ Len(Absorbed(poly_h, bytes, 1).blocks) = n + 1
<1> DEFINE s == poly_h.blocks
           t == [bytes |-> bytes, hibit |-> 1, r |-> Multiplier]
           f == TextTerms(aead_in, mem, mem, n)
           g == TextTerms(aead_in, mem, mem, n + 1)
<1>1. s \in Seq(PolyTerm) /\ s = f
  BY DEF TypeOK, PolyTypeOK, Accumulator, TextSoFar
<1>2. Absorbed(poly_h, bytes, 1).blocks = Append(s, t)
  BY DEF Absorbed
<1>3. t = [bytes |-> TextBlock(aead_in, mem, mem, n + 1), hibit |-> 1,
           r |-> Clamp(Half(OtkOf(aead_in), 0))]
  BY DEF KeyLoaded, Otk, OtkOf
<1>4. DOMAIN f = 1 .. n /\ DOMAIN g = 1 .. n + 1
  BY DEF TextTerms
<1>5. Len(s) = n
  BY <1>1, <1>4
<1>6. \A b \in 1 .. n : g[b] = f[b]
  BY DEF TextTerms
<1>7. g[n + 1] = t
  BY <1>3 DEF TextTerms
<1>8. g = [b \in 1 .. n + 1 |-> g[b]]
  BY DEF TextTerms
<1> HIDE DEF t, f, g
<1>9. Append(s, t) = [b \in 1 .. n + 1 |-> IF b = n + 1 THEN t ELSE s[b]]
  <2>1. s \in Seq(PolyTerm \cup {t})
    BY <1>1
  <2>2. /\ Append(s, t) \in Seq(PolyTerm \cup {t}) /\ Len(Append(s, t)) = n + 1
        /\ \A b \in 1 .. n : Append(s, t)[b] = s[b]
        /\ Append(s, t)[n + 1] = t
    BY <1>5, <2>1, AppendProperties
  <2> QED BY <2>2, LenProperties
<1>10. Append(s, t) = g
  BY <1>1, <1>6, <1>7, <1>8, <1>9
<1>11. Len(Append(s, t)) = n + 1
  BY <1>1, <1>5
<1> QED BY <1>2, <1>5, <1>10, <1>11 DEF g

(* The blocks of the text, region by region.                                 *)
LEMMA TextRegions ==
  ASSUME NEW req \in AeadInput, NEW ma, NEW mc
  PROVE  /\ TextTerms(req, ma, mc, 0) = << >>
         /\ req.aad_len = 0 => AadBlocks(req) = 0
         /\ req.data_len = 0 => DataBlocks(req) = 0
         /\ \A n \in Nat : n + 1 <= AadBlocks(req) =>
              TextBlock(req, ma, mc, n + 1)
                = PadBlock(ma, req.aad_ptr, req.aad_len, n + 1)
         /\ \A n \in Nat : n + 1 <= DataBlocks(req) =>
              TextBlock(req, ma, mc, AadBlocks(req) + n + 1)
                = PadBlock(mc, req.data_ptr, req.data_len, n + 1)
         /\ TextBlock(req, ma, mc, AadBlocks(req) + DataBlocks(req) + 1)
              = LengthsBlock(req.aad_len, req.data_len)
<1> DEFINE na == AadBlocks(req)  nd == DataBlocks(req)
<1>1. na \in Nat /\ nd \in Nat
  BY TextSizes
<1>2. BlocksOf(0) = 0
  <2>1. 0 = 0 * PolyBlock
    BY Sizes, Z3
  <2> QED BY <2>1, BlocksOfNat
<1>3. TextTerms(req, ma, mc, 0) = << >>
  BY DEF TextTerms
<1>4. (req.aad_len = 0 => na = 0) /\ (req.data_len = 0 => nd = 0)
  BY <1>2 DEF AadBlocks, DataBlocks
<1> HIDE DEF na, nd
<1>5. \A n \in Nat : n + 1 <= na =>
        TextBlock(req, ma, mc, n + 1) = PadBlock(ma, req.aad_ptr, req.aad_len, n + 1)
  BY DEF TextBlock, na
<1>6. ASSUME NEW n \in Nat, n + 1 <= nd
      PROVE  TextBlock(req, ma, mc, na + n + 1)
               = PadBlock(mc, req.data_ptr, req.data_len, n + 1)
  <2>1. ~(na + n + 1 <= na) /\ na + n + 1 <= na + nd /\ (na + n + 1) - na = n + 1
    BY <1>1, <1>6
  <2> QED BY <2>1 DEF TextBlock, na, nd
<1>7. TextBlock(req, ma, mc, na + nd + 1) = LengthsBlock(req.aad_len, req.data_len)
  <2>1. ~(na + nd + 1 <= na) /\ ~(na + nd + 1 <= na + nd)
    BY <1>1
  <2> QED BY <2>1 DEF TextBlock, na, nd
<1> QED BY <1>3, <1>4, <1>5, <1>6, <1>7 DEF na, nd

LEMMA TagInit == Init => TagInv
BY DEF Init, TagInv, TagKept, AadDomainOK, Finished, Absorbing, Computed, InAead,
       TagPhase

LEMMA TagCaller == CallerStep => TagInv'
<1> SUFFICES ASSUME CallerStep PROVE TagInv' OBVIOUS
<1>1. CASE pc' = "caller"
  BY <1>1 DEF TagInv, TagKept, AadDomainOK, Finished, Absorbing, Computed, InAead,
              TagPhase
<1>2. ASSUME NEW o \in {"encrypt", "decrypt"}, NEW req \in AeadRequests,
             CallAead(o, req)
      PROVE  TagInv'
  <2>1. pc' = "guard" /\ call'.tag = aead_tag /\ aead_tag' = aead_tag
    BY <1>2 DEF CallAead, Enter
  <2> QED BY <2>1 DEF TagInv, TagKept, AadDomainOK, Finished, Absorbing, Computed,
                      TagPhase
<1>3. CASE pc' \in {"stream", "update"} /\ op' \in {"stream", "update"}
  BY <1>3 DEF TagInv, TagKept, AadDomainOK, Finished, Absorbing, Computed, InAead,
              TagPhase
<1> QED BY <1>1, <1>2, <1>3
        DEF CallerStep, CallerTurn, StoreByte, StoreTag, ReclaimTable,
            CallChaChaInit, CallChaChaBlock, CallChaChaEncrypt, CallLibInit,
            CallPolyInit, CallPolyUpdate, CallPolyBlock, CallPolyFinal, Enter

(* A walker's turn on a whole block.                                         *)
LEMMA PaddedFullKeeps ==
  ASSUME TypeOK, KeyInv, StreamInv, TagInv, PaddedFull
  PROVE  Absorbing'
<1> DEFINE bytes == BytesAt(mem, zp_ptr1)
<1>1. /\ poly_h' = Absorbed(poly_h, bytes, 1) /\ mem' = mem /\ aead_in' = aead_in
      /\ pc' = pc /\ op' = op /\ pc \in {"pad_aad", "pad_ct"}
      /\ zp_ptr1' = AddWord(zp_ptr1, PolyBlock) /\ TakeFromRemain(PolyBlock)
      /\ HasBlock(cc20_remain, cc20_remain_hi, PolyBlock)
  BY DEF PaddedFull, PolyAbsorb, apiVars, ghostVars
<1>2. /\ KeyLoaded /\ Accumulates(poly_h) /\ op \in {"encrypt", "decrypt"}
  BY <1>1, MacKeyedParts DEF KeyInv, ControlOK, MacPhase, TagPhase
<1>3. Remain >= PolyBlock /\ Remain' = Remain - PolyBlock
  <2>1. cc20_remain \in Byte /\ cc20_remain_hi \in Byte /\ PolyBlock \in 0 .. Radix
        /\ PolyBlock \in Byte
    BY Sizes DEF TypeOK, MemoryTypeOK, Byte
  <2>2. Remain >= PolyBlock
    BY <1>1, <2>1, HasBlockExact DEF Remain
  <2> QED BY <1>1, <2>1, <2>2, TakeType DEF TypeOK
<1>4. /\ aead_in \in AeadInput
      /\ aead_in.aad_ptr \in Addr /\ aead_in.aad_len \in Addr
      /\ aead_in.data_ptr \in Addr /\ aead_in.data_len \in Addr
      /\ aead_in.aad_ptr + aead_in.aad_len <= Space
      /\ aead_in.data_ptr + aead_in.data_len <= Space
  BY <1>1, <1>2, InputTypes
     DEF TypeOK, TagInv, AadDomainOK, StreamInv, DomainOK, EntryOK, InAead
<1>5. AadBlocks(aead_in) \in Nat /\ Remain # 0
  <2>1. PolyBlock > 0 /\ PolyBlock \in Nat /\ Remain \in Nat
    BY Sizes, RemainRange DEF TypeOK
  <2> QED BY <1>3, <1>4, <2>1, TextSizes
<1> HIDE DEF bytes
<1>6. CASE pc = "pad_aad"
  <2> DEFINE n == InAad
  <2>1. /\ n \in Nat /\ Walking(aead_in.aad_ptr, aead_in.aad_len, n) /\ TextSoFar(n)
    BY <1>6 DEF TagInv, Absorbing, TextSoFar
  <2> HIDE DEF n
  <2>2. /\ bytes = PadBlock(mem, aead_in.aad_ptr, aead_in.aad_len, n + 1)
        /\ (n + 1) * PolyBlock + Remain' = aead_in.aad_len
        /\ Remain' # 0 => zp_ptr1' = aead_in.aad_ptr + (n + 1) * PolyBlock
    BY <1>1, <1>3, <1>4, <2>1, WalkFull DEF bytes
  <2>3. n + 1 <= AadBlocks(aead_in)
    BY <1>4, <1>5, <2>1, WalkInside DEF AadBlocks
  <2>4. bytes = TextBlock(aead_in, mem, mem, n + 1)
    BY <1>4, <2>1, <2>2, <2>3, TextRegions
  <2>5. /\ poly_h'.blocks = TextTerms(aead_in, mem, mem, n + 1)
        /\ Len(poly_h'.blocks) = n + 1
    BY <1>1, <1>2, <2>1, <2>4, TextGrows
  <2>6. Walking(aead_in.aad_ptr, aead_in.aad_len, InAad)'
    BY <1>1, <2>1, <2>2, <2>5 DEF Walking, InAad
  <2>7. TextSoFar(InAad)'
    BY <1>1, <2>1, <2>5 DEF TextSoFar, InAad
  <2> QED BY <1>1, <1>6, <2>6, <2>7 DEF Absorbing
<1>7. CASE pc = "pad_ct"
  <2> DEFINE n == InData  k == AadBlocks(aead_in) + n
  <2>1. /\ n \in Nat /\ Walking(aead_in.data_ptr, aead_in.data_len, n) /\ TextSoFar(k)
    BY <1>7 DEF TagInv, Absorbing, Walking
  <2> HIDE DEF n
  <2>2. /\ bytes = PadBlock(mem, aead_in.data_ptr, aead_in.data_len, n + 1)
        /\ (n + 1) * PolyBlock + Remain' = aead_in.data_len
        /\ Remain' # 0 => zp_ptr1' = aead_in.data_ptr + (n + 1) * PolyBlock
    BY <1>1, <1>3, <1>4, <2>1, WalkFull DEF bytes
  <2>3. n + 1 <= DataBlocks(aead_in)
    BY <1>4, <1>5, <2>1, WalkInside DEF DataBlocks
  <2>4. bytes = TextBlock(aead_in, mem, mem, k + 1)
    BY <1>4, <2>1, <2>2, <2>3, TextRegions
  <2>5. k \in Nat
    BY <1>5, <2>1
  <2>6. /\ poly_h'.blocks = TextTerms(aead_in, mem, mem, k + 1)
        /\ Len(poly_h'.blocks) = k + 1
    <3> HIDE DEF k
    <3> QED BY <1>1, <1>2, <2>1, <2>4, <2>5, TextGrows
  <2>7. (k + 1) - AadBlocks(aead_in) = n + 1 /\ AadBlocks(aead_in) + (n + 1) = k + 1
    BY <1>5, <2>1
  <2> HIDE DEF k
  <2>8. InData' = n + 1
    BY <1>1, <2>6, <2>7 DEF InData, AadBlocks
  <2>9. Walking(aead_in.data_ptr, aead_in.data_len, InData)'
    BY <1>1, <2>1, <2>2, <2>8 DEF Walking
  <2>10. TextSoFar(AadBlocks(aead_in) + InData)'
    BY <1>1, <2>5, <2>6, <2>7, <2>8 DEF TextSoFar, AadBlocks
  <2> QED BY <1>1, <1>7, <2>9, <2>10 DEF Absorbing
<1> QED BY <1>1, <1>6, <1>7

(* Its last turn, over the bytes that do not fill a block.                    *)
LEMMA PaddedPartialKeeps ==
  ASSUME TypeOK, KeyInv, StreamInv, TagInv, PaddedPartial
  PROVE  Absorbing'
<1> DEFINE bytes == PadBytes(mem, zp_ptr1, cc20_remain)
<1>1. /\ poly_h' = Absorbed(poly_h, bytes, 1) /\ mem' = mem /\ aead_in' = aead_in
      /\ pc \in {"pad_aad", "pad_ct"} /\ op' = op
      /\ pc' = IF pc = "pad_aad" THEN "ct" ELSE "lengths"
      /\ ~Drained /\ ~HasBlock(cc20_remain, cc20_remain_hi, PolyBlock)
  BY DEF PaddedPartial, PolyAbsorb, AfterPadded, apiVars, ghostVars
<1>2. /\ KeyLoaded /\ Accumulates(poly_h) /\ op \in {"encrypt", "decrypt"}
  BY <1>1, MacKeyedParts DEF KeyInv, ControlOK, MacPhase, TagPhase
<1>3. Remain = cc20_remain /\ Remain \in 1 .. PolyBlock - 1
  <2>1. cc20_remain_hi = 0 /\ cc20_remain < PolyBlock /\ cc20_remain # 0
        /\ cc20_remain \in Nat /\ Radix \in Nat /\ PolyBlock \in Nat
    BY <1>1, Sizes DEF HasBlock, Drained, TypeOK, MemoryTypeOK, Byte
  <2>2. Radix * 0 = 0
    BY <2>1, Z3
  <2> QED BY <2>1, <2>2 DEF Remain
<1>4. /\ aead_in \in AeadInput
      /\ aead_in.aad_ptr \in Addr /\ aead_in.aad_len \in Addr
      /\ aead_in.data_ptr \in Addr /\ aead_in.data_len \in Addr
      /\ aead_in.aad_ptr + aead_in.aad_len <= Space
      /\ aead_in.data_ptr + aead_in.data_len <= Space
  BY <1>1, <1>2, InputTypes
     DEF TypeOK, TagInv, AadDomainOK, StreamInv, DomainOK, EntryOK, InAead
<1>5. AadBlocks(aead_in) \in Nat /\ bytes = PadBytes(mem, zp_ptr1, Remain)
  BY <1>3, <1>4, TextSizes
<1> HIDE DEF bytes
<1>6. CASE pc = "pad_aad"
  <2> DEFINE n == InAad
  <2>1. /\ n \in Nat /\ Walking(aead_in.aad_ptr, aead_in.aad_len, n) /\ TextSoFar(n)
    BY <1>6 DEF TagInv, Absorbing, TextSoFar
  <2> HIDE DEF n
  <2>2. /\ bytes = PadBlock(mem, aead_in.aad_ptr, aead_in.aad_len, n + 1)
        /\ AadBlocks(aead_in) = n + 1 /\ n + 1 <= AadBlocks(aead_in)
    BY <1>3, <1>4, <1>5, <2>1, WalkPartial DEF AadBlocks
  <2>3. bytes = TextBlock(aead_in, mem, mem, n + 1)
    BY <1>4, <2>1, <2>2, TextRegions
  <2>4. poly_h'.blocks = TextTerms(aead_in, mem, mem, n + 1)
    BY <1>1, <1>2, <2>1, <2>3, TextGrows
  <2>5. TextSoFar(AadBlocks(aead_in))'
    BY <1>1, <1>5, <2>2, <2>4 DEF TextSoFar, AadBlocks
  <2> QED BY <1>1, <1>6, <2>5 DEF Absorbing
<1>7. CASE pc = "pad_ct"
  <2> DEFINE n == InData  k == AadBlocks(aead_in) + n
  <2>1. /\ n \in Nat /\ Walking(aead_in.data_ptr, aead_in.data_len, n) /\ TextSoFar(k)
    BY <1>7 DEF TagInv, Absorbing, Walking
  <2> HIDE DEF n
  <2>2. /\ bytes = PadBlock(mem, aead_in.data_ptr, aead_in.data_len, n + 1)
        /\ DataBlocks(aead_in) = n + 1 /\ n + 1 <= DataBlocks(aead_in)
    BY <1>3, <1>4, <1>5, <2>1, WalkPartial DEF DataBlocks
  <2>3. bytes = TextBlock(aead_in, mem, mem, k + 1)
    <3>a. n \in Nat /\ n + 1 <= DataBlocks(aead_in) /\ aead_in \in AeadInput
      BY <1>4, <2>1, <2>2
    <3>1. TextBlock(aead_in, mem, mem, AadBlocks(aead_in) + n + 1)
            = PadBlock(mem, aead_in.data_ptr, aead_in.data_len, n + 1)
      BY <3>a, TextRegions, ZenonT(60)
    <3> QED BY <2>2, <3>1
  <2>4. k \in Nat /\ k + 1 = AadBlocks(aead_in) + DataBlocks(aead_in)
    BY <1>5, <2>1, <2>2
  <2> HIDE DEF k
  <2>5. poly_h'.blocks = TextTerms(aead_in, mem, mem, k + 1)
    BY <1>1, <1>2, <2>1, <2>3, <2>4, TextGrows
  <2>6. TextSoFar(AadBlocks(aead_in) + DataBlocks(aead_in))'
    BY <1>1, <2>4, <2>5 DEF TextSoFar, AadBlocks, DataBlocks
  <2> QED BY <1>1, <1>7, <2>6 DEF Absorbing
<1> QED BY <1>1, <1>6, <1>7

(* Or it leaves when nothing is left.                                        *)
LEMMA PaddedDoneKeeps ==
  ASSUME TypeOK, KeyInv, StreamInv, TagInv, PaddedDone
  PROVE  Absorbing'
<1>1. /\ poly_h' = poly_h /\ mem' = mem /\ aead_in' = aead_in /\ op' = op
      /\ pc \in {"pad_aad", "pad_ct"} /\ Drained
      /\ pc' = IF pc = "pad_aad" THEN "ct" ELSE "lengths"
  BY DEF PaddedDone, AfterPadded, macVars, apiVars, ghostVars
<1>2. Remain = 0
  BY <1>1, RemainRange DEF TypeOK
<1>3. /\ aead_in.aad_len \in Addr /\ aead_in.data_len \in Addr
      /\ aead_in \in AeadInput
  BY InputTypes DEF TypeOK
<1>4. CASE pc = "pad_aad"
  <2>1. InAad \in Nat /\ Walking(aead_in.aad_ptr, aead_in.aad_len, InAad)
        /\ TextSoFar(InAad)
    BY <1>4 DEF TagInv, Absorbing, TextSoFar
  <2>2. AadBlocks(aead_in) = InAad
    BY <1>2, <1>3, <2>1, WalkDone DEF AadBlocks
  <2>3. TextSoFar(AadBlocks(aead_in))'
    BY <1>1, <2>1, <2>2 DEF TextSoFar, AadBlocks
  <2> QED BY <1>1, <1>4, <2>3 DEF Absorbing
<1>5. CASE pc = "pad_ct"
  <2>1. InData \in Nat /\ Walking(aead_in.data_ptr, aead_in.data_len, InData)
        /\ TextSoFar(AadBlocks(aead_in) + InData)
    BY <1>5 DEF TagInv, Absorbing, Walking
  <2>2. DataBlocks(aead_in) = InData
    BY <1>2, <1>3, <2>1, WalkDone DEF DataBlocks
  <2>3. TextSoFar(AadBlocks(aead_in) + DataBlocks(aead_in))'
    BY <1>1, <2>1, <2>2 DEF TextSoFar, AadBlocks, DataBlocks
  <2> QED BY <1>1, <1>5, <2>3 DEF Absorbing
<1> QED BY <1>1, <1>4, <1>5

(* aead_compute_tag hands the walker its two buffers, or skips an empty one.  *)
LEMMA LoadsKeep ==
  ASSUME TypeOK, KeyInv, StreamInv, TagInv, LoadAad \/ LoadCiphertext
  PROVE  Absorbing'
<1>1. /\ poly_h' = poly_h /\ mem' = mem /\ aead_in' = aead_in /\ op' = op
      /\ pc \in {"aad", "ct"}
  BY DEF LoadAad, LoadCiphertext, apiVars, ghostVars
<1>2. /\ aead_in \in AeadInput
      /\ aead_in.aad_ptr \in Nat /\ aead_in.data_ptr \in Nat
      /\ aead_in.aad_len \in Addr /\ aead_in.data_len \in Addr
  <2>1. aead_in \in AeadInput
    BY DEF TypeOK
  <2> QED BY <2>1, AddrNat, InputTypes
<1>3. 0 * PolyBlock = 0 /\ AadBlocks(aead_in) \in Nat
  BY <1>2, Sizes, Z3, TextSizes
<1>4. CASE LoadAad
  <2>1. pc = "aad" /\ poly_h.blocks = << >>
    BY <1>4 DEF LoadAad, TagInv, Absorbing
  <2>2. TextSoFar(0) /\ TextSoFar(0)'
    BY <1>1, <1>2, <2>1, TextRegions DEF TextSoFar
  <2>3. CASE aead_in.aad_len = 0
    <3>1. AadBlocks(aead_in) = 0 /\ pc' = "ct"
      BY <1>2, <1>4, <2>3, TextRegions DEF LoadAad
    <3>2. TextSoFar(AadBlocks(aead_in))'
      BY <1>1, <2>2, <3>1 DEF AadBlocks
    <3> QED BY <1>1, <3>1, <3>2 DEF Absorbing
  <2>4. CASE aead_in.aad_len # 0
    <3>1. /\ pc' = "pad_aad" /\ zp_ptr1' = aead_in.aad_ptr
          /\ LoadRemain(aead_in.aad_len)
      BY <1>4, <2>4 DEF LoadAad
    <3>2. 0 * PolyBlock + Remain' = aead_in.aad_len
      BY <1>2, <3>1, WalkStarts
    <3>3. InAad' = 0
      BY <1>1, <2>1 DEF InAad
    <3>4. Walking(aead_in.aad_ptr, aead_in.aad_len, InAad)'
      BY <1>1, <1>2, <1>3, <3>1, <3>2, <3>3 DEF Walking
    <3> QED BY <1>1, <2>2, <3>1, <3>3, <3>4 DEF Absorbing
  <2> QED BY <2>3, <2>4
<1>5. CASE LoadCiphertext
  <2> DEFINE na == AadBlocks(aead_in)
  <2>1. pc = "ct" /\ TextSoFar(na)
    BY <1>5 DEF LoadCiphertext, TagInv, Absorbing
  <2>2. TextSoFar(na)'
    BY <1>1, <2>1 DEF TextSoFar, AadBlocks
  <2>3. CASE aead_in.data_len = 0
    <3>1. DataBlocks(aead_in) = 0 /\ pc' = "lengths"
      BY <1>2, <1>5, <2>3, TextRegions DEF LoadCiphertext
    <3>2. (AadBlocks(aead_in) + DataBlocks(aead_in))' = na'
      BY <1>1, <1>3, <3>1 DEF DataBlocks, AadBlocks
    <3>3. TextSoFar(AadBlocks(aead_in) + DataBlocks(aead_in))'
      BY <2>2, <3>2 DEF TextSoFar
    <3> QED BY <1>1, <3>1, <3>3 DEF Absorbing
  <2>4. CASE aead_in.data_len # 0
    <3>1. /\ pc' = "pad_ct" /\ zp_ptr1' = aead_in.data_ptr
          /\ LoadRemain(aead_in.data_len)
      BY <1>5, <2>4 DEF LoadCiphertext
    <3>2. 0 * PolyBlock + Remain' = aead_in.data_len
      BY <1>2, <3>1, WalkStarts
    <3>3. Len(poly_h.blocks) = na
      <4>1. poly_h.blocks = TextTerms(aead_in, mem, mem, na)
        BY <2>1 DEF TextSoFar
      <4>2. DOMAIN poly_h.blocks = 1 .. na
        BY <4>1 DEF TextTerms
      <4>3. poly_h.blocks \in Seq(PolyTerm)
        BY DEF TypeOK, PolyTypeOK, Accumulator
      <4> HIDE DEF na
      <4> QED BY <1>3, <4>2, <4>3 DEF na
    <3>4. InData' = 0
      BY <1>1, <1>3, <3>3 DEF InData, AadBlocks
    <3>5. Walking(aead_in.data_ptr, aead_in.data_len, InData)'
      BY <1>1, <1>2, <1>3, <3>1, <3>2, <3>4 DEF Walking
    <3>6. TextSoFar(AadBlocks(aead_in) + InData)'
      BY <1>1, <1>3, <2>2, <3>4 DEF TextSoFar, AadBlocks
    <3> QED BY <1>1, <3>1, <3>5, <3>6 DEF Absorbing
  <2> QED BY <2>3, <2>4
<1> QED BY <1>4, <1>5

(* The lengths block completes the text, and poly1305_final adds s.           *)
LEMMA FinishComputes ==
  ASSUME TypeOK, KeyInv, StreamInv, TagInv, FinishTag
  PROVE  poly1305_tag' = TagOf(aead_in, mem, mem)
<1> DEFINE bytes == LengthsBlock(aead_in.aad_len, aead_in.data_len)
           n == AadBlocks(aead_in) + DataBlocks(aead_in)
           h == Absorbed(poly_h, bytes, 1)
<1>1. pc = "lengths" /\ poly1305_tag' = [s |-> poly_s, h |-> h]
  BY DEF FinishTag, PolyFinal
<1>2. KeyLoaded /\ Accumulates(poly_h) /\ TextSoFar(n) /\ aead_in \in AeadInput
  BY <1>1, MacKeyedParts DEF KeyInv, MacPhase, TagPhase, TagInv, Absorbing, TypeOK
<1>3. n \in Nat /\ n + 1 = TextLen(aead_in)
  BY <1>2, TextSizes DEF TextLen
<1>4. bytes = TextBlock(aead_in, mem, mem, n + 1)
  BY <1>2, TextRegions
<1> HIDE DEF bytes, n
<1>5. h.blocks = TextTerms(aead_in, mem, mem, n + 1)
  BY <1>2, <1>3, <1>4, TextGrows
<1>6. Accumulates(h)
  BY <1>2, AbsorbKeeps
<1>7. h = [clean |-> h.clean, blocks |-> h.blocks]
  BY DEF Absorbed
<1> HIDE DEF h
<1>8. h.clean = TRUE
  BY <1>6, <1>7 DEF Accumulates
<1>9. poly_s = Half(OtkOf(aead_in), 1)
  BY <1>2 DEF KeyLoaded, Otk, OtkOf
<1> QED BY <1>1, <1>3, <1>5, <1>7, <1>8, <1>9 DEF TagOf

LEMMA TagLib ==
  TypeOK /\ TypeOK' /\ KeyInv /\ StreamInv /\ StreamInv' /\ TagInv /\ LibStep
    => TagInv'
<1> SUFFICES ASSUME TypeOK, TypeOK', KeyInv, StreamInv, StreamInv', TagInv, LibStep
             PROVE  TagInv'
  OBVIOUS
<1> USE DEF vars, remainVars, streamVars, blockVars, macVars, apiVars, ghostVars,
            Return
<1>1. /\ op' = op /\ call' = call /\ aead_in' = aead_in
      /\ pc # "caller" /\ pc' # "guard"
      /\ pc' # "caller" => aead_tag' = aead_tag
  BY DEF LibStep, GuardReject, GuardAccept, DeriveOtk, LoadStream, StreamBlock,
         StreamDone, LoadAad, LoadCiphertext, PaddedFull, PaddedPartial,
         PaddedDone, AfterPadded, FinishTag, PublishTag, VerifyTag, UpdateFull,
         UpdatePartial, UpdateDone
<1>2. TagKept'
  BY <1>1 DEF TagInv, TagKept, InAead
<1>3. AadDomainOK'
  <2>1. CASE GuardAccept
    <3>1. /\ pc = "guard" /\ GuardAccepts(aead_in.aad_ptr, aead_in.aad_len)
      BY <2>1 DEF GuardAccept, InDomain
    <3>2. aead_in.aad_ptr \in Addr /\ aead_in.aad_len \in Addr
      BY InputTypes DEF TypeOK
    <3> QED BY <1>1, <3>1, <3>2, GuardExact DEF AadDomainOK
  <2>2. CASE ~GuardAccept
    BY <1>1, <2>2 DEF TagInv, AadDomainOK, InAead, LibStep, GuardReject, DeriveOtk,
         LoadStream, StreamBlock, StreamDone, LoadAad, LoadCiphertext, PaddedFull,
         PaddedPartial, PaddedDone, AfterPadded, FinishTag, PublishTag, VerifyTag,
         UpdateFull, UpdatePartial, UpdateDone
  <2> QED BY <2>1, <2>2
<1>4. Finished'
  <2>1. CASE StreamDone
    <3>1. pc = "stream" /\ Drained /\ mem' = mem
      BY <2>1 DEF StreamDone
    <3>2. Remain = 0 /\ call.len \in Nat
      BY <3>1, RemainRange, Sizes DEF TypeOK, CallRecord, Addr
    <3>3. Done = call.len
      BY <3>2 DEF Done
    <3>4. mem = Abstract!Streamed(call.mem, call.ptr, call.len, call.state)
      BY <3>1, <3>3, StreamPositionParts DEF StreamInv, Positioned
    <3> QED BY <1>1, <3>1, <3>4 DEF Finished
  <2>2. ASSUME ~StreamDone, op = "encrypt", pc' \in TagPhase \cup {"publish"}
        PROVE  mem' = mem /\ pc \in TagPhase \cup {"publish"}
    BY <2>2, <1>1 DEF TagPhase, KeyInv, ControlOK, LibStep, GuardReject, GuardAccept, DeriveOtk,
         LoadStream, StreamBlock, LoadAad, LoadCiphertext, PaddedFull,
         PaddedPartial, PaddedDone, AfterPadded, FinishTag, PublishTag, VerifyTag,
         UpdateFull, UpdatePartial, UpdateDone
  <2>3. CASE ~StreamDone
    BY <1>1, <2>2, <2>3 DEF TagInv, Finished
  <2> QED BY <2>1, <2>3
<1>5. Absorbing'
  <2>1. CASE PaddedFull \/ PaddedPartial \/ PaddedDone \/ LoadAad \/ LoadCiphertext
    BY <2>1, PaddedFullKeeps, PaddedPartialKeeps, PaddedDoneKeeps, LoadsKeep
  <2>2. CASE DeriveOtk
    <3>1. poly_h'.blocks = << >> /\ pc' \in {"load", "aad"}
      BY <2>2 DEF DeriveOtk, PolyInit, FreshH
    <3> QED BY <1>1, <3>1 DEF Absorbing
  <2>3. CASE StreamBlock \/ StreamDone \/ LoadStream
    <3>1. /\ poly_h' = poly_h /\ pc \in {"load", "stream"}
          /\ pc' \in {"stream", "aad", "caller"}
          /\ pc' = "aad" => op = "encrypt"
      BY <2>3 DEF StreamBlock, StreamDone, LoadStream
    <3> QED BY <1>1, <3>1 DEF TagInv, Absorbing
  <2>4. CASE ~(PaddedFull \/ PaddedPartial \/ PaddedDone \/ LoadAad \/ LoadCiphertext
                 \/ DeriveOtk \/ StreamBlock \/ StreamDone \/ LoadStream)
    <3>1. /\ pc' \in {"caller", "otk", "publish", "verify", "load", "update"}
          /\ pc' = "load" => op # "encrypt"
      BY <1>1, <2>4 DEF KeyInv, ControlOK, LibStep, GuardReject, GuardAccept,
           FinishTag, PublishTag, VerifyTag, UpdateFull, UpdatePartial, UpdateDone
    <3> QED BY <1>1, <3>1 DEF Absorbing
  <2> QED BY <2>1, <2>2, <2>3, <2>4
<1>6. Computed'
  <2>1. CASE FinishTag
    <3>1. /\ pc = "lengths" /\ mem' = mem
          /\ pc' = IF op = "encrypt" THEN "publish" ELSE "verify"
      BY <2>1 DEF FinishTag
    <3>2. poly1305_tag' = TagOf(aead_in, mem, mem)
      BY <2>1, FinishComputes
    <3>3. op # "encrypt" => mem = call.mem
      BY <3>1 DEF StreamInv, Untouched, KeyInv, ControlOK, TagPhase
    <3> QED BY <1>1, <3>1, <3>2, <3>3 DEF Computed
  <2>2. CASE ~FinishTag
    <3>1. ASSUME pc' = "publish" PROVE FALSE
      BY <2>2, <3>1 DEF LibStep, GuardReject, GuardAccept, DeriveOtk, LoadStream, StreamBlock,
         StreamDone, LoadAad, LoadCiphertext, PaddedFull, PaddedPartial,
         PaddedDone, AfterPadded, PublishTag, VerifyTag, UpdateFull,
         UpdatePartial, UpdateDone
    <3>2. ASSUME pc' = "verify" \/ (op = "decrypt" /\ pc' \in {"load", "stream"})
          PROVE  /\ poly1305_tag' = poly1305_tag
                 /\ pc = "verify" \/ (op = "decrypt" /\ pc \in {"load", "stream"})
      BY <2>2, <3>2 DEF LibStep, GuardReject, GuardAccept, DeriveOtk, LoadStream, StreamBlock,
         StreamDone, LoadAad, LoadCiphertext, PaddedFull, PaddedPartial,
         PaddedDone, AfterPadded, PublishTag, VerifyTag, UpdateFull,
         UpdatePartial, UpdateDone
    <3> QED BY <1>1, <3>1, <3>2 DEF TagInv, Computed
  <2> QED BY <2>1, <2>2
<1> QED BY <1>2, <1>3, <1>4, <1>5, <1>6 DEF TagInv

LEMMA TagStutter == TagInv /\ UNCHANGED vars => TagInv'
<1> SUFFICES ASSUME TagInv, UNCHANGED vars PROVE TagInv' OBVIOUS
<1>1. /\ aead_in' = aead_in /\ mem' = mem /\ poly_h' = poly_h /\ pc' = pc /\ op' = op
      /\ call' = call /\ aead_tag' = aead_tag /\ poly1305_tag' = poly1305_tag
      /\ zp_ptr1' = zp_ptr1 /\ cc20_remain' = cc20_remain
      /\ cc20_remain_hi' = cc20_remain_hi
  BY DEF vars, remainVars, blockVars, macVars, apiVars, ghostVars
<1>2. TagKept' /\ AadDomainOK' /\ Finished' /\ Computed'
  BY <1>1 DEF TagInv, TagKept, AadDomainOK, Finished, Computed, InAead
<1>3. Absorbing'
  BY <1>1 DEF TagInv, Absorbing, TextSoFar, Walking, InAad, InData, AadBlocks,
              DataBlocks, Remain
<1> QED BY <1>2, <1>3 DEF TagInv

LEMMA TagInvariant == Spec => []TagInv
<1>1. Init => TagInv
  BY TagInit
<1>2. TypeOK /\ TypeOK' /\ KeyInv /\ StreamInv /\ StreamInv' /\ TagInv /\ [Next]_vars
        => TagInv'
  BY TagCaller, TagLib, TagStutter DEF Next
<1> QED BY <1>1, <1>2, TypeCorrect, KeyInvariant, StreamInvariant, PTL DEF Spec

-----------------------------------------------------------------------------
(* The refinement of AeadSpec.                                               *)

(* The tag depends on memory through the two buffers only.                    *)
LEMMA TagOfBytes ==
  ASSUME NEW req \in AeadInput, Abstract!Fits(req), NEW ma, NEW mb, NEW mc,
         \A a \in req.aad_ptr .. req.aad_ptr + req.aad_len - 1 : ma[a] = mb[a]
  PROVE  TagOf(req, ma, mc) = TagOf(req, mb, mc)
<1>1. /\ req.aad_ptr \in Nat /\ req.aad_len \in Nat /\ PolyBlock \in Nat
      /\ AadBlocks(req) \in Nat /\ DataBlocks(req) \in Nat /\ TextLen(req) \in Nat
  BY InputTypes, AddrNat, Sizes, TextSizes
<1>2. ASSUME NEW b \in 1 .. TextLen(req), b <= AadBlocks(req)
      PROVE  PadBlock(ma, req.aad_ptr, req.aad_len, b)
               = PadBlock(mb, req.aad_ptr, req.aad_len, b)
  <2>1. ASSUME NEW i \in 0 .. PolyBlock - 1,
               (b - 1) * PolyBlock + i < req.aad_len
        PROVE  ma[req.aad_ptr + ((b - 1) * PolyBlock + i)]
                 = mb[req.aad_ptr + ((b - 1) * PolyBlock + i)]
    <3>1. (b - 1) * PolyBlock \in Nat
      BY <1>1, Z3
    <3> QED BY <1>1, <2>1, <3>1
  <2> QED BY <2>1 DEF PadBlock
<1>3. \A b \in 1 .. TextLen(req) :
        TextBlock(req, ma, mc, b) = TextBlock(req, mb, mc, b)
  BY <1>2 DEF TextBlock
<1> QED BY <1>3 DEF TagOf, TextTerms

LEMMA FitsExact ==
  ASSUME TypeOK PROVE InDomain <=> Abstract!Fits(aead_in)
<1>1. /\ aead_in.aad_ptr \in Addr /\ aead_in.aad_len \in Addr
      /\ aead_in.data_ptr \in Addr /\ aead_in.data_len \in Addr
  BY InputTypes DEF TypeOK
<1> QED BY <1>1, GuardExact DEF InDomain, Abstract!Fits, Abstract!Space, Space

(* An AEAD call is made with one of the callers' requests.                    *)
RequestOK == InAead => aead_in \in AeadRequests

LEMMA RequestInvariant == Spec => []RequestOK
<1>1. Init => RequestOK
  BY DEF Init, RequestOK, InAead
<1>2. ASSUME RequestOK, CallerStep PROVE RequestOK'
  BY <1>2 DEF CallerStep, CallerTurn, StoreByte, StoreTag, ReclaimTable, CallAead,
     CallChaChaInit, CallChaChaBlock, CallChaChaEncrypt, CallLibInit,
     CallPolyInit, CallPolyUpdate, CallPolyBlock, CallPolyFinal, Enter,
     RequestOK, InAead
<1>3. ASSUME RequestOK, LibStep PROVE RequestOK'
  <2>1. op' = op /\ aead_in' = aead_in /\ pc # "caller"
    BY <1>3 DEF LibStep, GuardReject, GuardAccept, DeriveOtk, LoadStream, StreamBlock,
         StreamDone, LoadAad, LoadCiphertext, PaddedFull, PaddedPartial,
         PaddedDone, FinishTag, PublishTag, VerifyTag, UpdateFull,
         UpdatePartial, UpdateDone, vars, apiVars, ghostVars
  <2> QED BY <1>3, <2>1 DEF RequestOK, InAead
<1>4. RequestOK /\ UNCHANGED vars => RequestOK'
  BY DEF RequestOK, InAead, vars, apiVars, ghostVars
<1> QED BY <1>1, <1>2, <1>3, <1>4, PTL DEF Spec, Next

(* Between calls the caller writes or begins.                                 *)
LEMMA CallerRefines ==
  TypeOK /\ CallerStep => [Abstract!SpecNext]_(Abstract!svars)
<1> SUFFICES ASSUME TypeOK, CallerStep PROVE Abstract!CallerWrites \/ Abstract!Begin
  BY DEF Abstract!SpecNext
<1>1. ~InAead /\ status' = status
  BY DEF InAead, CallerStep, CallerTurn, StoreByte, StoreTag, ReclaimTable, CallAead,
     CallChaChaInit, CallChaChaBlock, CallChaChaEncrypt, CallLibInit,
     CallPolyInit, CallPolyUpdate, CallPolyBlock, CallPolyFinal, apiVars
<1>2. ASSUME NEW o \in {"encrypt", "decrypt"}, NEW req \in AeadRequests,
             CallAead(o, req)
      PROVE  Abstract!Begin
  <2>1. /\ InAead' /\ op' = o /\ aead_in' = req /\ req \in AeadInput
        /\ call'.mem = mem /\ call'.tag = aead_tag
    BY <1>2, CallerAssumption DEF CallAead, Enter, InAead
  <2> QED BY <1>1, <2>1 DEF Abstract!Begin, Abstract!Idle, Abstract!AeadInput,
       AeadInput, Abstract!KeyField, KeyField, Abstract!NonceField, NonceField,
       Abstract!Addr, Addr, Abstract!Space, Space, Abstract!Byte, Byte
<1>3. ASSUME ~\E o \in {"encrypt", "decrypt"}, req \in AeadRequests : CallAead(o, req)
      PROVE  Abstract!CallerWrites
  <2>1. ~InAead'
    BY <1>3 DEF InAead, CallerStep, CallerTurn, StoreByte, StoreTag, ReclaimTable,
       CallChaChaInit, CallChaChaBlock, CallChaChaEncrypt, CallLibInit,
       CallPolyInit, CallPolyUpdate, CallPolyBlock, CallPolyFinal, Enter
  <2> QED BY <1>1, <2>1 DEF Abstract!CallerWrites, Abstract!Idle
<1> QED BY <1>2, <1>3

(* A step inside an AEAD call is not seen; one inside a direct call of a      *)
(* walker is the caller's; the step that returns from an AEAD call is it.     *)
LEMMA LibRefines ==
  ASSUME SeparateBuffers, TypeOK, KeyInv, StreamInv, TagInv, RequestOK, LibStep
  PROVE  [Abstract!SpecNext]_(Abstract!svars)
<1> USE DEF vars, remainVars, streamVars, macVars, apiVars, ghostVars, Return
<1> DEFINE job == [op |-> op, req |-> aead_in]
<1>1. /\ op' = op /\ call' = call /\ aead_in' = aead_in /\ pc # "caller"
  BY DEF LibStep, GuardReject, GuardAccept, DeriveOtk, LoadStream, StreamBlock,
         StreamDone, LoadAad, LoadCiphertext, PaddedFull, PaddedPartial,
         PaddedDone, AfterPadded, FinishTag, PublishTag, VerifyTag, UpdateFull,
         UpdatePartial, UpdateDone
<1>2. ASSUME op \notin {"encrypt", "decrypt"} PROVE Abstract!CallerWrites
  <2>1. status' = status
    BY <1>2 DEF KeyInv, ControlOK, TagPhase, LibStep, GuardReject, GuardAccept,
         DeriveOtk, LoadStream, StreamBlock, StreamDone, LoadAad, LoadCiphertext,
         PaddedFull, PaddedPartial, PaddedDone, FinishTag, PublishTag, VerifyTag,
         UpdateFull, UpdatePartial, UpdateDone
  <2> QED BY <1>1, <1>2, <2>1 DEF Abstract!CallerWrites, Abstract!Idle, InAead
<1>3. ASSUME op \in {"encrypt", "decrypt"}, pc' # "caller"
      PROVE  UNCHANGED Abstract!svars
  <2>1. status' = status
    BY <1>3 DEF LibStep, GuardReject, GuardAccept, DeriveOtk, LoadStream, StreamBlock,
         StreamDone, LoadAad, LoadCiphertext, PaddedFull, PaddedPartial,
         PaddedDone, FinishTag, PublishTag, VerifyTag, UpdateFull,
         UpdatePartial, UpdateDone
  <2> QED BY <1>1, <1>3, <2>1 DEF Abstract!svars, InAead
<1>4. ASSUME op \in {"encrypt", "decrypt"}, pc' = "caller"
      PROVE  Abstract!SpecNext
  <2>1. /\ InAead /\ ~InAead' /\ aead_tag = call.tag
        /\ call.ptr = aead_in.data_ptr /\ call.len = aead_in.data_len
        /\ call.state = [key |-> aead_in.key, nonce |-> aead_in.nonce, ctr |-> 1]
        /\ aead_in \in AeadInput /\ call.mem \in [Addr -> ByteValue]
        /\ mem \in [Addr -> ByteValue]
    BY <1>1, <1>4 DEF InAead, TagInv, TagKept, StreamInv, EntryOK, TypeOK, CallRecord,
                      MemoryTypeOK
  <2>2. Abstract!Crypted(aead_in)
          = Abstract!Streamed(call.mem, call.ptr, call.len, call.state)
    BY <2>1 DEF Abstract!Crypted
  <2>3. [op |-> op, req |-> aead_in] # Abstract!Idle
    BY <1>4 DEF Abstract!Idle
  <2>4. CASE GuardReject
    <3>1. pc = "guard" /\ ~Abstract!Fits(aead_in) /\ status' = 1
          /\ mem' = mem /\ aead_tag' = aead_tag
      BY <2>4, FitsExact DEF GuardReject, AEAD_ERR_DOMAIN
    <3>2. mem = call.mem
      BY <3>1 DEF StreamInv, Untouched
    <3>3. Abstract!Refuse
      BY <2>1, <2>3, <3>1, <3>2 DEF Abstract!Refuse, Abstract!Idle
    <3> QED BY <3>3 DEF Abstract!SpecNext
  <2>5. CASE ~GuardReject
    <3>1. pc # "guard"
      BY <1>4, <2>5 DEF LibStep, GuardAccept, DeriveOtk, LoadStream, StreamBlock,
         StreamDone, LoadAad, LoadCiphertext, PaddedFull, PaddedPartial,
         PaddedDone, FinishTag, PublishTag, VerifyTag, UpdateFull,
         UpdatePartial, UpdateDone
    <3>2. Abstract!Fits(aead_in)
      BY <1>1, <2>1, <3>1 DEF Abstract!Fits, Abstract!Space, Space, TagInv, AadDomainOK,
                              StreamInv, DomainOK
    <3>3. CASE PublishTag
      <4>1. /\ pc = "publish" /\ op = "encrypt" /\ mem' = mem
            /\ aead_tag' = TagOf(aead_in, mem, mem) /\ status' = 0
        BY <3>3 DEF PublishTag, AEAD_OK, KeyInv, ControlOK, TagInv, Computed
      <4>2. mem = Abstract!Crypted(aead_in)
        BY <2>2, <4>1 DEF TagInv, Finished
      <4>3. \A a \in aead_in.aad_ptr .. aead_in.aad_ptr + aead_in.aad_len - 1 :
              mem[a] = call.mem[a]
        <5> TAKE a \in aead_in.aad_ptr .. aead_in.aad_ptr + aead_in.aad_len - 1
        <5>1. a \notin call.ptr .. call.ptr + call.len - 1
          BY <2>1, <3>2 DEF SeparateBuffers, RequestOK
        <5>2. a \in Addr
          <6>1. /\ aead_in.aad_ptr \in Nat /\ aead_in.aad_len \in Nat /\ Space \in Nat
                /\ aead_in.aad_ptr + aead_in.aad_len <= Space
            BY <2>1, <3>2, InputTypes, AddrNat, Sizes
               DEF Abstract!Fits, Abstract!Space, Space
          <6> QED BY <6>1 DEF Addr
        <5> QED BY <2>2, <4>2, <5>1, <5>2, StreamedOutside
      <4>4. TagOf(aead_in, mem, mem) = TagOf(aead_in, call.mem, mem)
        BY <2>1, <3>2, <4>3, TagOfBytes
      <4>5. aead_tag' = Abstract!RfcTag(aead_in, call.mem, mem)
        BY <2>1, <3>2, <4>1, <4>4, RfcTagIs
      <4>6. Abstract!Encrypt
        BY <2>1, <2>3, <3>2, <4>1, <4>2, <4>5 DEF Abstract!Encrypt, Abstract!Idle
      <4> QED BY <4>6 DEF Abstract!SpecNext
    <3>4. CASE VerifyTag
      <4>1. /\ pc = "verify" /\ op = "decrypt" /\ mem' = mem /\ aead_tag' = aead_tag
            /\ poly1305_tag # aead_tag /\ status' = Radix - 1
        BY <1>4, <3>4 DEF VerifyTag, AEAD_ERR_AUTH, KeyInv, ControlOK
      <4>2. mem = call.mem /\ aead_tag # TagOf(aead_in, call.mem, call.mem)
        BY <4>1 DEF StreamInv, Untouched, TagInv, Computed
      <4>3. aead_tag # Abstract!RfcTag(aead_in, call.mem, call.mem)
        BY <2>1, <3>2, <4>2, RfcTagIs
      <4>4. Abstract!Decrypt
        BY <2>1, <2>3, <3>2, <4>1, <4>2, <4>3
           DEF Abstract!Decrypt, Abstract!Idle
      <4> QED BY <4>4 DEF Abstract!SpecNext
    <3>5. CASE StreamDone
      <4>1. /\ pc = "stream" /\ op = "decrypt" /\ Drained /\ mem' = mem
            /\ aead_tag' = aead_tag /\ status' = 0
        BY <1>4, <3>5 DEF StreamDone, AEAD_OK
      <4>2. poly1305_tag = aead_tag /\ poly1305_tag = TagOf(aead_in, call.mem, call.mem)
        BY <4>1 DEF StreamInv, Verified, TagInv, Computed
      <4>3. Done = call.len
        <5>1. Remain = 0 /\ call.len \in Nat
          BY <4>1, RemainRange, Sizes DEF TypeOK, CallRecord, Addr
        <5> QED BY <5>1 DEF Done
      <4>4. mem = Abstract!Crypted(aead_in)
        BY <2>2, <4>1, <4>3, StreamPositionParts DEF StreamInv, Positioned
      <4>5. aead_tag = Abstract!RfcTag(aead_in, call.mem, call.mem)
        BY <2>1, <3>2, <4>2, RfcTagIs
      <4>6. Abstract!Decrypt
        BY <2>1, <2>3, <3>2, <4>1, <4>4, <4>5
           DEF Abstract!Decrypt, Abstract!Idle
      <4> QED BY <4>6 DEF Abstract!SpecNext
    <3>6. PublishTag \/ VerifyTag \/ StreamDone
      BY <1>1, <1>4, <2>5 DEF KeyInv, ControlOK, LibStep, GuardAccept, DeriveOtk,
         LoadStream, StreamBlock, LoadAad, LoadCiphertext, PaddedFull, PaddedPartial,
         PaddedDone, AfterPadded, FinishTag, UpdateFull, UpdatePartial, UpdateDone
    <3> QED BY <3>3, <3>4, <3>5, <3>6
  <2> QED BY <2>4, <2>5
<1> QED BY <1>2, <1>3, <1>4 DEF Abstract!SpecNext

(* aead_encrypt and aead_decrypt, with all their loops, pointers and counters *)
(* and whatever the calls before them left in the fields they share, are one   *)
(* atomic RFC 8439 operation on the caller's buffers, or a refusal.           *)
THEOREM AeadRefines ==
  ASSUME SeparateBuffers
  PROVE  Spec => ImplementsAead
<1>1. Init => Abstract!SpecInit
  BY DEF Init, Abstract!SpecInit, Abstract!Idle, InAead, AEAD_OK
<1>2. UNCHANGED vars => UNCHANGED Abstract!svars
  BY DEF vars, macVars, apiVars, ghostVars, Abstract!svars, InAead
<1>3. TypeOK /\ KeyInv /\ StreamInv /\ TagInv /\ RequestOK /\ [Next]_vars
        => [Abstract!SpecNext]_(Abstract!svars)
  BY <1>2, CallerRefines, LibRefines DEF Next
<1> QED BY <1>1, <1>3, TypeCorrect, KeyInvariant, StreamInvariant, TagInvariant,
           RequestInvariant, PTL DEF Spec, ImplementsAead, Abstract!AtomicAead

-----------------------------------------------------------------------------
(* poly1305_update on its own.                                               *)

(* A message's next block, when r of its len bytes are left after n blocks.   *)
MessageStep(ptr, len, n, r) ==
  LET MB == MessageBlocks(mem, ptr, len)
      p  == ptr + n * PolyBlock
  IN  /\ n + 1 \in 1 .. BlocksOf(len)
      /\ p \in Addr
      /\ r >= PolyBlock =>
           MB[n + 1] = [bytes |-> BytesAt(mem, p), hibit |-> 1, r |-> Multiplier]
      /\ r < PolyBlock =>
           /\ n + 1 = BlocksOf(len)
           /\ MB[n + 1] = [bytes |-> [PadBytes(mem, p, r) EXCEPT ![r] = Literal(1)],
                           hibit |-> 0, r |-> Multiplier]

LEMMA MessageBlock ==
  ASSUME NEW ptr \in Addr, NEW len \in Addr, ptr + len <= Space,
         NEW n \in Nat, NEW r \in Nat \ {0}, n * PolyBlock + r = len
  PROVE  MessageStep(ptr, len, n, r)
<1> DEFINE MB == MessageBlocks(mem, ptr, len)
           p  == ptr + n * PolyBlock
           at(i) == n * PolyBlock + i
           bytes == [i \in 0 .. PolyBlock - 1 |->
                       IF at(i) < len THEN mem[ptr + at(i)]
                       ELSE IF at(i) = len THEN Literal(1) ELSE Zero]
<1>1. /\ Radix \in Nat /\ PolyBlock \in Nat /\ Space \in Nat /\ PolyBlock < Radix
      /\ ptr \in Nat /\ len \in Nat /\ PolyBlock > 1
  BY Sizes, AddrNat
<1>2. n * PolyBlock \in Nat /\ (n + 1) * PolyBlock = n * PolyBlock + PolyBlock
  BY <1>1, Z3
<1>3. p \in Addr /\ p \in Nat
  BY <1>1, <1>2 DEF Addr
<1>4. n + 1 \in 1 .. BlocksOf(len)
  <2> DEFINE x == len + PolyBlock - 1  q == x \div PolyBlock  y == x % PolyBlock
  <2>1. x \in Nat /\ x >= (n + 1) * PolyBlock
    BY <1>1, <1>2
  <2>2. q \in Nat /\ y \in 0 .. PolyBlock - 1 /\ x = q * PolyBlock + y
    BY <1>1, <2>1, DivParts
  <2> HIDE DEF x, q, y
  <2>3. ASSUME q <= n PROVE FALSE
    <3>1. q * PolyBlock <= n * PolyBlock /\ q * PolyBlock \in Nat
      BY <1>1, <2>2, <2>3, Z3
    <3> QED BY <1>1, <1>2, <2>1, <2>2, <3>1
  <2> QED BY <2>2, <2>3 DEF BlocksOf, x, q
<1>6. MB[n + 1] = [bytes |-> bytes, hibit |-> IF at(PolyBlock - 1) < len THEN 1 ELSE 0,
                   r |-> Multiplier]
  <2>1. (n + 1) - 1 = n
    OBVIOUS
  <2> QED BY <1>4, <2>1 DEF MessageBlocks, BlocksOf
<1>7. ASSUME NEW i \in 0 .. PolyBlock - 1
      PROVE  /\ at(i) < len <=> i < r
             /\ at(i) = len <=> i = r
             /\ i < r => AddWord(p, i) = ptr + at(i)
  <2>1. at(i) < len => p + i < Space
    BY <1>1, <1>2
  <2> QED BY <1>1, <1>2, <1>3, <2>1 DEF AddWord
<1> HIDE DEF at
<1>8. ASSUME r >= PolyBlock
      PROVE  MB[n + 1] = [bytes |-> BytesAt(mem, p), hibit |-> 1, r |-> Multiplier]
  <2>1. \A i \in 0 .. PolyBlock - 1 : i < r /\ i \in Nat
    BY <1>1, <1>8
  <2>2. bytes = BytesAt(mem, p)
    BY <1>7, <2>1 DEF BytesAt
  <2>3. at(PolyBlock - 1) < len
    BY <1>1, <1>7, <2>1
  <2> HIDE DEF bytes
  <2> QED BY <1>6, <2>2, <2>3
<1>9. ASSUME r < PolyBlock
      PROVE  /\ n + 1 = BlocksOf(len)
             /\ MB[n + 1] = [bytes |-> [PadBytes(mem, p, r) EXCEPT ![r] = Literal(1)],
                             hibit |-> 0, r |-> Multiplier]
  <2>1. BlocksOf(len) = n + 1
    BY <1>1, <1>9, BlocksOfNat
  <2>2. ASSUME NEW i \in 0 .. PolyBlock - 1
        PROVE  bytes[i] = [PadBytes(mem, p, r) EXCEPT ![r] = Literal(1)][i]
    BY <1>1, <1>7, <2>2 DEF PadBytes
  <2>3. bytes = [PadBytes(mem, p, r) EXCEPT ![r] = Literal(1)]
    BY <2>2 DEF PadBytes
  <2>4. ~(at(PolyBlock - 1) < len)
    BY <1>1, <1>7, <1>9
  <2> HIDE DEF bytes
  <2> QED BY <1>6, <2>1, <2>3, <2>4
<1> QED BY <1>3, <1>4, <1>8, <1>9 DEF MessageStep

(* After n blocks: what the accumulator held at the entry, then those.        *)
UpdatedTo(n) ==
  LET MB == MessageBlocks(mem, call.ptr, call.len)
      k  == Len(call.h.blocks)
  IN  /\ n \in 0 .. BlocksOf(call.len)
      /\ Len(poly_h.blocks) = k + n
      /\ \A b \in 1 .. k : poly_h.blocks[b] = call.h.blocks[b]
      /\ \A b \in 1 .. n : poly_h.blocks[k + b] = MB[b]

UpdateAt(n) ==
  /\ UpdatedTo(n)
  /\ IF cc20_remain = 0 THEN n = BlocksOf(call.len)
     ELSE /\ n * PolyBlock + cc20_remain = call.len
          /\ zp_ptr1 = call.ptr + n * PolyBlock

UpdateInv ==
  pc = "update" => /\ cc20_state = call.state
                   /\ \E n \in Nat : UpdateAt(n)

(* poly1305_block on the message's next block.                               *)
LEMMA UpdateGrows ==
  ASSUME TypeOK, pc = "update", NEW n \in Nat, UpdatedTo(n),
         n + 1 \in 1 .. BlocksOf(call.len),
         NEW bytes, NEW hibit, PolyAbsorb(bytes, hibit),
         MessageBlocks(mem, call.ptr, call.len)[n + 1]
           = [bytes |-> bytes, hibit |-> hibit, r |-> Multiplier],
         UNCHANGED <<mem, call, keyVars>>
  PROVE  UpdatedTo(n + 1)'
<1> DEFINE s == poly_h.blocks  k == Len(call.h.blocks)
           t == [bytes |-> bytes, hibit |-> hibit, r |-> Multiplier]
           MB == MessageBlocks(mem, call.ptr, call.len)
<1>1. s \in Seq(PolyTerm) /\ call.h.blocks \in Seq(PolyTerm) /\ k \in Nat
  <2>1. call.h \in Accumulator /\ poly_h \in Accumulator
    BY DEF TypeOK, PolyTypeOK, CallRecord
  <2> QED BY <2>1 DEF Accumulator
<1>0. n \in Nat /\ BlocksOf(call.len) \in Nat
  BY AddrNat, BlocksOfNat DEF TypeOK, CallRecord
<1>2. poly_h'.blocks = Append(s, t)
  BY DEF PolyAbsorb, Absorbed
<1>3. MessageBlocks(mem, call.ptr, call.len)' = MB /\ call' = call
  BY DEF MessageBlocks, Multiplier, keyVars
<1>4. Len(s) = k + n
  BY DEF UpdatedTo
<1>9. /\ \A b \in 1 .. k : s[b] = call.h.blocks[b]
      /\ \A b \in 1 .. n : s[k + b] = MB[b]
  BY DEF UpdatedTo
<1> HIDE DEF t, MB, k
<1>5. Len(Append(s, t)) = k + n + 1 /\ Append(s, t)[k + n + 1] = t
      /\ \A b \in 1 .. k + n : Append(s, t)[b] = s[b]
  <2>1. s \in Seq(PolyTerm \cup {t})
    BY <1>1
  <2> QED BY <1>4, <2>1, AppendProperties
<1>6. \A b \in 1 .. k : Append(s, t)[b] = call.h.blocks[b]
  BY <1>1, <1>0, <1>5, <1>9
<1>7. ASSUME NEW b \in 1 .. n + 1 PROVE Append(s, t)[k + b] = MB[b]
  <2>1. CASE b = n + 1
    <3>1. k + b = k + n + 1
      BY <1>1, <2>1
    <3> QED BY <1>5, <2>1, <3>1 DEF t, MB
  <2>2. CASE b # n + 1
    <3>1. b \in 1 .. n /\ k + b \in 1 .. k + n
      BY <1>1, <2>2
    <3> QED BY <1>5, <1>9, <3>1
  <2> QED BY <2>1, <2>2
<1>8. k + n + 1 = k + (n + 1) /\ n + 1 \in 0 .. BlocksOf(call.len)
  BY <1>0, <1>1
<1> QED BY <1>2, <1>3, <1>5, <1>6, <1>7, <1>8 DEF UpdatedTo, MB, k

LEMMA UpdateCaller == TypeOK /\ TypeOK' /\ CallerStep => UpdateInv'
<1> SUFFICES ASSUME TypeOK, TypeOK', CallerStep, pc' = "update" PROVE UpdateInv'
  BY DEF UpdateInv
<1>1. PICK x \in Extents : CallPolyUpdate(x)
  BY DEF CallerStep, CallerTurn, StoreByte, StoreTag, ReclaimTable, CallAead,
     CallChaChaInit, CallChaChaBlock, CallChaChaEncrypt, CallLibInit,
     CallPolyInit, CallPolyBlock, CallPolyFinal, Enter
<1>2. /\ call'.ptr = x.ptr /\ call'.len = x.len /\ call'.h = poly_h
      /\ call'.state = cc20_state /\ cc20_state' = cc20_state
      /\ poly_h' = poly_h /\ zp_ptr1' = x.ptr /\ cc20_remain' = x.len
  BY <1>1 DEF CallPolyUpdate, Enter, streamVars
<1>3. x.len \in Nat /\ x.ptr \in Nat /\ 0 * PolyBlock = 0 /\ PolyBlock \in Nat
  <2>1. x.ptr \in Addr /\ x.len \in Addr
    BY CallerAssumption
  <2> QED BY <2>1, AddrNat, Sizes, Z3
<1>4. BlocksOf(x.len) \in Nat /\ (x.len = 0 => BlocksOf(x.len) = 0)
  BY <1>3, BlocksOfNat
<1>5. Len(poly_h.blocks) \in Nat
  <2>1. poly_h.blocks \in Seq(PolyTerm)
    BY DEF TypeOK, PolyTypeOK, Accumulator
  <2> QED BY <2>1
<1>6. UpdatedTo(0)'
  BY <1>2, <1>4, <1>5 DEF UpdatedTo
<1>7. UpdateAt(0)'
  BY <1>2, <1>3, <1>4, <1>6 DEF UpdateAt
<1> QED BY <1>2, <1>7 DEF UpdateInv

LEMMA UpdateLib == TypeOK /\ StreamInv /\ UpdateInv /\ LibStep => UpdateInv'
<1> SUFFICES ASSUME TypeOK, StreamInv, UpdateInv, LibStep, pc' = "update"
             PROVE  UpdateInv'
  BY DEF UpdateInv
<1>1. pc = "update" /\ (UpdateFull \/ UpdatePartial)
  BY DEF LibStep, GuardReject, GuardAccept, DeriveOtk, LoadStream, StreamBlock,
         StreamDone, LoadAad, LoadCiphertext, PaddedFull, PaddedPartial,
         PaddedDone, AfterPadded, FinishTag, PublishTag, VerifyTag, UpdateDone, Return,
         UpdateFull, UpdatePartial
<1>2. /\ call' = call /\ mem' = mem /\ cc20_state' = cc20_state /\ keyVars' = keyVars
      /\ cc20_state = call.state
  BY <1>1 DEF UpdateFull, UpdatePartial, ghostVars, streamVars, UpdateInv
<1>3. PICK n \in Nat : UpdateAt(n)
  BY <1>1 DEF UpdateInv
<1>4. /\ call.ptr \in Addr /\ call.len \in Addr /\ call.ptr + call.len <= Space
      /\ cc20_remain \in Nat /\ PolyBlock \in Nat /\ PolyBlock > 1
      /\ call.ptr \in Nat /\ Space \in Nat /\ call.len \in Nat
  <2>1. call.ptr \in Addr /\ call.len \in Addr /\ call.ptr + call.len <= Space
    BY <1>1 DEF TypeOK, CallRecord, StreamInv, DomainOK
  <2>2. cc20_remain \in Nat
    BY Sizes DEF TypeOK, MemoryTypeOK, Byte
  <2> QED BY <2>1, <2>2, AddrNat, Sizes
<1>5. cc20_remain # 0 /\ cc20_remain \in Nat \ {0}
  BY <1>1, <1>4 DEF UpdateFull, UpdatePartial
<1> DEFINE MB == MessageBlocks(mem, call.ptr, call.len)  p == call.ptr + n * PolyBlock
<1>6. /\ n * PolyBlock + cc20_remain = call.len /\ zp_ptr1 = p /\ UpdatedTo(n)
  BY <1>3, <1>5 DEF UpdateAt
<1>7. /\ n + 1 \in 1 .. BlocksOf(call.len) /\ p \in Addr
      /\ cc20_remain >= PolyBlock =>
           MB[n + 1] = [bytes |-> BytesAt(mem, p), hibit |-> 1, r |-> Multiplier]
      /\ cc20_remain < PolyBlock =>
           /\ n + 1 = BlocksOf(call.len)
           /\ MB[n + 1] = [bytes |-> [PadBytes(mem, p, cc20_remain)
                                        EXCEPT ![cc20_remain] = Literal(1)],
                           hibit |-> 0, r |-> Multiplier]
  <2>1. MessageStep(call.ptr, call.len, n, cc20_remain)
    BY <1>4, <1>5, <1>6, MessageBlock
  <2> QED BY <2>1 DEF MessageStep
<1>8. /\ n * PolyBlock \in Nat /\ (n + 1) * PolyBlock = n * PolyBlock + PolyBlock
  BY <1>4, Z3
<1> HIDE DEF MB
<1>9. CASE UpdateFull
  <2>1. /\ cc20_remain >= PolyBlock /\ PolyAbsorb(BytesAt(mem, p), 1)
        /\ zp_ptr1' = AddWord(p, PolyBlock) /\ cc20_remain' = cc20_remain - PolyBlock
    BY <1>6, <1>9 DEF UpdateFull
  <2>2. UpdatedTo(n + 1)'
    BY <1>1, <1>2, <1>6, <1>7, <2>1, UpdateGrows DEF MB
  <2>3. CASE cc20_remain' = 0
    <3>1. call.len = (n + 1) * PolyBlock
      BY <1>4, <1>6, <1>8, <2>1, <2>3
    <3>2. BlocksOf(call.len) = n + 1
      BY <1>4, <3>1, BlocksOfNat
    <3>3. UpdateAt(n + 1)'
      BY <1>2, <2>2, <2>3, <3>2 DEF UpdateAt
    <3> QED BY <1>2, <3>3 DEF UpdateInv
  <2>4. CASE cc20_remain' # 0
    <3>1. (n + 1) * PolyBlock + cc20_remain' = call.len
      BY <1>4, <1>6, <1>8, <2>1
    <3>2. p + PolyBlock < Space
      BY <1>4, <1>6, <1>8, <2>1, <2>4
    <3>3. zp_ptr1' = call.ptr + (n + 1) * PolyBlock
      BY <1>4, <1>8, <2>1, <3>2 DEF AddWord
    <3>4. UpdateAt(n + 1)'
      BY <1>2, <2>2, <2>4, <3>1, <3>3 DEF UpdateAt
    <3> QED BY <1>2, <3>4 DEF UpdateInv
  <2> QED BY <2>3, <2>4
<1>10. CASE UpdatePartial
  <2>1. /\ cc20_remain < PolyBlock /\ cc20_remain' = 0
        /\ PolyAbsorb([PadBytes(mem, p, cc20_remain)
                         EXCEPT ![cc20_remain] = Literal(1)], 0)
    BY <1>4, <1>6, <1>10 DEF UpdatePartial
  <2>2. UpdatedTo(n + 1)'
    BY <1>1, <1>2, <1>6, <1>7, <2>1, UpdateGrows DEF MB
  <2>3. UpdateAt(n + 1)'
    BY <1>2, <1>7, <2>1, <2>2 DEF UpdateAt
  <2> QED BY <1>2, <2>3 DEF UpdateInv
<1> QED BY <1>1, <1>9, <1>10

LEMMA UpdateStutter == UpdateInv /\ UNCHANGED vars => UpdateInv'
<1> SUFFICES ASSUME UpdateInv, UNCHANGED vars PROVE UpdateInv' OBVIOUS
<1>1. /\ mem' = mem /\ call' = call /\ poly_h' = poly_h /\ zp_ptr1' = zp_ptr1
      /\ cc20_remain' = cc20_remain /\ cc20_state' = cc20_state /\ pc' = pc
      /\ r_tab' = r_tab /\ poly_r' = poly_r
  BY DEF vars, remainVars, streamVars, keyVars, blockVars, macVars, ghostVars
<1>2. \A n : UpdateAt(n)' <=> UpdateAt(n)
  BY <1>1 DEF UpdateAt, UpdatedTo, MessageBlocks, Multiplier
<1> QED BY <1>1, <1>2 DEF UpdateInv

LEMMA UpdateInvariant == Spec => []UpdateInv
<1>1. Init => UpdateInv
  BY DEF Init, UpdateInv
<1>2. TypeOK /\ TypeOK' /\ StreamInv /\ UpdateInv /\ [Next]_vars => UpdateInv'
  BY UpdateCaller, UpdateLib, UpdateStutter DEF Next
<1> QED BY <1>1, <1>2, TypeCorrect, StreamInvariant, PTL DEF Spec

(* In every execution poly1305_update has the accumulator absorb its message, *)
(* whole, once and in order, after what it held, and touches nothing else.    *)
THEOREM UpdateCorrect == Spec => []UpdateAbsorbs
<1>1. ASSUME TypeOK, StreamInv, UpdateInv PROVE UpdateAbsorbs
  <2> SUFFICES ASSUME pc = "update", cc20_remain = 0
               PROVE  /\ poly_h.blocks = call.h.blocks
                                           \o MessageBlocks(mem, call.ptr, call.len)
                      /\ mem = call.mem /\ cc20_state = call.state
    BY DEF UpdateAbsorbs
  <2> DEFINE MB == MessageBlocks(mem, call.ptr, call.len)
             s == poly_h.blocks  f == call.h.blocks  n == BlocksOf(call.len)
             S == PolyTerm \cup {MB[b] : b \in 1 .. n}
  <2>1. mem = call.mem /\ cc20_state = call.state
    BY <1>1 DEF StreamInv, Untouched, UpdateInv
  <2>2. UpdatedTo(n)
    BY <1>1 DEF UpdateInv, UpdateAt
  <2>3. s \in Seq(PolyTerm) /\ f \in Seq(PolyTerm)
    <3>1. call.h \in Accumulator /\ poly_h \in Accumulator
      BY <1>1 DEF TypeOK, PolyTypeOK, CallRecord
    <3> QED BY <3>1 DEF Accumulator
  <2>4. n \in Nat /\ DOMAIN MB = 1 .. n /\ MB = [b \in 1 .. n |-> MB[b]]
    <3>1. call.len \in Nat
      BY <1>1, AddrNat DEF TypeOK, CallRecord
    <3> QED BY <3>1, BlocksOfNat DEF MessageBlocks, BlocksOf
  <2>5. /\ Len(s) = Len(f) + n
        /\ \A b \in 1 .. Len(f) : s[b] = f[b]
        /\ \A b \in 1 .. n : s[Len(f) + b] = MB[b]
    BY <2>2 DEF UpdatedTo
  <2> HIDE DEF MB, n
  <2>10. PolyTerm \subseteq S /\ \A b \in 1 .. n : MB[b] \in S
    OBVIOUS
  <2> HIDE DEF S
  <2>6. s \in Seq(S) /\ f \in Seq(S) /\ MB \in Seq(S) /\ Len(MB) = n
    <3>1. \A q \in Seq(PolyTerm) : q \in Seq(S)
      BY <2>10
    <3>2. MB \in [1 .. n -> S]
      BY <2>4, <2>10
    <3>3. MB \in Seq(S) /\ Len(MB) = n
      BY <2>4, <3>2, LenProperties, SeqDef
    <3> QED BY <2>3, <3>1, <3>3
  <2>7. /\ f \o MB \in Seq(S) /\ Len(f \o MB) = Len(f) + n
        /\ \A i \in 1 .. Len(f) + n :
             (f \o MB)[i] = IF i <= Len(f) THEN f[i] ELSE MB[i - Len(f)]
    BY <2>6, ConcatProperties
  <2>8. \A i \in 1 .. Len(s) : s[i] = (f \o MB)[i]
    <3> TAKE i \in 1 .. Len(s)
    <3> DEFINE k == Len(f)
    <3>1. k \in Nat /\ i \in 1 .. k + n
      BY <2>3, <2>5
    <3>0. /\ \A b \in 1 .. k : s[b] = f[b]
          /\ \A b \in 1 .. n : s[k + b] = MB[b]
          /\ (f \o MB)[i] = IF i <= k THEN f[i] ELSE MB[i - k]
      BY <2>5, <2>7, <3>1
    <3> HIDE DEF k
    <3>2. CASE i <= k
      <4>1. i \in 1 .. k
        BY <3>1, <3>2
      <4> QED BY <3>0, <3>2, <4>1
    <3>3. CASE i > k
      <4>1. i - k \in 1 .. n /\ i = k + (i - k) /\ ~(i <= k)
        BY <2>4, <3>1, <3>3
      <4>2. s[k + (i - k)] = MB[i - k]
        BY <3>0, <4>1
      <4> QED BY <3>0, <4>1, <4>2
    <3>4. i <= k \/ i > k
      BY <2>4, <3>1
    <3> QED BY <3>2, <3>3, <3>4
  <2>9. s = f \o MB
    BY <2>5, <2>6, <2>7, <2>8, SeqEqual
  <2> QED BY <2>1, <2>9 DEF MB
<1> QED BY <1>1, TypeCorrect, StreamInvariant, UpdateInvariant, PTL

-----------------------------------------------------------------------------
(* The channel.                                                             *)

(* The same n bytes at p in m and at q in w.                                  *)
SameBytes(m, p, w, q, n) == \A j \in 0 .. n - 1 : m[p + j] = w[q + j]

(* What a packet consists of, but for its tag.                                *)
SameMessage(r, m, q, w) ==
  /\ r.key = q.key /\ r.nonce = q.nonce
  /\ r.aad_len = q.aad_len /\ SameBytes(m, r.aad_ptr, w, q.aad_ptr, r.aad_len)
  /\ r.data_len = q.data_len /\ SameBytes(m, r.data_ptr, w, q.data_ptr, r.data_len)

(* Padding loses no byte of a buffer whose length is known, and adds none.     *)
LEMMA PadBlocksSame ==
  ASSUME NEW m, NEW w, NEW p \in Nat, NEW q \in Nat, NEW n \in Nat
  PROVE  SameBytes(m, p, w, q, n)
           <=> \A b \in 1 .. BlocksOf(n) : PadBlock(m, p, n, b) = PadBlock(w, q, n, b)
<1>1. PolyBlock \in Nat /\ PolyBlock > 1
  BY Sizes
<1>2. ASSUME SameBytes(m, p, w, q, n), NEW b \in 1 .. BlocksOf(n)
      PROVE  PadBlock(m, p, n, b) = PadBlock(w, q, n, b)
  <2>1. ASSUME NEW i \in 0 .. PolyBlock - 1, (b - 1) * PolyBlock + i < n
        PROVE  m[p + ((b - 1) * PolyBlock + i)] = w[q + ((b - 1) * PolyBlock + i)]
    <3>1. BlocksOf(n) \in Nat
      BY BlocksOfNat
    <3>2. (b - 1) * PolyBlock \in Nat
      BY <1>1, <3>1, Z3
    <3>3. (b - 1) * PolyBlock + i \in 0 .. n - 1
      BY <1>1, <2>1, <3>2
    <3> QED BY <1>2, <3>3 DEF SameBytes
  <2> QED BY <2>1 DEF PadBlock
<1>3. ASSUME \A b \in 1 .. BlocksOf(n) : PadBlock(m, p, n, b) = PadBlock(w, q, n, b),
             NEW j \in 0 .. n - 1
      PROVE  m[p + j] = w[q + j]
  <2> DEFINE d == j \div PolyBlock  i == j % PolyBlock
  <2>1. d \in Nat /\ i \in 0 .. PolyBlock - 1 /\ j = d * PolyBlock + i
    BY <1>1, DivParts
  <2> HIDE DEF d, i
  <2>2. d + 1 \in 1 .. BlocksOf(n)
    <3> DEFINE x == n + PolyBlock - 1  e == x \div PolyBlock  y == x % PolyBlock
    <3>1. x \in Nat
      BY <1>1
    <3>2. e \in Nat /\ y \in 0 .. PolyBlock - 1 /\ x = e * PolyBlock + y
      BY <1>1, <3>1, DivParts
    <3>3. d * PolyBlock \in Nat /\ (d + 1) * PolyBlock = d * PolyBlock + PolyBlock
      BY <1>1, <2>1, Z3
    <3>4. x >= (d + 1) * PolyBlock
      BY <1>1, <2>1, <3>3
    <3> HIDE DEF x, e, y
    <3>5. ASSUME e <= d PROVE FALSE
      <4>1. e * PolyBlock <= d * PolyBlock /\ e * PolyBlock \in Nat
        BY <1>1, <2>1, <3>2, <3>5, Z3
      <4> QED BY <1>1, <3>1, <3>2, <3>3, <3>4, <4>1
    <3> QED BY <2>1, <3>2, <3>5 DEF BlocksOf, x, e
  <2>3. PadBlock(m, p, n, d + 1)[i] = PadBlock(w, q, n, d + 1)[i]
    BY <1>3, <2>2
  <2>4. (d + 1) - 1 = d /\ j < n
    BY <2>1
  <2>5. PadBlock(m, p, n, d + 1)[i] = m[p + j] /\ PadBlock(w, q, n, d + 1)[i] = w[q + j]
    BY <2>1, <2>4 DEF PadBlock
  <2> QED BY <2>3, <2>5
<1> QED BY <1>2, <1>3 DEF SameBytes

LEMMA LiteralInjective ==
  ASSUME NEW v \in Byte, NEW w \in Byte, Literal(v) = Literal(w) PROVE v = w
<1>1. CASE v = 0
  BY <1>1 DEF Literal, Zero
<1>2. CASE v # 0 /\ w = 0
  BY <1>2 DEF Literal, Zero
<1>3. CASE v # 0 /\ w # 0
  <2>1. {<<v>>} = {<<w>>}
    BY <1>3 DEF Literal
  <2>2. <<v>> = <<w>>
    BY <2>1
  <2> QED BY <2>2
<1> QED BY <1>1, <1>2, <1>3

(* The lengths block tells any two pairs of lengths apart.                    *)
LEMMA LengthsInjective ==
  ASSUME NEW a \in Byte, NEW d \in Addr, NEW b \in Byte, NEW e \in Addr,
         LengthsBlock(a, d) = LengthsBlock(b, e)
  PROVE  a = b /\ d = e
<1> DEFINE half == PolyBlock \div 2
<1>1. half \in Nat /\ half >= 2 /\ half + 1 <= PolyBlock - 1
  BY Sizes, Z3
<1>2. \A x \in Byte, y \in Addr :
        /\ LengthsBlock(x, y)[0] = Literal(x)
        /\ LengthsBlock(x, y)[half] = Literal(Lo(y))
        /\ LengthsBlock(x, y)[half + 1] = Literal(Hi(y))
  <2> TAKE x \in Byte, y \in Addr
  <2> HIDE DEF half
  <2>1. LengthsBlock(x, y) = [ZeroBlock EXCEPT ![0] = Literal(x),
                                ![half] = Literal(Lo(y)), ![half + 1] = Literal(Hi(y))]
    BY DEF LengthsBlock, half
  <2>2. DOMAIN ZeroBlock = 0 .. PolyBlock - 1 /\ PolyBlock \in Nat
    BY Sizes DEF ZeroBlock
  <2> QED BY <1>1, <2>1, <2>2
<1> HIDE DEF half
<1>3. /\ Lo(d) \in Byte /\ Hi(d) \in Byte /\ d = Lo(d) + Radix * Hi(d)
      /\ Lo(e) \in Byte /\ Hi(e) \in Byte /\ e = Lo(e) + Radix * Hi(e)
  BY LoHi
<1>4. /\ Literal(a) = Literal(b) /\ Literal(Lo(d)) = Literal(Lo(e))
      /\ Literal(Hi(d)) = Literal(Hi(e))
  BY <1>2
<1>5. a = b /\ Lo(d) = Lo(e) /\ Hi(d) = Hi(e)
  BY <1>3, <1>4, LiteralInjective
<1> QED BY <1>3, <1>5

(* Two packets have the same tag only if they are the same: one key and nonce, *)
(* the same bytes, cut at the same place.                                    *)
LEMMA TagInjective ==
  ASSUME NEW r \in AeadInput, NEW q \in AeadInput, NEW m, NEW w
  PROVE  TagOf(r, m, m) = TagOf(q, w, w) <=> SameMessage(r, m, q, w)
<1> DEFINE na == AadBlocks(r)  nd == DataBlocks(r)
<1>1. /\ r.aad_ptr \in Nat /\ r.aad_len \in Nat /\ r.data_ptr \in Nat /\ r.data_len \in Nat
      /\ q.aad_ptr \in Nat /\ q.aad_len \in Nat /\ q.data_ptr \in Nat /\ q.data_len \in Nat
      /\ r.aad_len \in Byte /\ r.data_len \in Addr
      /\ q.aad_len \in Byte /\ q.data_len \in Addr
  BY InputTypes, AddrNat
<1>2. /\ na \in Nat /\ nd \in Nat /\ TextLen(r) = na + nd + 1
      /\ AadBlocks(q) \in Nat /\ DataBlocks(q) \in Nat
      /\ TextLen(q) = AadBlocks(q) + DataBlocks(q) + 1
  BY TextSizes DEF TextLen
<1>3. /\ TextBlock(r, m, m, TextLen(r)) = LengthsBlock(r.aad_len, r.data_len)
      /\ TextBlock(q, w, w, TextLen(q)) = LengthsBlock(q.aad_len, q.data_len)
  BY <1>2, TextRegions
<1>4. ASSUME r.aad_len = q.aad_len, r.data_len = q.data_len
      PROVE  AadBlocks(q) = na /\ DataBlocks(q) = nd /\ TextLen(q) = TextLen(r)
  BY <1>2, <1>4 DEF AadBlocks, DataBlocks
<1>5. ASSUME TagOf(r, m, m) = TagOf(q, w, w) PROVE SameMessage(r, m, q, w)
  <2>1. Half(OtkOf(r), 1) = Half(OtkOf(q), 1)
    BY <1>5 DEF TagOf
  <2>2. r.key = q.key /\ r.nonce = q.nonce
    BY <2>1 DEF Half, OtkOf
  <2>3. TextTerms(r, m, m, TextLen(r)) = TextTerms(q, w, w, TextLen(q))
    BY <1>5 DEF TagOf
  <2>4. 1 .. TextLen(r) = 1 .. TextLen(q)
    BY <2>3 DEF TextTerms
  <2>5. TextLen(r) = TextLen(q)
    BY <1>2, <2>4
  <2>6. ASSUME NEW b \in 1 .. TextLen(r)
        PROVE  TextBlock(r, m, m, b) = TextBlock(q, w, w, b)
    <3>1. /\ TextTerms(r, m, m, TextLen(r))[b].bytes = TextBlock(r, m, m, b)
          /\ TextTerms(q, w, w, TextLen(q))[b].bytes = TextBlock(q, w, w, b)
      BY <2>5 DEF TextTerms
    <3> QED BY <2>3, <3>1
  <2>7. r.aad_len = q.aad_len /\ r.data_len = q.data_len
    <3>1. TextLen(r) \in 1 .. TextLen(r)
      BY <1>2
    <3>2. LengthsBlock(r.aad_len, r.data_len) = LengthsBlock(q.aad_len, q.data_len)
      BY <1>3, <2>5, <2>6, <3>1
    <3> QED BY <1>1, <3>2, LengthsInjective
  <2>8. SameBytes(m, r.aad_ptr, w, q.aad_ptr, r.aad_len)
    <3>1. ASSUME NEW b \in 1 .. BlocksOf(r.aad_len)
          PROVE  PadBlock(m, r.aad_ptr, r.aad_len, b) = PadBlock(w, q.aad_ptr, r.aad_len, b)
      <4>1. b \in 1 .. na /\ b <= AadBlocks(q) /\ b <= na /\ b \in 1 .. TextLen(r)
        BY <1>2, <1>4, <2>7 DEF AadBlocks
      <4> QED BY <2>6, <2>7, <4>1 DEF TextBlock
    <3> QED BY <1>1, <3>1, PadBlocksSame
  <2>9. SameBytes(m, r.data_ptr, w, q.data_ptr, r.data_len)
    <3>1. ASSUME NEW b \in 1 .. BlocksOf(r.data_len)
          PROVE  PadBlock(m, r.data_ptr, r.data_len, b)
                   = PadBlock(w, q.data_ptr, r.data_len, b)
      <4>1. b \in 1 .. nd
        BY DEF DataBlocks
      <4> HIDE DEF na, nd
      <4>2. /\ na + b \in 1 .. TextLen(r) /\ ~(na + b <= na) /\ na + b <= na + nd
            /\ (na + b) - na = b
        BY <1>2, <4>1
      <4>3. TextBlock(r, m, m, na + b) = PadBlock(m, r.data_ptr, r.data_len, b)
        BY <4>2 DEF TextBlock, na, nd
      <4>4. TextBlock(q, w, w, na + b) = PadBlock(w, q.data_ptr, r.data_len, b)
        BY <1>4, <2>7, <4>2 DEF TextBlock
      <4> QED BY <2>6, <4>2, <4>3, <4>4
    <3> QED BY <1>1, <3>1, PadBlocksSame
  <2> QED BY <2>2, <2>7, <2>8, <2>9 DEF SameMessage
<1>6. ASSUME SameMessage(r, m, q, w) PROVE TagOf(r, m, m) = TagOf(q, w, w)
  <2>1. /\ r.key = q.key /\ r.nonce = q.nonce /\ r.aad_len = q.aad_len
        /\ r.data_len = q.data_len
    BY <1>6 DEF SameMessage
  <2>2. OtkOf(r) = OtkOf(q)
    BY <2>1 DEF OtkOf
  <2>3. /\ \A b \in 1 .. na : PadBlock(m, r.aad_ptr, r.aad_len, b)
                                = PadBlock(w, q.aad_ptr, r.aad_len, b)
        /\ \A b \in 1 .. nd : PadBlock(m, r.data_ptr, r.data_len, b)
                                = PadBlock(w, q.data_ptr, r.data_len, b)
    BY <1>1, <1>6, PadBlocksSame DEF SameMessage, AadBlocks, DataBlocks
  <2>4. ASSUME NEW b \in 1 .. TextLen(r)
        PROVE  TextBlock(r, m, m, b) = TextBlock(q, w, w, b)
    <3>1. b \in 1 .. na + nd + 1 /\ AadBlocks(q) = na /\ DataBlocks(q) = nd
      BY <1>2, <1>4, <2>1
    <3> HIDE DEF na, nd
    <3>2. CASE b <= na
      <4>1. b \in 1 .. na
        BY <1>2, <3>1, <3>2
      <4> QED BY <2>1, <2>3, <3>1, <3>2, <4>1 DEF TextBlock, na
    <3>3. CASE ~(b <= na) /\ b <= na + nd
      <4>1. b - na \in 1 .. nd
        BY <1>2, <3>1, <3>3
      <4>2. PadBlock(m, r.data_ptr, r.data_len, b - na)
              = PadBlock(w, q.data_ptr, r.data_len, b - na)
        BY <2>3, <4>1
      <4> QED BY <2>1, <3>1, <3>3, <4>2 DEF TextBlock, na, nd
    <3>4. CASE ~(b <= na) /\ ~(b <= na + nd)
      BY <2>1, <3>1, <3>4 DEF TextBlock, na, nd
    <3> QED BY <3>2, <3>3, <3>4
  <2>5. TextLen(r) = TextLen(q)
    BY <1>4, <2>1
  <2>6. TextTerms(r, m, m, TextLen(r)) = TextTerms(q, w, w, TextLen(q))
    BY <2>2, <2>4, <2>5 DEF TextTerms
  <2> QED BY <2>2, <2>6 DEF TagOf
<1> QED BY <1>5, <1>6

LEMMA TextSame ==
  ASSUME NEW m, NEW w, NEW p \in Nat, NEW q \in Nat, NEW n \in Nat, NEW k \in Nat
  PROVE  Text(m, p, n) = Text(w, q, k) <=> n = k /\ SameBytes(m, p, w, q, n)
<1>1. ASSUME Text(m, p, n) = Text(w, q, k) PROVE n = k /\ SameBytes(m, p, w, q, n)
  <2>1. 1 .. n = 1 .. k
    BY <1>1 DEF Text
  <2>2. n = k
    BY <2>1
  <2>3. ASSUME NEW j \in 0 .. n - 1 PROVE m[p + j] = w[q + j]
    <3>1. j + 1 \in 1 .. n /\ p + (j + 1) - 1 = p + j /\ q + (j + 1) - 1 = q + j
      OBVIOUS
    <3>2. Text(m, p, n)[j + 1] = m[p + j] /\ Text(w, q, k)[j + 1] = w[q + j]
      BY <2>2, <3>1 DEF Text
    <3> QED BY <1>1, <3>2
  <2> QED BY <2>2, <2>3 DEF SameBytes
<1>2. ASSUME n = k, SameBytes(m, p, w, q, n) PROVE Text(m, p, n) = Text(w, q, k)
  <2>1. ASSUME NEW i \in 1 .. n PROVE m[p + i - 1] = w[q + i - 1]
    <3>1. i - 1 \in 0 .. n - 1 /\ p + (i - 1) = p + i - 1 /\ q + (i - 1) = q + i - 1
      OBVIOUS
    <3>2. m[p + (i - 1)] = w[q + (i - 1)]
      BY <1>2, <3>1 DEF SameBytes
    <3> QED BY <3>1, <3>2
  <2> QED BY <1>2, <2>1 DEF Text
<1> QED BY <1>1, <1>2

LEMMA PacketSame ==
  ASSUME NEW r \in AeadInput, NEW q \in AeadInput, NEW m, NEW w, NEW t, NEW u
  PROVE  Packet(r, m, t) = Packet(q, w, u) <=> t = u /\ SameMessage(r, m, q, w)
<1>1. /\ r.aad_ptr \in Nat /\ r.aad_len \in Nat /\ r.data_ptr \in Nat /\ r.data_len \in Nat
      /\ q.aad_ptr \in Nat /\ q.aad_len \in Nat /\ q.data_ptr \in Nat /\ q.data_len \in Nat
  BY InputTypes, AddrNat
<1>2. Packet(r, m, t) = Packet(q, w, u)
        <=> /\ r.key = q.key /\ r.nonce = q.nonce /\ t = u
            /\ Text(m, r.aad_ptr, r.aad_len) = Text(w, q.aad_ptr, q.aad_len)
            /\ Text(m, r.data_ptr, r.data_len) = Text(w, q.data_ptr, q.data_len)
  BY DEF Packet
<1>3. Text(m, r.aad_ptr, r.aad_len) = Text(w, q.aad_ptr, q.aad_len)
        <=> /\ r.aad_len = q.aad_len
            /\ SameBytes(m, r.aad_ptr, w, q.aad_ptr, r.aad_len)
  <2> DEFINE a == r.aad_ptr  b == q.aad_ptr  n == r.aad_len  k == q.aad_len
  <2>1. a \in Nat /\ b \in Nat /\ n \in Nat /\ k \in Nat
    BY <1>1
  <2> HIDE DEF a, b, n, k
  <2>2. Text(m, a, n) = Text(w, b, k) <=> n = k /\ SameBytes(m, a, w, b, n)
    BY <2>1, TextSame
  <2> QED BY <2>2 DEF a, b, n, k
<1>4. Text(m, r.data_ptr, r.data_len) = Text(w, q.data_ptr, q.data_len)
        <=> /\ r.data_len = q.data_len
            /\ SameBytes(m, r.data_ptr, w, q.data_ptr, r.data_len)
  <2> DEFINE a == r.data_ptr  b == q.data_ptr  n == r.data_len  k == q.data_len
  <2>1. a \in Nat /\ b \in Nat /\ n \in Nat /\ k \in Nat
    BY <1>1
  <2> HIDE DEF a, b, n, k
  <2>2. Text(m, a, n) = Text(w, b, k) <=> n = k /\ SameBytes(m, a, w, b, n)
    BY <2>1, TextSame
  <2> QED BY <2>2 DEF a, b, n, k
<1> QED BY <1>2, <1>3, <1>4 DEF SameMessage

-----------------------------------------------------------------------------
(* What has been sealed, and where a tag in aead_tag can come from.           *)

FirstBlock(r) == [key |-> r.key, nonce |-> r.nonce, ctr |-> 1]

(* Packet and text p came out of the fields of some request r, which found     *)
(* memory as w and left it as m.                                             *)
SealedBy(p, r, w, m) ==
  /\ Abstract!Fits(r)
  /\ m = Abstract!Streamed(w, r.data_ptr, r.data_len, FirstBlock(r))
  /\ p.packet = Packet(r, m, TagOf(r, m, m))
  /\ p.text = Text(w, r.data_ptr, r.data_len)

SealedOK ==
  \A p \in sealed :
    \E r \in AeadInput, w \in [Addr -> ByteValue], m \in [Addr -> ByteValue] :
      SealedBy(p, r, w, m)

TagKnown ==
  aead_tag \in StrayTags \cup {ZeroTag} \cup {p.packet.tag : p \in sealed}

ChannelInv == SealedOK /\ TagKnown

LEMMA TagOfComputed ==
  ASSUME NEW r \in AeadInput, Abstract!Fits(r), NEW m \in [Addr -> ByteValue]
  PROVE  TagOf(r, m, m) \in ComputedTag
<1>1. /\ r.aad_ptr \in Addr /\ r.aad_len \in Addr /\ r.aad_len \in Byte
      /\ r.data_ptr \in Addr /\ r.data_len \in Addr
      /\ OtkOf(r) \in ChaState
      /\ r.aad_ptr + r.aad_len <= Space /\ r.data_ptr + r.data_len <= Space
  BY InputTypes DEF Abstract!Fits, Abstract!Space, Space, OtkOf
<1>2. /\ Half(OtkOf(r), 1) \in OtkHalf /\ Clamp(Half(OtkOf(r), 0)) \in OtkHalf
  BY <1>1, HalfType
<1>3. /\ AadBlocks(r) \in Nat /\ DataBlocks(r) \in Nat /\ TextLen(r) \in Nat
  BY TextSizes
<1>4. ASSUME NEW b \in 1 .. TextLen(r) PROVE TextBlock(r, m, m, b) \in BlockBytes
  <2>1. CASE b <= AadBlocks(r)
    <3>1. b \in Nat \ {0}
      BY <1>3
    <3> QED BY <1>1, <2>1, <3>1, PadBlockType DEF TextBlock
  <2>2. CASE ~(b <= AadBlocks(r)) /\ b <= AadBlocks(r) + DataBlocks(r)
    <3>1. b - AadBlocks(r) \in Nat \ {0}
      BY <1>3, <2>2
    <3> QED BY <1>1, <2>2, <3>1, PadBlockType DEF TextBlock
  <2>3. CASE ~(b <= AadBlocks(r)) /\ ~(b <= AadBlocks(r) + DataBlocks(r))
    BY <1>1, <2>3, LengthsBlockType DEF TextBlock
  <2> QED BY <2>1, <2>2, <2>3
<1> DEFINE T == TextTerms(r, m, m, TextLen(r))
<1>5. \A b \in 1 .. TextLen(r) : T[b] \in PolyTerm
  BY <1>2, <1>4 DEF TextTerms, PolyTerm
<1>6. T = [b \in 1 .. TextLen(r) |-> T[b]]
  BY DEF TextTerms
<1> HIDE DEF T
<1>7. T \in Seq(PolyTerm)
  <2>1. T \in [1 .. TextLen(r) -> PolyTerm]
    BY <1>5, <1>6
  <2> QED BY <1>3, <2>1, SeqDef
<1>8. [clean |-> TRUE, blocks |-> T] \in Accumulator
  BY <1>7 DEF Accumulator
<1> QED BY <1>2, <1>8 DEF TagOf, T, ComputedTag

(* A tag that compares equal to a computed one was sealed, with the packet     *)
(* that it was computed for.                                                 *)
LEMMA MatchSealed ==
  ASSUME TagsApart, ChannelInv, NEW q \in AeadInput, Abstract!Fits(q),
         NEW w \in [Addr -> ByteValue], aead_tag = TagOf(q, w, w)
  PROVE  \E p \in sealed : p.packet = Packet(q, w, aead_tag)
<1>1. aead_tag \in ComputedTag
  BY TagOfComputed
<1>2. PICK p \in sealed : aead_tag = p.packet.tag
  BY <1>1 DEF ChannelInv, TagKnown, TagsApart
<1>3. PICK r \in AeadInput, v \in [Addr -> ByteValue], m \in [Addr -> ByteValue] :
        SealedBy(p, r, v, m)
  BY DEF ChannelInv, SealedOK
<1>4. p.packet = Packet(r, m, TagOf(r, m, m)) /\ p.packet.tag = TagOf(r, m, m)
  BY <1>3 DEF SealedBy, Packet
<1>5. SameMessage(r, m, q, w)
  BY <1>2, <1>4, TagInjective
<1>6. Packet(r, m, TagOf(r, m, m)) = Packet(q, w, aead_tag)
  BY <1>2, <1>4, <1>5, PacketSame
<1> QED BY <1>4, <1>6

LEMMA ChannelExact ==
  ASSUME TagsApart, TypeOK, KeyInv, StreamInv, TagInv, ChannelInv
  PROVE  OpensExactlySealed
<1> SUFFICES ASSUME pc = "verify", op = "decrypt"
             PROVE  poly1305_tag = aead_tag
                      <=> \E p \in sealed : p.packet = Packet(aead_in, mem, aead_tag)
  BY DEF OpensExactlySealed
<1>1. /\ aead_in \in AeadInput /\ mem \in [Addr -> ByteValue] /\ Abstract!Fits(aead_in)
  BY DEF TypeOK, MemoryTypeOK, Abstract!Fits, Abstract!Space, Space, TagInv,
         AadDomainOK, StreamInv, DomainOK, EntryOK, InAead
<1>2. poly1305_tag = TagOf(aead_in, mem, mem)
  BY DEF TagInv, Computed, StreamInv, Untouched
<1>3. ASSUME poly1305_tag = aead_tag
      PROVE  \E p \in sealed : p.packet = Packet(aead_in, mem, aead_tag)
  BY <1>1, <1>2, <1>3, MatchSealed
<1>4. ASSUME NEW p \in sealed, p.packet = Packet(aead_in, mem, aead_tag)
      PROVE  poly1305_tag = aead_tag
  <2>1. PICK r \in AeadInput, v \in [Addr -> ByteValue], m \in [Addr -> ByteValue] :
          SealedBy(p, r, v, m)
    BY DEF ChannelInv, SealedOK
  <2>2. Packet(r, m, TagOf(r, m, m)) = Packet(aead_in, mem, aead_tag)
    BY <1>4, <2>1 DEF SealedBy
  <2>3. TagOf(r, m, m) = aead_tag /\ SameMessage(r, m, aead_in, mem)
    BY <1>1, <2>2, PacketSame
  <2>4. TagOf(r, m, m) = TagOf(aead_in, mem, mem)
    BY <1>1, <2>3, TagInjective
  <2> QED BY <1>2, <2>3, <2>4
<1> QED BY <1>3, <1>4

LEMMA XorTwice == ASSUME NEW x, NEW y PROVE Xor(Xor(x, y), y) = x
BY DEF Xor

(* A byte of the streamed part, by its distance from the start.               *)
LEMMA StreamedByte ==
  ASSUME NEW m, NEW k, NEW p \in Nat, NEW n \in Nat, NEW j \in 0 .. n - 1,
         p + j \in Addr
  PROVE  Abstract!Streamed(m, p, n, k)[p + j]
           = Xor(m[p + j], KsByte(Abstract!BlockAfter(k, j \div ChaBlock), j % ChaBlock))
<1> DEFINE after == Abstract!Streamed(m, p, n, k)
           ks(i) == KsByte(Abstract!BlockAfter(k, i \div ChaBlock), i % ChaBlock)
<1>1. after = [a \in Addr |-> IF a \in p .. p + n - 1 THEN Xor(m[a], ks(a - p)) ELSE m[a]]
  BY DEF Abstract!Streamed, Abstract!Addr, Abstract!Space, Abstract!Xor,
       Abstract!KsByte, Addr, Space, Xor, KsByte
<1> HIDE DEF after, ks
<1>2. p + j \in p .. p + n - 1 /\ (p + j) - p = j
  OBVIOUS
<1>3. after[p + j] = Xor(m[p + j], ks(j))
  BY <1>1, <1>2
<1> QED BY <1>3 DEF after, ks

(* The stream XORed in twice is gone.                                         *)
LEMMA StreamedTwice ==
  ASSUME NEW m, NEW v, NEW k, NEW p \in Nat, NEW q \in Nat, NEW n \in Nat,
         p + n <= Space, q + n <= Space,
         SameBytes(Abstract!Streamed(m, p, n, k), p, v, q, n)
  PROVE  SameBytes(m, p, Abstract!Streamed(v, q, n, k), q, n)
<1>1. ASSUME NEW j \in 0 .. n - 1
      PROVE  m[p + j] = Abstract!Streamed(v, q, n, k)[q + j]
  <2> DEFINE ks == KsByte(Abstract!BlockAfter(k, j \div ChaBlock), j % ChaBlock)
  <2>1. p + j \in Addr /\ q + j \in Addr
    BY Sizes DEF Addr
  <2>2. Abstract!Streamed(m, p, n, k)[p + j] = Xor(m[p + j], ks)
    BY <2>1, StreamedByte
  <2>3. Abstract!Streamed(v, q, n, k)[q + j] = Xor(v[q + j], ks)
    BY <2>1, StreamedByte
  <2>4. Abstract!Streamed(m, p, n, k)[p + j] = v[q + j]
    BY DEF SameBytes
  <2> QED BY <2>2, <2>3, <2>4, XorTwice
<1> QED BY <1>1 DEF SameBytes

LEMMA ChannelTexts ==
  ASSUME TagsApart, TypeOK, KeyInv, StreamInv, TagInv, ChannelInv
  PROVE  OpensToSealedText
<1> SUFFICES ASSUME pc = "stream", op = "decrypt", Drained
             PROVE  \E p \in sealed :
                      /\ p.packet = Packet(aead_in, call.mem, aead_tag)
                      /\ p.text = Text(mem, aead_in.data_ptr, aead_in.data_len)
  BY DEF OpensToSealedText
<1>1. /\ aead_in \in AeadInput /\ call.mem \in [Addr -> ByteValue]
      /\ Abstract!Fits(aead_in)
  BY DEF TypeOK, CallRecord, Abstract!Fits, Abstract!Space, Space, TagInv,
         AadDomainOK, StreamInv, DomainOK, EntryOK, InAead
<1>2. aead_tag = TagOf(aead_in, call.mem, call.mem)
  BY DEF TagInv, Computed, StreamInv, Verified
<1>3. PICK p \in sealed : p.packet = Packet(aead_in, call.mem, aead_tag)
  BY <1>1, <1>2, MatchSealed
<1>4. PICK r \in AeadInput, w \in [Addr -> ByteValue], m \in [Addr -> ByteValue] :
        SealedBy(p, r, w, m)
  BY DEF ChannelInv, SealedOK
<1>5. SameMessage(r, m, aead_in, call.mem)
  <2>1. Packet(r, m, TagOf(r, m, m)) = Packet(aead_in, call.mem, aead_tag)
    BY <1>3, <1>4 DEF SealedBy
  <2> QED BY <1>1, <2>1, PacketSame
<1>6. mem = Abstract!Streamed(call.mem, aead_in.data_ptr, aead_in.data_len,
                              FirstBlock(aead_in))
  <2>1. Remain = 0 /\ call.len \in Nat
    BY RemainRange, AddrNat DEF TypeOK, CallRecord
  <2>2. Done = call.len
    BY <2>1 DEF Done
  <2> QED BY <2>2, StreamPositionParts
          DEF StreamInv, Positioned, EntryOK, InAead, FirstBlock
<1>7. /\ FirstBlock(r) = FirstBlock(aead_in) /\ r.data_len = aead_in.data_len
      /\ SameBytes(m, r.data_ptr, call.mem, aead_in.data_ptr, r.data_len)
  BY <1>5 DEF SameMessage, FirstBlock
<1>8. SameBytes(w, r.data_ptr, mem, aead_in.data_ptr, r.data_len)
  <2>1. /\ r.data_ptr \in Nat /\ r.data_len \in Nat /\ aead_in.data_ptr \in Nat
        /\ r.data_ptr + r.data_len <= Space
        /\ aead_in.data_ptr + r.data_len <= Space
    BY <1>1, <1>4, <1>7, InputTypes, AddrNat
       DEF SealedBy, Abstract!Fits, Abstract!Space, Space
  <2>2. m = Abstract!Streamed(w, r.data_ptr, r.data_len, FirstBlock(r))
    BY <1>4 DEF SealedBy
  <2>3. mem = Abstract!Streamed(call.mem, aead_in.data_ptr, r.data_len, FirstBlock(r))
    BY <1>6, <1>7
  <2> QED BY <1>7, <2>1, <2>2, <2>3, StreamedTwice
<1>9. Text(w, r.data_ptr, r.data_len) = Text(mem, aead_in.data_ptr, aead_in.data_len)
  <2>1. /\ r.data_ptr \in Nat /\ r.data_len \in Nat
        /\ aead_in.data_ptr \in Nat /\ aead_in.data_len \in Nat
    BY <1>1, InputTypes, AddrNat
  <2> QED BY <1>7, <1>8, <2>1, TextSame
<1> QED BY <1>3, <1>4, <1>9 DEF SealedBy

-----------------------------------------------------------------------------
(* The channel's steps are the library's and the caller's; only             *)
(* aead_encrypt's success adds to what is sealed.                           *)

LEMMA ChannelStepIs ==
  [ChannelNext]_<<vars, sealed>> =>
    \/ PublishTag /\ sealed' = sealed \cup {Sealed}
    \/ pc # "publish" /\ Next /\ sealed' = sealed
    \/ Deliver
    \/ UNCHANGED vars /\ sealed' = sealed
BY DEF ChannelNext

(* Between calls any tag may be stored.                                      *)
LEMMA StoreTagKeeps ==
  ASSUME TypeOK, KeyInv, NEW t \in TagValue, StoreTag(t)
  PROVE  TypeOK' /\ KeyInv' /\ StreamInv' /\ TagInv'
<1>1. pc' = "caller"
  BY DEF StoreTag, CallerTurn
<1>2. TypeOK'
  <2>1. \A n \in 0 .. MaxCallerSteps : n < MaxCallerSteps => n + 1 \in 0 .. MaxCallerSteps
    BY CallerAssumption
  <2> QED BY <2>1 DEF StoreTag, TypeOK, MemoryTypeOK, ChaChaTypeOK, PolyTypeOK,
       CallerTurn, remainVars, streamVars, keyVars, tableVars, blockVars, macVars,
       Locations
<1>3. ReadyMeansBuilt'
  BY DEF KeyInv, ReadyMeansBuilt, StoreTag, tableVars, macVars
<1>4. KeyInv'
  BY <1>1, <1>3 DEF KeyInv, ControlOK, Primed, MacKeyed, TagPhase
<1>5. StreamInv'
  BY <1>1 DEF StreamInv, EntryOK, DomainOK, Untouched, Verified, Aligned,
              StreamPosition, Confined, InAead, TagPhase
<1>6. TagInv'
  BY <1>1 DEF TagInv, TagKept, AadDomainOK, Finished, Absorbing, Computed, InAead,
              TagPhase
<1> QED BY <1>2, <1>4, <1>5, <1>6

(* What Spec keeps, a step of the channel keeps.                              *)
LibraryInv == TypeOK /\ KeyInv /\ StreamInv /\ TagInv

LEMMA LibraryKept == LibraryInv /\ [Next]_vars => LibraryInv'
<1> SUFFICES ASSUME LibraryInv, [Next]_vars PROVE LibraryInv' OBVIOUS
<1>1. TypeOK'
  BY CallerStepType, LibStepType, StutterType DEF Next, LibraryInv
<1>2. KeyInv'
  BY <1>1, KeyCaller, KeyLib, KeyStutter DEF Next, LibraryInv
<1>3. StreamInv'
  BY <1>1, StreamCaller, StreamLib, StreamStutter DEF Next, LibraryInv
<1>4. TagInv'
  BY <1>1, <1>3, TagCaller, TagLib, TagStutter DEF Next, LibraryInv
<1> QED BY <1>1, <1>2, <1>3, <1>4 DEF LibraryInv

(* The tag field is the caller's to write; the library writes it in one       *)
(* place.                                                                   *)
LEMMA TagFieldKept ==
  pc # "publish" /\ Next => aead_tag' = aead_tag \/ aead_tag' \in StrayTags
<1>1. CallerStep => aead_tag' = aead_tag \/ aead_tag' \in StrayTags
  BY DEF CallerStep, CallerTurn, StoreByte, StoreTag, ReclaimTable, CallAead,
     CallChaChaInit, CallChaChaBlock, CallChaChaEncrypt, CallLibInit,
     CallPolyInit, CallPolyUpdate, CallPolyBlock, CallPolyFinal, Enter,
     apiVars, vars
<1>2. pc # "publish" /\ LibStep => aead_tag' = aead_tag
  BY DEF LibStep, GuardReject, GuardAccept, DeriveOtk, LoadStream, StreamBlock,
         StreamDone, LoadAad, LoadCiphertext, PaddedFull, PaddedPartial,
         PaddedDone, FinishTag, PublishTag, VerifyTag, UpdateFull,
         UpdatePartial, UpdateDone, Return, vars, apiVars
<1> QED BY <1>1, <1>2 DEF Next

(* The packet that a successful aead_encrypt leaves is one of its request.    *)
LEMMA SealedNow ==
  ASSUME TypeOK, KeyInv, StreamInv, TagInv, pc = "publish"
  PROVE  SealedBy(Sealed, aead_in, call.mem, mem)
<1>1. op = "encrypt"
  BY DEF KeyInv, ControlOK
<1>2. Abstract!Fits(aead_in)
  BY <1>1 DEF Abstract!Fits, Abstract!Space, Space, TagInv, AadDomainOK, StreamInv,
              DomainOK, EntryOK, InAead
<1>3. mem = Abstract!Streamed(call.mem, aead_in.data_ptr, aead_in.data_len,
                              FirstBlock(aead_in))
  BY <1>1 DEF TagInv, Finished, StreamInv, EntryOK, InAead, FirstBlock
<1>4. poly1305_tag = TagOf(aead_in, mem, mem)
  BY DEF TagInv, Computed
<1> QED BY <1>2, <1>3, <1>4, Zenon DEF SealedBy, Sealed

LEMMA ChannelPublish ==
  ASSUME TypeOK, KeyInv, StreamInv, TagInv, ChannelInv, PublishTag,
         sealed' = sealed \cup {Sealed}
  PROVE  ChannelInv'
<1>1. pc = "publish" /\ aead_tag' = poly1305_tag
  BY DEF PublishTag
<1>2. Sealed.packet.tag = poly1305_tag
  BY DEF Sealed, Packet
<1>3. TagKnown'
  BY <1>1, <1>2 DEF TagKnown
<1>4. /\ aead_in \in AeadInput /\ call.mem \in [Addr -> ByteValue]
      /\ mem \in [Addr -> ByteValue]
  BY DEF TypeOK, MemoryTypeOK, CallRecord
<1>5. \E r \in AeadInput, w \in [Addr -> ByteValue], m \in [Addr -> ByteValue] :
        SealedBy(Sealed, r, w, m)
  BY <1>1, <1>4, SealedNow
<1>6. ASSUME NEW p \in sealed'
      PROVE  \E r \in AeadInput, w \in [Addr -> ByteValue], m \in [Addr -> ByteValue] :
               SealedBy(p, r, w, m)
  <2>1. p \in sealed \/ p = Sealed
    OBVIOUS
  <2> QED BY <1>5, <2>1 DEF ChannelInv, SealedOK
<1>7. SealedOK'
  BY <1>6 DEF SealedOK
<1> QED BY <1>3, <1>7 DEF ChannelInv

LEMMA ChannelKept ==
  ASSUME ChannelInv, sealed' = sealed, aead_tag' = aead_tag \/ aead_tag' \in StrayTags
  PROVE  ChannelInv'
<1>1. SealedOK'
  BY DEF ChannelInv, SealedOK
<1>2. TagKnown'
  BY DEF ChannelInv, TagKnown
<1> QED BY <1>1, <1>2 DEF ChannelInv

(* A delivered tag is a sealed packet's.                                     *)
LEMMA ChannelDeliver ==
  ASSUME LibraryInv, ChannelInv, Deliver
  PROVE  LibraryInv' /\ ChannelInv'
<1>1. PICK p \in sealed : StoreTag(p.packet.tag)
  BY DEF Deliver
<1>2. PICK r \in AeadInput, w \in [Addr -> ByteValue], m \in [Addr -> ByteValue] :
        SealedBy(p, r, w, m)
  BY DEF ChannelInv, SealedOK
<1>3. p.packet.tag = TagOf(r, m, m) /\ Abstract!Fits(r)
  BY <1>2 DEF SealedBy, Packet
<1>4. p.packet.tag \in TagValue
  BY <1>3, TagOfComputed DEF TagValue
<1>5. LibraryInv'
  BY <1>1, <1>4, StoreTagKeeps DEF LibraryInv
<1>6. sealed' = sealed /\ aead_tag' = p.packet.tag
  BY <1>1 DEF Deliver, StoreTag
<1>7. SealedOK' /\ TagKnown'
  BY <1>6 DEF ChannelInv, SealedOK, TagKnown
<1> QED BY <1>5, <1>7 DEF ChannelInv

(* Everything sealed came out of aead_encrypt, and a tag in the tag field is  *)
(* the caller's or a sealed packet's.                                       *)
LEMMA ChannelInvariant == ChannelSpec => [](LibraryInv /\ ChannelInv)
<1>1. ChannelInit => LibraryInv /\ ChannelInv
  <2>1. Init => LibraryInv
    BY InitType, KeyInit, StreamInit, TagInit DEF LibraryInv
  <2> QED BY <2>1 DEF ChannelInit, Init, ChannelInv, SealedOK, TagKnown
<1>2. LibraryInv /\ ChannelInv /\ [ChannelNext]_<<vars, sealed>> => LibraryInv' /\ ChannelInv'
  <2> SUFFICES ASSUME LibraryInv, ChannelInv, [ChannelNext]_<<vars, sealed>>
               PROVE  LibraryInv' /\ ChannelInv'
    OBVIOUS
  <2>1. CASE PublishTag /\ sealed' = sealed \cup {Sealed}
    BY <2>1, LibraryKept, ChannelPublish DEF LibraryInv, Next, LibStep
  <2>2. CASE pc # "publish" /\ Next /\ sealed' = sealed
    BY <2>2, LibraryKept, ChannelKept, TagFieldKept
  <2>3. CASE Deliver
    BY <2>3, ChannelDeliver
  <2>4. CASE UNCHANGED vars /\ sealed' = sealed
    <3>1. aead_tag' = aead_tag
      BY <2>4 DEF vars, apiVars
    <3> QED BY <2>4, <3>1, LibraryKept, ChannelKept
  <2> QED BY <2>1, <2>2, <2>3, <2>4, ChannelStepIs
<1> QED BY <1>1, <1>2, PTL DEF ChannelSpec

(* aead_decrypt's comparison succeeds exactly for the packets that some       *)
(* aead_encrypt of the channel returned: for every set of requests, keys and  *)
(* messages, and every order of calls and edits, provided no made-up tag is   *)
(* a computed one (and the model's byte and tag terms stand for the cipher).  *)
THEOREM ChannelAuthentic ==
  ASSUME TagsApart
  PROVE  ChannelSpec => []OpensExactlySealed
<1>1. LibraryInv /\ ChannelInv => OpensExactlySealed
  BY ChannelExact DEF LibraryInv
<1> QED BY <1>1, ChannelInvariant, PTL

(* What aead_decrypt returns as text is the text that went into the sealed    *)
(* packet it accepted, under the same assumption.                           *)
THEOREM ChannelDelivers ==
  ASSUME TagsApart
  PROVE  ChannelSpec => []OpensToSealedText
<1>1. LibraryInv /\ ChannelInv => OpensToSealedText
  BY ChannelTexts DEF LibraryInv
<1> QED BY <1>1, ChannelInvariant, PTL
=============================================================================
