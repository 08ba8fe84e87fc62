------------------------------ MODULE AeadLib ------------------------------
(***************************************************************************)
(* chacha20poly1305_lib.s on top of the stream and MAC drivers, and the     *)
(* program that calls them.  The library is single-threaded: between the    *)
(* jsr and the rts of a call only library steps happen, and the caller      *)
(* reads and writes its memory and the tag only when pc = "caller".  All    *)
(* the entry points share one set of fields and zero-page cells, which      *)
(* nobody clears between calls, so what a call does must not depend on      *)
(* what the calls before it left there.                                     *)
(*                                                                         *)
(* A library step is one turn of a walker's loop, or a straight-line run    *)
(* of code between two loops.                                               *)
(***************************************************************************)
EXTENDS ChaChaStream, PolyDriver

CONSTANTS
  AeadRequests,    (* the aead_* inputs callers use                         *)
  CipherInputs,    (* cc20_key/nonce/counter used with chacha20_init        *)
  Extents,         (* (ptr, len) used with the walkers directly             *)
  Edits,           (* (addr, val) literals the caller stores in memory       *)
  InitMem,         (* the caller's memory at load                           *)
  MaxCallerSteps   (* bound on what the caller does in a behaviour           *)

ASSUME CallerAssumption ==
  /\ AeadRequests \subseteq AeadInput
  /\ CipherInputs \subseteq ChaState
  /\ Extents \subseteq [ptr : Addr, len : Addr]
  /\ \A x \in Extents : x.ptr + x.len <= Space
  /\ Edits \subseteq [addr : Addr, val : Byte]
  /\ InitMem \in [Addr -> ByteValue]
  /\ MaxCallerSteps \in Nat

VARIABLES
  aead_in,   (* aead_key, aead_nonce, aead_aad_ptr/len, aead_data_ptr/len   *)
  aead_tag,  (* output of encrypt, expected value for decrypt               *)
  status,    (* A at the last return of an AEAD entry point                 *)
  pc,        (* where the program is                                        *)
  op,        (* the entry point being executed                              *)
  call,      (* history: what the machine held when op was entered          *)
  steps      (* how often the caller acted, for the bound                   *)

streamVars == <<cc20_in, cc20_state, cc20_keystream, cc20_data_ptr>>
remainVars == <<cc20_remain, cc20_remain_hi>>
keyVars    == <<poly_r, poly_s, r_tab>>
tableVars  == <<sqtab, sqtab_ready>>
blockVars  == <<zp_ptr1, aead_scratch>>
macVars    == <<keyVars, tableVars, blockVars, poly_h, poly1305_tag>>
apiVars    == <<aead_in, aead_tag, status>>
ghostVars  == <<op, call, steps>>
vars == <<mem, remainVars, streamVars, macVars, apiVars, pc, ghostVars>>

AEAD_OK         == 0
AEAD_ERR_DOMAIN == 1
AEAD_ERR_AUTH   == Radix - 1

ZeroState == [key |-> ZeroKey, nonce |-> ZeroNonce, ctr |-> 0]

(* The image is loaded with the DATA segment zero-filled.  The zero page    *)
(* (cc20_keystream, zp_ptr1, cc20_remain, cc20_data_ptr) and the tables     *)
(* (r_tab, sqtab) hold whatever they held; sqtab is then no table.          *)
Init ==
  /\ mem = InitMem
  /\ cc20_remain = 0 /\ cc20_remain_hi = 0
  /\ cc20_in = ZeroState /\ cc20_state = ZeroState
  /\ cc20_keystream \in {[key |-> k, nonce |-> ZeroNonce, ctr |-> 0] : k \in KeyField}
  /\ cc20_data_ptr = 0
  /\ poly_r = Half(ZeroState, 0) /\ poly_s = Half(ZeroState, 1)
  /\ poly_h = FreshH
  /\ r_tab = Half(ZeroState, 0)
  /\ sqtab = FALSE /\ sqtab_ready = FALSE
  /\ poly1305_tag = ZeroTag /\ aead_tag = ZeroTag
  /\ zp_ptr1 = 0
  /\ aead_scratch = ZeroBlock
  /\ aead_in = [key |-> ZeroKey, nonce |-> ZeroNonce,
                aad_ptr |-> 0, aad_len |-> 0, data_ptr |-> 0, data_len |-> 0]
  /\ status = AEAD_OK
  /\ pc = "caller" /\ op = "none" /\ steps = 0
  /\ call = [mem |-> InitMem, tag |-> ZeroTag, out |-> ZeroTag,
             ptr |-> 0, len |-> 0, state |-> ZeroState, h |-> FreshH]

-----------------------------------------------------------------------------
(* The caller.                                                              *)

CallerTurn == pc = "caller" /\ steps < MaxCallerSteps /\ steps' = steps + 1

(* Remember the machine at the entry of operation o.                        *)
Enter(o, ptr, len, state) ==
  /\ op' = o
  /\ call' = [mem |-> mem, tag |-> aead_tag, out |-> poly1305_tag,
              ptr |-> ptr, len |-> len, state |-> state, h |-> poly_h]

(* Between calls the caller may store to its memory or to aead_tag.         *)
StoreByte(e) ==
  /\ CallerTurn
  /\ mem' = [mem EXCEPT ![e.addr] = Literal(e.val)]
  /\ UNCHANGED <<remainVars, streamVars, macVars, apiVars, pc, op, call>>

StoreTag(t) ==
  /\ CallerTurn
  /\ aead_tag' = t
  /\ UNCHANGED <<mem, remainVars, streamVars, macVars, aead_in, status, pc, op, call>>

(* A Profile B program that needs the table's memory for something else     *)
(* clears sqtab_ready when it clobbers the table.                           *)
ReclaimTable ==
  /\ CallerTurn
  /\ Profile = "B"
  /\ sqtab' = FALSE /\ sqtab_ready' = FALSE
  /\ UNCHANGED <<mem, remainVars, streamVars, keyVars, blockVars, poly_h,
                 poly1305_tag, apiVars, pc, op, call>>

(* Populate the aead_* fields and jsr aead_encrypt or aead_decrypt.         *)
CallAead(o, req) ==
  /\ CallerTurn
  /\ aead_in' = req
  /\ Enter(o, req.data_ptr, req.data_len,
           [key |-> req.key, nonce |-> req.nonce, ctr |-> 1])
  /\ pc' = "guard"
  /\ UNCHANGED <<mem, remainVars, streamVars, macVars, aead_tag, status>>

(* Populate the cc20_* fields and jsr chacha20_init.                        *)
CallChaChaInit(in) ==
  /\ CallerTurn
  /\ cc20_in' = in
  /\ cc20_state' = StateFrom(in)
  /\ UNCHANGED <<mem, remainVars, cc20_keystream, cc20_data_ptr, macVars,
                 apiVars, pc, op, call>>

(* jsr chacha20_block.                                                      *)
CallChaChaBlock ==
  /\ CallerTurn
  /\ RunBlock(cc20_state)
  /\ UNCHANGED <<mem, remainVars, cc20_in, cc20_data_ptr, macVars, apiVars,
                 pc, op, call>>

(* Set cc20_data_ptr and the count and jsr chacha20_encrypt.                *)
CallChaChaEncrypt(x) ==
  /\ CallerTurn
  /\ cc20_data_ptr' = x.ptr
  /\ LoadRemain(x.len)
  /\ Enter("stream", x.ptr, x.len, cc20_state)
  /\ pc' = "stream"
  /\ UNCHANGED <<mem, cc20_in, cc20_state, cc20_keystream, macVars, apiVars>>

(* jsr poly1305_lib_init.                                                   *)
CallLibInit ==
  /\ CallerTurn
  /\ BuildTables
  /\ UNCHANGED <<mem, remainVars, streamVars, keyVars, blockVars, poly_h,
                 poly1305_tag, apiVars, pc, op, call>>

(* Write a one-time key to poly_r and poly_s and jsr poly1305_init.         *)
CallPolyInit(k) ==
  /\ CallerTurn
  /\ PolyInit(Half(k, 0), Half(k, 1))
  /\ UNCHANGED <<mem, remainVars, streamVars, blockVars, poly1305_tag,
                 apiVars, pc, op, call>>

(* Set zp_ptr1 and the low byte of the count and jsr poly1305_update.       *)
CallPolyUpdate(x) ==
  /\ CallerTurn
  /\ x.len < Radix
  /\ zp_ptr1' = x.ptr
  /\ cc20_remain' = x.len
  /\ Enter("update", x.ptr, x.len, cc20_state)
  /\ pc' = "update"
  /\ UNCHANGED <<mem, cc20_remain_hi, streamVars, keyVars, tableVars, poly_h,
                 poly1305_tag, aead_scratch, apiVars>>

(* Set zp_ptr1, load the high bit into A and jsr poly1305_block.            *)
CallPolyBlock(x, hibit) ==
  /\ CallerTurn
  /\ x.len = PolyBlock
  /\ zp_ptr1' = x.ptr
  /\ PolyAbsorb(BytesAt(mem, x.ptr), hibit)
  /\ UNCHANGED <<mem, remainVars, streamVars, keyVars, tableVars,
                 poly1305_tag, aead_scratch, apiVars, pc, op, call>>

(* jsr poly1305_final.                                                      *)
CallPolyFinal ==
  /\ CallerTurn
  /\ PolyFinal(poly_h)
  /\ UNCHANGED <<mem, remainVars, streamVars, keyVars, tableVars, blockVars,
                 apiVars, pc, op, call>>

-----------------------------------------------------------------------------
(* The library.                                                             *)

(* rts to the caller with A = a.                                            *)
Return(a) == pc' = "caller" /\ status' = a

InDomain ==
  /\ GuardAccepts(aead_in.data_ptr, aead_in.data_len)
  /\ GuardAccepts(aead_in.aad_ptr, aead_in.aad_len)

(* The two guards, ahead of every jsr.                                      *)
GuardReject ==
  /\ pc = "guard" /\ ~InDomain
  /\ Return(AEAD_ERR_DOMAIN)
  /\ UNCHANGED <<mem, remainVars, streamVars, macVars, aead_in, aead_tag, ghostVars>>

GuardAccept ==
  /\ pc = "guard" /\ InDomain
  /\ pc' = "otk"
  /\ UNCHANGED <<mem, remainVars, streamVars, macVars, apiVars, ghostVars>>

(* aead_derive_otk: block 0 of the packet's keystream becomes r and s, and  *)
(* its tail leaves cc20_state on block 1 for the data.                      *)
DeriveOtk ==
  /\ pc = "otk"
  /\ cc20_in' = [key |-> aead_in.key, nonce |-> aead_in.nonce, ctr |-> 0]
  /\ RunBlock(StateFrom(cc20_in'))
  /\ PolyInit(Half(cc20_keystream', 0), Half(cc20_keystream', 1))
  /\ pc' = IF op = "encrypt" THEN "load" ELSE "aad"
  /\ UNCHANGED <<mem, remainVars, cc20_data_ptr, poly1305_tag, blockVars,
                 apiVars, ghostVars>>

(* Mutant: decrypt sets the cipher up again, on block 0.                   *)
LoadStreamReinit ==
  /\ pc = "load"
  /\ cc20_data_ptr' = aead_in.data_ptr
  /\ LoadRemain(aead_in.data_len)
  /\ cc20_state' = IF op = "decrypt" THEN StateFrom(cc20_in) ELSE cc20_state
  /\ pc' = "stream"
  /\ UNCHANGED <<mem, cc20_in, cc20_keystream, macVars, apiVars, ghostVars>>

(* Point chacha20_encrypt at the data.  cc20_state is not set up again.     *)
LoadStream ==
  /\ pc = "load"
  /\ cc20_data_ptr' = aead_in.data_ptr
  /\ LoadRemain(aead_in.data_len)
  /\ pc' = "stream"
  /\ UNCHANGED <<mem, cc20_in, cc20_state, cc20_keystream, macVars, apiVars, ghostVars>>

StreamBlock ==
  /\ pc = "stream"
  /\ EncryptBlock
  /\ UNCHANGED <<macVars, apiVars, pc, ghostVars>>

(* chacha20_encrypt returns: into aead_encrypt, which goes on to the tag;    *)
(* into aead_decrypt, which is done; or to a direct caller.                 *)
StreamDone ==
  /\ pc = "stream" /\ Drained
  /\ \/ op = "encrypt" /\ pc' = "aad"   /\ UNCHANGED status
     \/ op = "decrypt" /\ Return(AEAD_OK)
     \/ op = "stream"  /\ pc' = "caller" /\ UNCHANGED status
  /\ UNCHANGED <<mem, remainVars, streamVars, macVars, aead_in, aead_tag, ghostVars>>

(* aead_compute_tag, the AAD: none, or aead_process_padded over it.         *)
LoadAad ==
  /\ pc = "aad"
  /\ IF aead_in.aad_len = 0
     THEN pc' = "ct" /\ UNCHANGED <<remainVars, zp_ptr1>>
     ELSE /\ LoadRemain(aead_in.aad_len)
          /\ zp_ptr1' = aead_in.aad_ptr
          /\ pc' = "pad_aad"
  /\ UNCHANGED <<mem, streamVars, keyVars, tableVars, poly_h, poly1305_tag,
                 aead_scratch, apiVars, ghostVars>>

(* The same for the ciphertext.                                             *)
LoadCiphertext ==
  /\ pc = "ct"
  /\ IF aead_in.data_len = 0
     THEN pc' = "lengths" /\ UNCHANGED <<remainVars, zp_ptr1>>
     ELSE /\ LoadRemain(aead_in.data_len)
          /\ zp_ptr1' = aead_in.data_ptr
          /\ pc' = "pad_ct"
  /\ UNCHANGED <<mem, streamVars, keyVars, tableVars, poly_h, poly1305_tag,
                 aead_scratch, apiVars, ghostVars>>

(* Where aead_process_padded returns to.                                    *)
AfterPadded == IF pc = "pad_aad" THEN "ct" ELSE "lengths"

PaddedFull ==
  /\ pc \in {"pad_aad", "pad_ct"}
  /\ HasBlock(cc20_remain, cc20_remain_hi, PolyBlock)
  /\ PolyAbsorb(BytesAt(mem, zp_ptr1), 1)
  /\ zp_ptr1' = AddWord(zp_ptr1, PolyBlock)
  /\ TakeFromRemain(PolyBlock)
  /\ UNCHANGED <<mem, streamVars, keyVars, tableVars, poly1305_tag, aead_scratch,
                 apiVars, pc, ghostVars>>

(* The last 1 .. PolyBlock-1 bytes, zero-filled in aead_scratch.  The count *)
(* stays in cc20_remain.                                                    *)
PaddedPartial ==
  /\ pc \in {"pad_aad", "pad_ct"}
  /\ ~Drained /\ ~HasBlock(cc20_remain, cc20_remain_hi, PolyBlock)
  /\ aead_scratch' = PadBytes(mem, zp_ptr1, cc20_remain)
  /\ zp_ptr1' = ScratchPtr
  /\ PolyAbsorb(aead_scratch', 1)
  /\ pc' = AfterPadded
  /\ UNCHANGED <<mem, remainVars, streamVars, keyVars, tableVars, poly1305_tag,
                 apiVars, ghostVars>>

PaddedDone ==
  /\ pc \in {"pad_aad", "pad_ct"} /\ Drained
  /\ pc' = AfterPadded
  /\ UNCHANGED <<mem, remainVars, streamVars, macVars, apiVars, ghostVars>>

(* Mutant: the AAD's length is left out.                                   *)
LengthsBlockNoAad(aad_len, data_len) ==
  [ZeroBlock EXCEPT ![PolyBlock \div 2] = Literal(Lo(data_len)),
                    ![PolyBlock \div 2 + 1] = Literal(Hi(data_len))]

(* The lengths, 8 bytes little-endian each in the code, half a block each   *)
(* here: the AAD's at 0, the data's low and high byte at the middle.        *)
LengthsBlock(aad_len, data_len) ==
  [ZeroBlock EXCEPT ![0] = Literal(aad_len),
                    ![PolyBlock \div 2] = Literal(Lo(data_len)),
                    ![PolyBlock \div 2 + 1] = Literal(Hi(data_len))]

(* The lengths block and poly1305_final.                                    *)
FinishTag ==
  /\ pc = "lengths"
  /\ aead_scratch' = LengthsBlock(aead_in.aad_len, aead_in.data_len)
  /\ zp_ptr1' = ScratchPtr
  /\ PolyFinal(Absorbed(poly_h, aead_scratch', 1))
  /\ pc' = IF op = "encrypt" THEN "publish" ELSE "verify"
  /\ UNCHANGED <<mem, remainVars, streamVars, keyVars, tableVars, apiVars, ghostVars>>

PublishTag ==
  /\ pc = "publish"
  /\ aead_tag' = poly1305_tag
  /\ Return(AEAD_OK)
  /\ UNCHANGED <<mem, remainVars, streamVars, macVars, aead_in, ghostVars>>

(* Mutant: the branch on the comparison is inverted.                       *)
VerifyTagInverted ==
  /\ pc = "verify"
  /\ IF poly1305_tag # aead_tag
     THEN pc' = "load" /\ UNCHANGED status
     ELSE Return(AEAD_ERR_AUTH)
  /\ UNCHANGED <<mem, remainVars, streamVars, macVars, aead_in, aead_tag, ghostVars>>

(* aead_verify_tag and the branch on its result.                            *)
VerifyTag ==
  /\ pc = "verify"
  /\ IF poly1305_tag = aead_tag
     THEN pc' = "load" /\ UNCHANGED status
     ELSE Return(AEAD_ERR_AUTH)
  /\ UNCHANGED <<mem, remainVars, streamVars, macVars, aead_in, aead_tag, ghostVars>>

(* poly1305_update: whole blocks with the high bit set.  Only the low byte  *)
(* of the count is looked at.                                               *)
UpdateFull ==
  /\ pc = "update" /\ cc20_remain >= PolyBlock
  /\ PolyAbsorb(BytesAt(mem, zp_ptr1), 1)
  /\ zp_ptr1' = AddWord(zp_ptr1, PolyBlock)
  /\ cc20_remain' = cc20_remain - PolyBlock
  /\ UNCHANGED <<mem, cc20_remain_hi, streamVars, keyVars, tableVars,
                 poly1305_tag, aead_scratch, apiVars, pc, ghostVars>>

(* Mutant: the last block gets the high bit of a whole one.                *)
UpdatePartialHighBit ==
  /\ pc = "update" /\ cc20_remain \in 1 .. PolyBlock - 1
  /\ aead_scratch' = [PadBytes(mem, zp_ptr1, cc20_remain)
                        EXCEPT ![cc20_remain] = Literal(1)]
  /\ zp_ptr1' = ScratchPtr
  /\ PolyAbsorb(aead_scratch', 1)
  /\ cc20_remain' = 0
  /\ UNCHANGED <<mem, cc20_remain_hi, streamVars, keyVars, tableVars,
                 poly1305_tag, apiVars, pc, ghostVars>>

(* The last block: the bytes, a 1 after them, and no high bit.              *)
UpdatePartial ==
  /\ pc = "update" /\ cc20_remain \in 1 .. PolyBlock - 1
  /\ aead_scratch' = [PadBytes(mem, zp_ptr1, cc20_remain)
                        EXCEPT ![cc20_remain] = Literal(1)]
  /\ zp_ptr1' = ScratchPtr
  /\ PolyAbsorb(aead_scratch', 0)
  /\ cc20_remain' = 0
  /\ UNCHANGED <<mem, cc20_remain_hi, streamVars, keyVars, tableVars,
                 poly1305_tag, apiVars, pc, ghostVars>>

UpdateDone ==
  /\ pc = "update" /\ cc20_remain = 0
  /\ pc' = "caller"
  /\ UNCHANGED <<mem, remainVars, streamVars, macVars, apiVars, ghostVars>>

-----------------------------------------------------------------------------
CallerStep ==
  \/ \E e \in Edits : StoreByte(e)
  \/ \E t \in StrayTags : StoreTag(t)
  \/ ReclaimTable
  \/ \E o \in {"encrypt", "decrypt"}, req \in AeadRequests : CallAead(o, req)
  \/ \E in \in CipherInputs : CallChaChaInit(in)
  \/ CallChaChaBlock
  \/ \E x \in Extents : CallChaChaEncrypt(x)
  \/ CallLibInit
  \/ \E k \in CallerOtks : CallPolyInit(k)
  \/ \E x \in Extents : CallPolyUpdate(x)
  \/ \E x \in Extents, hibit \in {0, 1} : CallPolyBlock(x, hibit)
  \/ CallPolyFinal

LibStep ==
  \/ GuardReject \/ GuardAccept \/ DeriveOtk
  \/ LoadStream \/ StreamBlock \/ StreamDone
  \/ LoadAad \/ LoadCiphertext \/ PaddedFull \/ PaddedPartial \/ PaddedDone
  \/ FinishTag \/ PublishTag \/ VerifyTag
  \/ UpdateFull \/ UpdatePartial \/ UpdateDone

Next == CallerStep \/ LibStep

Spec == Init /\ [][Next]_vars

(* The 6502 keeps executing: a library step that can be taken is taken.     *)
FairSpec == Spec /\ WF_vars(LibStep)

-----------------------------------------------------------------------------
Locations == {"caller", "guard", "otk", "load", "stream", "aad", "pad_aad",
              "ct", "pad_ct", "lengths", "publish", "verify", "update"}
Operations == {"none", "encrypt", "decrypt", "stream", "update"}
CallRecord == [mem : [Addr -> ByteValue], tag : TagValue, out : TagValue,
               ptr : Addr, len : Addr, state : ChaState, h : Accumulator]

TypeOK ==
  /\ MemoryTypeOK /\ ChaChaTypeOK /\ PolyTypeOK
  /\ aead_in \in AeadInput
  /\ aead_tag \in TagValue
  /\ status \in Byte
  /\ pc \in Locations
  /\ op \in Operations
  /\ call \in CallRecord
  /\ steps \in 0 .. MaxCallerSteps
=============================================================================
