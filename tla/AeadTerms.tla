----------------------------- MODULE AeadTerms -----------------------------
(***************************************************************************)
(* The values the library computes with, as terms.                          *)
(*                                                                         *)
(* A byte is the set of the terms it is the exclusive-or of: a literal, and *)
(* the keystream bytes XORed into it.  XORing one keystream byte in twice   *)
(* cancels; distinct terms are never confused.  A Poly1305 accumulator is   *)
(* the sequence of blocks it absorbed, each with its high bit and the       *)
(* multiplier it met; a tag is an accumulator and the s added to it.        *)
(***************************************************************************)
EXTENDS ByteWords, Sequences

CONSTANTS
  Keys, Nonces,        (* 256-bit keys and 96-bit nonces                    *)
  ZeroKey, ZeroNonce,  (* what the zero-filled DATA segment holds at load    *)
  CtrMod,              (* values of the block counter: 2^32                 *)
  CallerOtks,          (* one-time keys a caller of poly1305_init supplies  *)
  ZeroTag,             (* the zero-filled tag fields at load                *)
  StrayTags            (* tag values that no run of this library produced    *)

(* A packet cannot make the 32-bit counter wrap: it takes one block for the *)
(* one-time key and at most one for each of the Space bytes of memory.       *)
ASSUME CounterAssumption ==
  CtrMod \in Nat /\ CtrMod > Space + 1

KeyField   == Keys \cup {ZeroKey}
NonceField == Nonces \cup {ZeroNonce}

(* The 16 words of cc20_state: constants, key, counter and nonce.           *)
ChaState == [key : KeyField, nonce : NonceField, ctr : 0 .. CtrMod - 1]

Atom == {<<v>> : v \in 1 .. Radix - 1}
        \cup (KeyField \X NonceField \X (0 .. CtrMod - 1) \X (0 .. ChaBlock - 1))
ByteValue == SUBSET Atom

Zero           == {}
Literal(v)     == IF v = 0 THEN Zero ELSE {<<v>>}
KsByte(k, i)   == {<<k.key, k.nonce, k.ctr, i>>}
Xor(x, y)      == (x \ y) \cup (y \ x)

(* Half 0 or 1 of a one-time key, taken from a keystream block or written   *)
(* by a caller; clamped once poly1305_clamp has been over it.               *)
OtkHalf      == [src : ChaState \cup CallerOtks, half : {0, 1}, clamped : BOOLEAN]
Half(src, i) == [src |-> src, half |-> i, clamped |-> FALSE]
Clamp(h)     == [h EXCEPT !.clamped = TRUE]

BlockBytes  == [0 .. PolyBlock - 1 -> ByteValue]
PolyTerm    == [bytes : BlockBytes, hibit : {0, 1}, r : OtkHalf]
Accumulator == [clean : BOOLEAN, blocks : Seq(PolyTerm)]
ComputedTag == [s : OtkHalf, h : Accumulator]
TagValue    == ComputedTag \cup StrayTags \cup {ZeroTag}

(* poly_h as poly1305_init leaves it, and poly_h when it is anything but a  *)
(* sum of whole blocks from zero.                                           *)
FreshH == [clean |-> TRUE,  blocks |-> <<>>]
DirtyH == [clean |-> FALSE, blocks |-> <<>>]

(* The fields a caller of aead_encrypt or aead_decrypt populates.           *)
AeadInput == [key : KeyField, nonce : NonceField,
              aad_ptr : Addr, aad_len : Byte, data_ptr : Addr, data_len : Addr]
=============================================================================
