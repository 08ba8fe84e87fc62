-------------------------- MODULE AeadProperties --------------------------
(***************************************************************************)
(* What must be true of every execution of AeadLib.                         *)
(***************************************************************************)
EXTENDS AeadLib

InAead   == pc # "caller" /\ op \in {"encrypt", "decrypt"}
TagPhase == {"aad", "pad_aad", "ct", "pad_ct", "lengths"}

(* Seen from its caller an AEAD call is one atomic RFC 8439 operation: while *)
(* one runs, the abstract memory is still what it was at the entry.         *)
Abstract == INSTANCE AeadSpec
  WITH mem      <- IF InAead THEN call.mem ELSE mem,
       aead_tag <- IF InAead THEN call.tag ELSE aead_tag,
       job      <- IF InAead THEN [op |-> op, req |-> aead_in]
                             ELSE [op |-> "idle"]

(* AeadSpec authenticates the associated data as the caller handed it over;   *)
(* aead_encrypt reads it after the encryption.  That is the same for callers  *)
(* whose two buffers share no byte (RFC 8439 knows no others).                *)
SeparateBuffers ==
  \A req \in AeadRequests :
    Abstract!Fits(req) =>
      \A a \in req.aad_ptr .. req.aad_ptr + req.aad_len - 1 :
        a \notin req.data_ptr .. req.data_ptr + req.data_len - 1

(* The loops, pointers and counters of the two entry points implement the   *)
(* one-shot construction: ciphertext, tag and status, in-place decryption   *)
(* only after the tag compared equal, nothing on a domain rejection.        *)
ImplementsAead == Abstract!AtomicAead

(* Wherever chacha20_encrypt stands in a buffer, the bytes behind it are    *)
(* XORed with the keystream blocks that follow the entry state, each byte   *)
(* with its own, those ahead are as they were, and state, pointer and count *)
(* agree on the position.  In an AEAD call the entry state is block 1, so   *)
(* the one-time-key block 0 never meets data.                               *)
StreamPosition ==
  pc = "stream" =>
    LET done == call.len - Remain
    IN  /\ done \in 0 .. call.len
        /\ cc20_data_ptr = (call.ptr + done) % Space
        /\ cc20_state = Abstract!BlockAfter(call.state,
                          (done + ChaBlock - 1) \div ChaBlock)
        /\ mem = Abstract!Streamed(call.mem, call.ptr, done, call.state)

(* aead_encrypt and aead_decrypt start the data stream without setting the  *)
(* cipher up again.  They rely on the one-time-key derivation having left    *)
(* cc20_state on block 1 of this packet, and on everything in between (all   *)
(* of the tag computation, in decrypt) leaving it there.                    *)
Primed ==
  pc = "load" \/ (op = "decrypt" /\ pc \in TagPhase \cup {"verify"})
    => cc20_state = [key |-> aead_in.key, nonce |-> aead_in.nonce, ctr |-> 1]

(* While an AEAD call computes its tag, every block is multiplied by this    *)
(* packet's clamped r, through a table that is there and is the one for r,   *)
(* and accumulates from zero, whatever was called before.                   *)
MacKeyed ==
  pc \in TagPhase \/ (op = "encrypt" /\ pc \in {"load", "stream"})
    => LET otk == [key |-> aead_in.key, nonce |-> aead_in.nonce, ctr |-> 0]
       IN  /\ poly_s = Half(otk, 1)
           /\ Multiplier = Clamp(Half(otk, 0))
           /\ Profile = "B" => sqtab
           /\ poly_h.clean
           /\ \A b \in 1 .. Len(poly_h.blocks) :
                poly_h.blocks[b].r = Clamp(Half(otk, 0))

(* The flag that skips the table build is never set without the table.       *)
ReadyMeansBuilt == Profile = "B" /\ sqtab_ready => sqtab

(* A running call has changed no byte outside the buffer it was given, and   *)
(* aead_decrypt has changed none at all until the tag has compared equal.    *)
Confined ==
  pc # "caller" =>
    /\ \A a \in Addr : mem[a] # call.mem[a] =>
         op # "update" /\ a \in call.ptr .. call.ptr + call.len - 1
    /\ op = "decrypt" /\ mem # call.mem => poly1305_tag = aead_tag

(* The blocks one poly1305_update call of n bytes at ptr must absorb         *)
(* (RFC 8439, 2.5.1): full blocks with the high bit, then the rest with a 1  *)
(* after its last byte and no high bit.                                     *)
MessageBlocks(m, ptr, n) ==
  [b \in 1 .. (n + PolyBlock - 1) \div PolyBlock |->
     LET at(i) == (b - 1) * PolyBlock + i
     IN  [bytes |-> [i \in 0 .. PolyBlock - 1 |->
                       IF at(i) < n THEN m[ptr + at(i)]
                       ELSE IF at(i) = n THEN Literal(1) ELSE Zero],
          hibit |-> IF at(PolyBlock - 1) < n THEN 1 ELSE 0,
          r     |-> Multiplier]]

(* When poly1305_update returns, the accumulator has absorbed the message,   *)
(* whole, once and in order, after what it held at the entry; memory and the *)
(* cipher are untouched.                                                    *)
UpdateAbsorbs ==
  (pc = "update" /\ cc20_remain = 0) =>
    /\ poly_h.blocks = call.h.blocks \o MessageBlocks(mem, call.ptr, call.len)
    /\ mem = call.mem /\ cc20_state = call.state

(* Every call returns.                                                      *)
CallsReturn == (pc # "caller") ~> (pc = "caller")
=============================================================================
