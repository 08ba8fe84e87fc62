------------------------------ MODULE AeadSpec ------------------------------
(***************************************************************************)
(* What aead_encrypt and aead_decrypt promise their caller: the ChaCha20-   *)
(* Poly1305 construction of RFC 8439, section 2.8, applied to the buffers   *)
(* in one indivisible step, or a refusal that leaves them alone.  The       *)
(* definitions are closed forms: no loop, pointer or counter of the code    *)
(* occurs in them.                                                          *)
(***************************************************************************)
EXTENDS AeadTerms

VARIABLES
  mem,       (* the caller's memory                                         *)
  aead_tag,  (* the tag field                                               *)
  status,    (* result of the last call                                     *)
  job        (* the call in progress, or Idle                               *)

svars == <<mem, aead_tag, status, job>>

Idle == [op |-> "idle"]

BlockAfter(k, n) == [k EXCEPT !.ctr = (@ + n) % CtrMod]

(* m with the len bytes at ptr XORed with the keystream that starts at the  *)
(* first byte of block k.                                                   *)
Streamed(m, ptr, len, k) ==
  [a \in Addr |->
     IF a \in ptr .. ptr + len - 1
     THEN Xor(m[a], KsByte(BlockAfter(k, (a - ptr) \div ChaBlock),
                           (a - ptr) % ChaBlock))
     ELSE m[a]]

(* The len bytes at ptr, zero-padded to whole blocks.                       *)
Padded(m, ptr, len) ==
  [b \in 1 .. (len + PolyBlock - 1) \div PolyBlock |->
     [i \in 0 .. PolyBlock - 1 |->
        LET j == (b - 1) * PolyBlock + i
        IN  IF j < len THEN m[ptr + j] ELSE Zero]]

(* Digit i of the word n, little-endian; a word has two that are not zero.   *)
Digit(n, i) == IF i = 0 THEN n % Radix ELSE IF i = 1 THEN n \div Radix ELSE 0

Lengths(aad_len, data_len) ==
  LET half == PolyBlock \div 2
  IN  [i \in 0 .. PolyBlock - 1 |->
         IF i < half THEN Literal(Digit(aad_len, i))
                     ELSE Literal(Digit(data_len, i - half))]

(* The tag of associated data in ma and ciphertext in mc.                   *)
RfcTag(req, ma, mc) ==
  LET otk  == [key |-> req.key, nonce |-> req.nonce, ctr |-> 0]
      text == Padded(ma, req.aad_ptr, req.aad_len)
              \o Padded(mc, req.data_ptr, req.data_len)
              \o <<Lengths(req.aad_len, req.data_len)>>
  IN  [s |-> Half(otk, 1),
       h |-> [clean  |-> TRUE,
              blocks |-> [b \in DOMAIN text |->
                 [bytes |-> text[b], hibit |-> 1, r |-> Clamp(Half(otk, 0))]]]]

Fits(req) ==
  /\ req.data_ptr + req.data_len <= Space
  /\ req.aad_ptr + req.aad_len <= Space

Crypted(req) ==
  Streamed(mem, req.data_ptr, req.data_len,
           [key |-> req.key, nonce |-> req.nonce, ctr |-> 1])

-----------------------------------------------------------------------------
SpecInit ==
  /\ status = 0
  /\ job = Idle

(* Between calls memory and tag are the caller's.                           *)
CallerWrites ==
  /\ job = Idle
  /\ UNCHANGED <<status, job>>

Begin ==
  /\ job = Idle
  /\ job' \in [op : {"encrypt", "decrypt"}, req : AeadInput]
  /\ UNCHANGED <<mem, aead_tag, status>>

Refuse ==
  /\ job # Idle /\ ~Fits(job.req)
  /\ status' = 1
  /\ job' = Idle
  /\ UNCHANGED <<mem, aead_tag>>

Encrypt ==
  /\ job # Idle /\ job.op = "encrypt" /\ Fits(job.req)
  /\ mem' = Crypted(job.req)
  /\ aead_tag' = RfcTag(job.req, mem, mem')
  /\ status' = 0
  /\ job' = Idle

Decrypt ==
  /\ job # Idle /\ job.op = "decrypt" /\ Fits(job.req)
  /\ IF aead_tag = RfcTag(job.req, mem, mem)
     THEN mem' = Crypted(job.req) /\ status' = 0
     ELSE mem' = mem /\ status' = Radix - 1
  /\ aead_tag' = aead_tag
  /\ job' = Idle

SpecNext == CallerWrites \/ Begin \/ Refuse \/ Encrypt \/ Decrypt

AtomicAead == SpecInit /\ [][SpecNext]_svars
=============================================================================
