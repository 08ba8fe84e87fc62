---------------------------- MODULE AeadChannel ----------------------------
(***************************************************************************)
(* Two ends of a channel built on AeadLib: a caller that seals messages     *)
(* with aead_encrypt and opens packets with aead_decrypt out of the same     *)
(* memory, in any order and under any of the requests, rewriting bytes and  *)
(* tags as it likes in between and handing over the tag of any packet it     *)
(* kept.  The module adds one history variable, the packets that have been   *)
(* sealed.                                                                  *)
(***************************************************************************)
EXTENDS AeadProperties, FiniteSets

VARIABLE sealed   (* history: what aead_encrypt has returned                *)

(* The n bytes at p, as a sequence.                                         *)
Text(m, p, n) == [i \in 1 .. n |-> m[p + i - 1]]

(* A packet as it lies in memory m under the fields of request r, with tag   *)
(* t.                                                                       *)
Packet(r, m, t) ==
  [key |-> r.key, nonce |-> r.nonce, tag |-> t,
   aad  |-> Text(m, r.aad_ptr, r.aad_len),
   data |-> Text(m, r.data_ptr, r.data_len)]

Sealed ==
  [packet |-> Packet(aead_in, mem, poly1305_tag),
   text   |-> Text(call.mem, aead_in.data_ptr, aead_in.data_len)]

(* The receiver is given the tag of a packet, not only of the last one.      *)
Deliver == \E p \in sealed : StoreTag(p.packet.tag) /\ UNCHANGED sealed

ChannelInit == Init /\ sealed = {}

ChannelNext ==
  \/ PublishTag /\ sealed' = sealed \cup {Sealed}
  \/ pc # "publish" /\ Next /\ UNCHANGED sealed
  \/ Deliver

ChannelSpec == ChannelInit /\ [][ChannelNext]_<<vars, sealed>>

-----------------------------------------------------------------------------
(* The tags a caller makes up, and the tag field at load, are none that        *)
(* poly1305_final computes.                                                  *)
TagsApart == \A t \in StrayTags \cup {ZeroTag} : t \notin ComputedTag

(* aead_decrypt's comparison succeeds for a packet that some aead_encrypt    *)
(* returned, wherever in memory it now lies, and for no other: not with one  *)
(* byte or the tag changed, not under another key, and not when the same     *)
(* bytes are split differently between associated data, data and padding.    *)
OpensExactlySealed ==
  pc = "verify" /\ op = "decrypt" =>
    (poly1305_tag = aead_tag
       <=> \E p \in sealed : p.packet = Packet(aead_in, mem, aead_tag))

(* What aead_decrypt has written when it returns success is the text that    *)
(* was sealed, also when the associated data overlaps the data (it is read   *)
(* after the encryption and before the decryption).                         *)
OpensToSealedText ==
  pc = "stream" /\ op = "decrypt" /\ Drained =>
    \E p \in sealed :
      /\ p.packet = Packet(aead_in, call.mem, aead_tag)
      /\ p.text = Text(mem, aead_in.data_ptr, aead_in.data_len)
=============================================================================
