--------------------------- MODULE AeadDocClaims ---------------------------
(***************************************************************************)
(* A sentence of docs/API.md about the AEAD entry points that the code does *)
(* not keep, checked by a run of its own, which TLC refutes.                *)
(***************************************************************************)
EXTENDS MCAead

(* API.md:133, the status table: on the path that returns $ff,               *)
(* authentication failure, what is written is "nothing", the same as on the  *)
(* $01 path, where API.md:90 and :602 spell out poly1305_tag.  The code has  *)
(* computed the tag into poly1305_tag by the time it compares.               *)
AuthFailureWritesNothing ==
  [][pc = "verify" /\ pc' = "caller" =>
       mem' = call.mem /\ aead_tag' = call.tag /\ poly1305_tag' = call.out]_vars
=============================================================================
