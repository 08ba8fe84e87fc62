----------------------------- MODULE MCChannel -----------------------------
(* AeadChannel on a machine of 100 bytes, through the AEAD entry points only. *)
EXTENDS AeadChannel

ASSUME TagsAssumption == TagsApart

CONSTANTS k1, k2, n1, n2, z, stray

Req(k, n, ap, al, dp, dl) ==
  [key |-> k, nonce |-> n, aad_ptr |-> ap, aad_len |-> al,
   data_ptr |-> dp, data_len |-> dl]

(* Zero bytes everywhere but in 20 .. 29: what follows a buffer is what its  *)
(* padding would be.                                                        *)
MCInitMem == [a \in Addr |-> IF a \in 20 .. 29 THEN Literal(1 + (a % 3)) ELSE Zero]

(* The bytes at 20 .. 32 cut in different ways: the same prefix with a       *)
(* shorter and a longer run of trailing zeros, the boundary between          *)
(* associated data and data moved by one byte and by a whole block, nothing  *)
(* on either side, the wrong key or nonce, data longer than one keystream    *)
(* block, and associated data inside the data.                              *)
MCRequests ==
  { Req(k1, n1, 20, 3, 24, 4), Req(k1, n1, 20, 4, 24, 4),
    Req(k1, n1, 20, 4, 24, 3), Req(k1, n1, 20, 8, 28, 0),
    Req(k1, n1, 20, 0, 20, 8), Req(k2, n1, 20, 4, 24, 4),
    Req(k1, n2, 20, 4, 24, 4), Req(k1, n1, 22, 4, 20, 12),
    Req(k1, n1, 26, 3, 20, 13) }

MCEdits == { [addr |-> 23, val |-> 0], [addr |-> 25, val |-> 7] }
=============================================================================
