------------------------------- MODULE MCAead -------------------------------
(* AeadLib on a machine of 100 bytes: digits 0 .. 9, keystream blocks of 8   *)
(* and Poly1305 blocks of 4 bytes.                                          *)
EXTENDS AeadProperties

CONSTANTS k1, k2, n1, z, otk1, stray

Req(k, ap, al, dp, dl) ==
  [key |-> k, nonce |-> n1, aad_ptr |-> ap, aad_len |-> al,
   data_ptr |-> dp, data_len |-> dl]

(* Literals 0, 1, 2, 0, 1, 2, ... all over memory.                          *)
MCInitMem == [a \in Addr |-> Literal(a % 3)]

(* Partial and whole last blocks of either kind, counts with a zero and a    *)
(* non-zero high byte, buffers that end at the top of memory exactly, one    *)
(* byte beyond it and far beyond it, and empty ones.                        *)
MCRequests ==
  { Req(k1, 10, 3, 76, 21),   \* every walker ends in a partial block
    Req(k1,  0, 0, 92,  8),   \* no AAD; the data ends at the top
    Req(k2, 91, 9, 20, 12),   \* the AAD ends at the top; count 12 = (1, 2)
    Req(k1, 30, 4, 40,  0),   \* no data
    Req(k1,  0, 1, 92,  9),   \* data one byte too long
    Req(k1, 97, 4, 40,  9),   \* AAD one byte too long
    Req(k2, 95, 9, 88, 88) }  \* both far too long

MCCipherInputs ==
  { [key |-> k1, nonce |-> n1, ctr |-> 0],          \* the packet's own block 0
    [key |-> k2, nonce |-> n1, ctr |-> CtrMod - 1] }\* wraps after one block

MCExtents == { [ptr |-> 75, len |-> 4],  [ptr |-> 70, len |-> 9],
               [ptr |-> 84, len |-> 16], [ptr |-> 5,  len |-> 0] }

ASSUME BuffersAssumption == SeparateBuffers

MCEdits == { [addr |-> 12, val |-> 5], [addr |-> 78, val |-> 0] }
=============================================================================
