---------------------------- MODULE ChaChaRounds ----------------------------
(***************************************************************************)
(* The two ChaCha20 cores of the library on bytes.  The default core inlines *)
(* its quarter rounds and turns rotations by whole bytes into renamed byte    *)
(* offsets; the compact core rolls all rounds into one loop.  The single      *)
(* quarter round of the default build works on word32_lib.                  *)
(***************************************************************************)
EXTENDS Integers, Sequences, Bitwise

CONSTANTS Cores,       \* subset of {"default", "compact"}
          Requests,    \* [key, counter, nonce], each a function to bytes
          Grids,       \* what a caller leaves in the working words
          MaxCalls     \* how often the caller calls

VARIABLES
  core,                \* which build this is
  cc20_state, cc20_work, cc20_round,
  row,                 \* the row of cc20_qr_table that is being worked on
  step,                \* how much of that quarter round is done, 0 .. 3
  pc,                  \* "caller", "rounds", "add" or "single"
  made,                \* history: the state cc20_work is the key stream of
  calls                \* history: how often the caller called

vars == <<core, cc20_state, cc20_work, cc20_round, row, step, pc, made, calls>>

Byte  == 0 .. 255
Place == 0 .. 63

cc20_constants == <<\h65, \h78, \h70, \h61, \h6e, \h64, \h20, \h33,
                    \h32, \h2d, \h62, \h79, \h74, \h65, \h20, \h6b>>

cc20_qr_table == << <<0, 4,  8, 12>>, <<1, 5,  9, 13>>,
                    <<2, 6, 10, 14>>, <<3, 7, 11, 15>>,
                    <<0, 5, 10, 15>>, <<1, 6, 11, 12>>,
                    <<2, 7,  8, 13>>, <<3, 4,  9, 14>> >>

-----------------------------------------------------------------------------
(* Words are four bytes, low byte first.  A word renamed by r bytes keeps its *)
(* byte k at the offset that byte k - r has in natural order.                *)

Get(w, n, r) == [k \in 0 .. 3 |-> w[4 * n + ((k - r) % 4)]]

Put(w, n, r, v) ==
  [y \in Place |-> IF y \div 4 = n THEN v[(y + r) % 4] ELSE w[y]]

add32(u, v) ==
  LET c[k \in 0 .. 3] == IF k = 0 THEN 0
                         ELSE (u[k - 1] + v[k - 1] + c[k - 1]) \div 256
  IN  [k \in 0 .. 3 |-> (u[k] + v[k] + c[k]) % 256]

xor32(u, v) == [k \in 0 .. 3 |-> u[k] ^^ v[k]]

rotr32_16(u) == [k \in 0 .. 3 |-> u[(k + 2) % 4]]
rotl32_8(u)  == [k \in 0 .. 3 |-> u[(k - 1) % 4]]

rotl32_4(u) == [k \in 0 .. 3 |-> ((u[k] * 16) % 256) + (u[(k - 1) % 4] \div 16)]

rotr32_1(u) == [k \in 0 .. 3 |-> (u[k] \div 2) + 128 * (u[(k + 1) % 4] % 2)]

rotl32_12(u) == rotl32_4(rotl32_8(u))
rotl32_7(u)  == rotr32_1(rotl32_8(u))

(* p += q; s ^= p, with q renamed by qr and s by sr.                          *)
AddXor(w, p, q, qr, s, sr) ==
  LET added == Put(w, p, 0, add32(Get(w, p, 0), Get(w, q, qr)))
  IN  Put(added, s, sr, xor32(Get(added, s, sr), Get(added, p, 0)))

(* The operands p, q, s of each of the four steps: a, b, d and c, d, b.       *)
Operands(t, k) == IF k % 2 = 0 THEN <<t[1], t[2], t[4]>>
                               ELSE <<t[3], t[4], t[2]>>

-----------------------------------------------------------------------------
(* The caller                                                               *)

StateOf(req) ==
  [y \in Place |-> IF y < 16 THEN cc20_constants[y + 1]
                   ELSE IF y < 48 THEN req.key[y - 16]
                   ELSE IF y < 52 THEN req.counter[y - 48]
                   ELSE req.nonce[y - 52]]

NoState == [y \in Place |-> 0]

Init ==
  /\ core \in Cores
  /\ cc20_state = NoState /\ cc20_work \in Grids /\ cc20_round = 0
  /\ row = 0 /\ step = 0 /\ pc = "caller"
  /\ made = {} /\ calls = 0

CallerTurn == pc = "caller" /\ calls < MaxCalls /\ calls' = calls + 1

ChaChaInit(req) ==
  /\ CallerTurn
  /\ cc20_state' = StateOf(req)
  /\ UNCHANGED <<core, cc20_work, cc20_round, row, step, pc, made>>

(* chacha20_block copies the state; the default core has row 0 in its code.   *)
BlockBegin ==
  /\ CallerTurn /\ cc20_state # NoState
  /\ cc20_work' = [y \in Place |-> IF core = "default" /\ y < 16
                                   THEN cc20_constants[y + 1] ELSE cc20_state[y]]
  /\ cc20_round' = 10 /\ row' = 0 /\ step' = 0
  /\ pc' = "rounds" /\ made' = {}
  /\ UNCHANGED <<core, cc20_state>>

(* chacha20_quarter_round on working words that the caller has written.       *)
SingleBegin(w, n) ==
  /\ CallerTurn
  /\ cc20_work' = w /\ row' = n /\ step' = 0
  /\ pc' = "single" /\ made' = {}
  /\ UNCHANGED <<core, cc20_state, cc20_round>>

-----------------------------------------------------------------------------
(* One step of a quarter round, and where it leads                           *)

Advance ==
  /\ step' = (step + 1) % 4
  /\ IF step < 3 THEN UNCHANGED <<row, cc20_round, pc>>
     ELSE IF pc = "single" THEN /\ row' = 0 /\ pc' = "caller"
                                /\ UNCHANGED cc20_round
     ELSE /\ row' = (row + 1) % 8
          /\ cc20_round' = IF row = 7 THEN cc20_round - 1 ELSE cc20_round
          /\ pc' = IF cc20_round' = 0 THEN "add" ELSE "rounds"
  /\ UNCHANGED <<core, cc20_state, made, calls>>

(* How q and s are renamed in each step of cc20_qr.                          *)
(* Mutant: the last step still reads d as it was before d <<<= 8.            *)
ReadOffsetsStale == <<0, 2, 1, 2>>

ReadOffsets == <<0, 2, 1, 3>>

XorOffsets  == <<0, 0, 2, 1>>

(* <<< 12 and <<< 7 are a renaming by one byte and a shift of the bytes where *)
(* they lie; at the end b and d are moved back into natural order.           *)
InlineStep ==
  /\ pc = "rounds" /\ core = "default"
  /\ LET o == Operands(cc20_qr_table[row + 1], step)
         q == o[2]
         s == o[3]
         w == AddXor(cc20_work, o[1], q, ReadOffsets[step + 1],
                     s, XorOffsets[step + 1])
         here == Get(w, s, 0)
     IN  cc20_work' =
           IF step = 1 THEN Put(w, s, 0, rotl32_4(here))
           ELSE IF step = 3
           THEN LET b == Put(w, s, 0, rotr32_16(rotr32_1(here)))
                IN  Put(b, q, 0, Get(w, q, 3))
           ELSE w
  /\ Advance

(* The default build's chacha20_quarter_round: subroutines on pointers.       *)
WordStep ==
  /\ pc = "single" /\ core = "default"
  /\ LET o == Operands(cc20_qr_table[row + 1], step)
         s == o[3]
         w == AddXor(cc20_work, o[1], o[2], 0, s, 0)
         v == Get(w, s, 0)
     IN  cc20_work' = Put(w, s, 0, CASE step = 0 -> rotr32_16(v)
                                     [] step = 1 -> rotl32_12(v)
                                     [] step = 2 -> rotl32_8(v)
                                     [] step = 3 -> rotl32_7(v))
  /\ Advance

(* The compact core's rotations: bytes to the left, then bits to the right.   *)
(* Mutant: no bit to the right in the last step.                            *)
qr_rot_bits_short == <<0, 4, 0, 0>>

qr_rot_bits == <<0, 4, 0, 1>>

qr_rot_bytes == <<2, 2, 1, 1>>

Turned(v, bytes, bits) ==
  LET left[n \in 0 .. 2]  == IF n = 0 THEN v ELSE rotl32_8(left[n - 1])
      right[n \in 0 .. 4] == IF n = 0 THEN left[bytes] ELSE rotr32_1(right[n - 1])
  IN  right[bits]

CompactStep ==
  /\ pc \in {"rounds", "single"} /\ core = "compact"
  /\ LET t   == cc20_qr_table[row + 1]
         off == t \o <<t[1], t[2]>>
         m   == 2 * (step % 2)
         s   == off[m + 4]
         w   == AddXor(cc20_work, off[m + 1], off[m + 2], 0, s, 0)
     IN  cc20_work' = Put(w, s, 0, Turned(Get(w, s, 0), qr_rot_bytes[step + 1],
                                          qr_rot_bits[step + 1]))
  /\ Advance

-----------------------------------------------------------------------------
(* inc of the counter's bytes for as long as they wrap.                      *)
NextCounter(st) ==
  [y \in Place |->
     IF y \in 48 .. 51 /\ \A z \in 48 .. y - 1 : st[z] = 255
     THEN (st[y] + 1) % 256 ELSE st[y]]

(* work += state, word by word; row 0 again from the code of the default core.*)
AddState ==
  /\ pc = "add"
  /\ LET base == [y \in Place |-> IF core = "default" /\ y < 16
                                  THEN cc20_constants[y + 1] ELSE cc20_state[y]]
         sum  == [n \in 0 .. 15 |-> add32(Get(cc20_work, n, 0), Get(base, n, 0))]
     IN  cc20_work' = [y \in Place |-> sum[y \div 4][y % 4]]
  /\ cc20_state' = NextCounter(cc20_state)
  /\ made' = {cc20_state}
  /\ pc' = "caller"
  /\ UNCHANGED <<core, cc20_round, row, step, calls>>

Next ==
  \/ \E req \in Requests : ChaChaInit(req)
  \/ BlockBegin
  \/ \E w \in Grids, n \in 0 .. 7 : SingleBegin(w, n)
  \/ InlineStep \/ WordStep \/ CompactStep
  \/ AddState

Spec == Init /\ [][Next]_vars

-----------------------------------------------------------------------------
(* Where the inlined quarter round keeps b and d before each of its steps.    *)
Renaming(n) ==
  IF pc # "rounds" \/ core # "default" THEN 0
  ELSE LET t == cc20_qr_table[row + 1]
       IN  CASE n = t[2] -> <<0, 0, 1, 1>>[step + 1]
             [] n = t[4] -> <<0, 2, 2, 3>>[step + 1]
             [] OTHER    -> 0

WordOf(v) == [lo |-> v[0] + 256 * v[1], hi |-> v[2] + 256 * v[3]]
Natural(w) == [n \in 0 .. 15 |-> WordOf(Get(w, n, 0))]

(* Step by step, through the renamed offsets, both cores and the single       *)
(* quarter round compute the RFC's block function, and the block counter      *)
(* wraps without touching the nonce.                                        *)
Rfc == INSTANCE ChaChaRfc WITH
         Inputs  <- {Natural(StateOf(req)) : req \in Requests}
                      \cup {Natural(NoState)},
         Grids   <- {Natural(w) : w \in Grids},
         input   <- Natural(cc20_state),
         x       <- [n \in 0 .. 15 |-> WordOf(Get(cc20_work, n, Renaming(n)))],
         quarter <- CASE pc = "rounds" -> 8 * (10 - cc20_round) + row
                      [] pc = "add"    -> 80
                      [] pc = "single" -> row
                      [] pc = "caller" -> 0,
         line    <- step,
         doing   <- CASE pc = "caller" -> "nothing"
                      [] pc = "single" -> "single"
                      [] OTHER         -> "block"

ImplementsRfc == Rfc!RfcSpec
=============================================================================
