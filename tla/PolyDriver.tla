----------------------------- MODULE PolyDriver -----------------------------
(***************************************************************************)
(* poly1305_lib.s and the drivers of poly1305_core.s.  The arithmetic of    *)
(* h := (h + block) * r mod 2^130-5 is abstracted: the accumulator is the   *)
(* sequence of blocks it has absorbed, each with the high bit it was given  *)
(* and the multiplier it met, so that two accumulators are equal only if    *)
(* they come from the same blocks, in the same order, under the same r.     *)
(***************************************************************************)
EXTENDS LibMemory

CONSTANT Profile     (* "A": Shoup tables per r; "B": quarter-square table  *)

ASSUME ProfileAssumption == Profile \in {"A", "B"}

VARIABLES
  poly_r, poly_s,   (* the two halves of the one-time key                   *)
  poly_h,           (* the accumulator                                      *)
  r_tab,            (* Profile A: the r the Shoup tables were built for      *)
  sqtab,            (* Profile B: does memory hold the quarter squares?      *)
  sqtab_ready,      (* the flag that says so                                *)
  poly1305_tag,     (* output of poly1305_final                             *)
  zp_ptr1,          (* block pointer: an address, or ScratchPtr             *)
  aead_scratch      (* one block of library-owned memory                    *)

(* The address of aead_scratch.  It is not one of the caller's addresses.   *)
ScratchPtr == Space

ZeroBlock == [i \in 0 .. PolyBlock - 1 |-> Zero]

(* The 16 bytes at address p of memory m.                                   *)
BytesAt(m, p) == [i \in 0 .. PolyBlock - 1 |-> m[AddWord(p, i)]]

(* The n bytes at p, zero filled.                                           *)
PadBytes(m, p, n) ==
  [i \in 0 .. PolyBlock - 1 |-> IF i < n THEN m[AddWord(p, i)] ELSE Zero]

(* What poly1305_multiply multiplies by.                                    *)
Multiplier == IF Profile = "A" THEN r_tab ELSE poly_r

(* poly1305_block: accumulator h after one more block.  Without its table   *)
(* Profile B computes garbage.                                              *)
Absorbed(h, bytes, hibit) ==
  [clean  |-> h.clean /\ (Profile = "A" \/ sqtab),
   blocks |-> Append(h.blocks,
                [bytes |-> bytes, hibit |-> hibit, r |-> Multiplier])]

PolyAbsorb(bytes, hibit) == poly_h' = Absorbed(poly_h, bytes, hibit)

(* mul_tables_init, unless sqtab_ready says it has run.                     *)
BuildTables ==
  IF Profile = "B" /\ ~sqtab_ready
  THEN sqtab' = TRUE /\ sqtab_ready' = TRUE
  ELSE UNCHANGED <<sqtab, sqtab_ready>>

(* Mutant: the accumulator of the last message is kept.                    *)
PolyInitKeepsH(r, s) ==
  /\ poly_r' = Clamp(r)
  /\ poly_s' = s
  /\ BuildTables
  /\ r_tab' = IF Profile = "A" THEN Clamp(r) ELSE r_tab
  /\ UNCHANGED poly_h

(* Mutant: the Shoup tables of the last key are kept.                      *)
PolyInitKeepsTables(r, s) ==
  /\ poly_r' = Clamp(r)
  /\ poly_s' = s
  /\ poly_h' = FreshH
  /\ BuildTables
  /\ UNCHANGED r_tab

(* poly1305_init with the one-time key halves r and s in place.             *)
PolyInit(r, s) ==
  /\ poly_r' = Clamp(r)
  /\ poly_s' = s
  /\ poly_h' = FreshH
  /\ BuildTables
  /\ r_tab' = IF Profile = "A" THEN Clamp(r) ELSE r_tab

(* poly1305_final on accumulator h: the sum h + s goes to poly1305_tag and  *)
(* to poly_h alike.                                                         *)
PolyFinal(h) ==
  /\ poly1305_tag' = [s |-> poly_s, h |-> h]
  /\ poly_h' = DirtyH

PolyTypeOK ==
  /\ poly_r \in OtkHalf /\ poly_s \in OtkHalf /\ r_tab \in OtkHalf
  /\ poly_h \in Accumulator
  /\ sqtab \in BOOLEAN /\ sqtab_ready \in BOOLEAN
  /\ poly1305_tag \in TagValue
  /\ zp_ptr1 \in Addr \cup {ScratchPtr}
  /\ aead_scratch \in BlockBytes
=============================================================================
