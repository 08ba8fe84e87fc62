------------------------------ MODULE PolyMac ------------------------------
(***************************************************************************)
(* Poly1305 as RFC 8439 defines it: an accumulator in the field of P         *)
(* elements, and a tag that is the accumulator plus s, cut to the tag's size. *)
(***************************************************************************)
EXTENDS Integers

CONSTANTS P,         \* 2^130 - 5
          TagSpace,  \* 2^128
          Rs, Ss,    \* clamped multipliers and final summands
          Blocks     \* message blocks with their high bit

VARIABLES acc, r, s, tag, phase

macVars == <<acc, r, s, tag, phase>>

MacInit ==
  acc = 0 /\ r = 0 /\ s = 0 /\ tag = 0 /\ phase = "idle"

MacStart(rr, ss) ==
  acc' = 0 /\ r' = rr /\ s' = ss /\ phase' = "keyed" /\ UNCHANGED tag

MacBlock(m) ==
  /\ phase = "keyed"
  /\ acc' = ((acc + m) * r) % P
  /\ UNCHANGED <<r, s, tag, phase>>

MacFinish ==
  /\ phase = "keyed"
  /\ tag' = (acc + s) % TagSpace
  /\ acc' = 0 /\ phase' = "idle"
  /\ UNCHANGED <<r, s>>

MacNext ==
  \/ \E rr \in Rs, ss \in Ss : MacStart(rr, ss)
  \/ \E m \in Blocks : MacBlock(m)
  \/ MacFinish

MacSpec == MacInit /\ [][MacNext]_macVars
=============================================================================
