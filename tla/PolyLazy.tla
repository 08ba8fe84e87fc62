------------------------------ MODULE PolyLazy ------------------------------
(***************************************************************************)
(* The library's Poly1305 on whole numbers.  The accumulator is reduced only *)
(* in part after a block: 2^130 is replaced by 5 once, and what remains may  *)
(* reach beyond 2^130.  poly1305_final then subtracts the modulus at most     *)
(* once.                                                                    *)
(***************************************************************************)
EXTENDS Integers

CONSTANTS Top,        \* 2^130
          TagSpace,   \* 2^128
          Rs,         \* what poly1305_clamp leaves
          Ss, Blocks

(* The clamp clears the top four bits of r, a block has 128 bits and its high *)
(* bit.                                                                     *)
ASSUME SpaceAssumption == TagSpace \in Nat /\ TagSpace >= 4 /\ Top = 4 * TagSpace
ASSUME ClampAssumption == Rs \subseteq Nat /\ \A x \in Rs : 64 * x <= Top
ASSUME BlockAssumption == Blocks \subseteq Nat /\ \A m \in Blocks : 2 * m <= Top
ASSUME PadAssumption   == Ss \subseteq Nat /\ \A x \in Ss : x < TagSpace

VARIABLES poly_h, poly_r, poly_s, poly1305_tag, phase

vars == <<poly_h, poly_r, poly_s, poly1305_tag, phase>>

P == Top - 5

Init ==
  poly_h = 0 /\ poly_r = 0 /\ poly_s = 0 /\ poly1305_tag = 0 /\ phase = "idle"

(* poly1305_init, with the key's halves in place.                           *)
Start(rr, ss) ==
  /\ poly_h' = 0 /\ poly_r' = rr /\ poly_s' = ss /\ phase' = "keyed"
  /\ UNCHANGED poly1305_tag

(* poly1305_reduce: x = L + Top * H becomes L + 5 * H.                       *)
(* Mutant: cut one bit too high, which is congruent all the same.            *)
FoldHigher(x) == (x % (2 * Top)) + 10 * (x \div (2 * Top))

Fold(x) == (x % Top) + 5 * (x \div Top)

(* poly1305_block                                                           *)
Block(m) ==
  /\ phase = "keyed"
  /\ poly_h' = Fold((poly_h + m) * poly_r)
  /\ UNCHANGED <<poly_r, poly_s, poly1305_tag, phase>>

(* The full reduction of poly1305_final, selected by bit 130 of h + 5.        *)
(* Mutant: selected by bit 130 of h.                                        *)
ReduceOnTop(x) == IF (x \div Top) % 2 = 1 THEN (x + 5) % Top ELSE x

ReduceOnce(x) == IF ((x + 5) \div Top) % 2 = 1 THEN (x + 5) % Top ELSE x

(* The sum's low 128 bits are the tag, and stay in poly_h.                   *)
Finish ==
  /\ phase = "keyed"
  /\ LET full == ReduceOnce(poly_h)
         low  == (full + poly_s) % TagSpace
     IN  /\ poly1305_tag' = low
         /\ poly_h' = (full \div TagSpace) * TagSpace + low
  /\ phase' = "idle"
  /\ UNCHANGED <<poly_r, poly_s>>

Next ==
  \/ \E rr \in Rs, ss \in Ss : Start(rr, ss)
  \/ \E m \in Blocks : Block(m)
  \/ Finish

Spec == Init /\ [][Next]_vars

-----------------------------------------------------------------------------
TypeOK ==
  /\ poly_h \in Nat /\ poly_r \in Rs \cup {0} /\ poly_s \in Ss \cup {0}
  /\ poly1305_tag \in 0 .. TagSpace - 1
  /\ phase \in {"idle", "keyed"}

(* However many blocks are absorbed without a full reduction, the accumulator *)
(* stays below 5/4 of 2^130: the seventeenth byte never overflows, and one    *)
(* conditional subtraction is enough at the end.                            *)
InRange == phase = "keyed" => 4 * poly_h < 5 * Top

(* The library computes the RFC's accumulator modulo P, and the RFC's tag.    *)
Mac == INSTANCE PolyMac WITH
         acc <- (IF phase = "keyed" THEN poly_h % P ELSE 0),
         r <- poly_r, s <- poly_s, tag <- poly1305_tag

ImplementsMac == Mac!MacSpec
=============================================================================
