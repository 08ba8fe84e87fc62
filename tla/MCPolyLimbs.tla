---------------------------- MODULE MCPolyLimbs ----------------------------
(* Bytes of 32 values and an r of three: 2^130 becomes 131072.               *)
EXTENDS PolyLimbsProperties, TLC

Key(a, b, c)       == (0 :> a) @@ (1 :> b) @@ (2 :> c)
Block4(a, b, c, d) == (0 :> a) @@ (1 :> b) @@ (2 :> c) @@ (3 :> d)

(* All bits that the clamp leaves, and some that it removes.                 *)
SomeKeys ==
  {[r |-> Key(31, 31, 31), s |-> Key(31, 31, 31)],
   [r |-> Key(21, 21, 17), s |-> Key(0, 16, 1)]}

(* With the first key the second block makes a carry run through two bytes;   *)
(* with the second key the third leaves an accumulator between the modulus    *)
(* and 2^130.                                                               *)
SomeBlocks ==
  {Block4(31, 31, 31, 1), Block4(12, 31, 0, 1), Block4(30, 5, 20, 1),
   Block4(1, 0, 0, 0)}
=============================================================================
