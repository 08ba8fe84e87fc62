----------------------------- MODULE MCPolyLazy -----------------------------
(* Every multiplier the clamp leaves, and the blocks at the ends of the range *)
(* and around the carries, of a small field.                                *)
EXTENDS PolyLazy

AllMultipliers == 0 .. Top \div 64
EdgeBlocks     == {0, 1, 4, 5, 63, 64, 100, 123, 127, 128}
EdgePads       == {0, TagSpace - 1}
=============================================================================
