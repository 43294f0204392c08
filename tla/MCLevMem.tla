------------------------------ MODULE MCLevMem ------------------------------
(* Two slab classes stand for the five of lev_slab.c; the read block is a   *)
(* block of the larger one.                                                 *)
EXTENDS LevMem, TLC

MCClassSize == <<2, 4>>
MCPoolMin == <<1, 1>>
MCSymmetry == Permutations(Blocks) \cup Permutations(Slices)
=============================================================================
