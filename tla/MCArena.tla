-------------------------------- MODULE MCArena --------------------------------
(***************************************************************************)
(* Two arenas with blocks of four bytes, an allocation that is as large as *)
(* a block, and blocks that malloc aligns less than is asked for.          *)
(***************************************************************************)
EXTENDS Arena, TLC

Symmetric == Permutations(Arenas)
==============================================================================
