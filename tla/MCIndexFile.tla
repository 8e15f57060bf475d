------------------------------ MODULE MCIndexFile ------------------------------
(***************************************************************************)
(* IndexFile with two readers, while an index is rebuilt by a longer one   *)
(* and that by a shorter one.                                              *)
(***************************************************************************)
EXTENDS IndexFile, TLC

Rebuilds == <<2, 3, 1>>
Symmetric == Permutations(Readers)
==============================================================================
