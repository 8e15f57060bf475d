-------------------------------- MODULE MCBuild --------------------------------
(***************************************************************************)
(* Build on every list of up to MaxWords words from seven, sorted or not:  *)
(* the empty word, prefixes of others, suffixes to share, a root with      *)
(* three children; and on lists of one word more, all different, which     *)
(* have a large bucket and another one behind it.  Lists of three words    *)
(* are distributed, counts of two escape.                                  *)
(***************************************************************************)
EXTENDS Build

CONSTANT MaxWords

Dictionary7 == {<< >>, <<0>>, <<0, 1>>, <<1>>, <<1, 0>>, <<1, 1>>, <<2, 0, 1>>}
Permuted == {l \in [1..(MaxWords + 1) -> Dictionary7] : IsInjective(l)}
Lists == BoundedSeq(Dictionary7, MaxWords) \cup Permuted
==============================================================================
