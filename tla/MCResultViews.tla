----------------------------- MODULE MCResultViews -----------------------------
(***************************************************************************)
(* ResultViews with words of different lengths, so that a later search     *)
(* overwrites a part of a word, and enough of them to grow a string.       *)
(***************************************************************************)
EXTENDS ResultViews, TLC

Founds == {<< <<1>>, <<2, 3>> >>, << <<3, 1>> >>}
Symmetric == Permutations(Threads) \cup Permutations(Handles)
==============================================================================
