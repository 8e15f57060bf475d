------------------------------ MODULE MCStateMap ------------------------------
(* Instances of StateMap for TLC.                                          *)
EXTENDS StateMap

\* Five nodes of four shapes: nodes 1 and 5 are structurally equal.
ShapeOf5 == [n \in 1..5 |-> IF n = 5 THEN 1 ELSE n]
==============================================================================
