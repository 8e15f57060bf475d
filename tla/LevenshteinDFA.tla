---------------------------- MODULE LevenshteinDFA ----------------------------
(***************************************************************************)
(* The states of LevenshteinDFA (src/levenshtein_dfa.cpp): a column of the *)
(* distance table of the query and a text, its entries cut off at clamp.   *)
(***************************************************************************)
EXTENDS Naturals, Sequences

AtMost(clamp, d) == IF d < clamp THEN d ELSE clamp
Bumped(clamp, d) == IF d < clamp THEN d + 1 ELSE clamp
LesserOf(a, b) == IF a < b THEN a ELSE b

DeadColumn(query, clamp) == [i \in 0..Len(query) |-> clamp]
StartColumn(query, clamp) == [i \in 0..Len(query) |-> AtMost(clamp, i)]
LastOf(query, col) == col[Len(query)]

\* compute_next: the column after one more label c of the text.
Substitute(clamp, d, same) == IF d < clamp /\ ~same THEN d + 1 ELSE d
NextColumn(query, clamp, col, c) ==
    LET N[i \in 0..Len(query)] ==
            IF i = 0 THEN Bumped(clamp, col[0])
            ELSE LesserOf(LesserOf(Bumped(clamp, N[i - 1]), Bumped(clamp, col[i])),
                          Substitute(clamp, col[i - 1], query[i] = c))
    IN  N
==============================================================================
