------------------------------ MODULE Dictionary ------------------------------
(***************************************************************************)
(* What an index under construction promises: a set of words that grows by *)
(* one whole word at a time, in increasing order, until it is closed.      *)
(***************************************************************************)
EXTENDS Lexicographic

CONSTANT Words

VARIABLES
    dict,     \* the words the index answers yes to
    last,     \* the last word inserted, empty before the first
    closed    \* no more words

dictVars == <<dict, last, closed>>

Init ==
    /\ dict = {}
    /\ last = << >>
    /\ closed = FALSE

Insert(w) ==
    /\ ~closed
    /\ last = << >> \/ Precedes(last, w)
    /\ dict' = dict \cup {w}
    /\ last' = w
    /\ UNCHANGED closed

Close ==
    /\ ~closed
    /\ closed' = TRUE
    /\ UNCHANGED <<dict, last>>

Next == (\E w \in Words : Insert(w)) \/ Close

Spec == Init /\ [][Next]_dictVars
==============================================================================
