------------------------------ MODULE DamerauNFA ------------------------------
(***************************************************************************)
(* The states of DamerauNFA (src/damerau_nfa.cpp): the last two columns of *)
(* the distance table, and the last label of the text, with which the swap *)
(* of two neighbours costs one.                                            *)
(***************************************************************************)
EXTENDS LevenshteinDFA

DeadPair(query, clamp) ==
    [prev |-> DeadColumn(query, clamp), curr |-> DeadColumn(query, clamp), char |-> 0]

\* Before the first label the last label is 0, which a query may contain too:
\* the previous column is saturated, and no swap is found there.
StartPair(query, clamp) ==
    [prev |-> DeadColumn(query, clamp), curr |-> StartColumn(query, clamp), char |-> 0]

LastOfPair(query, st) == LastOf(query, st.curr)

\* The last two labels of the text, st.char and c, are query[i - 1] and
\* query[i] swapped.
SwappedInOrder(query, st, c, i) == i >= 2 /\ query[i - 1] = st.char /\ query[i] = c
Swapped(query, st, c, i) == i >= 2 /\ query[i] = st.char /\ query[i - 1] = c

\* compute_next: all states with both columns saturated are the dead one.
NextPair(query, clamp, st, c) ==
    LET N[i \in 0..Len(query)] ==
            IF i = 0 THEN Bumped(clamp, st.curr[0])
            ELSE LET best ==
                        LesserOf(LesserOf(Bumped(clamp, N[i - 1]), Bumped(clamp, st.curr[i])),
                                 Substitute(clamp, st.curr[i - 1], query[i] = c))
                 IN  IF Swapped(query, st, c, i)
                     THEN LesserOf(best, Bumped(clamp, st.prev[i - 2]))
                     ELSE best
        next == [prev |-> st.curr, curr |-> N, char |-> c]
        dead == DeadPair(query, clamp)
    IN  IF next.prev = dead.prev /\ next.curr = dead.curr THEN dead ELSE next
==============================================================================
