------------------------------- MODULE Registry -------------------------------
(***************************************************************************)
(* What StateMap promises (src/state_map.h): find_or_insert(node) answers  *)
(* with the held node of the same shape, or holds the node and answers     *)
(* with it.  Shape is what nodes_equal compares: the final flag and the    *)
(* transitions.  FstBuilder's set of registered nodes behaves this way.    *)
(***************************************************************************)
CONSTANTS Nodes, Shape

VARIABLES
    held,     \* the nodes in the map
    asked,    \* the argument of the call under way, Nobody between calls
    answer    \* the last answer, Nobody before the first

regVars == <<held, asked, answer>>

Nobody == 0

Init == held = {} /\ asked = Nobody /\ answer = Nobody

Ask(n) ==
    /\ asked = Nobody
    /\ asked' = n
    /\ UNCHANGED <<held, answer>>

\* The call answers with m, and holds it if it was not held.
Answer(m) ==
    /\ asked # Nobody
    /\ asked' = Nobody
    /\ answer' = m
    /\ held' = held \cup {m}

Equal(n) == {m \in held : Shape[m] = Shape[n]}

Find == \E m \in Equal(asked) : Answer(m)
Insert == Equal(asked) = {} /\ Answer(asked)

Next == (\E n \in Nodes : Ask(n)) \/ (asked # Nobody /\ (Find \/ Insert))

Spec == Init /\ [][Next]_regVars
==============================================================================
