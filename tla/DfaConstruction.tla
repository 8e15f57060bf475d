---------------------------- MODULE DfaConstruction ----------------------------
(***************************************************************************)
(* How LevenshteinDFA::init (src/levenshtein_dfa.cpp) and, with the same   *)
(* code, DamerauNFA::init (src/damerau_nfa.cpp) make a distance automaton  *)
(* for a query: number the states that the labels lead to, breadth first;  *)
(* fill the transition table; and find, backwards from the accepting       *)
(* states, those from which an accepting state can be reached.  They       *)
(* differ in what a state is, which LevenshteinDFA and DamerauNFA define:  *)
(* metric says whose init it is.                                           *)
(*                                                                         *)
(* State ids start at 1, which is the dead state.                          *)
(***************************************************************************)
EXTENDS DamerauNFA, FiniteSets, SequencesExt

CONSTANTS
    Metrics,         \* the metrics that automata are made for
    Labels,          \* 0..255 in the code
    Queries,         \* queries: never all labels occur in one
    MaxDistances,
    ByteMax,         \* 255: distances are stored in a byte
    WordSize,        \* 2^32: the type of max_distance
    Distance(_, _, _),  \* by metric: the distance that the automaton is to compute
    Texts            \* the texts it is compared on

ASSUME MetricsAssumption == Metrics \subseteq {"Levenshtein", "DamerauLevenshtein"}
ASSUME LabelsAssumption == Labels \subseteq Nat /\ IsFiniteSet(Labels)
ASSUME WidthsAssumption ==
    ByteMax \in Nat /\ WordSize \in Nat /\ ByteMax < WordSize /\ MaxDistances \subseteq 0..(WordSize - 1)

\* A query has at most 64 labels, and a search goes down 255.
ASSUME QueriesAssumption ==
    \A q \in Queries : /\ q \in Seq(Labels) /\ Len(q) <= ByteMax /\ \E c \in Labels : c \notin ToSet(q)
                       /\ q # << >> => Front(q) \in Queries
ASSUME TextsAssumption ==
    \A t \in Texts : t \in Seq(Labels) /\ Len(t) <= ByteMax /\ (t # << >> => Front(t) \in Texts)

\* What the metrics are: the least number of edits, by the last labels of the
\* words.
SwappedLast(u, v) ==
    Len(u) > 1 /\ Len(v) > 1 /\ Last(u) = v[Len(v) - 1] /\ u[Len(u) - 1] = Last(v)
Ways(m, u, v) ==
    {Distance(m, Front(u), v) + 1, Distance(m, u, Front(v)) + 1,
     Distance(m, Front(u), Front(v)) + (IF Last(u) = Last(v) THEN 0 ELSE 1)}
    \cup IF m = "DamerauLevenshtein" /\ SwappedLast(u, v)
         THEN {Distance(m, Front(Front(u)), Front(Front(v))) + 1} ELSE {}
ASSUME DistanceAssumption ==
    \A m \in Metrics, u \in Queries, v \in Texts :
        IF u = << >> \/ v = << >> THEN Distance(m, u, v) = Len(u) + Len(v)
        ELSE /\ Distance(m, u, v) \in Ways(m, u, v)
             /\ \A d \in Ways(m, u, v) : Distance(m, u, v) <= d

VARIABLES
    metric,          \* the init that runs: constant
    query, max,      \* its arguments: constant
    representatives, \* the labels of the query and one other, in hash order
    states,          \* states: the id of a state is its place
    worklist,        \* ids of states to expand
    current, next,   \* the state being expanded; the representative to try next
    edges,           \* temp_trans
    phase,           \* where init is: "expand", "mark" or "ready"
    table,           \* table[id][label], filled after the expansion
    reachable,       \* can_match_vec
    bfs              \* ids of reachable states whose predecessors are not marked

vars == <<metric, query, max, representatives, states, worklist, current, next, edges,
          phase, table, reachable, bfs>>

----------------------------------------------------------------------------

\* The states of the automaton.
OfColumns == metric = "Levenshtein"
Dead(clamp) == IF OfColumns THEN DeadColumn(query, clamp) ELSE DeadPair(query, clamp)
Start(clamp) == IF OfColumns THEN StartColumn(query, clamp) ELSE StartPair(query, clamp)
Follow(clamp, st, c) ==
    IF OfColumns THEN NextColumn(query, clamp, st, c) ELSE NextPair(query, clamp, st, c)
LastEntry(st) == IF OfColumns THEN LastOf(query, st) ELSE LastOfPair(query, st)

\* The sum is taken in 32 bits, and its minimum with 255 stored in a byte.
Clamp == IF (max + 1) % WordSize < ByteMax THEN (max + 1) % WordSize ELSE ByteMax

QueryLabels(q) == ToSet(q)
OtherLabels(q) == Labels \ QueryLabels(q)
OtherRepresentative(q) == CHOOSE c \in OtherLabels(q) : \A d \in OtherLabels(q) : c <= d

Ids == DOMAIN states
IdOf(st) == {i \in Ids : states[i] = st}
Ascending(S) ==
    LET upTo[n \in 0..Len(states)] ==
            IF n = 0 THEN << >> ELSE IF n \in S THEN Append(upTo[n - 1], n) ELSE upTo[n - 1]
    IN  upTo[Len(states)]
WithEdge(e, id) == [x \in DOMAIN edges \cup {e} |-> IF x = e THEN id ELSE edges[x]]

DistanceOf(id) == LastEntry(states[id])
IsMatch(id) == DistanceOf(id) <= max
CanMatch(id) == id \in reachable

\* A clamp of 0 makes the start state the dead one: nothing is expanded.
Init ==
    /\ metric \in Metrics
    /\ query \in Queries
    /\ max \in MaxDistances
    /\ representatives \in
          {Append(order, OtherRepresentative(query)) : order \in SetToSeqs(QueryLabels(query))}
    /\ LET dead == Dead(Clamp)
           start == Start(Clamp)
       IN  IF start = dead THEN states = <<dead>> /\ worklist = << >>
           ELSE states = <<dead, start>> /\ worklist = <<2>>
    /\ current = 0
    /\ next = Len(representatives) + 1
    /\ edges = << >>
    /\ phase = "expand"
    /\ table = << >>
    /\ reachable = {}
    /\ bfs = << >>

StartId == IF Start(Clamp) = states[1] THEN 1 ELSE 2

\* The next state of the worklist is taken up.
PopStateKeeps ==
    /\ phase = "expand"
    /\ next > Len(representatives)
    /\ worklist # << >>
    /\ current' = Head(worklist)
    /\ worklist' = worklist
    /\ next' = 1
    /\ UNCHANGED <<metric, query, max, representatives, states, edges, phase, table, reachable, bfs>>
PopState ==
    /\ phase = "expand"
    /\ next > Len(representatives)
    /\ worklist # << >>
    /\ current' = Head(worklist)
    /\ worklist' = Tail(worklist)
    /\ next' = 1
    /\ UNCHANGED <<metric, query, max, representatives, states, edges, phase, table, reachable, bfs>>

\* One representative is tried: its state is looked up, or numbered and put
\* on the worklist.
NewId == Len(states) + 1
Known(st) == IdOf(st)
TryLabelForgets ==
    /\ phase = "expand"
    /\ next <= Len(representatives)
    /\ LET c  == representatives[next]
           st == Follow(Clamp, states[current], c)
           id == IF Known(st) # {} THEN CHOOSE i \in Known(st) : TRUE ELSE NewId
       IN  /\ edges' = WithEdge(<<current, c>>, id)
           /\ IF Known(st) # {} THEN UNCHANGED <<states, worklist>>
              ELSE /\ states' = Append(states, st)
                   /\ worklist' = worklist
    /\ next' = next + 1
    /\ UNCHANGED <<metric, query, max, representatives, current, phase, table, reachable, bfs>>
TryLabel ==
    /\ phase = "expand"
    /\ next <= Len(representatives)
    /\ LET c  == representatives[next]
           st == Follow(Clamp, states[current], c)
           id == IF Known(st) # {} THEN CHOOSE i \in Known(st) : TRUE ELSE NewId
       IN  /\ edges' = WithEdge(<<current, c>>, id)
           /\ IF Known(st) # {} THEN UNCHANGED <<states, worklist>>
              ELSE /\ states' = Append(states, st)
                   /\ worklist' = Append(worklist, id)
    /\ next' = next + 1
    /\ UNCHANGED <<metric, query, max, representatives, current, phase, table, reachable, bfs>>

\* The row of a state: a label of the query has its own edge, every other
\* label that of the representative of them all.  The dead state leads to itself.
RowEntry(id, c) ==
    IF id = 1 THEN 1
    ELSE edges[<<id, IF c \in QueryLabels(query) THEN c ELSE OtherRepresentative(query)>>]

\* The table is filled, and the marking starts from the accepting states.
FillTable ==
    /\ phase = "expand"
    /\ next > Len(representatives)
    /\ worklist = << >>
    /\ table' = [id \in Ids |-> [c \in Labels |-> RowEntry(id, c)]]
    /\ reachable' = {id \in Ids : IsMatch(id)}
    /\ bfs' = Ascending({id \in Ids : IsMatch(id)})
    /\ phase' = "mark"
    /\ UNCHANGED <<metric, query, max, representatives, states, worklist, current, next, edges>>

\* reverse_edges: the other states that have a transition to id; none is
\* recorded for the dead state.
PredecessorsOneLabel(id) ==
    {p \in Ids : p # id /\ id # 1 /\ table[p][OtherRepresentative(query)] = id}
Predecessors(id) == {p \in Ids : p # id /\ id # 1 /\ \E c \in Labels : table[p][c] = id}

\* The unmarked predecessors of the next marked state are marked.
Mark ==
    /\ phase = "mark"
    /\ bfs # << >>
    /\ LET new == Predecessors(Head(bfs)) \ reachable
       IN  /\ reachable' = reachable \cup new
           /\ bfs' = Tail(bfs) \o Ascending(new)
    /\ UNCHANGED <<metric, query, max, representatives, states, worklist, current, next, edges,
                   phase, table>>

Return ==
    /\ phase = "mark"
    /\ bfs = << >>
    /\ phase' = "ready"
    /\ UNCHANGED <<metric, query, max, representatives, states, worklist, current, next, edges,
                   table, reachable, bfs>>

Next == PopState \/ TryLabel \/ FillTable \/ Mark \/ Return

\* init is one thread's and waits for nothing: it keeps running.
Spec == Init /\ [][Next]_vars /\ WF_vars(Next)

\* The state after a text: what the search does with the table, step by step.
After(text) ==
    LET id[n \in 0..Len(text)] == IF n = 0 THEN StartId ELSE table[id[n - 1]][text[n]]
    IN  id[Len(text)]

----------------------------------------------------------------------------
(* Properties.                                                             *)

\* A state has one id: the automaton is built over the columns themselves,
\* which is what bounds its size.
IdsAreUnique == \A i, j \in Ids : states[i] = states[j] => i = j

\* Types; a state is found in states only once.
TypeOK ==
    /\ metric \in Metrics /\ query \in Queries /\ max \in MaxDistances
    /\ IdsAreUnique
    /\ phase \in {"expand", "mark", "ready"}
    /\ next \in 1..(Len(representatives) + 1)
    /\ current \in {0} \cup Ids
    /\ ToSet(worklist) \subseteq Ids /\ ToSet(bfs) \subseteq reachable /\ reachable \subseteq Ids
    /\ DOMAIN edges \subseteq Ids \X Labels /\ \A e \in DOMAIN edges : edges[e] \in Ids

\* Every state that has an id is waiting on the worklist, being expanded, or
\* has an edge to the state that follows for every representative: nothing
\* that the expansion found is left without its edges.
Linked(id, c) ==
    /\ <<id, c>> \in DOMAIN edges
    /\ states[edges[<<id, c>>]] = Follow(Clamp, states[id], c)
Expanded(id) ==
    \A k \in DOMAIN representatives :
        Linked(id, representatives[k]) \/ (id = current /\ k >= next)
NoneUnexpanded ==
    \A id \in Ids \ {1} : id \in ToSet(worklist) \/ Expanded(id)

\* What the expansion keeps, up to the table that is filled from it.
ExpansionSound == TypeOK /\ NoneUnexpanded

\* The automaton computes the distance, as far as it matters for max: after
\* any text, whatever the order in which the states were numbered.  For the
\* greatest max the clamp is 0: still exactly the texts within max match, which
\* are all, but each with the distance 0.
DistancesExact ==
    phase = "ready" => \A text \in Texts :
        LET d == Distance(metric, query, text)
        IN  /\ DistanceOf(After(text)) = IF d < Clamp THEN d ELSE Clamp
            /\ IsMatch(After(text)) <=> d <= max

\* A text is pruned exactly when no continuation of it is within max: when no
\* prefix of the query is.
PruningIsExact ==
    phase = "ready" => \A text \in Texts :
        CanMatch(After(text))
            <=> \E i \in 0..Len(query) : Distance(metric, SubSeq(query, 1, i), text) <= max

\* init ends, for there are finitely many clamped columns.
InitEnds == <>(phase = "ready")
==============================================================================
