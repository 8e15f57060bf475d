------------------------------- MODULE FstWriter -------------------------------
(***************************************************************************)
(* fst_serialize (src/fst_writer.cpp): from the nodes of the builder to    *)
(* the bytes of the index.  A depth-first walk orders the nodes that the   *)
(* root reaches, children first; then each gets its offset; then each is   *)
(* written.  The layout of the data is that of FstReader.                  *)
(***************************************************************************)
EXTENDS FstReader, SequencesExt

CONSTANT Pools       \* the automata to write: see Pool

VARIABLES
    pool,            \* root and node_pool: constant
    stk,             \* the stack of the walk
    visited, order,
    offsets,         \* offsets, of the nodes placed so far
    writePos,
    data,            \* the data section of buf
    written,         \* how many nodes of order have been written
    header,
    phase

vars == <<pool, stk, visited, order, offsets, writePos, written, header, phase, data>>

\* The node pool may hold nodes that the root does not reach: those that the
\* builder found to be equivalent to registered ones.
Pool == [root : Nat,
         nodes : Seq([final : BOOLEAN, transitions : Seq([label : Nat, child : Nat])])]

Frame(id) == [id |-> id, processed |-> FALSE]
NoHeader == [nodes |-> 0, transitions |-> 0, root |-> 0]

----------------------------------------------------------------------------

Node(id) == pool.nodes[id]
ChildrenOf(id) == [i \in DOMAIN Node(id).transitions |-> Node(id).transitions[i].child]

\* One cell for the count, one more if it is at least Escape, two a transition.
CellsOf(id) == LET n == Len(Node(id).transitions)
               IN  (IF n >= Escape THEN 2 ELSE 1) + 2 * n

Init ==
    /\ pool \in Pools
    /\ stk = <<Frame(pool.root)>>
    /\ visited = {}
    /\ order = << >>
    /\ offsets = << >>
    /\ writePos = 0
    /\ data = << >>
    /\ written = 0
    /\ header = NoHeader
    /\ phase = "walk"

Top == stk[Len(stk)]
Popped == SubSeq(stk, 1, Len(stk) - 1)

\* The node's children are done: it is next in the order.
Emit ==
    /\ phase = "walk"
    /\ stk # << >>
    /\ Top.processed
    /\ order' = Append(order, Top.id)
    /\ stk' = Popped
    /\ UNCHANGED <<pool, visited, offsets, writePos, data, written, header, phase>>

\* The node was visited after it had been pushed.
SkipEmits ==
    /\ phase = "walk"
    /\ stk # << >>
    /\ ~Top.processed
    /\ Top.id \in visited
    /\ order' = Append(order, Top.id)
    /\ stk' = Popped
    /\ UNCHANGED <<pool, visited, offsets, writePos, data, written, header, phase>>
SkipStays ==
    /\ phase = "walk"
    /\ stk # << >>
    /\ ~Top.processed
    /\ Top.id \in visited
    /\ UNCHANGED vars
Skip ==
    /\ phase = "walk"
    /\ stk # << >>
    /\ ~Top.processed
    /\ Top.id \in visited
    /\ stk' = Popped
    /\ UNCHANGED <<pool, visited, order, offsets, writePos, data, written, header, phase>>

\* The node's unvisited children are pushed, the first on top; a child that two
\* transitions lead to is pushed twice.
Visit ==
    /\ phase = "walk"
    /\ stk # << >>
    /\ ~Top.processed
    /\ Top.id \notin visited
    /\ visited' = visited \cup {Top.id}
    /\ stk' = FoldLeft(LAMBDA frames, c : IF c \in visited \cup {Top.id} THEN frames
                                          ELSE Append(frames, Frame(c)),
                       Append(Popped, [Top EXCEPT !.processed = TRUE]), Reverse(ChildrenOf(Top.id)))
    /\ UNCHANGED <<pool, order, offsets, writePos, data, written, header, phase>>

\* The next node of the order gets its offset.
Placed == Cardinality(DOMAIN offsets)
Place ==
    /\ phase = "walk"
    /\ stk = << >>
    /\ Placed < Len(order)
    /\ LET id == order[Placed + 1]
       IN  /\ offsets' = [n \in DOMAIN offsets \cup {id} |-> IF n = id THEN writePos ELSE offsets[n]]
           /\ writePos' = writePos + CellsOf(id)
    /\ UNCHANGED <<pool, stk, visited, order, data, written, header, phase>>

\* The buffer is made, zeroed, and the header written.
TransitionCount == FoldFunction(+, 0, [i \in DOMAIN order |-> Len(Node(order[i]).transitions)])
WriteHeader ==
    /\ phase = "walk"
    /\ stk = << >>
    /\ Placed = Len(order)
    /\ data' = [i \in 1..writePos |-> 0]
    /\ header' = [nodes |-> Len(order), transitions |-> TransitionCount,
                  root |-> offsets[pool.root]]
    /\ phase' = "write"
    /\ UNCHANGED <<pool, stk, visited, order, offsets, writePos, written>>

\* The cells of a node.
HeadCells(id) ==
    LET n == Len(Node(id).transitions)
        final == Node(id).final
    IN  IF n < Escape THEN <<[final |-> final, count |-> n]>>
        ELSE <<[final |-> final, count |-> Escape], n - Escape>>
TransitionCells(id) ==
    FlattenSeq([i \in DOMAIN Node(id).transitions |->
        <<Node(id).transitions[i].label, offsets[Node(id).transitions[i].child]>>])

WithNode(id) ==
    LET cells == HeadCells(id) \o TransitionCells(id)
        places == (offsets[id] + 1)..(offsets[id] + Len(cells))
    IN  [i \in DOMAIN data \cup places |->
            IF i \in places THEN cells[i - offsets[id]] ELSE data[i]]

WriteNode ==
    /\ phase = "write"
    /\ written < Len(order)
    /\ data' = WithNode(order[written + 1])
    /\ written' = written + 1
    /\ UNCHANGED <<pool, stk, visited, order, offsets, writePos, header, phase>>

Return ==
    /\ phase = "write"
    /\ written = Len(order)
    /\ phase' = "returned"
    /\ UNCHANGED <<pool, stk, visited, order, offsets, writePos, data, written, header>>

Next == Emit \/ Skip \/ Visit \/ Place \/ WriteHeader \/ WriteNode \/ Return

\* fst_serialize is one thread's and waits for nothing: it keeps running.
Spec == Init /\ [][Next]_vars /\ WF_vars(Next)

----------------------------------------------------------------------------
(* Properties.                                                             *)

TypeOK ==
    /\ visited \subseteq DOMAIN pool.nodes
    /\ ToSet(order) \subseteq visited
    /\ \A i \in DOMAIN stk : stk[i].id \in DOMAIN pool.nodes
    /\ DOMAIN offsets \subseteq visited
    /\ DOMAIN data = 1..Len(data) /\ Len(data) \in {0, writePos}
    /\ phase \in {"walk", "write", "returned"}

\* The order has every node that the root reaches, once, behind its children:
\* whatever is shared, a node's offset is known when its parents are written,
\* and an index read from any node goes towards its beginning and ends.
Reached(ids) == ids \cup UNION {ToSet(ChildrenOf(id)) : id \in ids}
ReachableNodes ==
    LET R[k \in 0..Len(pool.nodes)] == IF k = 0 THEN {pool.root} ELSE Reached(R[k - 1])
    IN  R[Len(pool.nodes)]
ChildrenFirst ==
    /\ \A i, j \in DOMAIN order : order[i] = order[j] => i = j
    /\ \A i \in DOMAIN order : ToSet(ChildrenOf(order[i])) \subseteq ToSet(SubSeq(order, 1, i - 1))
    /\ stk = << >> => ToSet(order) = ReachableNodes

==============================================================================
