------------------------------- MODULE FstReader -------------------------------
(***************************************************************************)
(* How an index is read: read_node (src/fst_decode.h), which the searches  *)
(* use, and FstReader::contains (src/fst_reader.cpp).  The data section is *)
(* a sequence of cells, the first at offset 0: a node is a cell with its   *)
(* final flag and a count of few bits; if these are all set, a cell with   *)
(* what the count has beyond; and two cells for each transition, its label *)
(* (one byte in the code) and the offset of its target (four).             *)
(***************************************************************************)
EXTENDS Naturals, Sequences

CONSTANT Escape      \* 63: the count with all its bits set

ASSUME EscapeAssumption == Escape \in Nat \ {0}

Cell(data, offset) == data[offset + 1]

\* The node at an offset: whether it is final, how many transitions it has,
\* and the offset of the first.
ReadNode(data, offset) ==
    LET head == Cell(data, offset)
    IN  IF head.count = Escape
        THEN [final |-> head.final, count |-> Escape + Cell(data, offset + 1), at |-> offset + 2]
        ELSE [final |-> head.final, count |-> head.count, at |-> offset + 1]

LabelAt(data, node, i) == Cell(data, node.at + 2 * (i - 1))
TargetAt(data, node, i) == Cell(data, node.at + 2 * (i - 1) + 1)

\* contains scans the transitions for the first with the label.
Matching(data, node, c) == {i \in 1..node.count : LabelAt(data, node, i) = c}
First(S) == CHOOSE i \in S : \A j \in S : i <= j

NotFound == [found |-> FALSE, offset |-> 0]

ContainsKey(data, root, key) ==
    LET At[k \in 0..Len(key)] ==
            IF k = 0 THEN [found |-> TRUE, offset |-> root]
            ELSE IF ~At[k - 1].found THEN NotFound
            ELSE LET node == ReadNode(data, At[k - 1].offset)
                     hits == Matching(data, node, key[k])
                 IN  IF hits = {} THEN NotFound
                     ELSE [found |-> TRUE, offset |-> TargetAt(data, node, First(hits))]
    IN  At[Len(key)].found /\ ReadNode(data, At[Len(key)].offset).final
==============================================================================
