------------------------------- MODULE StateMap -------------------------------
(***************************************************************************)
(* StateMap (src/state_map.cpp): the open-addressing Robin Hood hash table *)
(* that holds the canonical nodes.  One action per probe of a slot, in     *)
(* find_or_insert and in grow().  A slot is its stored hash, node id and   *)
(* probe sequence length (psl); hash 0 marks an empty slot.                *)
(*                                                                         *)
(* The hash function is any function of the shape: hash is chosen in Init  *)
(* and kept, so every pattern of collisions is explored.                   *)
(***************************************************************************)
EXTENDS Integers, FiniteSets

CONSTANTS
    Nodes,              \* node ids, positive naturals
    Shapes,             \* what nodes_equal tells apart
    Shape,              \* the shape of each node
    Hashes,             \* the values of hash_node, never 0
    InitialCapacity     \* the argument of the constructor

ASSUME NodesAssumption == Nodes \subseteq Nat \ {0}
ASSUME ShapeAssumption == Shape \in [Nodes -> Shapes]
ASSUME HashesAssumption == Hashes \subseteq Nat \ {0}
ASSUME CapacityAssumption == InitialCapacity \in Nat

VARIABLES
    hash,     \* hash_node, as a function of the shape
    slots,    \* slots_, indexed from 0
    size,     \* size_
    pc,       \* the loop find_or_insert is in, "idle" between calls
    arg,      \* the node of the current call
    entry,    \* the entry looking for a place: its hash, node and psl
    idx,      \* the slot probed next
    old,      \* in grow(): the table being copied
    next,     \* in grow(): the slot of it copied next
    answer    \* the last id find_or_insert returned

vars == <<hash, slots, size, pc, arg, entry, idx, old, next, answer>>

Empty == [hash |-> 0, node |-> 0, psl |-> 0]
Slot == [hash : Hashes, node : Nodes, psl : Nat] \cup {Empty}
Cleared(capacity) == [i \in 0..(capacity - 1) |-> Empty]

Capacity(table) == Cardinality(DOMAIN table)
MaxLoad(table) == (Capacity(table) * 4) \div 5

\* A table is indexed with hash & (capacity - 1); the capacity is a power of 2.
Home(h, table) == h % Capacity(table)
After(i, table) == (i + 1) % Capacity(table)

\* The constructor rounds the capacity up to a power of two.
IsRoundedCapacity(c) ==
    /\ \E k \in 0..InitialCapacity : c = 2^k
    /\ c >= InitialCapacity
    /\ c = 1 \/ c \div 2 < InitialCapacity

----------------------------------------------------------------------------

Init ==
    /\ hash \in [Shapes -> Hashes]
    /\ \E c \in 1..(2 * InitialCapacity + 1) : IsRoundedCapacity(c) /\ slots = Cleared(c)
    /\ size = 0
    /\ pc = "idle"
    /\ arg = 0
    /\ entry = Empty
    /\ idx = 0
    /\ old = << >>
    /\ next = 0
    /\ answer = 0

\* The new entry starts at its home slot with psl 0.
StartProbe(n, table) ==
    /\ entry' = [hash |-> hash[Shape[n]], node |-> n, psl |-> 0]
    /\ idx' = Home(hash[Shape[n]], table)

\* The entry moves on to the next slot.
MoveOnSamePsl(e) ==
    /\ entry' = e
    /\ idx' = After(idx, slots)

MoveOn(e) ==
    /\ entry' = [e EXCEPT !.psl = @ + 1]
    /\ idx' = After(idx, slots)

Here == slots[idx]
Place(e) == slots' = [slots EXCEPT ![idx] = e]

\* find_or_insert returns n: its locals are gone.
Return(n) ==
    /\ answer' = n
    /\ pc' = "idle"
    /\ arg' = 0
    /\ entry' = Empty
    /\ idx' = 0

\* Robin Hood: the entry in the slot is nearer to its home than ours is.
Richer(e) == Here # Empty /\ Here.psl < e.psl

\* find_or_insert(n) starts, and grows the table first when it is loaded.
FindOrInsert(n) ==
    /\ pc = "idle"
    /\ arg' = n
    /\ IF size >= MaxLoad(slots)
       THEN /\ old' = slots
            /\ next' = 0
            /\ slots' = Cleared(2 * Capacity(slots))
            /\ pc' = "grow"
            /\ UNCHANGED <<entry, idx>>
       ELSE /\ StartProbe(n, slots)
            /\ pc' = "probe"
            /\ UNCHANGED <<slots, old, next>>
    /\ UNCHANGED <<hash, size, answer>>

\* grow() takes up the next entry of the old table, or is done.
GrowNext ==
    /\ pc = "grow"
    /\ IF next = Capacity(old)
       THEN /\ StartProbe(arg, slots)
            /\ pc' = "probe"
            /\ old' = << >>
            /\ next' = 0
       ELSE /\ next' = next + 1
            /\ UNCHANGED old
            /\ IF old[next] = Empty
               THEN UNCHANGED <<entry, idx, pc>>
               ELSE /\ entry' = [old[next] EXCEPT !.psl = 0]
                    /\ idx' = Home(old[next].hash, slots)
                    /\ pc' = "rehash"
    /\ UNCHANGED <<hash, slots, size, arg, answer>>

\* An entry of the old table finds an empty slot of the new one.
RehashPlace ==
    /\ pc = "rehash"
    /\ Here = Empty
    /\ Place(entry)
    /\ pc' = "grow"
    /\ UNCHANGED <<hash, size, arg, entry, idx, old, next, answer>>

\* It swaps places with a richer entry.
RehashSteal ==
    /\ pc = "rehash"
    /\ Richer(entry)
    /\ Place(entry)
    /\ MoveOn(Here)
    /\ UNCHANGED <<hash, size, pc, arg, old, next, answer>>

\* It passes a slot.
RehashPassStays ==
    /\ pc = "rehash"
    /\ Here # Empty
    /\ ~Richer(entry)
    /\ UNCHANGED vars

RehashPass ==
    /\ pc = "rehash"
    /\ Here # Empty
    /\ ~Richer(entry)
    /\ MoveOn(entry)
    /\ UNCHANGED <<hash, slots, size, pc, arg, old, next, answer>>

\* The node is structurally equal to the one in the slot.
MatchesHash(e) == Here.hash = e.hash
Matches(e) == Here.hash = e.hash /\ Shape[Here.node] = Shape[e.node]

\* The look-up meets an empty slot: the node is new and goes there.
ProbeInsert ==
    /\ pc = "probe"
    /\ Here = Empty
    /\ Place(entry)
    /\ size' = size + 1
    /\ Return(arg)
    /\ UNCHANGED <<hash, old, next>>

\* The look-up meets an equal node, and answers with it.
ProbeFound ==
    /\ pc = "probe"
    /\ Here # Empty
    /\ Matches(entry)
    /\ Return(Here.node)
    /\ UNCHANGED <<hash, slots, size, old, next>>

\* The look-up meets a richer entry: an equal node could not be further on, so
\* the node takes the slot, and the second loop finds another for the entry.
ProbeSteal ==
    /\ pc = "probe"
    /\ Richer(entry)
    /\ ~Matches(entry)
    /\ Place(entry)
    /\ MoveOn(Here)
    /\ pc' = "displace"
    /\ UNCHANGED <<hash, size, arg, old, next, answer>>

\* The look-up goes on.
ProbePass ==
    /\ pc = "probe"
    /\ Here # Empty
    /\ ~Matches(entry)
    /\ ~Richer(entry)
    /\ MoveOn(entry)
    /\ UNCHANGED <<hash, slots, size, pc, arg, old, next, answer>>

\* The displaced entry finds an empty slot, and the call returns.
DisplacePlace ==
    /\ pc = "displace"
    /\ Here = Empty
    /\ Place(entry)
    /\ size' = size + 1
    /\ Return(arg)
    /\ UNCHANGED <<hash, old, next>>

\* It displaces a richer one in turn.
DisplaceSteal ==
    /\ pc = "displace"
    /\ Richer(entry)
    /\ Place(entry)
    /\ MoveOn(Here)
    /\ UNCHANGED <<hash, size, pc, arg, old, next, answer>>

\* It passes a slot.
DisplacePass ==
    /\ pc = "displace"
    /\ Here # Empty
    /\ ~Richer(entry)
    /\ MoveOn(entry)
    /\ UNCHANGED <<hash, slots, size, pc, arg, old, next, answer>>

Rehash == RehashPlace \/ RehashSteal \/ RehashPass
Probe == ProbeInsert \/ ProbeFound \/ ProbeSteal \/ ProbePass
Displace == DisplacePlace \/ DisplaceSteal \/ DisplacePass

Step == GrowNext \/ Rehash \/ Probe \/ Displace

Next == (\E n \in Nodes : FindOrInsert(n)) \/ Step

\* The caller's thread runs a call to its end; nobody has to call.
Spec == Init /\ [][Next]_vars /\ WF_vars(Step)

----------------------------------------------------------------------------
(* Properties.                                                             *)

Table == [0..(Capacity(slots) - 1) -> Slot]

TypeOK ==
    /\ hash \in [Shapes -> Hashes]
    /\ slots \in Table
    /\ size \in Nat
    /\ pc \in {"idle", "grow", "rehash", "probe", "displace"}
    /\ arg \in Nodes \cup {0}
    /\ entry \in Slot
    /\ idx \in DOMAIN slots
    /\ next \in Nat
    /\ answer \in Nodes \cup {0}

Occupied(table) == {i \in DOMAIN table : table[i] # Empty}
NodesIn(table) == {table[i].node : i \in Occupied(table)}

\* A look-up of any entry of the table reaches it: its stored hash is its
\* node's, it is psl slots after its home, and no slot on the way would end the
\* look-up early, by being empty, by holding an equal node, or by holding an
\* entry nearer to its own home.  It holds while entries are being displaced.
EntriesFindable ==
    \A i \in Occupied(slots) :
        LET e == slots[i] IN
        /\ e.hash = hash[Shape[e.node]]
        /\ i = (Home(e.hash, slots) + e.psl) % Capacity(slots)
        /\ \A d \in 0..(e.psl - 1) :
               LET s == slots[(Home(e.hash, slots) + d) % Capacity(slots)]
               IN  s # Empty /\ s.psl >= d /\ Shape[s.node] # Shape[e.node]

\* size_, which is what unique_node_count() reports, counts the occupied slots
\* between calls, and the load it bounds leaves an empty slot for the loops to
\* end at.
SizeIsCount ==
    /\ pc = "idle" => size = Cardinality(Occupied(slots))
    /\ Cardinality(Occupied(slots)) < Capacity(slots)

\* The table between any two steps of the loops.
TableSound == TypeOK /\ EntriesFindable /\ SizeIsCount

\* Neither growing nor displacing loses, doubles or invents an entry, and every
\* answer is the one the set of canonical nodes would give.
Held ==
    CASE pc \in {"grow", "rehash"} -> NodesIn(old)
      [] pc = "displace" -> (NodesIn(slots) \cup {entry.node}) \ {arg}
      [] OTHER -> NodesIn(slots)

Reg == INSTANCE Registry WITH held <- Held, asked <- arg
ImplementsRegistry == Reg!Spec

\* The three probe loops, which have no bound of their own, end.
CallsReturn == pc # "idle" ~> pc = "idle"
==============================================================================
