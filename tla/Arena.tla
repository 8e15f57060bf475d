--------------------------------- MODULE Arena ---------------------------------
(***************************************************************************)
(* Arena (src/arena.cpp): the bump allocator under the builder.  An arena  *)
(* is a list of malloc'd blocks; the last one is filled from its start.    *)
(* Blocks have no addresses here, only the remainder of their address that *)
(* matters for alignment.  Allocations of no bytes return nullptr and      *)
(* change nothing; they are left out.                                      *)
(***************************************************************************)
EXTENDS Naturals, Sequences, FiniteSets

CONSTANTS
    Arenas,        \* arena objects
    BlockSize,     \* block_size_
    Sizes,         \* sizes asked for
    Aligns,        \* alignments asked for: powers of two
    Remainders,    \* what malloc leaves of an address, modulo the largest alignment
    MaxBlocks      \* bound: malloc calls

ASSUME SizesAssumption ==
    /\ BlockSize \in Nat \ {0} /\ MaxBlocks \in Nat
    /\ Sizes \subseteq Nat \ {0} /\ Aligns \subseteq Nat \ {0} /\ Remainders \subseteq Nat

VARIABLES
    blocks,    \* blocks[a]: blocks_ of arena a
    heap,      \* ids of the blocks that are malloc'd and not freed
    mallocs,   \* how many blocks have been malloc'd
    live       \* the allocations that their users may still use

vars == <<blocks, heap, mallocs, live>>

\* An allocation: the bytes from..to-1 of a block.
Block == [id : Nat, address : Remainders, capacity : Nat, used : Nat]
Allocation == [block : Nat, address : Remainders, from : Nat, to : Nat, align : Aligns]

----------------------------------------------------------------------------

AlignUp(offset, align) == ((offset + align - 1) \div align) * align

\* Where an allocation goes in a block: the address is aligned, not the offset.
OffsetAligned(b, align) == AlignUp(b.used, align)
Offset(b, align) == AlignUp(b.address + b.used, align) - b.address
Fits(b, size, align) == Offset(b, align) + size <= b.capacity

IdsOf(a) == {blocks[a][i].id : i \in DOMAIN blocks[a]}
LastOf(a) == blocks[a][Len(blocks[a])]
HasRoom(a, size, align) == blocks[a] # << >> /\ Fits(LastOf(a), size, align)
Without(ids) == {x \in live : x.block \notin ids}

AllocationIn(b, size, align) ==
    [block |-> b.id, address |-> b.address, from |-> Offset(b, align),
     to |-> Offset(b, align) + size, align |-> align]
Filled(b, size, align) == [b EXCEPT !.used = Offset(b, align) + size]

\* A new block has room for the padding as well.
Capacity(size, align) == IF BlockSize > size + align THEN BlockSize ELSE size + align

Init ==
    /\ blocks = [a \in Arenas |-> << >>]
    /\ heap = {}
    /\ mallocs = 0
    /\ live = {}

\* alloc, when the last block has room.
AllocInLast(a, size, align) ==
    /\ HasRoom(a, size, align)
    /\ blocks' = [blocks EXCEPT ![a][Len(blocks[a])] = Filled(LastOf(a), size, align)]
    /\ live' = live \cup {AllocationIn(LastOf(a), size, align)}
    /\ UNCHANGED <<heap, mallocs>>

\* alloc, with add_block.
AllocInNew(a, size, align) ==
    /\ ~HasRoom(a, size, align)
    /\ mallocs < MaxBlocks
    /\ mallocs' = mallocs + 1
    /\ heap' = heap \cup {mallocs'}
    /\ \E r \in Remainders :
          LET b == [id |-> mallocs', address |-> r, capacity |-> Capacity(size, align), used |-> 0]
          IN  /\ blocks' = [blocks EXCEPT ![a] = Append(@, Filled(b, size, align))]
              /\ live' = live \cup {AllocationIn(b, size, align)}

\* reset: the blocks are kept, and what was allocated in them is invalid.
Reset(a) ==
    /\ blocks' = [blocks EXCEPT ![a] = [i \in DOMAIN @ |-> [@[i] EXCEPT !.used = 0]]]
    /\ live' = Without(IdsOf(a))
    /\ UNCHANGED <<heap, mallocs>>

\* operator=(Arena&&): the blocks of the target are freed, those of the other
\* arena taken over, and the other left without blocks.  The move constructor
\* does the same to a target that has none.
MoveKeepsOther(a, other) ==
    /\ a # other
    /\ blocks' = [blocks EXCEPT ![a] = blocks[other]]
    /\ heap' = heap \ IdsOf(a)
    /\ live' = Without(IdsOf(a))
    /\ UNCHANGED mallocs
Move(a, other) ==
    /\ a # other
    /\ blocks' = [blocks EXCEPT ![a] = blocks[other], ![other] = << >>]
    /\ heap' = heap \ IdsOf(a)
    /\ live' = Without(IdsOf(a))
    /\ UNCHANGED mallocs

\* The destructor; another arena may be made in its place.
Destroy(a) ==
    /\ blocks' = [blocks EXCEPT ![a] = << >>]
    /\ heap' = heap \ IdsOf(a)
    /\ live' = Without(IdsOf(a))
    /\ UNCHANGED mallocs

Next == \E a \in Arenas :
    \/ \E size \in Sizes, align \in Aligns : AllocInLast(a, size, align) \/ AllocInNew(a, size, align)
    \/ Reset(a)
    \/ \E other \in Arenas : Move(a, other)
    \/ Destroy(a)

Spec == Init /\ [][Next]_vars

----------------------------------------------------------------------------
(* Properties.                                                             *)

TypeOK ==
    /\ blocks \in [Arenas -> Seq(Block)]
    /\ \A a \in Arenas : \A i \in DOMAIN blocks[a] : blocks[a][i].used <= blocks[a][i].capacity
    /\ heap \subseteq 1..mallocs
    /\ mallocs \in 0..MaxBlocks
    /\ live \subseteq Allocation

\* Every block is in the list of one arena, once, and no arena has a freed
\* block: none is leaked, freed twice or used after it is freed.
BlocksHaveOneOwner ==
    /\ UNION {IdsOf(a) : a \in Arenas} = heap
    /\ \A a, b \in Arenas : \A i \in DOMAIN blocks[a], j \in DOMAIN blocks[b] :
          blocks[a][i].id = blocks[b][j].id => a = b /\ i = j

\* A live allocation lies in the used part of a block that is not freed.
InBlock(x) == \E a \in Arenas : \E i \in DOMAIN blocks[a] :
    LET b == blocks[a][i]
    IN  x.block = b.id /\ x.from < x.to /\ x.to <= b.used
Overlap(x, y) == x.block = y.block /\ x.from < y.to /\ y.from < x.to
IsAligned(x) == (x.address + x.from) % x.align = 0

\* What the arena has handed out may be used until its block is freed or reset,
\* moves or not: it lies in a block, shares no byte with another allocation,
\* and has the alignment asked for, whatever malloc returns.
AllocationsSound ==
    /\ TypeOK
    /\ \A x \in live : InBlock(x) /\ IsAligned(x)
    /\ \A x, y \in live : x # y => ~Overlap(x, y)
==============================================================================
