------------------------------ MODULE Arena_proofs ------------------------------
(***************************************************************************)
(* Proofs about Arena, for any number of arenas and blocks, any sizes and  *)
(* alignments, and whatever addresses malloc returns.                      *)
(***************************************************************************)
EXTENDS Arena, TLAPS

----------------------------------------------------------------------------
(* Arithmetic of the padding.                                              *)

\* Rounding up to a multiple goes up by less than the alignment.
LEMMA AlignUpBounds ==
    ASSUME NEW x \in Nat, NEW align \in Nat \ {0}
    PROVE  /\ AlignUp(x, align) \in Nat
           /\ AlignUp(x, align) % align = 0
           /\ x <= AlignUp(x, align)
           /\ AlignUp(x, align) < x + align
<1> DEFINE y == x + align - 1
           q == y \div align
<1>1. y \in Nat
  OBVIOUS
<1>2. q \in Nat /\ y % align \in 0..(align - 1) /\ y = (q * align) + (y % align)
  BY <1>1, SMT
<1>3. q * align \in Nat
  BY <1>2
<1>4. (q * align) % align = 0
  BY <1>2, SMT
<1>5. AlignUp(x, align) = q * align
  BY DEF AlignUp
<1> QED
  BY <1>2, <1>3, <1>4, <1>5

\* An allocation begins behind what is used, and at an aligned address.
LEMMA OffsetBounds ==
    ASSUME NEW b \in Block, NEW align \in Aligns
    PROVE  /\ Offset(b, align) \in Nat
           /\ b.used <= Offset(b, align)
           /\ Offset(b, align) < b.used + align
           /\ (b.address + Offset(b, align)) % align = 0
<1>1. b.address \in Nat /\ b.used \in Nat /\ align \in Nat \ {0}
  BY SizesAssumption DEF Block
<1>2. b.address + b.used \in Nat
  BY <1>1
<1> DEFINE up == AlignUp(b.address + b.used, align)
<1>3. /\ up \in Nat /\ up % align = 0
      /\ b.address + b.used <= up /\ up < b.address + b.used + align
  BY <1>1, <1>2, AlignUpBounds
<1>4. Offset(b, align) = up - b.address
  BY DEF Offset
<1> HIDE DEF up
<1>5. b.address + (up - b.address) = up
  BY <1>1, <1>3
<1> QED
  BY <1>1, <1>3, <1>4, <1>5

\* A block that is filled further has the same identity, and is not overrun.
LEMMA FilledBlock ==
    ASSUME NEW b \in Block, NEW size \in Sizes, NEW align \in Aligns, Fits(b, size, align)
    PROVE  LET new == Filled(b, size, align)
               x   == AllocationIn(b, size, align)
           IN  /\ new \in Block
               /\ new.id = b.id
               /\ new.used <= new.capacity
               /\ b.used <= new.used
               /\ x \in Allocation
               /\ x.block = b.id /\ b.used <= x.from /\ x.from < x.to /\ x.to = new.used
               /\ IsAligned(x)
<1>1. /\ b.id \in Nat /\ b.address \in Remainders /\ b.capacity \in Nat /\ b.used \in Nat
      /\ size \in Nat \ {0}
  BY SizesAssumption DEF Block
<1> DEFINE o == Offset(b, align)
<1>2. o \in Nat /\ b.used <= o /\ (b.address + o) % align = 0
  BY OffsetBounds
<1> HIDE DEF o
<1>3. o + size <= b.capacity
  BY DEF Fits, o
<1>4. Filled(b, size, align) = [b EXCEPT !.used = o + size]
  BY DEF Filled, o
<1>5. AllocationIn(b, size, align) =
          [block |-> b.id, address |-> b.address, from |-> o, to |-> o + size, align |-> align]
  BY DEF AllocationIn, o
<1> QED
  BY <1>1, <1>2, <1>3, <1>4, <1>5 DEF Block, Allocation, IsAligned

\* A new block has room for the padding and the size, wherever it lies.
LEMMA NewBlock ==
    ASSUME NEW r \in Remainders, NEW size \in Sizes, NEW align \in Aligns, NEW m \in Nat
    PROVE  LET b == [id |-> m, address |-> r, capacity |-> Capacity(size, align), used |-> 0]
           IN  b \in Block /\ Fits(b, size, align)
<1> DEFINE b == [id |-> m, address |-> r, capacity |-> Capacity(size, align), used |-> 0]
<1>1. size \in Nat /\ align \in Nat /\ BlockSize \in Nat
  BY SizesAssumption
<1>2. Capacity(size, align) \in Nat /\ size + align <= Capacity(size, align)
  BY <1>1 DEF Capacity
<1>3. b \in Block
  BY <1>2 DEF Block
<1>4. Offset(b, align) \in Nat /\ Offset(b, align) < align
  BY <1>1, <1>3, OffsetBounds
<1> QED
  BY <1>1, <1>2, <1>3, <1>4 DEF Fits
----------------------------------------------------------------------------
(* Types.                                                                  *)

LEMMA TypeInit == Init => TypeOK
<1> SUFFICES ASSUME Init PROVE TypeOK
  OBVIOUS
<1>1. blocks \in [Arenas -> Seq(Block)]
  BY DEF Init
<1> QED
  BY <1>1, SizesAssumption DEF Init, TypeOK

LEMMA TypeStep == TypeOK /\ [Next]_vars => TypeOK'
<1> SUFFICES ASSUME TypeOK, [Next]_vars PROVE TypeOK'
  OBVIOUS
<1>1. CASE UNCHANGED vars
  BY <1>1 DEF TypeOK, vars
<1>2. ASSUME NEW a \in Arenas, NEW size \in Sizes, NEW align \in Aligns,
             AllocInLast(a, size, align)
      PROVE  TypeOK'
  <2> DEFINE n == Len(blocks[a])
             b == blocks[a][n]
             new == Filled(b, size, align)
  <2>1. blocks[a] \in Seq(Block) /\ blocks[a] # << >> /\ n \in 1..Len(blocks[a]) /\ b \in Block
    BY <1>2 DEF AllocInLast, HasRoom, TypeOK
  <2>2. Fits(b, size, align)
    BY <1>2 DEF AllocInLast, HasRoom, LastOf
  <2>3. /\ new \in Block /\ new.used <= new.capacity
        /\ AllocationIn(b, size, align) \in Allocation
    BY <2>1, <2>2, FilledBlock
  <2>4. /\ blocks' = [blocks EXCEPT ![a] = [blocks[a] EXCEPT ![n] = new]]
        /\ live' = live \cup {AllocationIn(b, size, align)}
        /\ UNCHANGED <<heap, mallocs>>
    BY <1>2 DEF AllocInLast, LastOf
  <2> HIDE DEF new, b
  <2> DEFINE s == [blocks[a] EXCEPT ![n] = new]
  <2>5. s \in Seq(Block) /\ Len(s) = Len(blocks[a])
    BY <2>1, <2>3
  <2>6. \A i \in DOMAIN s : s[i] = IF i = n THEN new ELSE blocks[a][i]
    BY <2>1, <2>5
  <2>7. DOMAIN s = DOMAIN blocks[a]
    OBVIOUS
  <2>8. \A i \in DOMAIN s : s[i].used <= s[i].capacity
    BY <2>3, <2>6, <2>7 DEF TypeOK
  <2> HIDE DEF s, n
  <2>9. /\ blocks' \in [Arenas -> Seq(Block)]
        /\ \A c \in Arenas : blocks'[c] = IF c = a THEN s ELSE blocks[c]
    BY <2>4, <2>5 DEF TypeOK, s
  <2> QED
    BY <2>3, <2>4, <2>8, <2>9 DEF TypeOK
<1>3. ASSUME NEW a \in Arenas, NEW size \in Sizes, NEW align \in Aligns,
             AllocInNew(a, size, align)
      PROVE  TypeOK'
  <2>1. /\ mallocs < MaxBlocks /\ mallocs' = mallocs + 1
        /\ heap' = heap \cup {mallocs'}
    BY <1>3 DEF AllocInNew
  <2>2. /\ mallocs \in Nat /\ mallocs' \in 0..MaxBlocks
        /\ heap' \subseteq 1..mallocs'
    <3>1. MaxBlocks \in Nat /\ mallocs \in 0..MaxBlocks /\ heap \subseteq 1..mallocs
      BY SizesAssumption DEF TypeOK
    <3>2. mallocs \in Nat /\ mallocs' \in 0..MaxBlocks
      BY <2>1, <3>1
    <3>3. 1..mallocs \subseteq 1..mallocs' /\ mallocs' \in 1..mallocs'
      BY <2>1, <3>2
    <3> QED
      BY <2>1, <3>1, <3>2, <3>3
  <2>3. PICK r \in Remainders :
          LET b == [id |-> mallocs', address |-> r, capacity |-> Capacity(size, align), used |-> 0]
          IN  /\ blocks' = [blocks EXCEPT ![a] = Append(@, Filled(b, size, align))]
              /\ live' = live \cup {AllocationIn(b, size, align)}
    BY <1>3 DEF AllocInNew
  <2> DEFINE b == [id |-> mallocs', address |-> r, capacity |-> Capacity(size, align), used |-> 0]
             new == Filled(b, size, align)
  <2>4. b \in Block /\ Fits(b, size, align)
    BY <2>2, NewBlock
  <2>5. /\ blocks' = [blocks EXCEPT ![a] = Append(blocks[a], new)]
        /\ live' = live \cup {AllocationIn(b, size, align)}
    BY <2>3
  <2> HIDE DEF b
  <2>6. /\ new \in Block /\ new.used <= new.capacity
        /\ AllocationIn(b, size, align) \in Allocation
    BY <2>4, FilledBlock
  <2> HIDE DEF new
  <2> DEFINE s == Append(blocks[a], new)
  <2>7. /\ blocks[a] \in Seq(Block) /\ s \in Seq(Block)
        /\ \A i \in DOMAIN s : s[i] = new \/ (i \in DOMAIN blocks[a] /\ s[i] = blocks[a][i])
    BY <2>6 DEF TypeOK
  <2>8. \A i \in DOMAIN s : s[i].used <= s[i].capacity
    BY <2>6, <2>7 DEF TypeOK
  <2> HIDE DEF s
  <2>9. /\ blocks' \in [Arenas -> Seq(Block)]
        /\ \A c \in Arenas : blocks'[c] = IF c = a THEN s ELSE blocks[c]
    BY <2>5, <2>7 DEF TypeOK, s
  <2> QED
    BY <2>2, <2>5, <2>6, <2>8, <2>9 DEF TypeOK
<1>4. ASSUME NEW a \in Arenas, Reset(a)
      PROVE  TypeOK'
  <2> DEFINE s == [i \in DOMAIN blocks[a] |-> [blocks[a][i] EXCEPT !.used = 0]]
  <2>1. blocks' = [blocks EXCEPT ![a] = s] /\ live' \subseteq live /\ UNCHANGED <<heap, mallocs>>
    BY <1>4 DEF Reset, Without
  <2>2. blocks[a] \in Seq(Block)
    BY DEF TypeOK
  <2>3. \A b \in Block : LET e == [b EXCEPT !.used = 0] IN e \in Block /\ e.used <= e.capacity
    BY DEF Block
  <2>4. s \in Seq(Block) /\ \A i \in DOMAIN s : s[i].used <= s[i].capacity
    BY <2>2, <2>3
  <2> HIDE DEF s
  <2>5. /\ blocks' \in [Arenas -> Seq(Block)]
        /\ \A c \in Arenas : blocks'[c] = IF c = a THEN s ELSE blocks[c]
    BY <2>1, <2>4 DEF TypeOK
  <2> QED
    BY <2>1, <2>4, <2>5 DEF TypeOK
<1>5. ASSUME NEW a \in Arenas, NEW other \in Arenas, Move(a, other)
      PROVE  TypeOK'
  <2>1. /\ blocks' = [blocks EXCEPT ![a] = blocks[other], ![other] = << >>]
        /\ heap' \subseteq heap /\ live' \subseteq live /\ UNCHANGED mallocs
    BY <1>5 DEF Move, Without
  <2>2. /\ blocks' \in [Arenas -> Seq(Block)]
        /\ \A c \in Arenas : blocks'[c] = IF c = other THEN << >> ELSE IF c = a THEN blocks[other] ELSE blocks[c]
    BY <2>1 DEF TypeOK
  <2>3. \A c \in Arenas : blocks'[c] = << >> \/ \E d \in Arenas : blocks'[c] = blocks[d]
    BY <2>2
  <2>4. \A c \in Arenas : \A i \in DOMAIN blocks'[c] : blocks'[c][i].used <= blocks'[c][i].capacity
    BY <2>3 DEF TypeOK
  <2> QED
    BY <2>1, <2>2, <2>4 DEF TypeOK
<1>6. ASSUME NEW a \in Arenas, Destroy(a)
      PROVE  TypeOK'
  <2>1. /\ blocks' = [blocks EXCEPT ![a] = << >>]
        /\ heap' \subseteq heap /\ live' \subseteq live /\ UNCHANGED mallocs
    BY <1>6 DEF Destroy, Without
  <2>2. /\ blocks' \in [Arenas -> Seq(Block)]
        /\ \A c \in Arenas : blocks'[c] = IF c = a THEN << >> ELSE blocks[c]
    BY <2>1 DEF TypeOK
  <2> QED
    BY <2>1, <2>2 DEF TypeOK
<1> QED
  BY <1>1, <1>2, <1>3, <1>4, <1>5, <1>6 DEF Next

\* No arena ever has a block that is filled beyond its capacity, and no
\* allocation is anything but a piece of a block: the types of all variables.
THEOREM TypeCorrect == Spec => []TypeOK
<1> QED
  BY TypeInit, TypeStep, PTL DEF Spec

----------------------------------------------------------------------------
(* What alloc does to the blocks and to the allocations.                   *)

LEMMA AllocInLastEffect ==
    ASSUME TypeOK, NEW a \in Arenas, NEW size \in Sizes, NEW align \in Aligns,
           AllocInLast(a, size, align)
    PROVE  LET n == Len(blocks[a]) IN
           /\ n \in DOMAIN blocks[a]
           /\ \A c \in Arenas :
                 /\ DOMAIN blocks'[c] = DOMAIN blocks[c]
                 /\ \A i \in DOMAIN blocks[c] : /\ blocks'[c][i].id = blocks[c][i].id
                                                /\ blocks[c][i].used <= blocks'[c][i].used
           /\ \E x \in Allocation :
                 /\ live' = live \cup {x}
                 /\ IsAligned(x)
                 /\ x.block = blocks[a][n].id
                 /\ blocks[a][n].used <= x.from /\ x.from < x.to /\ x.to = blocks'[a][n].used
           /\ UNCHANGED <<heap, mallocs>>
<1> DEFINE n == Len(blocks[a])
           b == blocks[a][n]
           new == Filled(b, size, align)
           x == AllocationIn(b, size, align)
<1>1. blocks[a] \in Seq(Block) /\ n \in DOMAIN blocks[a] /\ n \in 1..Len(blocks[a]) /\ b \in Block
  BY DEF AllocInLast, HasRoom, TypeOK
<1>2. Fits(b, size, align)
  BY DEF AllocInLast, HasRoom, LastOf
<1>3. /\ new.id = b.id /\ b.used <= new.used
      /\ x \in Allocation /\ x.block = b.id /\ b.used <= x.from /\ x.from < x.to /\ x.to = new.used
      /\ IsAligned(x)
  BY <1>1, <1>2, FilledBlock
<1>4. /\ blocks' = [blocks EXCEPT ![a] = [blocks[a] EXCEPT ![n] = new]]
      /\ live' = live \cup {x}
      /\ UNCHANGED <<heap, mallocs>>
  BY DEF AllocInLast, LastOf
<1> HIDE DEF new, x
<1>5. blocks'[a] = [blocks[a] EXCEPT ![n] = new] /\ \A c \in Arenas : c # a => blocks'[c] = blocks[c]
  BY <1>4 DEF TypeOK
<1>6. /\ DOMAIN blocks'[a] = DOMAIN blocks[a] /\ blocks'[a][n] = new
      /\ \A i \in DOMAIN blocks[a] : i # n => blocks'[a][i] = blocks[a][i]
  BY <1>1, <1>5
<1>7. \A c \in Arenas : \A i \in DOMAIN blocks[c] : blocks[c][i].used <= blocks[c][i].used
  <2>1. \A c \in Arenas : \A i \in DOMAIN blocks[c] : blocks[c][i] \in Block
    BY DEF TypeOK
  <2> QED
    BY <2>1 DEF Block
<1>8. \A c \in Arenas :
         /\ DOMAIN blocks'[c] = DOMAIN blocks[c]
         /\ \A i \in DOMAIN blocks[c] : /\ blocks'[c][i].id = blocks[c][i].id
                                        /\ blocks[c][i].used <= blocks'[c][i].used
  BY <1>3, <1>5, <1>6, <1>7
<1> QED
  BY <1>1, <1>3, <1>4, <1>6, <1>8

LEMMA AllocInNewEffect ==
    ASSUME TypeOK, NEW a \in Arenas, NEW size \in Sizes, NEW align \in Aligns,
           AllocInNew(a, size, align)
    PROVE  LET n == Len(blocks[a]) + 1 IN
           /\ \A c \in Arenas : DOMAIN blocks'[c] = IF c = a THEN DOMAIN blocks[c] \cup {n} ELSE DOMAIN blocks[c]
           /\ \A c \in Arenas : \A i \in DOMAIN blocks[c] : blocks'[c][i] = blocks[c][i]
           /\ n \notin DOMAIN blocks[a]
           /\ blocks'[a][n].id = mallocs'
           /\ \E x \in Allocation :
                 /\ live' = live \cup {x}
                 /\ IsAligned(x)
                 /\ x.block = mallocs'
                 /\ x.from < x.to /\ x.to <= blocks'[a][n].used
           /\ mallocs' \notin heap /\ heap' = heap \cup {mallocs'}
<1> DEFINE n == Len(blocks[a]) + 1
<1>1. mallocs \in Nat /\ mallocs' = mallocs + 1 /\ mallocs' \notin heap /\ heap' = heap \cup {mallocs'}
  <2>1. mallocs \in Nat /\ heap \subseteq 1..mallocs
    BY SizesAssumption DEF TypeOK
  <2> QED
    BY <2>1 DEF AllocInNew
<1>2. PICK r \in Remainders :
          LET b == [id |-> mallocs', address |-> r, capacity |-> Capacity(size, align), used |-> 0]
          IN  /\ blocks' = [blocks EXCEPT ![a] = Append(@, Filled(b, size, align))]
              /\ live' = live \cup {AllocationIn(b, size, align)}
  BY DEF AllocInNew
<1> DEFINE b == [id |-> mallocs', address |-> r, capacity |-> Capacity(size, align), used |-> 0]
           new == Filled(b, size, align)
           x == AllocationIn(b, size, align)
<1>3. b \in Block /\ Fits(b, size, align) /\ b.id = mallocs'
  BY <1>1, NewBlock
<1>4. blocks' = [blocks EXCEPT ![a] = Append(blocks[a], new)] /\ live' = live \cup {x}
  BY <1>2
<1> HIDE DEF b
<1>5. /\ new \in Block /\ new.id = mallocs'
      /\ x \in Allocation /\ x.block = mallocs' /\ x.from < x.to /\ x.to = new.used
      /\ IsAligned(x)
  BY <1>3, FilledBlock
<1> HIDE DEF new, x
<1>6. x.to <= new.used
  BY <1>5 DEF Block
<1>7. blocks[a] \in Seq(Block)
  BY DEF TypeOK
<1>8. /\ DOMAIN Append(blocks[a], new) = DOMAIN blocks[a] \cup {n}
      /\ n \notin DOMAIN blocks[a]
      /\ Append(blocks[a], new)[n] = new
      /\ \A i \in DOMAIN blocks[a] : Append(blocks[a], new)[i] = blocks[a][i]
  BY <1>5, <1>7
<1>9. \A c \in Arenas : blocks'[c] = IF c = a THEN Append(blocks[a], new) ELSE blocks[c]
  BY <1>4 DEF TypeOK
<1> QED
  BY <1>1, <1>4, <1>5, <1>6, <1>8, <1>9

----------------------------------------------------------------------------
(* Ownership of the blocks, one block at a time.                           *)

Owned ==
    /\ \A c \in Arenas : \A i \in DOMAIN blocks[c] : blocks[c][i].id \in heap
    /\ \A m \in heap : \E c \in Arenas : \E i \in DOMAIN blocks[c] : blocks[c][i].id = m
    /\ \A c, d \in Arenas : \A i \in DOMAIN blocks[c], j \in DOMAIN blocks[d] :
          blocks[c][i].id = blocks[d][j].id => c = d /\ i = j

LEMMA OwnedForm == BlocksHaveOneOwner <=> Owned
<1> DEFINE all == UNION {IdsOf(a) : a \in Arenas}
<1>1. \A m : m \in all <=> \E c \in Arenas : \E i \in DOMAIN blocks[c] : blocks[c][i].id = m
  BY DEF IdsOf
<1>2. all = heap <=> \A m : m \in all <=> m \in heap
  OBVIOUS
<1> HIDE DEF all
<1>3. all = heap <=> /\ \A c \in Arenas : \A i \in DOMAIN blocks[c] : blocks[c][i].id \in heap
                     /\ \A m \in heap : \E c \in Arenas : \E i \in DOMAIN blocks[c] : blocks[c][i].id = m
  BY <1>1, <1>2
<1> QED
  BY <1>3 DEF BlocksHaveOneOwner, Owned, all

LEMMA OwnedInit == Init => Owned
<1> SUFFICES ASSUME Init PROVE Owned
  OBVIOUS
<1>1. heap = {} /\ \A c \in Arenas : DOMAIN blocks[c] = {}
  BY DEF Init
<1> QED
  BY <1>1 DEF Owned

\* The blocks of a freed arena leave the heap with it: all others are elsewhere.
LEMMA FreedIds ==
    ASSUME Owned, NEW a \in Arenas
    PROVE  \A m : m \in heap \ IdsOf(a) <=>
                     \E c \in Arenas \ {a} : \E i \in DOMAIN blocks[c] : blocks[c][i].id = m
BY DEF Owned, IdsOf

LEMMA OwnedStep == TypeOK /\ Owned /\ [Next]_vars => Owned'
<1> SUFFICES ASSUME TypeOK, Owned, [Next]_vars PROVE Owned'
  OBVIOUS
<1>1. CASE UNCHANGED vars
  BY <1>1 DEF Owned, vars
<1>2. ASSUME NEW a \in Arenas, NEW size \in Sizes, NEW align \in Aligns,
             AllocInLast(a, size, align)
      PROVE  Owned'
  <2>1. /\ UNCHANGED heap
        /\ \A c \in Arenas :
              /\ DOMAIN blocks'[c] = DOMAIN blocks[c]
              /\ \A i \in DOMAIN blocks[c] : blocks'[c][i].id = blocks[c][i].id
    BY <1>2, AllocInLastEffect
  <2> QED
    BY <2>1 DEF Owned
<1>3. ASSUME NEW a \in Arenas, NEW size \in Sizes, NEW align \in Aligns,
             AllocInNew(a, size, align)
      PROVE  Owned'
  <2> DEFINE n == Len(blocks[a]) + 1
  <2>1. /\ \A c \in Arenas : DOMAIN blocks'[c] = IF c = a THEN DOMAIN blocks[c] \cup {n} ELSE DOMAIN blocks[c]
        /\ \A c \in Arenas : \A i \in DOMAIN blocks[c] : blocks'[c][i] = blocks[c][i]
        /\ n \notin DOMAIN blocks[a]
        /\ blocks'[a][n].id = mallocs'
        /\ mallocs' \notin heap /\ heap' = heap \cup {mallocs'}
    BY <1>3, AllocInNewEffect
  <2> HIDE DEF n
  <2>2. \A c \in Arenas : \A i \in DOMAIN blocks'[c] :
           IF c = a /\ i = n THEN blocks'[c][i].id = mallocs'
           ELSE i \in DOMAIN blocks[c] /\ blocks'[c][i].id = blocks[c][i].id /\ blocks[c][i].id \in heap
    <3> SUFFICES ASSUME NEW c \in Arenas, NEW i \in DOMAIN blocks'[c], ~(c = a /\ i = n)
        PROVE  i \in DOMAIN blocks[c] /\ blocks'[c][i].id = blocks[c][i].id /\ blocks[c][i].id \in heap
      BY <2>1
    <3>1. i \in DOMAIN blocks[c]
      BY <2>1
    <3> QED
      BY <2>1, <3>1 DEF Owned
  <2>3. \A c, d \in Arenas : \A i \in DOMAIN blocks'[c], j \in DOMAIN blocks'[d] :
           blocks'[c][i].id = blocks'[d][j].id => c = d /\ i = j
    BY <2>1, <2>2 DEF Owned
  <2>4. \A c \in Arenas : \A i \in DOMAIN blocks'[c] : blocks'[c][i].id \in heap'
    BY <2>1, <2>2
  <2>5. \A m \in heap' : \E c \in Arenas : \E i \in DOMAIN blocks'[c] : blocks'[c][i].id = m
    <3>1. n \in DOMAIN blocks'[a] /\ \A c \in Arenas : DOMAIN blocks[c] \subseteq DOMAIN blocks'[c]
      BY <2>1
    <3>2. ASSUME NEW m \in heap
          PROVE  \E c \in Arenas : \E i \in DOMAIN blocks'[c] : blocks'[c][i].id = m
      <4>1. PICK c \in Arenas : \E i \in DOMAIN blocks[c] : blocks[c][i].id = m
        BY DEF Owned
      <4>2. PICK i \in DOMAIN blocks[c] : blocks[c][i].id = m
        BY <4>1
      <4> QED
        BY <2>1, <3>1, <4>2
    <3> QED
      BY <2>1, <3>1, <3>2
  <2> QED
    BY <2>3, <2>4, <2>5 DEF Owned
<1>4. ASSUME NEW a \in Arenas, Reset(a)
      PROVE  Owned'
  <2> DEFINE s == [i \in DOMAIN blocks[a] |-> [blocks[a][i] EXCEPT !.used = 0]]
  <2>1. blocks' = [blocks EXCEPT ![a] = s] /\ UNCHANGED heap
    BY <1>4 DEF Reset
  <2>2. \A i \in DOMAIN blocks[a] : blocks[a][i] \in Block
    BY DEF TypeOK
  <2>3. DOMAIN s = DOMAIN blocks[a] /\ \A i \in DOMAIN s : s[i].id = blocks[a][i].id
    BY <2>2 DEF Block
  <2> HIDE DEF s
  <2>4. \A c \in Arenas : blocks'[c] = IF c = a THEN s ELSE blocks[c]
    BY <2>1 DEF TypeOK
  <2>5. \A c \in Arenas :
           /\ DOMAIN blocks'[c] = DOMAIN blocks[c]
           /\ \A i \in DOMAIN blocks[c] : blocks'[c][i].id = blocks[c][i].id
    BY <2>3, <2>4
  <2> QED
    BY <2>1, <2>5 DEF Owned
<1>5. ASSUME NEW a \in Arenas, NEW other \in Arenas, Move(a, other)
      PROVE  Owned'
  <2>1. a # other /\ heap' = heap \ IdsOf(a)
    BY <1>5 DEF Move
  <2>2. \A c \in Arenas : blocks'[c] = IF c = other THEN << >> ELSE IF c = a THEN blocks[other] ELSE blocks[c]
    BY <1>5 DEF Move, TypeOK
  <2>3. \A c \in Arenas : \A i \in DOMAIN blocks'[c] :
           IF c = a THEN blocks'[c] = blocks[other] ELSE c # other /\ blocks'[c] = blocks[c]
    BY <2>1, <2>2
  <2>4. \A m : m \in heap' <=> \E c \in Arenas \ {a} : \E i \in DOMAIN blocks[c] : blocks[c][i].id = m
    BY <2>1, FreedIds
  <2>5. \A c \in Arenas : \A i \in DOMAIN blocks'[c] : blocks'[c][i].id \in heap'
    BY <2>1, <2>3, <2>4
  <2>6. \A m \in heap' : \E c \in Arenas : \E i \in DOMAIN blocks'[c] : blocks'[c][i].id = m
    BY <2>1, <2>2, <2>4
  <2>7. \A c, d \in Arenas : \A i \in DOMAIN blocks'[c], j \in DOMAIN blocks'[d] :
           blocks'[c][i].id = blocks'[d][j].id => c = d /\ i = j
    BY <2>1, <2>3 DEF Owned
  <2> QED
    BY <2>5, <2>6, <2>7 DEF Owned
<1>6. ASSUME NEW a \in Arenas, Destroy(a)
      PROVE  Owned'
  <2>1. heap' = heap \ IdsOf(a)
    BY <1>6 DEF Destroy
  <2>2. \A c \in Arenas : blocks'[c] = IF c = a THEN << >> ELSE blocks[c]
    BY <1>6 DEF Destroy, TypeOK
  <2>3. \A m : m \in heap' <=> \E c \in Arenas \ {a} : \E i \in DOMAIN blocks[c] : blocks[c][i].id = m
    BY <2>1, FreedIds
  <2>4. \A c \in Arenas : \A i \in DOMAIN blocks'[c] : c # a /\ blocks'[c] = blocks[c]
    BY <2>2
  <2>5. \A m \in heap' : \E c \in Arenas : \E i \in DOMAIN blocks'[c] : blocks'[c][i].id = m
    BY <2>2, <2>3
  <2> QED
    BY <2>3, <2>4, <2>5 DEF Owned
<1> QED
  BY <1>1, <1>2, <1>3, <1>4, <1>5, <1>6 DEF Next

\* Through every sequence of allocations, resets, moves and destructions a block
\* that malloc returned is in the list of exactly one arena, once, until it is
\* freed, and no list has a freed one.
THEOREM OwnersCorrect == Spec => []BlocksHaveOneOwner
<1>1. Init => TypeOK /\ Owned
  BY TypeInit, OwnedInit
<1>2. TypeOK /\ Owned /\ [Next]_vars => (TypeOK /\ Owned)'
  BY TypeStep, OwnedStep
<1>3. Owned => BlocksHaveOneOwner
  BY OwnedForm
<1> QED
  BY <1>1, <1>2, <1>3, PTL DEF Spec

----------------------------------------------------------------------------
(* Allocations.                                                            *)

Sound ==
    /\ \A x \in live : InBlock(x) /\ IsAligned(x)
    /\ \A x, y \in live : x # y => ~Overlap(x, y)

\* What is allocated behind all that a block has is apart from it.
LEMMA SoundWith ==
    ASSUME TypeOK, Sound, NEW x \in Allocation, live' = live \cup {x},
           IsAligned(x),
           InBlock(x)',
           \A y \in live : InBlock(y)',
           \A y \in live : y.block = x.block => y.to <= x.from
    PROVE  Sound'
<1>1. \A y \in live' : InBlock(y)' /\ IsAligned(y)'
  BY DEF Sound, IsAligned
<1>2. \A y \in live : ~Overlap(x, y) /\ ~Overlap(y, x)
  <2> SUFFICES ASSUME NEW y \in live, y.block = x.block PROVE ~(x.from < y.to)
    BY DEF Overlap
  <2>1. y \in Allocation
    BY DEF TypeOK
  <2> QED
    BY <2>1 DEF Allocation
<1>3. \A y, z \in live' : y # z => ~Overlap(y, z)'
  BY <1>2 DEF Sound, Overlap
<1> QED
  BY <1>1, <1>3 DEF Sound

\* What is left when the blocks of an arena are emptied or freed lies in others.
LEMMA SoundWithout ==
    ASSUME Sound, NEW a \in Arenas, live' = Without(IdsOf(a)),
           \A c \in Arenas \ {a} : \E d \in Arenas : blocks'[d] = blocks[c]
    PROVE  Sound'
<1>1. live' \subseteq live
  BY DEF Without
<1>2. ASSUME NEW x \in live' PROVE InBlock(x)'
  <2>1. x \in live /\ x.block \notin IdsOf(a)
    BY DEF Without
  <2>2. PICK c \in Arenas : \E i \in DOMAIN blocks[c] :
            x.block = blocks[c][i].id /\ x.from < x.to /\ x.to <= blocks[c][i].used
    BY <2>1 DEF Sound, InBlock
  <2>3. c # a
    BY <2>1, <2>2 DEF IdsOf
  <2>4. PICK d \in Arenas : blocks'[d] = blocks[c]
    BY <2>3
  <2> QED
    BY <2>2, <2>4 DEF InBlock
<1> QED
  BY <1>1, <1>2 DEF Sound, IsAligned, Overlap

LEMMA SoundStep == TypeOK /\ Owned /\ Sound /\ [Next]_vars => Sound'
<1> SUFFICES ASSUME TypeOK, Owned, Sound, [Next]_vars PROVE Sound'
  OBVIOUS
<1>1. CASE UNCHANGED vars
  BY <1>1 DEF Sound, InBlock, IsAligned, Overlap, vars
<1>2. ASSUME NEW a \in Arenas, NEW size \in Sizes, NEW align \in Aligns,
             AllocInLast(a, size, align)
      PROVE  Sound'
  <2> DEFINE n == Len(blocks[a])
  <2>1. /\ n \in DOMAIN blocks[a]
        /\ \A c \in Arenas :
              /\ DOMAIN blocks'[c] = DOMAIN blocks[c]
              /\ \A i \in DOMAIN blocks[c] : /\ blocks'[c][i].id = blocks[c][i].id
                                             /\ blocks[c][i].used <= blocks'[c][i].used
    BY <1>2, AllocInLastEffect
  <2>2. PICK x \in Allocation :
              /\ live' = live \cup {x}
              /\ IsAligned(x)
              /\ x.block = blocks[a][n].id
              /\ blocks[a][n].used <= x.from /\ x.from < x.to /\ x.to = blocks'[a][n].used
    BY <1>2, AllocInLastEffect
  <2> HIDE DEF n
  <2>3. \A c \in Arenas : \A i \in DOMAIN blocks[c] :
           blocks[c][i].used \in Nat /\ blocks'[c][i].used \in Nat
    <3>1. /\ \A c \in Arenas : blocks[c] \in Seq(Block)
          /\ \A c \in Arenas : blocks'[c] \in Seq(Block)
      BY TypeStep DEF TypeOK
    <3>2. \A c \in Arenas : \A i \in DOMAIN blocks[c] : blocks[c][i] \in Block /\ blocks'[c][i] \in Block
      BY <2>1, <3>1
    <3> QED
      BY <3>2 DEF Block
  <2>4. \A y \in live : y.from \in Nat /\ y.to \in Nat
    BY DEF TypeOK, Allocation
  <2>5. \A y \in live : InBlock(y)'
    <3> SUFFICES ASSUME NEW y \in live PROVE InBlock(y)'
      OBVIOUS
    <3>0. PICK c \in Arenas : \E i \in DOMAIN blocks[c] :
              y.block = blocks[c][i].id /\ y.from < y.to /\ y.to <= blocks[c][i].used
      BY DEF Sound, InBlock
    <3>1. PICK i \in DOMAIN blocks[c] :
              y.block = blocks[c][i].id /\ y.from < y.to /\ y.to <= blocks[c][i].used
      BY <3>0
    <3>2. i \in DOMAIN blocks'[c] /\ y.block = blocks'[c][i].id /\ y.to <= blocks'[c][i].used
      BY <2>1, <2>3, <2>4, <3>1
    <3> QED
      BY <3>1, <3>2 DEF InBlock
  <2>6. InBlock(x)'
    <3>1. x.to <= blocks'[a][n].used
      BY <2>1, <2>2, <2>3
    <3> QED
      BY <2>1, <2>2, <3>1 DEF InBlock
  <2>7. ASSUME NEW y \in live, y.block = x.block PROVE y.to <= x.from
    <3>0. PICK c \in Arenas : \E i \in DOMAIN blocks[c] :
              y.block = blocks[c][i].id /\ y.to <= blocks[c][i].used
      BY DEF Sound, InBlock
    <3>1. PICK i \in DOMAIN blocks[c] :
              y.block = blocks[c][i].id /\ y.to <= blocks[c][i].used
      BY <3>0
    <3>2. blocks[c][i].id = blocks[a][n].id /\ n \in DOMAIN blocks[a]
      BY <2>1, <2>2, <2>7, <3>1
    <3>3. c = a /\ i = n
      BY <3>1, <3>2 DEF Owned
    <3> QED
      BY <2>1, <2>2, <2>3, <2>4, <3>1, <3>3 DEF Allocation
  <2> QED
    BY <2>2, <2>5, <2>6, <2>7, SoundWith
<1>3. ASSUME NEW a \in Arenas, NEW size \in Sizes, NEW align \in Aligns,
             AllocInNew(a, size, align)
      PROVE  Sound'
  <2> DEFINE n == Len(blocks[a]) + 1
  <2>1. /\ \A c \in Arenas : DOMAIN blocks'[c] = IF c = a THEN DOMAIN blocks[c] \cup {n} ELSE DOMAIN blocks[c]
        /\ \A c \in Arenas : \A i \in DOMAIN blocks[c] : blocks'[c][i] = blocks[c][i]
        /\ blocks'[a][n].id = mallocs'
        /\ mallocs' \notin heap
    BY <1>3, AllocInNewEffect
  <2>2. PICK x \in Allocation :
              /\ live' = live \cup {x}
              /\ IsAligned(x)
              /\ x.block = mallocs'
              /\ x.from < x.to /\ x.to <= blocks'[a][n].used
    BY <1>3, AllocInNewEffect
  <2> HIDE DEF n
  <2>3. ASSUME NEW y \in live PROVE InBlock(y)' /\ y.block # x.block
    <3>0. PICK c \in Arenas : \E i \in DOMAIN blocks[c] :
              y.block = blocks[c][i].id /\ y.from < y.to /\ y.to <= blocks[c][i].used
      BY DEF Sound, InBlock
    <3>1. PICK i \in DOMAIN blocks[c] :
              y.block = blocks[c][i].id /\ y.from < y.to /\ y.to <= blocks[c][i].used
      BY <3>0
    <3>2. i \in DOMAIN blocks'[c] /\ blocks'[c][i] = blocks[c][i]
      BY <2>1
    <3>3. y.block \in heap
      BY <3>1 DEF Owned
    <3> QED
      BY <2>1, <2>2, <3>1, <3>2, <3>3 DEF InBlock
  <2>4. InBlock(x)'
    <3>1. n \in DOMAIN blocks'[a]
      BY <2>1
    <3> QED
      BY <2>1, <2>2, <3>1 DEF InBlock
  <2> QED
    BY <2>2, <2>3, <2>4, SoundWith
<1>4. ASSUME NEW a \in Arenas, Reset(a)
      PROVE  Sound'
  <2>1. live' = Without(IdsOf(a)) /\ \A c \in Arenas \ {a} : blocks'[c] = blocks[c]
    BY <1>4 DEF Reset, TypeOK
  <2> QED
    BY <2>1, SoundWithout
<1>5. ASSUME NEW a \in Arenas, NEW other \in Arenas, Move(a, other)
      PROVE  Sound'
  <2>1. live' = Without(IdsOf(a)) /\ a # other
    BY <1>5 DEF Move
  <2>2. \A c \in Arenas : blocks'[c] = IF c = other THEN << >> ELSE IF c = a THEN blocks[other] ELSE blocks[c]
    BY <1>5 DEF Move, TypeOK
  <2>3. \A c \in Arenas \ {a} : \E d \in Arenas : blocks'[d] = blocks[c]
    BY <2>1, <2>2
  <2> QED
    BY <2>1, <2>3, SoundWithout
<1>6. ASSUME NEW a \in Arenas, Destroy(a)
      PROVE  Sound'
  <2>1. live' = Without(IdsOf(a)) /\ \A c \in Arenas \ {a} : blocks'[c] = blocks[c]
    BY <1>6 DEF Destroy, TypeOK
  <2> QED
    BY <2>1, SoundWithout
<1> QED
  BY <1>1, <1>2, <1>3, <1>4, <1>5, <1>6 DEF Next

\* What alloc has handed out lies in a block that is not freed, at an aligned
\* address, and shares no byte with any other allocation, until its block is
\* reset or freed: for all sizes, alignments and addresses of blocks.
THEOREM AllocationsCorrect == Spec => []AllocationsSound
<1>1. Init => TypeOK /\ Owned /\ Sound
  BY TypeInit, OwnedInit DEF Init, Sound
<1>2. TypeOK /\ Owned /\ Sound /\ [Next]_vars => (TypeOK /\ Owned /\ Sound)'
  BY TypeStep, OwnedStep, SoundStep
<1>3. TypeOK /\ Sound => AllocationsSound
  BY DEF Sound, AllocationsSound
<1> QED
  BY <1>1, <1>2, <1>3, PTL DEF Spec
==============================================================================
