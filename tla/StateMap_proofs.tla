---------------------------- MODULE StateMap_proofs ----------------------------
(***************************************************************************)
(* Proofs about StateMap, for any nodes and shapes, any hash function and  *)
(* any initial capacity: the table is sound between any two probes, and    *)
(* the map implements Registry.                                            *)
(***************************************************************************)
EXTENDS StateMap, FiniteSetTheorems, TLAPS

----------------------------------------------------------------------------
(* Tables.                                                                 *)

\* A table has at least one slot; its capacity is the number of slots.
IsTable(t) == Capacity(t) \in Nat \ {0} /\ t \in [0..(Capacity(t) - 1) -> Slot]

\* The slot at distance d from the home of the hash h.
Spot(h, d, t) == (Home(h, t) + d) % Capacity(t)

Entry == [hash : Hashes, node : Nodes, psl : Nat]

\* The entry carries the hash of its node.
Hashed(e) == e.hash = hash[Shape[e.node]]

\* A look-up of e in t gets past a slot.
PassedBy(e, d, s) == s # Empty /\ s.psl >= d /\ Shape[s.node] # Shape[e.node]

\* A look-up of e comes to slot i after e.psl steps.
Reaches(e, t, i) ==
    /\ i = Spot(e.hash, e.psl, t)
    /\ \A d \in 0..(e.psl - 1) : PassedBy(e, d, t[Spot(e.hash, d, t)])

Findable(t) == \A i \in Occupied(t) : Hashed(t[i]) /\ Reaches(t[i], t, i)

\* No entry of t has the shape of e.
Fresh(e, t) == \A i \in Occupied(t) : Shape[t[i].node] # Shape[e.node]

\* An entry in a slot, and one step further.
With(t, i, e) == [t EXCEPT ![i] = e]
Further(e) == [e EXCEPT !.psl = @ + 1]

HasEmpty(t) == \E i \in DOMAIN t : t[i] = Empty

----------------------------------------------------------------------------
(* The strengthening of TableSound.                                        *)

\* An entry on its way to a slot is about to be placed in slot idx.
Underway ==
    /\ entry \in Entry
    /\ Hashed(entry)
    /\ Reaches(entry, slots, idx)
    /\ pc # "probe" => Fresh(entry, slots)

\* The slots of the old table that have been taken up.
Copied == {i \in Occupied(old) : i < next}

\* The table being copied: its entries are of different shapes, and those taken
\* up so far are the entries of the new table, and the one under way.
Growing ==
    /\ IsTable(old) /\ Capacity(slots) = 2 * Capacity(old)
    /\ next \in 0..Capacity(old)
    /\ size = Cardinality(Occupied(old)) /\ size <= MaxLoad(old)
    /\ \A i, j \in Occupied(old) : Shape[old[i].node] = Shape[old[j].node] => i = j
    /\ \A i \in Occupied(old) : Hashed(old[i])
    /\ pc = "grow" =>
          /\ NodesIn(slots) = {old[i].node : i \in Copied}
          /\ Cardinality(Occupied(slots)) = Cardinality(Copied)
    /\ pc = "rehash" =>
          /\ NodesIn(slots) \cup {entry.node} = {old[i].node : i \in Copied}
          /\ Cardinality(Occupied(slots)) + 1 = Cardinality(Copied)

Load ==
    /\ pc = "idle" => size = Cardinality(Occupied(slots)) /\ size <= MaxLoad(slots)
    /\ pc \in {"probe", "displace"} => size = Cardinality(Occupied(slots)) /\ size < MaxLoad(slots)

MapInv ==
    /\ TypeOK
    /\ IsTable(slots)
    /\ Findable(slots)
    /\ pc = "idle" => arg = 0
    /\ pc # "idle" => arg \in Nodes
    /\ pc \in {"rehash", "probe", "displace"} => Underway
    /\ pc \in {"grow", "rehash"} => Growing
    /\ pc = "probe" => entry.node = arg
    /\ pc = "displace" => arg \in NodesIn(slots) \cup {entry.node}
    /\ Load

----------------------------------------------------------------------------
(* Slots at a distance from a home.                                        *)

\* Below twice the capacity, a remainder is the number or what is beyond.
LEMMA Wrapped ==
    ASSUME NEW c \in Nat \ {0}, NEW x \in 0..(2 * c - 1)
    PROVE  x % c = IF x < c THEN x ELSE x - c
<1> DEFINE q == x \div c
           r == x % c
<1>1. q \in Nat /\ r \in 0..(c - 1) /\ x = (q * c) + r
  BY SMT
<1> HIDE DEF q, r
<1>2. CASE q = 0
  BY <1>1, <1>2 DEF r
<1>3. CASE q = 1
  BY <1>1, <1>3 DEF r
<1>4. CASE q >= 2
  <2>1. PICK k \in Nat : q = k + 2
    BY <1>1, <1>4
  <2>2. q * c = (k * c) + (2 * c) /\ k * c \in Nat
    BY <2>1
  <2> QED
    BY <1>1, <2>2
<1> QED
  BY <1>1, <1>2, <1>3, <1>4

\* Where the spots of a hash are: each slot of the table is one of them, at one
\* distance less than the capacity, and the next one is behind it.
LEMMA Spots ==
    ASSUME NEW t, IsTable(t), NEW h \in Nat
    PROVE  /\ \A d \in 0..(Capacity(t) - 1) : Spot(h, d, t) \in DOMAIN t
           /\ \A d, f \in 0..(Capacity(t) - 1) : Spot(h, d, t) = Spot(h, f, t) => d = f
           /\ \A i \in DOMAIN t : \E d \in 0..(Capacity(t) - 1) : i = Spot(h, d, t)
           /\ \A d \in 0..(Capacity(t) - 2) : After(Spot(h, d, t), t) = Spot(h, d + 1, t)
           /\ Spot(h, 0, t) = Home(h, t)
           /\ Home(h, t) \in DOMAIN t
<1> DEFINE c == Capacity(t)
           home == Home(h, t)
<1>1. c \in Nat \ {0} /\ DOMAIN t = 0..(c - 1)
  BY DEF IsTable
<1>2. home \in 0..(c - 1)
  BY <1>1, SMT DEF Home
<1>3. ASSUME NEW x \in 0..(2 * c - 1), NEW y, y = x % c
      PROVE  y = IF x < c THEN x ELSE x - c
  BY <1>1, <1>3, Wrapped
<1>4. ASSUME NEW d \in 0..(c - 1)
      PROVE  Spot(h, d, t) = IF home + d < c THEN home + d ELSE home + d - c
  <2>1. Spot(h, d, t) = (home + d) % c
    BY DEF Spot
  <2> DEFINE x == home + d
  <2>2. x \in 0..(2 * c - 1)
    BY <1>1, <1>2
  <2>3. Spot(h, d, t) = x % c
    BY <2>1
  <2> HIDE DEF x
  <2>4. Spot(h, d, t) = IF x < c THEN x ELSE x - c
    BY <2>2, <2>3, <1>3
  <2> QED
    BY <1>1, <1>2, <2>4 DEF x
<1>5. ASSUME NEW s \in 0..(c - 1)
      PROVE  After(s, t) = IF s + 1 < c THEN s + 1 ELSE s + 1 - c
  <2>1. After(s, t) = (s + 1) % c
    BY DEF After
  <2> DEFINE x == s + 1
  <2>2. x \in 0..(2 * c - 1)
    BY <1>1
  <2>3. After(s, t) = x % c
    BY <2>1
  <2> HIDE DEF x
  <2>4. After(s, t) = IF x < c THEN x ELSE x - c
    BY <2>2, <2>3, <1>3
  <2> QED
    BY <1>1, <1>2, <2>4 DEF x
<1> HIDE DEF home, c
<1>6. \A d \in 0..(c - 1) : Spot(h, d, t) \in DOMAIN t
  BY <1>1, <1>2, <1>4
<1>7. \A d, f \in 0..(c - 1) : Spot(h, d, t) = Spot(h, f, t) => d = f
  BY <1>1, <1>2, <1>4
<1>8. \A i \in DOMAIN t : \E d \in 0..(c - 1) : i = Spot(h, d, t)
  <2> TAKE i \in DOMAIN t
  <2> DEFINE d == IF home <= i THEN i - home ELSE i + c - home
  <2>1. d \in 0..(c - 1) /\ i = IF home + d < c THEN home + d ELSE home + d - c
    BY <1>1, <1>2
  <2> QED
    BY <1>4, <2>1
<1>9. \A d \in 0..(c - 2) : After(Spot(h, d, t), t) = Spot(h, d + 1, t)
  <2> TAKE d \in 0..(c - 2)
  <2>1. d \in 0..(c - 1) /\ d + 1 \in 0..(c - 1)
    BY <1>1
  <2> QED
    BY <1>1, <1>2, <1>4, <1>5, <2>1
<1>10. Spot(h, 0, t) = home
  BY <1>1, <1>2, <1>4
<1> QED
  BY <1>1, <1>2, <1>6, <1>7, <1>8, <1>9, <1>10 DEF home, c

\* They depend on nothing but the number of slots.
LEMMA SameSpots ==
    ASSUME NEW t, NEW u, DOMAIN t = DOMAIN u
    PROVE  /\ \A h, d : Spot(h, d, t) = Spot(h, d, u)
           /\ \A h : Home(h, t) = Home(h, u)
           /\ Capacity(t) = Capacity(u)
BY DEF Spot, Home, Capacity

----------------------------------------------------------------------------
(* Entries in a table.                                                     *)

LEMMA Entries ==
    ASSUME NEW t, IsTable(t)
    PROVE  /\ \A i \in Occupied(t) : i \in DOMAIN t /\ t[i] \in Entry
           /\ Empty \notin Entry
           /\ \A e \in Entry : e.hash \in Nat
BY HashesAssumption, NodesAssumption DEF IsTable, Occupied, Slot, Entry, Empty

\* As long as a slot is empty, no look-up goes once around the table.
LEMMA ShortWay ==
    ASSUME NEW t, IsTable(t), HasEmpty(t), NEW e \in Entry, NEW p \in Nat,
           \A d \in 0..(p - 1) : PassedBy(e, d, t[Spot(e.hash, d, t)])
    PROVE  p < Capacity(t)
<1>1. PICK i \in DOMAIN t : t[i] = Empty
  BY DEF HasEmpty
<1>2. PICK f \in 0..(Capacity(t) - 1) : i = Spot(e.hash, f, t)
  BY Spots, Entries
<1>3. ~(f \in 0..(p - 1))
  BY <1>1, <1>2 DEF PassedBy
<1> QED
  BY <1>2, <1>3 DEF IsTable

\* Two entries of a sound table have different shapes.
LEMMA DifferentShapes ==
    ASSUME NEW t, IsTable(t), Findable(t), NEW i \in Occupied(t), NEW j \in Occupied(t),
           Shape[t[i].node] = Shape[t[j].node]
    PROVE  i = j
<1>1. t[i] \in Entry /\ t[j] \in Entry
  BY Entries
<1>2. t[i].hash = t[j].hash
  BY DEF Findable, Hashed
<1>3. ASSUME NEW k \in Occupied(t), NEW l \in Occupied(t), t[k].hash = t[l].hash,
             Shape[t[k].node] = Shape[t[l].node], t[k] \in Entry, t[l] \in Entry
      PROVE  ~(t[k].psl < t[l].psl)
  <2>1. k = Spot(t[k].hash, t[k].psl, t)
    BY <1>3 DEF Findable, Reaches
  <2>2. \A d \in 0..(t[l].psl - 1) : PassedBy(t[l], d, t[Spot(t[l].hash, d, t)])
    BY <1>3 DEF Findable, Reaches
  <2>3. ASSUME t[k].psl < t[l].psl
        PROVE  FALSE
    <3>1. t[k].psl \in 0..(t[l].psl - 1)
      BY <1>3, <2>3 DEF Entry
    <3> QED
      BY <1>3, <2>1, <2>2, <3>1 DEF PassedBy
  <2> QED
    BY <2>3
<1>4. t[i].psl = t[j].psl
  BY <1>1, <1>2, <1>3 DEF Entry
<1> QED
  BY <1>2, <1>4 DEF Findable, Reaches

\* A look-up that meets an empty slot, or a richer entry, is right to end: no
\* entry of the table has the shape it looks for.
LEMMA LookupEnds ==
    ASSUME NEW t, IsTable(t), Findable(t), NEW e \in Entry, Hashed(e), NEW i \in DOMAIN t,
           Reaches(e, t, i),
           t[i] = Empty \/ (t[i].psl < e.psl /\ Shape[t[i].node] # Shape[e.node])
    PROVE  Fresh(e, t)
<1> SUFFICES ASSUME NEW j \in Occupied(t), Shape[t[j].node] = Shape[e.node]
             PROVE  FALSE
  BY DEF Fresh
<1>1. t[j] \in Entry /\ t[j].hash = e.hash
  BY Entries DEF Findable, Hashed
<1>2. /\ j = Spot(e.hash, t[j].psl, t)
      /\ \A d \in 0..(t[j].psl - 1) : PassedBy(t[j], d, t[Spot(e.hash, d, t)])
  BY <1>1 DEF Findable, Reaches
<1>3. /\ i = Spot(e.hash, e.psl, t)
      /\ \A d \in 0..(e.psl - 1) : PassedBy(e, d, t[Spot(e.hash, d, t)])
  BY DEF Reaches
<1>4. t[j] # Empty
  BY DEF Occupied
<1>5. t[j].psl \in Nat /\ e.psl \in Nat
  BY <1>1 DEF Entry
<1>6. CASE t[j].psl < e.psl
  <2>1. t[j].psl \in 0..(e.psl - 1)
    BY <1>5, <1>6
  <2> QED
    BY <1>2, <1>3, <2>1 DEF PassedBy
<1>7. CASE t[j].psl = e.psl
  BY <1>2, <1>3, <1>4, <1>7
<1>8. CASE t[j].psl > e.psl
  <2>1. e.psl \in 0..(t[j].psl - 1)
    BY <1>5, <1>8
  <2>2. t[i] # Empty /\ t[i].psl >= e.psl
    BY <1>2, <1>3, <2>1 DEF PassedBy
  <2>3. t[i].psl \in Nat
    BY Entries, <2>2 DEF Occupied, Entry
  <2> QED
    BY <1>5, <2>2, <2>3
<1> QED
  BY <1>5, <1>6, <1>7, <1>8

----------------------------------------------------------------------------
(* The probe loops: an entry is placed, displaces another, or goes on.     *)

LEMMA WithSlots ==
    ASSUME NEW t, IsTable(t), NEW i \in DOMAIN t, NEW e \in Entry
    PROVE  /\ \A j \in DOMAIN t : With(t, i, e)[j] = IF j = i THEN e ELSE t[j]
           /\ DOMAIN With(t, i, e) = DOMAIN t
           /\ IsTable(With(t, i, e))
           /\ Capacity(With(t, i, e)) = Capacity(t)
           /\ Occupied(With(t, i, e)) = Occupied(t) \cup {i}
<1> DEFINE u == With(t, i, e)
<1>1. (\A j \in DOMAIN t : u[j] = IF j = i THEN e ELSE t[j]) /\ DOMAIN u = DOMAIN t
  BY DEF IsTable, With
<1>2. e # Empty /\ e \in Slot
  BY Entries DEF Slot, Entry
<1>3. Capacity(u) = Capacity(t)
  BY <1>1, SameSpots
<1>4. IsTable(u)
  BY <1>2, <1>3 DEF IsTable, With
<1> HIDE DEF u
<1>5. Occupied(u) = Occupied(t) \cup {i}
  BY <1>1, <1>2 DEF Occupied
<1> QED
  BY <1>1, <1>3, <1>4, <1>5 DEF u

\* An entry takes an empty slot, or that of an entry nearer to its home: all
\* entries stay findable.
LEMMA Placed ==
    ASSUME NEW t, IsTable(t), HasEmpty(t), Findable(t),
           NEW e \in Entry, Hashed(e), Fresh(e, t),
           NEW i \in DOMAIN t, Reaches(e, t, i),
           t[i] = Empty \/ t[i].psl < e.psl
    PROVE  Findable(With(t, i, e))
<1> DEFINE u == With(t, i, e)
<1>1. \A j \in DOMAIN t : u[j] = IF j = i THEN e ELSE t[j]
  BY WithSlots
<1>2. e # Empty
  BY Entries
<1>3. IsTable(u) /\ DOMAIN u = DOMAIN t
  BY WithSlots
<1>4. Occupied(u) = Occupied(t) \cup {i}
  BY WithSlots
<1> HIDE DEF u
<1>5. \A h, d : Spot(h, d, u) = Spot(h, d, t)
  BY <1>3, SameSpots
<1>6. e.psl \in Nat /\ e.psl < Capacity(t)
  BY ShortWay DEF Reaches, Entry
<1>7. Reaches(e, u, i)
  <2>1. \A d \in 0..(e.psl - 1) : Spot(e.hash, d, t) # i /\ Spot(e.hash, d, t) \in DOMAIN t
    <3> TAKE d \in 0..(e.psl - 1)
    <3>1. /\ d \in 0..(Capacity(t) - 1) /\ e.psl \in 0..(Capacity(t) - 1) /\ d # e.psl
          /\ e.hash \in Nat
      BY <1>6, Entries DEF IsTable
    <3> QED
      BY <3>1, Spots DEF Reaches
  <2>2. \A d \in 0..(e.psl - 1) : PassedBy(e, d, t[Spot(e.hash, d, t)])
    BY DEF Reaches
  <2> QED
    BY <1>1, <1>5, <2>1, <2>2 DEF Reaches
<1>8. ASSUME NEW j \in Occupied(t), j # i
      PROVE  Hashed(u[j]) /\ Reaches(u[j], u, j)
  <2>1. u[j] = t[j] /\ t[j] \in Entry
    BY <1>1, <1>8, Entries
  <2>2. Hashed(t[j]) /\ Reaches(t[j], t, j)
    BY DEF Findable
  <2>3. ASSUME NEW d \in 0..(t[j].psl - 1)
        PROVE  PassedBy(t[j], d, u[Spot(t[j].hash, d, t)])
    <3> DEFINE s == Spot(t[j].hash, d, t)
    <3>1. PassedBy(t[j], d, t[s])
      BY <2>2 DEF Reaches
    <3>2. d \in Nat
      BY <2>1 DEF Entry
    <3>3. s \in DOMAIN t
      <4>1. t[j].psl < Capacity(t)
        BY <2>1, <2>2, ShortWay DEF Reaches, Entry
      <4>2. d \in 0..(Capacity(t) - 1) /\ t[j].hash \in Nat
        BY <2>1, <4>1, Entries DEF Entry, IsTable
      <4> QED
        BY <4>2, Spots
    <3>4. CASE s = i
      <4>1. t[i] # Empty /\ t[i].psl >= d
        BY <3>1, <3>4 DEF PassedBy
      <4>2. i \in Occupied(t) /\ t[i].psl \in Nat
        BY <4>1, Entries DEF Occupied, Entry
      <4>3. e.psl >= d
        BY <1>6, <3>2, <4>1, <4>2
      <4>4. Shape[e.node] # Shape[t[j].node]
        BY DEF Fresh
      <4> QED
        BY <1>1, <1>2, <3>3, <3>4, <4>3, <4>4 DEF PassedBy
    <3>5. CASE s # i
      BY <1>1, <3>1, <3>3, <3>5
    <3> QED
      BY <3>4, <3>5
  <2> QED
    BY <1>5, <2>1, <2>2, <2>3 DEF Reaches
<1>9. Findable(u)
  BY <1>1, <1>4, <1>7, <1>8 DEF Findable
<1> QED
  BY <1>9 DEF u

\* An entry goes past a slot.
LEMMA Passed ==
    ASSUME NEW t, IsTable(t), HasEmpty(t), NEW e \in Entry, NEW i \in DOMAIN t,
           Reaches(e, t, i), PassedBy(e, e.psl, t[i])
    PROVE  /\ Further(e) \in Entry /\ Further(e).hash = e.hash /\ Further(e).node = e.node
           /\ Reaches(Further(e), t, After(i, t))
           /\ After(i, t) \in DOMAIN t
<1> DEFINE f == Further(e)
<1>1. e.psl \in Nat /\ e.hash \in Nat
  BY Entries DEF Entry
<1>2. f \in Entry /\ f.hash = e.hash /\ f.node = e.node /\ f.psl = e.psl + 1
  BY DEF Entry, Further
<1> HIDE DEF f
<1>3. \A d \in 0..e.psl : PassedBy(e, d, t[Spot(e.hash, d, t)])
  <2> TAKE d \in 0..e.psl
  <2>1. d \in 0..(e.psl - 1) \/ d = e.psl
    BY <1>1
  <2> QED
    BY <2>1 DEF Reaches
<1>4. e.psl + 1 < Capacity(t)
  BY <1>1, <1>3, ShortWay
<1>5. After(i, t) = Spot(e.hash, e.psl + 1, t) /\ After(i, t) \in DOMAIN t
  <2>1. e.psl \in 0..(Capacity(t) - 2) /\ e.psl + 1 \in 0..(Capacity(t) - 1)
    BY <1>1, <1>4 DEF IsTable
  <2>2. /\ \A d \in 0..(Capacity(t) - 1) : Spot(e.hash, d, t) \in DOMAIN t
        /\ \A d \in 0..(Capacity(t) - 2) : After(Spot(e.hash, d, t), t) = Spot(e.hash, d + 1, t)
    BY <1>1, Spots
  <2>3. i = Spot(e.hash, e.psl, t)
    BY DEF Reaches
  <2> QED
    BY <2>1, <2>2, <2>3
<1>6. \A d \in 0..(f.psl - 1) : PassedBy(f, d, t[Spot(f.hash, d, t)])
  BY <1>1, <1>2, <1>3 DEF PassedBy
<1>7. Reaches(f, t, After(i, t))
  BY <1>2, <1>5, <1>6 DEF Reaches
<1> QED
  BY <1>2, <1>5, <1>7 DEF f

\* An entry displaces another, which goes on from there.
LEMMA Displaced ==
    ASSUME NEW t, IsTable(t), HasEmpty(t), Findable(t),
           NEW e \in Entry, Hashed(e), Fresh(e, t),
           NEW i \in DOMAIN t, Reaches(e, t, i), t[i] # Empty, t[i].psl < e.psl
    PROVE  LET u == With(t, i, e)
               f == Further(t[i])
           IN  /\ f \in Entry /\ Hashed(f) /\ f.node = t[i].node
               /\ Fresh(f, u)
               /\ Reaches(f, u, After(i, u))
               /\ After(i, u) \in DOMAIN u
<1> DEFINE u == With(t, i, e)
           f == Further(t[i])
<1>1. /\ IsTable(u) /\ Occupied(u) = Occupied(t) \cup {i}
      /\ \A j \in DOMAIN t : u[j] = IF j = i THEN e ELSE t[j]
      /\ DOMAIN u = DOMAIN t
  BY WithSlots
<1> HIDE DEF u
<1>2. i \in Occupied(t)
  BY DEF Occupied
<1>3. t[i] \in Entry /\ Hashed(t[i]) /\ Reaches(t[i], t, i)
  BY <1>2, Entries DEF Findable
<1>4. Occupied(u) = Occupied(t)
  BY <1>1, <1>2
<1>5. Shape[e.node] # Shape[t[i].node]
  BY <1>2 DEF Fresh
<1>6. HasEmpty(u)
  <2>1. \E j \in DOMAIN t : j \notin Occupied(t)
    BY DEF HasEmpty, Occupied
  <2> QED
    BY <1>1, <1>4, <2>1 DEF HasEmpty, Occupied
<1>7. \A h, d : Spot(h, d, u) = Spot(h, d, t)
  BY <1>1, SameSpots
<1>8. Reaches(t[i], u, i)
  <2>1. t[i].psl \in Nat /\ t[i].psl < Capacity(t) /\ t[i].hash \in Nat
    BY <1>3, ShortWay, Entries DEF Reaches, Entry
  <2>2. \A d \in 0..(t[i].psl - 1) : Spot(t[i].hash, d, t) # i /\ Spot(t[i].hash, d, t) \in DOMAIN t
    <3> TAKE d \in 0..(t[i].psl - 1)
    <3>1. /\ d \in 0..(Capacity(t) - 1) /\ t[i].psl \in 0..(Capacity(t) - 1) /\ d # t[i].psl
      BY <2>1 DEF IsTable
    <3>2. /\ \A c \in 0..(Capacity(t) - 1) : Spot(t[i].hash, c, t) \in DOMAIN t
          /\ \A c, k \in 0..(Capacity(t) - 1) : Spot(t[i].hash, c, t) = Spot(t[i].hash, k, t) => c = k
      BY <2>1, Spots
    <3>3. i = Spot(t[i].hash, t[i].psl, t)
      BY <1>3 DEF Reaches
    <3> QED
      BY <3>1, <3>2, <3>3
  <2>3. \A d \in 0..(t[i].psl - 1) : PassedBy(t[i], d, t[Spot(t[i].hash, d, t)])
    BY <1>3 DEF Reaches
  <2> QED
    BY <1>1, <1>3, <1>7, <2>2, <2>3 DEF Reaches
<1>9. PassedBy(t[i], t[i].psl, u[i])
  <2>1. e.psl >= t[i].psl /\ e # Empty
    BY <1>3, Entries DEF Entry
  <2> QED
    BY <1>1, <1>5, <2>1 DEF PassedBy
<1>10. /\ f \in Entry /\ f.hash = t[i].hash /\ f.node = t[i].node
       /\ Reaches(f, u, After(i, u)) /\ After(i, u) \in DOMAIN u
  BY <1>1, <1>3, <1>6, <1>8, <1>9, Passed
<1> HIDE DEF f
<1>11. Fresh(f, u)
  <2> SUFFICES ASSUME NEW j \in Occupied(u), Shape[u[j].node] = Shape[t[i].node]
               PROVE  FALSE
    BY <1>10 DEF Fresh
  <2>1. j \in Occupied(t) /\ j \in DOMAIN t
    BY <1>4 DEF Occupied
  <2>2. CASE j = i
    BY <1>1, <1>5, <2>1, <2>2
  <2>3. CASE j # i
    BY <1>1, <1>2, <2>1, <2>3, DifferentShapes
  <2> QED
    BY <2>2, <2>3
<1> QED
  BY <1>3, <1>10, <1>11 DEF Hashed, f, u

----------------------------------------------------------------------------
(* What the table holds.                                                   *)

LEMMA NodesWith ==
    ASSUME NEW t, IsTable(t), NEW i \in DOMAIN t, NEW e \in Entry
    PROVE  /\ t[i] = Empty => NodesIn(With(t, i, e)) = NodesIn(t) \cup {e.node}
           /\ t[i] # Empty => NodesIn(With(t, i, e)) \cup {t[i].node} = NodesIn(t) \cup {e.node}
<1> DEFINE u == With(t, i, e)
<1>1. /\ \A j \in DOMAIN t : u[j] = IF j = i THEN e ELSE t[j]
      /\ Occupied(u) = Occupied(t) \cup {i}
  BY WithSlots
<1>2. \A j \in Occupied(t) : j \in DOMAIN t /\ t[j] # Empty
  BY DEF Occupied
<1>3. \A j \in DOMAIN t : t[j] # Empty => j \in Occupied(t)
  BY DEF Occupied
<1> HIDE DEF u
<1>4. \A n : n \in NodesIn(u) <=> n = e.node \/ \E j \in Occupied(t) : j # i /\ n = t[j].node
  BY <1>1, <1>2 DEF NodesIn
<1>5. \A n : n \in NodesIn(t) <=> \E j \in Occupied(t) : n = t[j].node
  BY DEF NodesIn
<1>6. CASE t[i] = Empty
  <2>1. \A n : n \in NodesIn(u) <=> n \in NodesIn(t) \cup {e.node}
    BY <1>2, <1>4, <1>5, <1>6
  <2> QED
    BY <2>1, <1>6 DEF u
<1>7. CASE t[i] # Empty
  <2>1. i \in Occupied(t)
    BY <1>3, <1>7
  <2>2. \A n : n \in NodesIn(u) \cup {t[i].node} <=> n \in NodesIn(t) \cup {e.node}
    BY <1>4, <1>5, <2>1
  <2> QED
    BY <2>2, <1>7 DEF u
<1> QED
  BY <1>6, <1>7

LEMMA OccupiedCount ==
    ASSUME NEW t, IsTable(t)
    PROVE  /\ IsFiniteSet(Occupied(t))
           /\ Cardinality(Occupied(t)) \in Nat
           /\ Cardinality(Occupied(t)) < Capacity(t) => HasEmpty(t)
<1>1. IsFiniteSet(DOMAIN t) /\ Capacity(t) = Cardinality(DOMAIN t)
  BY FS_Interval DEF IsTable, Capacity
<1>2. Occupied(t) \subseteq DOMAIN t
  BY DEF Occupied
<1>3. IsFiniteSet(Occupied(t)) /\ Cardinality(Occupied(t)) \in Nat
  BY <1>1, <1>2, FS_Subset, FS_CardinalityType
<1>4. ASSUME Cardinality(Occupied(t)) < Capacity(t)
      PROVE  HasEmpty(t)
  <2>1. Occupied(t) # DOMAIN t
    BY <1>1, <1>3, <1>4
  <2> QED
    BY <1>2, <2>1 DEF HasEmpty, Occupied
<1> QED
  BY <1>3, <1>4

LEMMA CountWith ==
    ASSUME NEW t, IsTable(t), NEW i \in DOMAIN t, NEW e \in Entry
    PROVE  Cardinality(Occupied(With(t, i, e))) =
             IF t[i] = Empty THEN Cardinality(Occupied(t)) + 1 ELSE Cardinality(Occupied(t))
<1>1. Occupied(With(t, i, e)) = Occupied(t) \cup {i}
  BY WithSlots
<1>2. i \in Occupied(t) <=> t[i] # Empty
  BY DEF Occupied
<1>3. IsFiniteSet(Occupied(t))
  BY OccupiedCount
<1> QED
  BY <1>1, <1>2, <1>3, FS_AddElement

LEMMA ClearedTable ==
    ASSUME NEW c \in Nat \ {0}
    PROVE  /\ IsTable(Cleared(c)) /\ Capacity(Cleared(c)) = c /\ DOMAIN Cleared(c) = 0..(c - 1)
           /\ Occupied(Cleared(c)) = {} /\ NodesIn(Cleared(c)) = {}
           /\ Cardinality(Occupied(Cleared(c))) = 0
           /\ Findable(Cleared(c))
<1>1. DOMAIN Cleared(c) = 0..(c - 1) /\ \A i \in 0..(c - 1) : Cleared(c)[i] = Empty
  BY DEF Cleared
<1>2. Capacity(Cleared(c)) = c
  BY <1>1, FS_Interval DEF Capacity
<1>3. IsTable(Cleared(c))
  BY <1>2 DEF IsTable, Cleared, Slot
<1>4. Occupied(Cleared(c)) = {}
  BY <1>1 DEF Occupied
<1> QED
  BY <1>1, <1>2, <1>3, <1>4, FS_EmptySet DEF NodesIn, Findable

\* The load at which the map grows leaves a slot empty, and is less than what
\* it is in a table of twice the capacity.
LEMMA Loads ==
    ASSUME NEW t, IsTable(t)
    PROVE  /\ MaxLoad(t) \in Nat /\ MaxLoad(t) < Capacity(t)
           /\ \A u : Capacity(u) = 2 * Capacity(t) => MaxLoad(t) < MaxLoad(u)
BY DEF IsTable, MaxLoad

----------------------------------------------------------------------------
(* The invariant.                                                          *)

\* There is always an empty slot: also while the table grows, when the entries
\* of the old table fit in half of the new one.
LEMMA Room ==
    ASSUME MapInv
    PROVE  Cardinality(Occupied(slots)) < Capacity(slots) /\ HasEmpty(slots)
<1> DEFINE n == Cardinality(Occupied(slots))
<1> SUFFICES n < Capacity(slots)
  BY OccupiedCount DEF MapInv
<1>1. IsTable(slots) /\ n \in Nat /\ Capacity(slots) \in Nat
  BY OccupiedCount DEF MapInv, IsTable
<1>2. CASE pc \in {"idle", "probe", "displace"}
  BY <1>1, <1>2, Loads DEF MapInv, Load
<1>3. CASE pc \in {"grow", "rehash"}
  <2>1. Growing
    BY <1>3 DEF MapInv
  <2>2. IsTable(old) /\ Capacity(slots) = 2 * Capacity(old)
    BY <2>1 DEF Growing
  <2>3. IsFiniteSet(Occupied(old)) /\ Copied \subseteq Occupied(old)
    BY <2>2, OccupiedCount DEF Copied
  <2>4. Cardinality(Copied) <= Cardinality(Occupied(old)) /\ Cardinality(Copied) \in Nat
    BY <2>3, FS_Subset, FS_CardinalityType
  <2>5. n <= Cardinality(Copied)
    BY <1>1, <1>3, <2>1, <2>4 DEF Growing
  <2>6. Cardinality(Occupied(old)) <= MaxLoad(old) /\ MaxLoad(old) < Capacity(old) /\ MaxLoad(old) \in Nat
    BY <2>1, <2>2, Loads DEF Growing
  <2>7. Cardinality(Occupied(old)) \in Nat /\ Capacity(old) \in Nat
    BY <2>2, OccupiedCount DEF IsTable
  <2> QED
    BY <1>1, <2>2, <2>4, <2>5, <2>6, <2>7
<1>4. pc \in {"idle", "grow", "rehash", "probe", "displace"}
  BY DEF MapInv, TypeOK
<1> QED
  BY <1>2, <1>3, <1>4

LEMMA MapInit == Init => MapInv
<1> SUFFICES ASSUME Init PROVE MapInv
  OBVIOUS
<1>1. PICK c \in 1..(2 * InitialCapacity + 1) : slots = Cleared(c)
  BY DEF Init
<1>2. c \in Nat \ {0}
  BY <1>1, CapacityAssumption
<1>3. /\ IsTable(slots) /\ Capacity(slots) = c /\ DOMAIN slots = 0..(c - 1)
      /\ Cardinality(Occupied(slots)) = 0 /\ Findable(slots)
  BY <1>1, <1>2, ClearedTable
<1>4. TypeOK
  BY <1>2, <1>3 DEF Init, TypeOK, IsTable, Table, Slot
<1>5. Load
  BY <1>3, Loads DEF Init, Load
<1> QED
  BY <1>3, <1>4, <1>5 DEF Init, MapInv

\* An entry is placed in an empty slot.
LEMMA PlaceStep ==
    ASSUME MapInv, Underway, Fresh(entry, slots), Here = Empty, Place(entry), UNCHANGED hash
    PROVE  /\ IsTable(slots') /\ Capacity(slots') = Capacity(slots) /\ DOMAIN slots' = DOMAIN slots
           /\ Findable(slots)'
           /\ NodesIn(slots') = NodesIn(slots) \cup {entry.node}
           /\ Cardinality(Occupied(slots')) = Cardinality(Occupied(slots)) + 1
<1>1. IsTable(slots) /\ HasEmpty(slots) /\ Findable(slots) /\ idx \in DOMAIN slots
  BY Room DEF MapInv, TypeOK
<1>2. slots' = With(slots, idx, entry) /\ slots[idx] = Empty
  BY DEF Place, With, Here
<1>3. entry \in Entry /\ Hashed(entry) /\ Reaches(entry, slots, idx)
  BY DEF Underway
<1>4. Findable(slots')
  BY <1>1, <1>2, <1>3, Placed
<1>5. Findable(slots)'
  BY <1>4 DEF Findable, Hashed
<1>6. IsTable(slots') /\ Capacity(slots') = Capacity(slots) /\ DOMAIN slots' = DOMAIN slots
  BY <1>1, <1>2, <1>3, WithSlots
<1>7. NodesIn(slots') = NodesIn(slots) \cup {entry.node}
  BY <1>1, <1>2, <1>3, NodesWith
<1>8. Cardinality(Occupied(slots')) = Cardinality(Occupied(slots)) + 1
  BY <1>1, <1>2, <1>3, CountWith
<1> QED
  BY <1>5, <1>6, <1>7, <1>8

\* An entry takes the slot of a richer one, which is under way from then on.
LEMMA StealStep ==
    ASSUME MapInv, Underway, Fresh(entry, slots), Richer(entry),
           Place(entry), MoveOn(Here), UNCHANGED hash
    PROVE  /\ IsTable(slots') /\ Capacity(slots') = Capacity(slots) /\ DOMAIN slots' = DOMAIN slots
           /\ Findable(slots)'
           /\ NodesIn(slots') \cup {entry'.node} = NodesIn(slots) \cup {entry.node}
           /\ Cardinality(Occupied(slots')) = Cardinality(Occupied(slots))
           /\ entry' \in Entry /\ Hashed(entry)' /\ Reaches(entry', slots', idx') /\ Fresh(entry', slots')
           /\ idx' \in DOMAIN slots'
           /\ entry'.node \in NodesIn(slots)
<1>1. IsTable(slots) /\ HasEmpty(slots) /\ Findable(slots) /\ idx \in DOMAIN slots
  BY Room DEF MapInv, TypeOK
<1>2. slots' = With(slots, idx, entry) /\ slots[idx] # Empty /\ slots[idx].psl < entry.psl
  BY DEF Place, With, Here, Richer
<1>3. entry \in Entry /\ Hashed(entry) /\ Reaches(entry, slots, idx)
  BY DEF Underway
<1>4. Findable(slots')
  BY <1>1, <1>2, <1>3, Placed
<1>5. Findable(slots)'
  BY <1>4 DEF Findable, Hashed
<1>6. IsTable(slots') /\ Capacity(slots') = Capacity(slots) /\ DOMAIN slots' = DOMAIN slots
  BY <1>1, <1>2, <1>3, WithSlots
<1>7. entry' = Further(slots[idx]) /\ idx' = After(idx, slots')
  BY <1>6 DEF MoveOn, Here, Further, After
<1>8. /\ entry' \in Entry /\ Hashed(entry') /\ entry'.node = slots[idx].node
      /\ Reaches(entry', slots', idx') /\ Fresh(entry', slots') /\ idx' \in DOMAIN slots'
  BY <1>1, <1>2, <1>3, <1>7, Displaced
<1>9. Hashed(entry)'
  BY <1>8 DEF Hashed
<1>10. NodesIn(slots') \cup {entry'.node} = NodesIn(slots) \cup {entry.node}
  BY <1>1, <1>2, <1>3, <1>8, NodesWith
<1>11. Cardinality(Occupied(slots')) = Cardinality(Occupied(slots))
  BY <1>1, <1>2, <1>3, CountWith
<1>12. entry'.node \in NodesIn(slots)
  BY <1>1, <1>2, <1>8 DEF NodesIn, Occupied
<1> QED
  BY <1>5, <1>6, <1>8, <1>9, <1>10, <1>11, <1>12

\* An entry goes past a slot.
LEMMA PassStep ==
    ASSUME MapInv, Underway, Here # Empty, ~Richer(entry), Shape[Here.node] # Shape[entry.node],
           MoveOn(entry), UNCHANGED <<hash, slots>>
    PROVE  /\ entry' \in Entry /\ Hashed(entry)' /\ Reaches(entry', slots', idx')
           /\ entry'.node = entry.node
           /\ idx' \in DOMAIN slots'
<1>1. IsTable(slots) /\ HasEmpty(slots) /\ idx \in DOMAIN slots
  BY Room DEF MapInv, TypeOK
<1>2. entry \in Entry /\ Hashed(entry) /\ Reaches(entry, slots, idx)
  BY DEF Underway
<1>3. PassedBy(entry, entry.psl, slots[idx])
  <2>1. idx \in Occupied(slots) /\ slots[idx] \in Entry
    BY <1>1, Entries DEF Here, Occupied
  <2> QED
    BY <1>2, <2>1 DEF PassedBy, Here, Richer, Entry
<1>4. entry' = Further(entry) /\ idx' = After(idx, slots)
  BY DEF MoveOn, Further
<1>5. /\ entry' \in Entry /\ entry'.hash = entry.hash /\ entry'.node = entry.node
      /\ Reaches(entry', slots, idx') /\ idx' \in DOMAIN slots
  BY <1>1, <1>2, <1>3, <1>4, Passed
<1> QED
  BY <1>2, <1>5 DEF Hashed

\* An entry starts at the home of its hash.
LEMMA AtHome ==
    ASSUME NEW t, IsTable(t), NEW e \in Entry, e.psl = 0
    PROVE  Reaches(e, t, Home(e.hash, t)) /\ Home(e.hash, t) \in DOMAIN t
<1>1. e.hash \in Nat
  BY Entries
<1>2. Spot(e.hash, 0, t) = Home(e.hash, t) /\ Home(e.hash, t) \in DOMAIN t
  BY <1>1, Spots
<1> QED
  BY <1>2 DEF Reaches

\* A call starts: the table is loaded and grows, or the look-up starts.
LEMMA StartKeeps == ASSUME MapInv, NEW n \in Nodes, FindOrInsert(n) PROVE MapInv'
<1>1. /\ pc = "idle" /\ arg' = n /\ UNCHANGED <<hash, size, answer>>
      /\ IsTable(slots) /\ Findable(slots) /\ idx \in DOMAIN slots
      /\ size = Cardinality(Occupied(slots)) /\ size <= MaxLoad(slots) /\ size \in Nat
      /\ hash \in [Shapes -> Hashes] /\ entry \in Slot /\ next \in Nat /\ answer \in Nodes \cup {0}
  BY DEF FindOrInsert, MapInv, TypeOK, Load
<1>2. Capacity(slots) \in Nat \ {0} /\ DOMAIN slots = 0..(Capacity(slots) - 1)
  BY <1>1 DEF IsTable
<1>3. CASE size >= MaxLoad(slots)
  <2>1. /\ old' = slots /\ next' = 0 /\ slots' = Cleared(2 * Capacity(slots)) /\ pc' = "grow"
        /\ UNCHANGED <<entry, idx>>
    BY <1>3 DEF FindOrInsert
  <2>2. 2 * Capacity(slots) \in Nat \ {0}
    BY <1>2
  <2>3. /\ IsTable(slots') /\ Capacity(slots') = 2 * Capacity(slots)
        /\ DOMAIN slots' = 0..(2 * Capacity(slots) - 1)
        /\ NodesIn(slots') = {} /\ Cardinality(Occupied(slots')) = 0 /\ Findable(slots')
    BY <2>1, <2>2, ClearedTable
  <2>4. TypeOK'
    BY <1>1, <1>2, <2>1, <2>3 DEF TypeOK, Table, IsTable
  <2>5. Copied' = {}
    BY <1>2, <2>1 DEF Copied, Occupied
  <2>6. \A i, j \in Occupied(slots) : Shape[slots[i].node] = Shape[slots[j].node] => i = j
    BY <1>1, DifferentShapes
  <2>7. \A i \in Occupied(slots) : slots[i].hash = hash[Shape[slots[i].node]]
    BY <1>1 DEF Findable, Hashed
  <2>8. Growing'
    BY <1>1, <1>2, <2>1, <2>3, <2>5, <2>6, <2>7, FS_EmptySet DEF Growing, Hashed
  <2>9. Findable(slots)'
    BY <1>1, <2>3 DEF Findable, Hashed
  <2> QED
    BY <1>1, <2>1, <2>3, <2>4, <2>8, <2>9 DEF MapInv, Load
<1>4. CASE ~(size >= MaxLoad(slots))
  <2>1. StartProbe(n, slots) /\ pc' = "probe" /\ UNCHANGED <<slots, old, next>>
    BY <1>4 DEF FindOrInsert
  <2>2. /\ entry' = [hash |-> hash[Shape[n]], node |-> n, psl |-> 0]
        /\ idx' = Home(entry'.hash, slots)
    BY <2>1 DEF StartProbe
  <2>3. entry' \in Entry /\ Hashed(entry)'
    BY <1>1, <2>2, ShapeAssumption DEF Entry, Hashed
  <2>4. Reaches(entry', slots, idx') /\ idx' \in DOMAIN slots
    BY <1>1, <2>2, <2>3, AtHome
  <2>5. Underway'
    BY <2>1, <2>3, <2>4 DEF Underway
  <2>6. TypeOK'
    BY <1>1, <2>1, <2>3, <2>4 DEF TypeOK, Table, Slot, Entry, IsTable
  <2>7. Findable(slots)'
    BY <1>1, <2>1 DEF Findable, Hashed
  <2>8. size < MaxLoad(slots)
    BY <1>1, <1>4, Loads
  <2> QED
    BY <1>1, <2>1, <2>2, <2>5, <2>6, <2>7, <2>8 DEF MapInv, Load
<1> QED
  BY <1>3, <1>4

\* grow() goes on to the next slot of the old table, or is done.
LEMMA GrowKeeps == ASSUME MapInv, GrowNext PROVE MapInv'
<1>1. /\ pc = "grow" /\ UNCHANGED <<hash, slots, size, arg, answer>>
      /\ IsTable(slots) /\ Findable(slots) /\ idx \in DOMAIN slots /\ arg \in Nodes
      /\ hash \in [Shapes -> Hashes] /\ entry \in Slot /\ size \in Nat /\ answer \in Nodes \cup {0}
      /\ Growing
  BY DEF GrowNext, MapInv, TypeOK
<1>2. /\ IsTable(old) /\ Capacity(slots) = 2 * Capacity(old) /\ next \in 0..Capacity(old)
      /\ size = Cardinality(Occupied(old)) /\ size <= MaxLoad(old)
      /\ \A i, j \in Occupied(old) : Shape[old[i].node] = Shape[old[j].node] => i = j
      /\ \A i \in Occupied(old) : Hashed(old[i])
      /\ NodesIn(slots) = {old[i].node : i \in Copied}
      /\ Cardinality(Occupied(slots)) = Cardinality(Copied)
  BY <1>1 DEF Growing
<1>3. Capacity(old) \in Nat \ {0} /\ DOMAIN old = 0..(Capacity(old) - 1) /\ DOMAIN slots = 0..(Capacity(slots) - 1)
  BY <1>1, <1>2 DEF IsTable
<1>4. Findable(slots)'
  BY <1>1 DEF Findable, Hashed
<1>5. CASE next = Capacity(old)
  <2>1. StartProbe(arg, slots) /\ pc' = "probe" /\ old' = << >> /\ next' = 0
    BY <1>5 DEF GrowNext
  <2>2. Copied = Occupied(old)
    BY <1>3, <1>5 DEF Copied, Occupied
  <2>3. size = Cardinality(Occupied(slots)) /\ size < MaxLoad(slots)
    BY <1>1, <1>2, <2>2, Loads
  <2>4. /\ entry' = [hash |-> hash[Shape[arg]], node |-> arg, psl |-> 0]
        /\ idx' = Home(entry'.hash, slots)
    BY <2>1 DEF StartProbe
  <2>5. entry' \in Entry /\ Hashed(entry)'
    BY <1>1, <2>4, ShapeAssumption DEF Entry, Hashed
  <2>6. Reaches(entry', slots, idx') /\ idx' \in DOMAIN slots
    BY <1>1, <2>4, <2>5, AtHome
  <2>7. Underway'
    BY <1>1, <2>1, <2>5, <2>6 DEF Underway
  <2>8. TypeOK'
    BY <1>1, <2>1, <2>5, <2>6 DEF TypeOK, Table, Slot, Entry, IsTable
  <2> QED
    BY <1>1, <1>4, <2>1, <2>3, <2>4, <2>7, <2>8 DEF MapInv, Load
<1>6. CASE next # Capacity(old)
  <2>1. next' = next + 1 /\ UNCHANGED old /\ next \in DOMAIN old /\ next' \in 0..Capacity(old)
    BY <1>2, <1>3, <1>6 DEF GrowNext
  <2>2. CASE old[next] = Empty
    <3>1. UNCHANGED <<entry, idx, pc>>
      BY <1>6, <2>2 DEF GrowNext
    <3>2. Copied' = Copied
      BY <1>3, <2>1, <2>2 DEF Copied, Occupied
    <3>3. Growing'
      BY <1>1, <1>2, <2>1, <3>1, <3>2 DEF Growing, Hashed
    <3>4. TypeOK'
      BY <1>1, <1>2, <2>1, <3>1 DEF TypeOK, Table, IsTable
    <3> QED
      BY <1>1, <1>4, <3>1, <3>3, <3>4 DEF MapInv, Load
  <2>3. CASE old[next] # Empty
    <3>1. /\ entry' = [old[next] EXCEPT !.psl = 0] /\ idx' = Home(old[next].hash, slots) /\ pc' = "rehash"
      BY <1>6, <2>3 DEF GrowNext
    <3>2. next \in Occupied(old) /\ old[next] \in Entry
      BY <1>2, <2>1, <2>3, Entries DEF Occupied
    <3>3. /\ entry' \in Entry /\ entry'.hash = old[next].hash /\ entry'.node = old[next].node
          /\ entry'.psl = 0
      BY <3>1, <3>2 DEF Entry
    <3>4. Hashed(entry)'
      BY <1>1, <1>2, <3>2, <3>3 DEF Hashed
    <3>5. Reaches(entry', slots, idx') /\ idx' \in DOMAIN slots
      BY <1>1, <3>1, <3>3, AtHome
    <3>6. Copied' = Copied \cup {next} /\ next \notin Copied
      BY <1>2, <1>3, <2>1, <3>2 DEF Copied, Occupied
    <3>7. IsFiniteSet(Copied)
      BY <1>2, OccupiedCount, FS_Subset DEF Copied
    <3>8. Cardinality(Copied') = Cardinality(Copied) + 1
      BY <3>6, <3>7, FS_AddElement
    <3>9. NodesIn(slots) \cup {entry'.node} = {old[i].node : i \in Copied'}
      BY <1>2, <3>3, <3>6
    <3>10. Fresh(entry', slots)
      <4> SUFFICES ASSUME NEW i \in Occupied(slots), Shape[slots[i].node] = Shape[entry'.node]
                   PROVE  FALSE
        BY DEF Fresh
      <4>1. slots[i].node \in NodesIn(slots)
        BY DEF NodesIn
      <4>2. PICK j \in Copied : slots[i].node = old[j].node
        BY <1>2, <4>1
      <4>3. j \in Occupied(old) /\ j # next
        BY <3>6 DEF Copied
      <4> QED
        BY <1>2, <3>2, <3>3, <4>2, <4>3
    <3>11. Underway'
      BY <1>1, <3>3, <3>4, <3>5, <3>10 DEF Underway
    <3>12. Growing'
      BY <1>1, <1>2, <2>1, <3>1, <3>8, <3>9 DEF Growing, Hashed
    <3>13. TypeOK'
      BY <1>1, <1>2, <2>1, <3>1, <3>3, <3>5 DEF TypeOK, Table, IsTable, Slot, Entry
    <3> QED
      BY <1>1, <1>4, <3>1, <3>11, <3>12, <3>13 DEF MapInv, Load
  <2> QED
    BY <2>2, <2>3
<1> QED
  BY <1>5, <1>6

\* What the steps of the three probe loops start from.
LEMMA InLoop ==
    ASSUME MapInv, pc \in {"rehash", "probe", "displace"}
    PROVE  /\ IsTable(slots) /\ Findable(slots) /\ idx \in DOMAIN slots /\ arg \in Nodes
           /\ hash \in [Shapes -> Hashes] /\ size \in Nat /\ next \in Nat /\ answer \in Nodes \cup {0}
           /\ Underway /\ entry \in Entry
           /\ pc # "probe" => Fresh(entry, slots)
BY DEF MapInv, TypeOK, Underway

\* Types after a step that leaves a table.
LEMMA TypesAfter ==
    ASSUME MapInv, UNCHANGED hash, IsTable(slots'), size' \in Nat, next' \in Nat,
           pc' \in {"idle", "grow", "rehash", "probe", "displace"}, arg' \in Nodes \cup {0},
           entry' \in Entry \cup {Empty}, idx' \in DOMAIN slots', answer' \in Nodes \cup {0}
    PROVE  TypeOK'
BY DEF MapInv, TypeOK, Table, IsTable, Slot, Entry

LEMMA RehashKeeps == ASSUME MapInv, Rehash PROVE MapInv'
<1>1. /\ pc = "rehash" /\ UNCHANGED <<hash, size, arg, old, next, answer>>
  BY DEF Rehash, RehashPlace, RehashSteal, RehashPass
<1>2. /\ IsTable(slots) /\ Findable(slots) /\ idx \in DOMAIN slots /\ arg \in Nodes
      /\ size \in Nat /\ next \in Nat /\ answer \in Nodes \cup {0}
      /\ Underway /\ entry \in Entry /\ Fresh(entry, slots) /\ Growing
  BY <1>1, InLoop DEF MapInv
<1>3. Copied' = Copied
  BY <1>1 DEF Copied
<1>4. ASSUME Capacity(slots') = Capacity(slots),
             pc' = "grow" => /\ NodesIn(slots') = NodesIn(slots) \cup {entry.node}
                             /\ Cardinality(Occupied(slots')) = Cardinality(Occupied(slots)) + 1,
             pc' = "rehash" => /\ NodesIn(slots') \cup {entry'.node} = NodesIn(slots) \cup {entry.node}
                               /\ Cardinality(Occupied(slots')) = Cardinality(Occupied(slots))
      PROVE  Growing'
  BY <1>1, <1>2, <1>3, <1>4 DEF Growing, Hashed
<1>5. CASE RehashPlace
  <2>1. Here = Empty /\ Place(entry) /\ pc' = "grow" /\ UNCHANGED <<entry, idx>>
    BY <1>5 DEF RehashPlace
  <2>2. /\ IsTable(slots') /\ Capacity(slots') = Capacity(slots) /\ DOMAIN slots' = DOMAIN slots
        /\ Findable(slots)'
        /\ NodesIn(slots') = NodesIn(slots) \cup {entry.node}
        /\ Cardinality(Occupied(slots')) = Cardinality(Occupied(slots)) + 1
    BY <1>1, <1>2, <2>1, PlaceStep
  <2>3. Growing'
    BY <1>4, <2>1, <2>2
  <2>4. TypeOK'
    BY <1>1, <1>2, <2>1, <2>2, TypesAfter
  <2> QED
    BY <1>1, <1>2, <2>1, <2>2, <2>3, <2>4 DEF MapInv, Load
<1>6. CASE RehashSteal
  <2>1. Richer(entry) /\ Place(entry) /\ MoveOn(Here) /\ pc' = "rehash"
    BY <1>1, <1>6 DEF RehashSteal
  <2>2. /\ IsTable(slots') /\ Capacity(slots') = Capacity(slots) /\ DOMAIN slots' = DOMAIN slots
        /\ Findable(slots)'
        /\ NodesIn(slots') \cup {entry'.node} = NodesIn(slots) \cup {entry.node}
        /\ Cardinality(Occupied(slots')) = Cardinality(Occupied(slots))
        /\ entry' \in Entry /\ Hashed(entry)' /\ Reaches(entry', slots', idx') /\ Fresh(entry', slots')
        /\ idx' \in DOMAIN slots'
    BY <1>1, <1>2, <2>1, StealStep
  <2>3. Growing'
    BY <1>4, <2>1, <2>2
  <2>4. Underway'
    BY <2>2 DEF Underway
  <2>5. TypeOK'
    BY <1>1, <1>2, <2>1, <2>2, TypesAfter
  <2> QED
    BY <1>1, <1>2, <2>1, <2>2, <2>3, <2>4, <2>5 DEF MapInv, Load
<1>7. CASE RehashPass
  <2>1. Here # Empty /\ ~Richer(entry) /\ MoveOn(entry) /\ UNCHANGED <<slots, pc>>
    BY <1>7 DEF RehashPass
  <2>2. Shape[Here.node] # Shape[entry.node]
    BY <1>2, <2>1 DEF Fresh, Here, Occupied
  <2>3. /\ entry' \in Entry /\ Hashed(entry)' /\ Reaches(entry', slots', idx')
        /\ entry'.node = entry.node /\ idx' \in DOMAIN slots'
    BY <1>1, <1>2, <2>1, <2>2, PassStep
  <2>4. Growing'
    BY <1>1, <1>4, <2>1, <2>3
  <2>5. Underway'
    BY <1>2, <2>1, <2>3 DEF Underway, Fresh
  <2>6. TypeOK'
    BY <1>1, <1>2, <2>1, <2>3, TypesAfter
  <2>7. Findable(slots)'
    BY <1>1, <1>2, <2>1 DEF Findable, Hashed
  <2> QED
    BY <1>1, <1>2, <2>1, <2>4, <2>5, <2>6, <2>7 DEF MapInv, Load
<1> QED
  BY <1>5, <1>6, <1>7 DEF Rehash

\* The invariant between calls.
LEMMA AfterReturn ==
    ASSUME MapInv, pc \in {"probe", "displace"}, UNCHANGED <<hash, next>>, IsTable(slots'), Findable(slots)',
           NEW n \in Nodes, Return(n), 0 \in DOMAIN slots',
           size' = Cardinality(Occupied(slots')), size' = size \/ size' = size + 1,
           Capacity(slots') = Capacity(slots)
    PROVE  MapInv'
<1>1. pc' = "idle" /\ arg' = 0 /\ entry' = Empty /\ idx' = 0 /\ answer' = n
  BY DEF Return
<1>2. next \in Nat /\ size \in Nat /\ size < MaxLoad(slots) /\ MaxLoad(slots) \in Nat
  BY Loads DEF MapInv, TypeOK, Load
<1>3. TypeOK'
  BY <1>1, <1>2, TypesAfter
<1>4. MaxLoad(slots') = MaxLoad(slots)
  BY DEF MaxLoad
<1>5. Load'
  BY <1>1, <1>2, <1>4 DEF Load
<1> QED
  BY <1>1, <1>3, <1>5 DEF MapInv

LEMMA ProbeKeeps == ASSUME MapInv, Probe PROVE MapInv'
<1>1. pc = "probe" /\ UNCHANGED <<hash, old, next>>
  BY DEF Probe, ProbeInsert, ProbeFound, ProbeSteal, ProbePass
<1>2. /\ IsTable(slots) /\ Findable(slots) /\ idx \in DOMAIN slots /\ arg \in Nodes
      /\ size \in Nat /\ next \in Nat /\ answer \in Nodes \cup {0}
      /\ Underway /\ entry \in Entry /\ entry.node = arg
      /\ size = Cardinality(Occupied(slots)) /\ size < MaxLoad(slots)
      /\ 0 \in DOMAIN slots
  BY <1>1, InLoop DEF MapInv, Load, IsTable
<1>3. ASSUME Here = Empty \/ (Here.psl < entry.psl /\ Shape[Here.node] # Shape[entry.node])
      PROVE  Fresh(entry, slots)
  BY <1>2, <1>3, LookupEnds DEF Underway, Here
<1>4. ASSUME Here # Empty, ~Matches(entry)
      PROVE  Shape[Here.node] # Shape[entry.node]
  <2>1. Hashed(Here) /\ Hashed(entry)
    BY <1>2, <1>4 DEF Findable, Here, Occupied, Underway
  <2> QED
    BY <1>4, <2>1 DEF Hashed, Matches
<1>5. CASE ProbeInsert
  <2>1. Here = Empty /\ Place(entry) /\ size' = size + 1 /\ Return(arg)
    BY <1>5 DEF ProbeInsert
  <2>2. /\ IsTable(slots') /\ Capacity(slots') = Capacity(slots) /\ DOMAIN slots' = DOMAIN slots
        /\ Findable(slots)'
        /\ Cardinality(Occupied(slots')) = Cardinality(Occupied(slots)) + 1
    BY <1>1, <1>2, <1>3, <2>1, PlaceStep
  <2> QED
    BY <1>1, <1>2, <2>1, <2>2, AfterReturn
<1>6. CASE ProbeFound
  <2>1. Here # Empty /\ Return(Here.node) /\ UNCHANGED <<slots, size>>
    BY <1>6 DEF ProbeFound
  <2>2. Here.node \in Nodes
    BY <1>2, <2>1, Entries DEF Here, Occupied, Entry
  <2>3. Findable(slots)'
    BY <1>1, <1>2, <2>1 DEF Findable, Hashed
  <2> QED
    BY <1>1, <1>2, <2>1, <2>2, <2>3, AfterReturn
<1>7. CASE ProbeSteal
  <2>1. /\ Richer(entry) /\ ~Matches(entry) /\ Place(entry) /\ MoveOn(Here) /\ pc' = "displace"
        /\ UNCHANGED <<size, arg, answer>>
    BY <1>7 DEF ProbeSteal
  <2>2. Fresh(entry, slots)
    BY <1>3, <1>4, <2>1 DEF Richer
  <2>3. /\ IsTable(slots') /\ Capacity(slots') = Capacity(slots)
        /\ Findable(slots)'
        /\ NodesIn(slots') \cup {entry'.node} = NodesIn(slots) \cup {entry.node}
        /\ Cardinality(Occupied(slots')) = Cardinality(Occupied(slots))
        /\ entry' \in Entry /\ Hashed(entry)' /\ Reaches(entry', slots', idx') /\ Fresh(entry', slots')
        /\ idx' \in DOMAIN slots'
    BY <1>1, <1>2, <2>1, <2>2, StealStep
  <2>4. Underway'
    BY <2>3 DEF Underway
  <2>5. TypeOK'
    BY <1>1, <1>2, <2>1, <2>3, TypesAfter
  <2>6. arg' \in NodesIn(slots') \cup {entry'.node}
    BY <1>2, <2>1, <2>3
  <2>7. Load'
    BY <1>2, <2>1, <2>3 DEF Load, MaxLoad
  <2> QED
    BY <1>2, <2>1, <2>3, <2>4, <2>5, <2>6, <2>7 DEF MapInv
<1>8. CASE ProbePass
  <2>1. /\ Here # Empty /\ ~Matches(entry) /\ ~Richer(entry) /\ MoveOn(entry)
        /\ UNCHANGED <<slots, size, pc, arg, answer>>
    BY <1>8 DEF ProbePass
  <2>2. /\ entry' \in Entry /\ Hashed(entry)' /\ Reaches(entry', slots', idx')
        /\ entry'.node = entry.node /\ idx' \in DOMAIN slots'
    BY <1>1, <1>2, <1>4, <2>1, PassStep
  <2>3. Underway'
    BY <1>1, <2>1, <2>2 DEF Underway
  <2>4. TypeOK'
    BY <1>1, <1>2, <2>1, <2>2, TypesAfter
  <2>5. Findable(slots)'
    BY <1>1, <1>2, <2>1 DEF Findable, Hashed
  <2> QED
    BY <1>1, <1>2, <2>1, <2>2, <2>3, <2>4, <2>5 DEF MapInv, Load
<1> QED
  BY <1>5, <1>6, <1>7, <1>8 DEF Probe

LEMMA DisplaceKeeps == ASSUME MapInv, Displace PROVE MapInv'
<1>1. pc = "displace" /\ UNCHANGED <<hash, old, next>>
  BY DEF Displace, DisplacePlace, DisplaceSteal, DisplacePass
<1>2. /\ IsTable(slots) /\ Findable(slots) /\ idx \in DOMAIN slots /\ arg \in Nodes
      /\ size \in Nat /\ next \in Nat /\ answer \in Nodes \cup {0}
      /\ Underway /\ entry \in Entry /\ Fresh(entry, slots)
      /\ arg \in NodesIn(slots) \cup {entry.node}
      /\ size = Cardinality(Occupied(slots)) /\ size < MaxLoad(slots)
      /\ 0 \in DOMAIN slots
  BY <1>1, InLoop DEF MapInv, Load, IsTable
<1>3. CASE DisplacePlace
  <2>1. Here = Empty /\ Place(entry) /\ size' = size + 1 /\ Return(arg)
    BY <1>3 DEF DisplacePlace
  <2>2. /\ IsTable(slots') /\ Capacity(slots') = Capacity(slots) /\ DOMAIN slots' = DOMAIN slots
        /\ Findable(slots)'
        /\ Cardinality(Occupied(slots')) = Cardinality(Occupied(slots)) + 1
    BY <1>1, <1>2, <2>1, PlaceStep
  <2> QED
    BY <1>1, <1>2, <2>1, <2>2, AfterReturn
<1>4. CASE DisplaceSteal
  <2>1. Richer(entry) /\ Place(entry) /\ MoveOn(Here) /\ UNCHANGED <<size, pc, arg, answer>>
    BY <1>4 DEF DisplaceSteal
  <2>2. /\ IsTable(slots') /\ Capacity(slots') = Capacity(slots)
        /\ Findable(slots)'
        /\ NodesIn(slots') \cup {entry'.node} = NodesIn(slots) \cup {entry.node}
        /\ Cardinality(Occupied(slots')) = Cardinality(Occupied(slots))
        /\ entry' \in Entry /\ Hashed(entry)' /\ Reaches(entry', slots', idx') /\ Fresh(entry', slots')
        /\ idx' \in DOMAIN slots'
    BY <1>1, <1>2, <2>1, StealStep
  <2>3. Underway'
    BY <2>2 DEF Underway
  <2>4. TypeOK'
    BY <1>1, <1>2, <2>1, <2>2, TypesAfter
  <2>5. Load'
    BY <1>1, <1>2, <2>1, <2>2 DEF Load, MaxLoad
  <2> QED
    BY <1>1, <1>2, <2>1, <2>2, <2>3, <2>4, <2>5 DEF MapInv
<1>5. CASE DisplacePass
  <2>1. Here # Empty /\ ~Richer(entry) /\ MoveOn(entry) /\ UNCHANGED <<slots, size, pc, arg, answer>>
    BY <1>5 DEF DisplacePass
  <2>2. Shape[Here.node] # Shape[entry.node]
    BY <1>2, <2>1 DEF Fresh, Here, Occupied
  <2>3. /\ entry' \in Entry /\ Hashed(entry)' /\ Reaches(entry', slots', idx')
        /\ entry'.node = entry.node /\ idx' \in DOMAIN slots'
    BY <1>1, <1>2, <2>1, <2>2, PassStep
  <2>4. Underway'
    BY <1>2, <2>1, <2>3 DEF Underway, Fresh
  <2>5. TypeOK'
    BY <1>1, <1>2, <2>1, <2>3, TypesAfter
  <2>6. Findable(slots)'
    BY <1>1, <1>2, <2>1 DEF Findable, Hashed
  <2> QED
    BY <1>1, <1>2, <2>1, <2>3, <2>4, <2>5, <2>6 DEF MapInv, Load
<1> QED
  BY <1>3, <1>4, <1>5 DEF Displace

LEMMA MapStep == MapInv /\ [Next]_vars => MapInv'
<1> SUFFICES ASSUME MapInv, [Next]_vars PROVE MapInv'
  OBVIOUS
<1>1. CASE UNCHANGED vars
  <2>1. UNCHANGED <<hash, slots, size, pc, arg, entry, idx, old, next, answer>>
    BY <1>1 DEF vars
  <2>2. TypeOK' <=> TypeOK
    BY <2>1 DEF TypeOK, Table
  <2>3. Findable(slots)' <=> Findable(slots)
    BY <2>1 DEF Findable, Hashed
  <2>4. Underway' <=> Underway
    BY <2>1 DEF Underway, Hashed
  <2>5. Growing' <=> Growing
    BY <2>1 DEF Growing, Copied, Hashed
  <2> QED
    BY <2>1, <2>2, <2>3, <2>4, <2>5 DEF MapInv, Load
<1> QED
  BY <1>1, StartKeeps, GrowKeeps, RehashKeeps, ProbeKeeps, DisplaceKeeps DEF Next, Step

\* The table is sound between any two probes: entries are in the order of Robin
\* Hood hashing, so that every look-up that ends early is right to, no two
\* entries are equal nodes, size_ counts them, and a slot is always empty.
THEOREM TableCorrect == Spec => []TableSound
<1>1. MapInv => TableSound
  <2> SUFFICES ASSUME MapInv PROVE TableSound
    OBVIOUS
  <2>1. EntriesFindable
    <3> SUFFICES ASSUME NEW i \in Occupied(slots)
                 PROVE  /\ slots[i].hash = hash[Shape[slots[i].node]]
                        /\ i = (Home(slots[i].hash, slots) + slots[i].psl) % Capacity(slots)
                        /\ \A d \in 0..(slots[i].psl - 1) :
                             LET s == slots[(Home(slots[i].hash, slots) + d) % Capacity(slots)]
                             IN  s # Empty /\ s.psl >= d /\ Shape[s.node] # Shape[slots[i].node]
      BY DEF EntriesFindable
    <3>1. Hashed(slots[i]) /\ Reaches(slots[i], slots, i)
      BY DEF MapInv, Findable
    <3> QED
      BY <3>1, Zenon DEF Hashed, Reaches, PassedBy, Spot
  <2>2. SizeIsCount
    BY Room DEF MapInv, Load, SizeIsCount
  <2> QED
    BY <2>1, <2>2 DEF TableSound, MapInv
<1> QED
  BY MapInit, MapStep, <1>1, PTL DEF Spec

----------------------------------------------------------------------------
(* The map implements Registry.                                            *)

LEMMA HeldNow ==
    /\ pc \in {"grow", "rehash"} => Held = NodesIn(old)
    /\ pc = "displace" => Held = (NodesIn(slots) \cup {entry.node}) \ {arg}
    /\ pc \in {"idle", "probe"} => Held = NodesIn(slots)
BY DEF Held

LEMMA HeldThen ==
    /\ pc' \in {"grow", "rehash"} => Held' = NodesIn(old')
    /\ pc' = "displace" => Held' = (NodesIn(slots') \cup {entry'.node}) \ {arg'}
    /\ pc' \in {"idle", "probe"} => Held' = NodesIn(slots')
BY DEF Held

\* Starting and growing change nothing that is held.
LEMMA StartAsks == ASSUME MapInv, NEW n \in Nodes, FindOrInsert(n) PROVE Reg!Ask(n)
<1>1. pc = "idle" /\ arg = 0 /\ arg' = n /\ UNCHANGED answer
  BY DEF FindOrInsert, MapInv
<1>2. (pc' = "grow" /\ old' = slots) \/ (pc' = "probe" /\ slots' = slots)
  BY DEF FindOrInsert
<1>3. Held' = Held
  BY <1>1, <1>2, HeldNow, HeldThen
<1> QED
  BY <1>1, <1>3 DEF Reg!Ask, Reg!Nobody

LEMMA GrowHolds == ASSUME MapInv, GrowNext \/ Rehash PROVE UNCHANGED <<Held, arg, answer>>
<1>1. UNCHANGED <<arg, answer>> /\ pc \in {"grow", "rehash"} /\ Held = NodesIn(old)
  BY HeldNow DEF GrowNext, Rehash, RehashPlace, RehashSteal, RehashPass
<1>2. CASE GrowNext /\ next = Capacity(old)
  <2>1. pc = "grow" /\ pc' = "probe" /\ slots' = slots /\ Growing
    BY <1>2 DEF GrowNext, MapInv
  <2>2. Copied = Occupied(old)
    <3>1. IsTable(old)
      BY <2>1 DEF Growing
    <3>2. \A i \in Occupied(old) : i < next
      BY <1>2, <3>1 DEF IsTable, Occupied
    <3> QED
      BY <3>2 DEF Copied
  <2>3. NodesIn(slots) = NodesIn(old)
    BY <2>1, <2>2 DEF Growing, NodesIn
  <2> QED
    BY <1>1, <2>1, <2>3, HeldThen
<1>3. CASE GrowNext /\ next # Capacity(old)
  <2>1. pc' \in {"grow", "rehash"} /\ old' = old
    BY <1>1, <1>3 DEF GrowNext
  <2> QED
    BY <1>1, <2>1, HeldThen
<1>4. CASE Rehash
  <2>1. pc' \in {"grow", "rehash"} /\ old' = old
    BY <1>4 DEF Rehash, RehashPlace, RehashSteal, RehashPass
  <2> QED
    BY <1>1, <2>1, HeldThen
<1> QED
  BY <1>2, <1>3, <1>4

\* A look-up finds what is held, or that nothing equal is.
LEMMA ProbeAnswers ==
    ASSUME MapInv, Probe
    PROVE  Reg!Find \/ Reg!Insert \/ UNCHANGED <<Held, arg, answer>>
<1>1. pc = "probe" /\ Held = NodesIn(slots)
  BY HeldNow DEF Probe, ProbeInsert, ProbeFound, ProbeSteal, ProbePass
<1>2. /\ IsTable(slots) /\ Findable(slots) /\ idx \in DOMAIN slots /\ arg \in Nodes
      /\ Underway /\ entry \in Entry /\ entry.node = arg
  BY <1>1, InLoop DEF MapInv
<1>3. arg # Reg!Nobody
  BY <1>2, NodesAssumption DEF Reg!Nobody
<1>4. ASSUME Here = Empty \/ (Here.psl < entry.psl /\ Shape[Here.node] # Shape[entry.node])
      PROVE  Fresh(entry, slots) /\ Reg!Equal(arg) = {} /\ arg \notin Held
  <2>1. Fresh(entry, slots)
    BY <1>2, <1>4, LookupEnds DEF Underway, Here
  <2>2. \A m \in Held : Shape[m] # Shape[arg]
    BY <1>1, <1>2, <2>1 DEF Fresh, NodesIn
  <2> QED
    BY <2>1, <2>2 DEF Reg!Equal
<1>5. CASE ProbeInsert
  <2>1. Here = Empty /\ Place(entry) /\ Return(arg) /\ UNCHANGED hash
    BY <1>5 DEF ProbeInsert
  <2>2. NodesIn(slots') = NodesIn(slots) \cup {arg}
    BY <1>2, <1>4, <2>1, PlaceStep
  <2>3. Held' = Held \cup {arg} /\ arg' = Reg!Nobody /\ answer' = arg
    BY <1>1, <2>1, <2>2, HeldThen DEF Return, Reg!Nobody
  <2>4. Reg!Insert
    BY <1>3, <1>4, <2>1, <2>3 DEF Reg!Insert, Reg!Answer
  <2> QED
    BY <2>4
<1>6. CASE ProbeFound
  <2>1. Here # Empty /\ Matches(entry) /\ Return(Here.node) /\ UNCHANGED slots
    BY <1>6 DEF ProbeFound
  <2>2. Here.node \in Held
    BY <1>1, <1>2, <2>1 DEF Here, NodesIn, Occupied
  <2>3. Here.node \in Reg!Equal(arg)
    BY <1>2, <2>1, <2>2 DEF Reg!Equal, Matches
  <2>4. Held' = Held \cup {Here.node} /\ arg' = Reg!Nobody /\ answer' = Here.node
    BY <1>1, <2>1, <2>2, HeldThen DEF Return, Reg!Nobody
  <2>5. Reg!Find
    BY <1>3, <2>3, <2>4 DEF Reg!Find, Reg!Answer
  <2> QED
    BY <2>5
<1>7. CASE ProbeSteal
  <2>1. /\ Richer(entry) /\ ~Matches(entry) /\ Place(entry) /\ MoveOn(Here) /\ pc' = "displace"
        /\ UNCHANGED <<arg, answer, hash>>
    BY <1>7 DEF ProbeSteal
  <2>2. Shape[Here.node] # Shape[entry.node]
    <3>1. Hashed(Here) /\ Hashed(entry)
      BY <1>2, <2>1 DEF Findable, Here, Occupied, Underway, Richer
    <3> QED
      BY <2>1, <3>1 DEF Hashed, Matches
  <2>3. Fresh(entry, slots) /\ arg \notin Held
    BY <1>4, <2>1, <2>2 DEF Richer
  <2>4. NodesIn(slots') \cup {entry'.node} = NodesIn(slots) \cup {arg}
    BY <1>2, <2>1, <2>3, StealStep
  <2>5. Held' = (NodesIn(slots') \cup {entry'.node}) \ {arg}
    BY <2>1, HeldThen
  <2> QED
    BY <1>1, <2>1, <2>3, <2>4, <2>5
<1>8. CASE ProbePass
  BY <1>1, <1>8, HeldThen DEF ProbePass
<1> QED
  BY <1>5, <1>6, <1>7, <1>8 DEF Probe

\* The displaced entries stay held; the node that displaced them is, in the end.
LEMMA DisplaceAnswers ==
    ASSUME MapInv, Displace
    PROVE  Reg!Insert \/ UNCHANGED <<Held, arg, answer>>
<1>1. pc = "displace" /\ Held = (NodesIn(slots) \cup {entry.node}) \ {arg}
  BY HeldNow DEF Displace, DisplacePlace, DisplaceSteal, DisplacePass
<1>2. /\ IsTable(slots) /\ Findable(slots) /\ idx \in DOMAIN slots /\ arg \in Nodes
      /\ Underway /\ entry \in Entry /\ Fresh(entry, slots)
      /\ arg \in NodesIn(slots) \cup {entry.node}
  BY <1>1, InLoop DEF MapInv
<1>3. arg # Reg!Nobody
  BY <1>2, NodesAssumption DEF Reg!Nobody
<1>4. Reg!Equal(arg) = {}
  <2>1. ASSUME NEW m \in NodesIn(slots) \cup {entry.node}, NEW n \in NodesIn(slots) \cup {entry.node},
               Shape[m] = Shape[n]
        PROVE  m = n
    <3>1. \A k \in NodesIn(slots) : Shape[k] # Shape[entry.node]
      BY <1>2 DEF Fresh, NodesIn
    <3>2. CASE m \in NodesIn(slots) /\ n \in NodesIn(slots)
      <4>1. PICK i \in Occupied(slots), j \in Occupied(slots) : m = slots[i].node /\ n = slots[j].node
        BY <3>2 DEF NodesIn
      <4> QED
        BY <1>2, <2>1, <4>1, DifferentShapes
    <3> QED
      BY <2>1, <3>1, <3>2
  <2> QED
    BY <1>1, <1>2, <2>1 DEF Reg!Equal
<1>5. CASE DisplacePlace
  <2>1. Here = Empty /\ Place(entry) /\ Return(arg) /\ UNCHANGED hash
    BY <1>5 DEF DisplacePlace
  <2>2. NodesIn(slots') = NodesIn(slots) \cup {entry.node}
    BY <1>2, <2>1, PlaceStep
  <2>3. Held' = Held \cup {arg} /\ arg' = Reg!Nobody /\ answer' = arg
    BY <1>1, <1>2, <2>1, <2>2, HeldThen DEF Return, Reg!Nobody
  <2>4. Reg!Insert
    BY <1>3, <1>4, <2>3 DEF Reg!Insert, Reg!Answer
  <2> QED
    BY <2>4
<1>6. CASE DisplaceSteal
  <2>1. Richer(entry) /\ Place(entry) /\ MoveOn(Here) /\ UNCHANGED <<pc, arg, answer, hash>>
    BY <1>6 DEF DisplaceSteal
  <2>2. NodesIn(slots') \cup {entry'.node} = NodesIn(slots) \cup {entry.node}
    BY <1>2, <2>1, StealStep
  <2> QED
    BY <1>1, <2>1, <2>2, HeldThen
<1>7. CASE DisplacePass
  <2>1. entry'.node = entry.node /\ UNCHANGED <<slots, pc, arg, answer>>
    BY <1>2, <1>7 DEF DisplacePass, MoveOn, Entry
  <2> QED
    BY <1>1, <2>1, HeldThen
<1> QED
  BY <1>5, <1>6, <1>7 DEF Displace

\* However entries are displaced and moved to larger tables, find_or_insert
\* answers as the set of canonical nodes would: with the held node of the same
\* shape, or with the node itself, which is held from then on; and nothing else
\* is ever lost or added.
THEOREM RegistryImplemented == Spec => ImplementsRegistry
<1>1. Init => Reg!Init
  <2> SUFFICES ASSUME Init PROVE Reg!Init
    OBVIOUS
  <2>1. PICK c \in 1..(2 * InitialCapacity + 1) : slots = Cleared(c)
    BY DEF Init
  <2>2. NodesIn(slots) = {}
    BY <2>1, CapacityAssumption, ClearedTable
  <2>3. Held = {}
    BY <2>2, HeldNow DEF Init
  <2> QED
    BY <2>3 DEF Init, Reg!Init, Reg!Nobody
<1>2. MapInv /\ [Next]_vars => [Reg!Next]_<<Held, arg, answer>>
  <2> SUFFICES ASSUME MapInv, [Next]_vars
               PROVE  Reg!Next \/ UNCHANGED <<Held, arg, answer>>
    OBVIOUS
  <2>1. CASE UNCHANGED vars
    BY <2>1 DEF vars, Held, NodesIn, Occupied
  <2>2. ASSUME NEW n \in Nodes, FindOrInsert(n)
        PROVE  Reg!Next
    BY <2>2, StartAsks DEF Reg!Next
  <2>3. CASE GrowNext \/ Rehash
    BY <2>3, GrowHolds
  <2>4. CASE Probe
    BY <2>4, ProbeAnswers DEF Reg!Next, Reg!Find, Reg!Insert, Reg!Answer
  <2>5. CASE Displace
    BY <2>5, DisplaceAnswers DEF Reg!Next, Reg!Insert, Reg!Answer
  <2> QED
    BY <2>1, <2>2, <2>3, <2>4, <2>5 DEF Next, Step
<1>3. Spec => Init /\ [][Next]_vars
  BY PTL DEF Spec
<1>4. Spec => []MapInv
  BY MapInit, MapStep, PTL DEF Spec
<1> QED
  BY <1>1, <1>2, <1>3, <1>4, PTL DEF ImplementsRegistry, Reg!Spec, Reg!regVars
==============================================================================
