------------------------- MODULE DfaConstruction_proofs -------------------------
(***************************************************************************)
(* Proofs about DfaConstruction, for all labels, queries, distances and    *)
(* texts: the automaton that init makes computes the distance of the       *)
(* metric, as its recurrence defines it, and prunes what it should.        *)
(***************************************************************************)
EXTENDS DfaConstruction, SequenceTheorems, FiniteSetTheorems, WellFoundedInduction, TLAPS

\* A set of naturals has a least element: what the inductions below rest on.
LEMMA Least ==
    ASSUME NEW T \in SUBSET Nat, T # {}
    PROVE  \E x \in T : \A y \in T : x <= y
<1> DEFINE R == OpToRel(<, Nat)
<1>1. IsWellFoundedOn(R, Nat)
  BY NatLessThanWellFounded
<1>2. \A x, y \in Nat : x < y => <<x, y>> \in R
  BY DEF OpToRel
<1> HIDE DEF R
<1>3. \E x \in T : \A y \in T : ~(<<y, x>> \in R)
  BY <1>1, WFMin
<1>4. \A x, y \in Nat : ~(y < x) => x <= y
  OBVIOUS
<1> QED
  BY <1>2, <1>3, <1>4


\* A function on 0..n may be defined by recursion: G gives its value at i for
\* the value at i - 1.
IsRecursive(f, n, a, G) == \A i \in 0..n : f[i] = IF i = 0 THEN a ELSE G[<<i, f[i - 1]>>]
HasRecursive(n, V, a, G) == \E f \in [0..n -> V] : IsRecursive(f, n, a, G)

LEMMA RecursionExists ==
    ASSUME NEW n \in Nat, NEW V, NEW a \in V, NEW G, \A i \in 1..n : \A x \in V : G[<<i, x>>] \in V
    PROVE  HasRecursive(n, V, a, G)
<1> USE DEF HasRecursive, IsRecursive
<1> DEFINE Defined(m) == \E f \in [0..m -> V] : \A i \in 0..m : f[i] = IF i = 0 THEN a ELSE G[<<i, f[i - 1]>>]
           T == {m \in 0..n : ~Defined(m)}
<1> HIDE DEF Defined
<1> SUFFICES ASSUME T # {} PROVE FALSE
  BY DEF Defined
<1>1. PICK m \in T : \A k \in T : m <= k
  <2>1. T \in SUBSET Nat
    OBVIOUS
  <2> HIDE DEF T
  <2> QED
    BY <2>1, Least
<1>2. m \in 0..n /\ ~Defined(m)
  OBVIOUS
<1>3. CASE m = 0
  <2> DEFINE f == [i \in 0..0 |-> a]
  <2>1. f \in [0..0 -> V] /\ \A i \in 0..0 : f[i] = IF i = 0 THEN a ELSE G[<<i, f[i - 1]>>]
    OBVIOUS
  <2> HIDE DEF f
  <2>2. Defined(0)
    BY <2>1 DEF Defined
  <2> QED
    BY <1>2, <1>3, <2>2
<1>4. CASE m # 0
  <2>1. m \in Nat /\ m - 1 \in 0..n /\ m \in 1..n /\ ~(m <= m - 1)
    BY <1>2, <1>4
  <2>2. Defined(m - 1)
    BY <1>1, <2>1
  <2>3. PICK f \in [0..(m - 1) -> V] : \A i \in 0..(m - 1) : f[i] = IF i = 0 THEN a ELSE G[<<i, f[i - 1]>>]
    BY <2>2 DEF Defined
  <2> DEFINE x == G[<<m, f[m - 1]>>]
             g == [i \in 0..m |-> IF i = m THEN x ELSE f[i]]
  <2>4. f[m - 1] \in V /\ x \in V
    <3>1. m - 1 \in 0..(m - 1)
      BY <2>1
    <3> QED
      BY <2>1, <2>3, <3>1
  <2> HIDE DEF x
  <2>5. \A i \in 0..m : i # m => i \in 0..(m - 1)
    BY <2>1
  <2>6. g \in [0..m -> V]
    BY <2>3, <2>4, <2>5
  <2>7. ASSUME NEW i \in 0..m
        PROVE  g[i] = IF i = 0 THEN a ELSE G[<<i, g[i - 1]>>]
    <3>1. CASE i = m
      <4>1. g[i] = x /\ i # 0 /\ i - 1 \in 0..m /\ i - 1 # m
        BY <1>4, <2>1, <3>1
      <4>2. g[i - 1] = f[m - 1]
        BY <3>1, <4>1
      <4> HIDE DEF g
      <4> QED
        BY <3>1, <4>1, <4>2 DEF x
    <3>2. CASE i # m
      <4>1. i \in 0..(m - 1) /\ g[i] = f[i]
        BY <2>5, <3>2
      <4>2. i # 0 => i - 1 \in 0..m /\ i - 1 # m
        BY <2>1, <4>1
      <4>3. i # 0 => g[i - 1] = f[i - 1]
        BY <4>2
      <4> HIDE DEF g
      <4> QED
        BY <2>3, <4>1, <4>3
    <3> QED
      BY <3>1, <3>2
  <2> HIDE DEF g
  <2>8. Defined(m)
    BY <2>6, <2>7 DEF Defined
  <2> QED
    BY <1>2, <2>8
<1> QED
  BY <1>3, <1>4

----------------------------------------------------------------------------
(* The next column.                                                        *)

Columns(q, cl) == [0..Len(q) -> 0..cl]

\* The entries that compute_next writes, with the swaps at some positions.
Best(q, cl, col, c, i, left) ==
    LesserOf(LesserOf(Bumped(cl, left), Bumped(cl, col[i])), Substitute(cl, col[i - 1], q[i] = c))
Entry(q, cl, prev, col, swaps, c, i, left) ==
    IF i \in swaps THEN LesserOf(Best(q, cl, col, c, i, left), Bumped(cl, prev[i - 2]))
    ELSE Best(q, cl, col, c, i, left)
IsNext(q, cl, prev, col, swaps, c, f) ==
    \A i \in 0..Len(q) :
        f[i] = IF i = 0 THEN Bumped(cl, col[0]) ELSE Entry(q, cl, prev, col, swaps, c, i, f[i - 1])
SwapsOf(q, st, c) == {i \in 2..Len(q) : Swapped(q, st, c, i)}

\* An entry is at most one more than the one in the column before.
PairStates(q, cl) ==
    {st \in [prev : Columns(q, cl), curr : Columns(q, cl), char : Nat] :
        \A j \in 0..Len(q) : st.curr[j] <= Bumped(cl, st.prev[j])}

LEMMA EntryType ==
    ASSUME NEW q \in Seq(Nat), NEW cl \in Nat, NEW prev \in Columns(q, cl), NEW col \in Columns(q, cl),
           NEW swaps \in SUBSET (2..Len(q)), NEW c, NEW i \in 1..Len(q), NEW left \in 0..cl
    PROVE  /\ Best(q, cl, col, c, i, left) \in 0..cl
           /\ Entry(q, cl, prev, col, swaps, c, i, left) \in 0..cl
<1>1. Len(q) \in Nat /\ i \in 0..Len(q) /\ i - 1 \in 0..Len(q)
  OBVIOUS
<1>2. col[i] \in 0..cl /\ col[i - 1] \in 0..cl
  BY <1>1 DEF Columns
<1>3. \A a \in 0..cl : Bumped(cl, a) \in 0..cl
  BY DEF Bumped
<1>4. \A a \in 0..cl : \A same \in BOOLEAN : Substitute(cl, a, same) \in 0..cl
  BY DEF Substitute
<1>5. \A a, b \in 0..cl : LesserOf(a, b) \in 0..cl
  BY DEF LesserOf
<1>6. Best(q, cl, col, c, i, left) \in 0..cl
  BY <1>2, <1>3, <1>4, <1>5 DEF Best
<1>7. i \in swaps => Bumped(cl, prev[i - 2]) \in 0..cl
  <2>1. i \in swaps => i - 2 \in 0..Len(q)
    BY <1>1
  <2> QED
    BY <1>3, <2>1 DEF Columns
<1> QED
  BY <1>5, <1>6, <1>7 DEF Entry

\* There is one next column.
LEMMA NextExists ==
    ASSUME NEW q \in Seq(Nat), NEW cl \in Nat, NEW prev \in Columns(q, cl), NEW col \in Columns(q, cl),
           NEW swaps \in SUBSET (2..Len(q)), NEW c
    PROVE  \E f \in Columns(q, cl) : IsNext(q, cl, prev, col, swaps, c, f)
<1> DEFINE n == Len(q)
           V == 0..cl
           a == Bumped(cl, col[0])
           G == [p \in (1..n) \X V |-> Entry(q, cl, prev, col, swaps, c, p[1], p[2])]
<1>1. n \in Nat
  OBVIOUS
<1>2. a \in V
  <2>1. col[0] \in 0..cl
    BY <1>1 DEF Columns
  <2> QED
    BY <2>1 DEF Bumped
<1>3. \A i \in 1..n : \A x \in V : G[<<i, x>>] = Entry(q, cl, prev, col, swaps, c, i, x) /\ G[<<i, x>>] \in V
  BY EntryType
<1> HIDE DEF G, V, a
<1>4. PICK f \in [0..n -> V] : \A i \in 0..n : f[i] = IF i = 0 THEN a ELSE G[<<i, f[i - 1]>>]
  <2>1. \A i \in 1..n : \A x \in V : G[<<i, x>>] \in V
    BY <1>3
  <2> HIDE DEF n
  <2>2. HasRecursive(n, V, a, G)
    BY <1>1, <1>2, <2>1, RecursionExists
  <2> QED
    BY <2>2 DEF HasRecursive, IsRecursive
<1>5. ASSUME NEW i \in 0..n
      PROVE  f[i] = IF i = 0 THEN a ELSE Entry(q, cl, prev, col, swaps, c, i, f[i - 1])
  <2>1. i # 0 => i \in 1..n /\ f[i - 1] \in V
    BY <1>1
  <2> QED
    BY <1>3, <1>4, <2>1
<1>6. IsNext(q, cl, prev, col, swaps, c, f)
  BY <1>5 DEF IsNext, a
<1>7. f \in Columns(q, cl)
  BY DEF Columns, V
<1> QED
  BY <1>6, <1>7

LEMMA NextUnique ==
    ASSUME NEW q \in Seq(Nat), NEW cl, NEW prev, NEW col, NEW swaps, NEW c,
           NEW f, NEW g, IsNext(q, cl, prev, col, swaps, c, f), IsNext(q, cl, prev, col, swaps, c, g)
    PROVE  \A i \in 0..Len(q) : f[i] = g[i]
<1> DEFINE T == {i \in 0..Len(q) : f[i] # g[i]}
<1> SUFFICES ASSUME T # {} PROVE FALSE
  OBVIOUS
<1>1. PICK i \in T : \A j \in T : i <= j
  <2>1. T \in SUBSET Nat
    OBVIOUS
  <2> HIDE DEF T
  <2> QED
    BY <2>1, Least
<1>2. i \in 0..Len(q) /\ f[i] # g[i] /\ Len(q) \in Nat
  OBVIOUS
<1>3. i # 0
  BY <1>2 DEF IsNext
<1>4. i - 1 \in 0..Len(q) /\ ~(i <= i - 1)
  BY <1>2, <1>3
<1>5. f[i - 1] = g[i - 1]
  BY <1>1, <1>4
<1>6. /\ f[i] = Entry(q, cl, prev, col, swaps, c, i, f[i - 1])
      /\ g[i] = Entry(q, cl, prev, col, swaps, c, i, g[i - 1])
  BY <1>2, <1>3 DEF IsNext
<1> QED
  BY <1>2, <1>5, <1>6

LEMMA NextColumnFacts ==
    ASSUME NEW q \in Seq(Nat), NEW cl \in Nat, NEW col \in Columns(q, cl), NEW c
    PROVE  /\ NextColumn(q, cl, col, c) \in Columns(q, cl)
           /\ IsNext(q, cl, col, col, {}, c, NextColumn(q, cl, col, c))
<1> DEFINE n == Len(q)
           E(i, left) == Best(q, cl, col, c, i, left)
           Is(N) == N = [i \in 0..n |-> IF i = 0 THEN Bumped(cl, col[0]) ELSE E(i, N[i - 1])]
<1>1. NextColumn(q, cl, col, c) = CHOOSE N : Is(N)
  BY DEF NextColumn, Best
<1>2. PICK f \in Columns(q, cl) : IsNext(q, cl, col, col, {}, c, f)
  <2>1. {} \in SUBSET (2..Len(q))
    OBVIOUS
  <2> QED
    BY <2>1, NextExists
<1>3. \A i \in 0..n : f[i] = IF i = 0 THEN Bumped(cl, col[0]) ELSE E(i, f[i - 1])
  BY <1>2 DEF IsNext, Entry
<1>4. f = [i \in 0..n |-> f[i]]
  BY DEF Columns
<1> HIDE DEF E
<1>5. Is(f)
  BY <1>3, <1>4
<1> DEFINE N == CHOOSE N : Is(N)
<1>6. Is(N)
  BY <1>5
<1> HIDE DEF N
<1>7. IsNext(q, cl, col, col, {}, c, N)
  <2>1. \A i \in 0..n : N[i] = IF i = 0 THEN Bumped(cl, col[0]) ELSE E(i, N[i - 1])
    BY <1>6
  <2> QED
    BY <2>1 DEF IsNext, Entry, E
<1>8. \A i \in 0..n : N[i] = f[i]
  BY <1>2, <1>7, NextUnique
<1>9. N = [i \in 0..n |-> N[i]]
  BY <1>6
<1>10. N = f
  BY <1>4, <1>8, <1>9
<1> QED
  BY <1>1, <1>2, <1>10 DEF N

LEMMA NextPairFacts ==
    ASSUME NEW q \in Seq(Nat), NEW cl \in Nat, NEW st \in PairStates(q, cl), NEW c \in Nat
    PROVE  \E f \in Columns(q, cl) :
              /\ IsNext(q, cl, st.prev, st.curr, SwapsOf(q, st, c), c, f)
              /\ NextPair(q, cl, st, c) =
                    IF st.curr = DeadColumn(q, cl) /\ f = DeadColumn(q, cl) THEN DeadPair(q, cl)
                    ELSE [prev |-> st.curr, curr |-> f, char |-> c]
<1> DEFINE n == Len(q)
           sw == SwapsOf(q, st, c)
           pr == st.prev
           cu == st.curr
           E(i, left) == LET best == Best(q, cl, cu, c, i, left)
                         IN  IF Swapped(q, st, c, i) THEN LesserOf(best, Bumped(cl, pr[i - 2])) ELSE best
           Is(N) == N = [i \in 0..n |-> IF i = 0 THEN Bumped(cl, cu[0]) ELSE E(i, N[i - 1])]
           N == CHOOSE N : Is(N)
           dead == DeadPair(q, cl)
           fresh == [prev |-> cu, curr |-> N, char |-> c]
<1>1. NextPair(q, cl, st, c) = IF fresh.prev = dead.prev /\ fresh.curr = dead.curr THEN dead ELSE fresh
  BY DEF NextPair, Best
<1>2. sw \in SUBSET (2..n) /\ pr \in Columns(q, cl) /\ cu \in Columns(q, cl)
  BY DEF SwapsOf, PairStates
<1>3. \A i \in 0..n : Swapped(q, st, c, i) <=> i \in sw
  BY DEF SwapsOf, Swapped
<1>4. PICK f \in Columns(q, cl) : IsNext(q, cl, pr, cu, sw, c, f)
  <2> HIDE DEF sw, pr, cu, n
  <2> QED
    BY <1>2, NextExists DEF n
<1>5. \A i \in 0..n : \A left : E(i, left) = Entry(q, cl, pr, cu, sw, c, i, left)
  BY <1>3 DEF Entry
<1>6. \A i \in 0..n : f[i] = IF i = 0 THEN Bumped(cl, cu[0]) ELSE E(i, f[i - 1])
  <2> HIDE DEF E, sw, pr, cu
  <2> QED
    BY <1>4, <1>5 DEF IsNext
<1>7. f = [i \in 0..n |-> f[i]]
  BY DEF Columns
<1> HIDE DEF E
<1>8. Is(f)
  BY <1>6, <1>7
<1>9. Is(N)
  <2> HIDE DEF Is
  <2> QED
    BY <1>8
<1> HIDE DEF N
<1>10. IsNext(q, cl, pr, cu, sw, c, N)
  <2>1. \A i \in 0..n : N[i] = IF i = 0 THEN Bumped(cl, cu[0]) ELSE E(i, N[i - 1])
    BY <1>9
  <2> HIDE DEF sw, pr, cu
  <2> QED
    BY <1>5, <2>1 DEF IsNext
<1>11. \A i \in 0..n : N[i] = f[i]
  <2> HIDE DEF sw, pr, cu
  <2> QED
    BY <1>4, <1>10, NextUnique DEF n
<1>12. N = [i \in 0..n |-> N[i]]
  BY <1>9
<1>13. N = f
  BY <1>7, <1>11, <1>12
<1> QED
  BY <1>1, <1>4, <1>13 DEF DeadPair

----------------------------------------------------------------------------
(* One more label, for both metrics.                                       *)

StateSet(m, q, cl) == IF m = "Levenshtein" THEN Columns(q, cl) ELSE PairStates(q, cl)
DeadOf(m, q, cl) == IF m = "Levenshtein" THEN DeadColumn(q, cl) ELSE DeadPair(q, cl)
StartOf(m, q, cl) == IF m = "Levenshtein" THEN StartColumn(q, cl) ELSE StartPair(q, cl)
FollowOf(m, q, cl, st, c) == IF m = "Levenshtein" THEN NextColumn(q, cl, st, c) ELSE NextPair(q, cl, st, c)

Cur(m, st) == IF m = "Levenshtein" THEN st ELSE st.curr
Prev(m, st) == IF m = "Levenshtein" THEN st ELSE st.prev
Swaps(m, q, st, c) == IF m = "Levenshtein" THEN {} ELSE SwapsOf(q, st, c)
Saturated(q, cl, col) == \A i \in 0..Len(q) : col[i] = cl

LEMMA FollowFacts ==
    ASSUME NEW m, NEW q \in Seq(Nat), NEW cl \in Nat, NEW st \in StateSet(m, q, cl), NEW c \in Nat
    PROVE  LET ns == FollowOf(m, q, cl, st, c)
           IN  /\ ns \in StateSet(m, q, cl)
               /\ Cur(m, ns) \in Columns(q, cl)
               /\ IsNext(q, cl, Prev(m, st), Cur(m, st), Swaps(m, q, st, c), c, Cur(m, ns))
               /\ m # "Levenshtein" => /\ ns.prev = st.curr
                                       /\ ns.char = c \/ Saturated(q, cl, ns.prev)
<1> DEFINE ns == FollowOf(m, q, cl, st, c)
<1>1. CASE m = "Levenshtein"
  BY <1>1, NextColumnFacts DEF StateSet, FollowOf, Cur, Prev, Swaps
<1>2. CASE m # "Levenshtein"
  <2>1. st \in PairStates(q, cl) /\ ns = NextPair(q, cl, st, c)
    BY <1>2 DEF StateSet, FollowOf
  <2>2. PICK f \in Columns(q, cl) :
              /\ IsNext(q, cl, st.prev, st.curr, SwapsOf(q, st, c), c, f)
              /\ ns = IF st.curr = DeadColumn(q, cl) /\ f = DeadColumn(q, cl) THEN DeadPair(q, cl)
                      ELSE [prev |-> st.curr, curr |-> f, char |-> c]
    BY <2>1, NextPairFacts
  <2>3. st.curr \in Columns(q, cl) /\ Cur(m, st) = st.curr /\ Prev(m, st) = st.prev /\ Swaps(m, q, st, c) = SwapsOf(q, st, c)
    BY <1>2, <2>1 DEF PairStates, Cur, Prev, Swaps
  <2>4. ns.curr = f /\ ns.prev = st.curr /\ (ns.char = c \/ ns.prev = DeadColumn(q, cl))
    BY <2>2 DEF DeadPair
  <2>5. ns.prev = DeadColumn(q, cl) => Saturated(q, cl, ns.prev)
    BY DEF DeadColumn, Saturated
  <2>6. \A j \in 0..Len(q) : f[j] <= Bumped(cl, st.curr[j])
    <3> SUFFICES ASSUME NEW j \in 0..Len(q) PROVE f[j] <= Bumped(cl, st.curr[j])
      OBVIOUS
    <3>1. f[j] \in 0..cl /\ st.curr[j] \in 0..cl
      BY <2>3 DEF Columns
    <3>2. j = 0 => f[j] = Bumped(cl, st.curr[j])
      BY <2>2 DEF IsNext
    <3>3. Bumped(cl, st.curr[j]) \in 0..cl
      BY <3>1 DEF Bumped
    <3>4. ASSUME j # 0
          PROVE  f[j] <= Bumped(cl, st.curr[j])
      <4>1. j \in 1..Len(q) /\ j - 1 \in 0..Len(q) /\ j \in 0..Len(q)
        BY <3>4
      <4>2. f[j - 1] \in 0..cl /\ st.curr[j - 1] \in 0..cl
        BY <2>3, <4>1 DEF Columns
      <4> DEFINE a == Bumped(cl, f[j - 1])
                 b == Bumped(cl, st.curr[j])
                 s == Substitute(cl, st.curr[j - 1], q[j] = c)
                 w == Bumped(cl, st.prev[j - 2])
                 swaps == SwapsOf(q, st, c)
      <4>3. f[j] = IF j \in swaps THEN LesserOf(LesserOf(LesserOf(a, b), s), w) ELSE LesserOf(LesserOf(a, b), s)
        BY <2>2, <3>4 DEF IsNext, Entry, Best
      <4>4. a \in Nat /\ b \in Nat /\ s \in Nat
        BY <3>3, <4>2 DEF Bumped, Substitute
      <4>5. j \in swaps => w \in Nat
        <5>1. j \in swaps => j - 2 \in 0..Len(q)
          BY <4>1 DEF SwapsOf
        <5>2. j \in swaps => st.prev[j - 2] \in 0..cl
          BY <2>1, <5>1 DEF PairStates, Columns
        <5> HIDE DEF swaps
        <5> QED
          BY <5>2 DEF Bumped
      <4> HIDE DEF a, b, s, w, swaps
      <4>6. f[j] <= b
        BY <4>3, <4>4, <4>5 DEF LesserOf
      <4> QED
        BY <4>6 DEF b
    <3> QED
      BY <3>1, <3>2, <3>3, <3>4
  <2>7. ns \in PairStates(q, cl)
    <3>1. DeadColumn(q, cl) \in Columns(q, cl) /\ \A j \in 0..Len(q) : DeadColumn(q, cl)[j] <= Bumped(cl, DeadColumn(q, cl)[j])
      BY DEF DeadColumn, Columns, Bumped
    <3>2. DeadPair(q, cl) \in PairStates(q, cl)
      BY <3>1 DEF DeadPair, PairStates
    <3>3. [prev |-> st.curr, curr |-> f, char |-> c] \in PairStates(q, cl)
      BY <2>2, <2>3, <2>6 DEF PairStates
    <3> QED
      BY <2>2, <3>2, <3>3
  <2> QED
    BY <1>2, <2>2, <2>3, <2>4, <2>5, <2>7 DEF StateSet, Cur
<1> QED
  BY <1>1, <1>2

----------------------------------------------------------------------------
(* The distances.                                                          *)

LEMMA Widen ==
    ASSUME NEW S, NEW T, S \subseteq T, NEW w \in Seq(S)
    PROVE  w \in Seq(T)
<1>1. Len(w) \in Nat /\ \A i \in 1..Len(w) : w[i] \in T
  OBVIOUS
<1>2. w = [i \in 1..Len(w) |-> w[i]]
  OBVIOUS
<1> DEFINE n == Len(w)
           f == [i \in 1..n |-> w[i]]
<1>3. f \in Seq(T)
  <2> HIDE DEF n
  <2> QED
    BY <1>1 DEF n
<1> QED
  BY <1>2, <1>3

LEMMA FrontFacts ==
    ASSUME NEW S, NEW w \in Seq(S), w # << >>
    PROVE  /\ Front(w) \in Seq(S) /\ Len(Front(w)) = Len(w) - 1 /\ Len(w) \in Nat \ {0}
           /\ \A i \in 1..(Len(w) - 1) : Front(w)[i] = w[i]
<1>1. Len(w) \in Nat /\ Len(w) # 0
  OBVIOUS
<1> DEFINE k == Len(w) - 1
<1>2. 1 \in 1..(Len(w) + 1) /\ k \in 0..Len(w) /\ k - 1 + 1 = k
  BY <1>1
<1>3. SubSeq(w, 1, k) \in Seq(S) /\ Len(SubSeq(w, 1, k)) = k /\ \A i \in 1..k : SubSeq(w, 1, k)[i] = w[i]
  BY <1>1, <1>2
<1> QED
  BY <1>1, <1>3 DEF Front

LEMMA AppendFrontLast ==
    ASSUME NEW S, NEW w \in Seq(S), w # << >>
    PROVE  w = Append(Front(w), Last(w))
<1> DEFINE f == Front(w)
           x == Last(w)
           n == Len(w)
<1>1. f \in Seq(S) /\ Len(f) = n - 1 /\ n \in Nat \ {0} /\ \A i \in 1..(n - 1) : f[i] = w[i]
  BY FrontFacts
<1>2. x = w[n]
  BY DEF Last
<1>3. x \in S
  BY <1>1, <1>2
<1> HIDE DEF f, x
<1> DEFINE a == Append(f, x)
<1>4. a \in Seq(S) /\ Len(a) = n /\ a[n] = x /\ \A i \in 1..(n - 1) : a[i] = f[i]
  BY <1>1, <1>3
<1>5. \A i \in 1..n : i = n \/ i \in 1..(n - 1)
  BY <1>1
<1>6. \A i \in 1..n : w[i] = a[i]
  <2> HIDE DEF a
  <2> QED
    BY <1>1, <1>2, <1>4, <1>5
<1>7. w = a
  <2> HIDE DEF a
  <2> QED
    BY <1>4, <1>6, SeqEqual
<1> QED
  BY <1>7 DEF f, x

\* A distance is at most the number of labels of the longer word.
DistanceOK(m, u, v) ==
    Distance(m, u, v) \in Nat /\ (Distance(m, u, v) <= Len(u) \/ Distance(m, u, v) <= Len(v))

LEMMA DistanceBound ==
    ASSUME NEW m \in Metrics, NEW u \in Queries, NEW v \in Texts
    PROVE  DistanceOK(m, u, v)
<1> DEFINE Bad(n) == \E x \in Queries, y \in Texts : Len(x) + Len(y) = n /\ ~DistanceOK(m, x, y)
           T == {n \in Nat : Bad(n)}
<1>0. \A x \in Queries, y \in Texts : Len(x) \in Nat /\ Len(y) \in Nat /\ Len(x) + Len(y) \in Nat
  BY QueriesAssumption, TextsAssumption
<1> SUFFICES ASSUME T # {} PROVE FALSE
  BY <1>0
<1>1. PICK n \in T : \A k \in T : n <= k
  <2>1. T \in SUBSET Nat
    OBVIOUS
  <2> HIDE DEF T
  <2> QED
    BY <2>1, Least
<1>2. PICK x \in Queries, y \in Texts : Len(x) + Len(y) = n /\ ~DistanceOK(m, x, y)
  BY <1>1
<1>3. \A a \in Queries, b \in Texts : Len(a) + Len(b) < n => DistanceOK(m, a, b)
  <2> SUFFICES ASSUME NEW a \in Queries, NEW b \in Texts, Len(a) + Len(b) < n, ~DistanceOK(m, a, b) PROVE FALSE
    OBVIOUS
  <2> DEFINE k == Len(a) + Len(b)
  <2>1. k \in Nat /\ k < n /\ n \in Nat
    BY <1>0
  <2>2. Bad(k)
    OBVIOUS
  <2> HIDE DEF k, Bad
  <2>3. k \in T
    BY <2>1, <2>2
  <2> HIDE DEF T
  <2>4. n <= k
    BY <1>1, <2>3
  <2> QED
    BY <2>1, <2>4
<1>4. CASE x = << >> \/ y = << >>
  <2>1. Distance(m, x, y) = Len(x) + Len(y)
    BY <1>4, DistanceAssumption
  <2>2. Len(x) = 0 \/ Len(y) = 0
    BY <1>4
  <2>3. Len(x) \in Nat /\ Len(y) \in Nat
    BY <1>0
  <2>4. Distance(m, x, y) \in Nat /\ (Distance(m, x, y) = Len(x) \/ Distance(m, x, y) = Len(y))
    BY <2>1, <2>2, <2>3
  <2> QED
    BY <1>2, <2>3, <2>4 DEF DistanceOK
<1>5. CASE x # << >> /\ y # << >>
  <2>1. x \in Seq(Labels) /\ y \in Seq(Labels)
    BY QueriesAssumption, TextsAssumption
  <2>2. Front(x) \in Queries /\ Front(y) \in Texts
    BY <1>5, QueriesAssumption, TextsAssumption
  <2>3. /\ Len(Front(x)) = Len(x) - 1 /\ Len(x) \in Nat \ {0} /\ Front(x) \in Seq(Labels)
        /\ Len(Front(y)) = Len(y) - 1 /\ Len(y) \in Nat \ {0} /\ Front(y) \in Seq(Labels)
    BY <1>5, <2>1, FrontFacts
  <2> DEFINE d1 == Distance(m, Front(x), y)
             d2 == Distance(m, x, Front(y))
             d3 == Distance(m, Front(x), Front(y))
             d4 == Distance(m, Front(Front(x)), Front(Front(y)))
             e == IF Last(x) = Last(y) THEN 0 ELSE 1
             d == Distance(m, x, y)
  <2>4. d1 \in Nat /\ d2 \in Nat
    <3>1. Len(Front(x)) + Len(y) < n /\ Len(x) + Len(Front(y)) < n
      BY <1>2, <2>3
    <3> QED
      BY <1>3, <2>2, <3>1 DEF DistanceOK
  <2>5. d3 \in Nat /\ (d3 <= Len(x) - 1 \/ d3 <= Len(y) - 1)
    <3>1. Len(Front(x)) + Len(Front(y)) < n
      BY <1>2, <2>3
    <3> QED
      BY <1>3, <2>2, <2>3, <3>1 DEF DistanceOK
  <2>6. ASSUME Len(x) > 1, Len(y) > 1
        PROVE  d4 \in Nat
    <3>1. Front(x) # << >> /\ Front(y) # << >>
      BY <2>3, <2>6
    <3>2. Front(Front(x)) \in Queries /\ Front(Front(y)) \in Texts
      BY <2>2, <3>1, QueriesAssumption, TextsAssumption
    <3>3. Len(Front(Front(x))) = Len(x) - 2 /\ Len(Front(Front(y))) = Len(y) - 2
      BY <2>3, <3>1, FrontFacts
    <3>4. Len(Front(Front(x))) + Len(Front(Front(y))) < n
      BY <1>2, <2>3, <3>3
    <3> QED
      BY <1>3, <3>2, <3>4 DEF DistanceOK
  <2>7. /\ d \in Ways(m, x, y)
        /\ \A w \in Ways(m, x, y) : d <= w
    BY <1>5, DistanceAssumption
  <2>8. d3 + e \in Ways(m, x, y)
    BY DEF Ways
  <2>9. SwappedLast(x, y) => Len(x) > 1 /\ Len(y) > 1
    BY DEF SwappedLast
  <2>10. d = d1 + 1 \/ d = d2 + 1 \/ d = d3 + e \/ (d = d4 + 1 /\ SwappedLast(x, y))
    BY <2>7 DEF Ways
  <2>11. e \in 0..1 /\ d <= d3 + e
    BY <2>7, <2>8
  <2> HIDE DEF d1, d2, d3, d4, e, d
  <2>12. d \in Nat
    BY <2>4, <2>5, <2>6, <2>9, <2>10, <2>11
  <2>13. d <= Len(x) \/ d <= Len(y)
    BY <2>3, <2>5, <2>11, <2>12
  <2> QED
    BY <1>2, <2>12, <2>13 DEF DistanceOK, d
<1> QED
  BY <1>4, <1>5

\* The first i labels of a word.
Pre(q, i) == SubSeq(q, 1, i)

LEMMA PrefixesStay ==
    ASSUME NEW S, NEW Q, \A x \in Q : x \in Seq(S) /\ (x # << >> => Front(x) \in Q),
           NEW q \in Q, NEW i \in 0..Len(q)
    PROVE  /\ Pre(q, i) \in Q /\ Len(Pre(q, i)) = i
           /\ i = 0 => Pre(q, i) = << >>
           /\ i # 0 => /\ Pre(q, i) # << >> /\ Front(Pre(q, i)) = Pre(q, i - 1) /\ Last(Pre(q, i)) = q[i]
           /\ i > 1 => Pre(q, i)[i - 1] = q[i - 1]
           /\ Pre(q, Len(q)) = q
<1>1. q \in Seq(S) /\ Len(q) \in Nat
  OBVIOUS
<1>2. \A j \in 0..Len(q) : Pre(q, j) \in Seq(S) /\ Len(Pre(q, j)) = j /\ \A k \in 1..j : Pre(q, j)[k] = q[k]
  BY <1>1 DEF Pre
<1>3. \A j \in 1..Len(q) : Pre(q, j) # << >> /\ Front(Pre(q, j)) = Pre(q, j - 1)
  <2> SUFFICES ASSUME NEW j \in 1..Len(q) PROVE Pre(q, j) # << >> /\ Front(Pre(q, j)) = Pre(q, j - 1)
    OBVIOUS
  <2> DEFINE p == Pre(q, j)
             r == Pre(q, j - 1)
  <2>1. /\ p \in Seq(S) /\ Len(p) = j /\ \A k \in 1..j : p[k] = q[k]
        /\ r \in Seq(S) /\ Len(r) = j - 1 /\ \A k \in 1..(j - 1) : r[k] = q[k]
    <3>1. j \in 0..Len(q) /\ j - 1 \in 0..Len(q)
      BY <1>1
    <3> HIDE DEF Pre
    <3> QED
      BY <1>2, <3>1
  <2> HIDE DEF p, r
  <2>2. p # << >>
    BY <1>1, <2>1
  <2>3. Front(p) \in Seq(S) /\ Len(Front(p)) = j - 1 /\ \A k \in 1..(j - 1) : Front(p)[k] = p[k]
    BY <2>1, <2>2, FrontFacts
  <2> DEFINE f == Front(p)
  <2>4. \A k \in 1..(j - 1) : f[k] = r[k]
    BY <2>1, <2>3
  <2>5. f = r
    <3> HIDE DEF f
    <3> QED
      BY <2>1, <2>3, <2>4, SeqEqual DEF f
  <2> QED
    BY <2>2, <2>5 DEF p, r
<1>4. Pre(q, Len(q)) = q
  BY <1>1 DEF Pre
<1>5. \A j \in 0..Len(q) : Pre(q, j) \in Q
  <2> DEFINE T == {k \in Nat : k <= Len(q) /\ Pre(q, Len(q) - k) \notin Q}
  <2>1. T = {}
    <3> SUFFICES ASSUME T # {} PROVE FALSE
      OBVIOUS
    <3>1. PICK k \in T : \A l \in T : k <= l
      <4>1. T \in SUBSET Nat
        OBVIOUS
      <4> HIDE DEF T
      <4> QED
        BY <4>1, Least
    <3>2. k \in Nat /\ k <= Len(q) /\ Pre(q, Len(q) - k) \notin Q
      OBVIOUS
    <3>3. k # 0
      BY <1>1, <1>4, <3>2
    <3>4. k - 1 \in Nat /\ ~(k <= k - 1) /\ k - 1 <= Len(q)
      BY <1>1, <3>2, <3>3
    <3> DEFINE j == Len(q) - (k - 1)
    <3>5. j \in 1..Len(q) /\ j - 1 = Len(q) - k
      BY <1>1, <3>2, <3>4
    <3>6. Pre(q, j) \in Q
      BY <3>1, <3>4
    <3> HIDE DEF j
    <3>7. Front(Pre(q, j)) \in Q
      BY <1>3, <3>5, <3>6
    <3> QED
      BY <1>3, <3>2, <3>5, <3>7
  <2> SUFFICES ASSUME NEW j \in 0..Len(q) PROVE Pre(q, j) \in Q
    OBVIOUS
  <2>2. Len(q) - j \in Nat /\ Len(q) - j <= Len(q) /\ Len(q) - (Len(q) - j) = j
    BY <1>1
  <2>3. Len(q) - j \notin T
    BY <2>1
  <2> QED
    BY <2>2, <2>3
<1>6. i = 0 => Pre(q, i) = << >>
  BY <1>2
<1>7. i # 0 => i \in 1..Len(q) /\ Last(Pre(q, i)) = q[i]
  <2>1. Len(Pre(q, i)) = i /\ \A k \in 1..i : Pre(q, i)[k] = q[k]
    BY <1>2
  <2>2. i # 0 => i \in 1..i
    BY <1>1
  <2> HIDE DEF Pre
  <2> QED
    BY <1>1, <2>1, <2>2 DEF Last
<1>8. i > 1 => Pre(q, i)[i - 1] = q[i - 1]
  <2>1. i > 1 => i - 1 \in 1..i
    BY <1>1
  <2> QED
    BY <1>2, <2>1
<1> QED
  BY <1>2, <1>3, <1>4, <1>5, <1>6, <1>7, <1>8

LEMMA PrefixFacts ==
    ASSUME NEW q \in Queries, NEW i \in 0..Len(q)
    PROVE  /\ Pre(q, i) \in Queries /\ Len(Pre(q, i)) = i
           /\ i = 0 => Pre(q, i) = << >>
           /\ i # 0 => /\ Pre(q, i) # << >> /\ Front(Pre(q, i)) = Pre(q, i - 1) /\ Last(Pre(q, i)) = q[i]
           /\ i > 1 => Pre(q, i)[i - 1] = q[i - 1]
           /\ Pre(q, Len(q)) = q
<1>1. \A x \in Queries : x \in Seq(Labels) /\ (x # << >> => Front(x) \in Queries)
  BY QueriesAssumption
<1> QED
  BY <1>1, PrefixesStay

LEMMA TextPrefixes ==
    ASSUME NEW t \in Texts, NEW i \in 0..Len(t)
    PROVE  /\ Pre(t, i) \in Texts /\ Len(Pre(t, i)) = i
           /\ i = 0 => Pre(t, i) = << >>
           /\ i # 0 => /\ Pre(t, i) # << >> /\ Front(Pre(t, i)) = Pre(t, i - 1) /\ Last(Pre(t, i)) = t[i]
           /\ i > 1 => Pre(t, i)[i - 1] = t[i - 1]
           /\ Pre(t, Len(t)) = t
<1>1. \A x \in Texts : x \in Seq(Labels) /\ (x # << >> => Front(x) \in Texts)
  BY TextsAssumption
<1> QED
  BY <1>1, PrefixesStay

\* The column of a text: its distance to every prefix of the query.
Upto(m, q, t, i) == Distance(m, Pre(q, i), t)
Exchanged(m, q, t, c, i) ==
    m = "DamerauLevenshtein" /\ i > 1 /\ t # << >> /\ q[i] = Last(t) /\ q[i - 1] = c

LEMMA UptoBase ==
    ASSUME NEW m \in Metrics, NEW q \in Queries, NEW t \in Texts, NEW i \in 0..Len(q)
    PROVE  /\ Upto(m, q, t, i) \in Nat /\ Upto(m, q, t, i) <= ByteMax
           /\ i = 0 => Upto(m, q, t, i) = Len(t)
           /\ t = << >> => Upto(m, q, t, i) = i
<1> DEFINE u == Pre(q, i)
<1>1. u \in Queries /\ Len(u) = i /\ (i = 0 => u = << >>)
  BY PrefixFacts
<1> HIDE DEF u
<1>2. DistanceOK(m, u, t)
  BY <1>1, DistanceBound
<1>3. Len(u) <= ByteMax /\ Len(t) <= ByteMax /\ Len(u) \in Nat /\ Len(t) \in Nat /\ ByteMax \in Nat
  BY <1>1, QueriesAssumption, TextsAssumption, WidthsAssumption
<1>4. Distance(m, u, t) \in Nat /\ Distance(m, u, t) <= ByteMax
  <2> DEFINE d == Distance(m, u, t)
  <2>1. d \in Nat /\ (d <= Len(u) \/ d <= Len(t))
    BY <1>2 DEF DistanceOK
  <2> HIDE DEF d
  <2>2. d <= ByteMax
    BY <1>3, <2>1
  <2> QED
    BY <2>1, <2>2 DEF d
<1>5. u = << >> \/ t = << >> => Distance(m, u, t) = Len(u) + Len(t)
  BY <1>1, DistanceAssumption
<1>6. t = << >> => Len(t) = 0
  OBVIOUS
<1>7. i = 0 => Distance(m, u, t) = Len(t)
  BY <1>1, <1>3, <1>5
<1>8. t = << >> => Distance(m, u, t) = i
  BY <1>1, <1>3, <1>5, <1>6
<1> QED
  BY <1>4, <1>7, <1>8 DEF Upto, u

LEMMA Recurrence ==
    ASSUME NEW m \in Metrics, NEW q \in Queries, NEW t \in Texts, NEW c, Append(t, c) \in Texts,
           NEW i \in 1..Len(q), NEW d, NEW a, NEW b, NEW s,
           d = Upto(m, q, Append(t, c), i), a = Upto(m, q, Append(t, c), i - 1),
           b = Upto(m, q, t, i), s = Upto(m, q, t, i - 1)
    PROVE  LET e == IF q[i] = c THEN 0 ELSE 1
               w == Upto(m, q, Front(t), i - 2) + 1
           IN  /\ d <= a + 1 /\ d <= b + 1 /\ d <= s + e
               /\ Exchanged(m, q, t, c, i) => d <= w
               /\ d = a + 1 \/ d = b + 1 \/ d = s + e \/ (Exchanged(m, q, t, c, i) /\ d = w)
<1> DEFINE u == Pre(q, i)
           v == Append(t, c)
           e == IF q[i] = c THEN 0 ELSE 1
           w == Upto(m, q, Front(t), i - 2) + 1
<1>1. i \in 0..Len(q) /\ i - 1 \in 0..Len(q) /\ i # 0 /\ Len(q) \in Nat
  BY QueriesAssumption
<1>2. /\ u \in Queries /\ u # << >> /\ Front(u) = Pre(q, i - 1) /\ Last(u) = q[i] /\ Len(u) = i
      /\ i > 1 => u[i - 1] = q[i - 1]
  BY <1>1, PrefixFacts
<1>3. t \in Seq(Labels)
  BY TextsAssumption
<1>4. v \in Texts /\ v # << >> /\ Last(v) = c /\ Len(v) = Len(t) + 1
  <2>1. Len(v) = Len(t) + 1 /\ v[Len(t) + 1] = c
    BY <1>3
  <2> QED
    BY <1>3, <2>1 DEF Last
<1>5. v \in Seq(Labels) /\ c \in Labels
  <2>1. v \in Seq(Labels)
    BY <1>4, TextsAssumption
  <2>2. Len(v) \in 1..Len(v)
    BY <1>3, <1>4
  <2>3. v[Len(v)] \in Labels
    BY <2>1, <2>2
  <2> QED
    BY <1>4, <2>1, <2>3 DEF Last
<1>6. Front(v) = t
  <2>1. Front(v) \in Seq(Labels) /\ Len(Front(v)) = Len(t) /\ \A k \in 1..Len(t) : Front(v)[k] = v[k]
    <3>1. Front(v) \in Seq(Labels) /\ Len(Front(v)) = Len(v) - 1 /\ \A k \in 1..(Len(v) - 1) : Front(v)[k] = v[k]
      <4> HIDE DEF v
      <4> QED
        BY <1>4, <1>5, FrontFacts
    <3>2. Len(v) - 1 = Len(t)
      BY <1>3, <1>4
    <3> HIDE DEF v
    <3> QED
      BY <3>1, <3>2
  <2>2. \A k \in 1..Len(t) : v[k] = t[k]
    BY <1>3, <1>5
  <2> DEFINE f == Front(v)
  <2>3. f \in Seq(Labels) /\ Len(f) = Len(t) /\ \A k \in 1..Len(t) : f[k] = t[k]
    BY <2>1, <2>2
  <2> HIDE DEF f
  <2>4. f = t
    BY <1>3, <2>3, SeqEqual
  <2> QED
    BY <2>4 DEF f
<1>7. t # << >> => /\ Len(t) \in Nat \ {0} /\ v[Len(v) - 1] = Last(t)
  <2>1. t # << >> => Len(t) \in 1..Len(t)
    BY <1>3
  <2>2. t # << >> => v[Len(t)] = t[Len(t)]
    BY <1>3, <1>5, <2>1
  <2> QED
    BY <1>3, <1>4, <2>1, <2>2 DEF Last
<1>8. t = << >> <=> Len(t) = 0
  BY <1>3
<1> DEFINE Swap == m = "DamerauLevenshtein" /\ SwappedLast(u, v)
<1>9. Swap <=> Exchanged(m, q, t, c, i)
  <2>1. Len(v) > 1 <=> t # << >>
    BY <1>3, <1>4, <1>8
  <2> HIDE DEF u, v
  <2> QED
    BY <1>2, <1>4, <1>7, <2>1 DEF SwappedLast, Exchanged
<1>10. Exchanged(m, q, t, c, i) => Front(Front(u)) = Pre(q, i - 2)
  <2>1. i > 1 => i - 1 \in 0..Len(q) /\ i - 1 # 0 /\ (i - 1) - 1 = i - 2
    BY <1>1
  <2>2. i > 1 => Front(Pre(q, i - 1)) = Pre(q, i - 2)
    BY <2>1, PrefixFacts
  <2> QED
    BY <1>2, <2>2 DEF Exchanged
<1> DEFINE d4 == Distance(m, Front(Front(u)), Front(Front(v))) + 1
           W == Ways(m, u, v)
<1>11. Exchanged(m, q, t, c, i) => d4 = w
  BY <1>6, <1>10 DEF Upto
<1>12. W = {a + 1, b + 1, s + e} \cup IF Swap THEN {d4} ELSE {}
  <2>1. a = Distance(m, Front(u), v) /\ b = Distance(m, u, Front(v)) /\ s = Distance(m, Front(u), Front(v))
    BY <1>2, <1>6 DEF Upto
  <2>2. Ways(m, u, v) = {b + 1, a + 1, s + e} \cup IF Swap THEN {d4} ELSE {}
    <3>1. {Distance(m, Front(u), v) + 1, Distance(m, u, Front(v)) + 1,
           Distance(m, Front(u), Front(v)) + (IF Last(u) = Last(v) THEN 0 ELSE 1)} = {b + 1, a + 1, s + e}
      BY <1>2, <1>4, <2>1
    <3> HIDE DEF u, v, e
    <3> QED
      BY <3>1 DEF Ways
  <2> HIDE DEF Swap, d4, u, v, e
  <2> QED
    BY <2>2
<1>13. d \in W /\ \A x \in W : d <= x
  BY <1>2, <1>4, DistanceAssumption DEF Upto
<1> HIDE DEF Swap, d4, W, w, e, u, v
<1>14. d <= a + 1 /\ d <= b + 1 /\ d <= s + e /\ (Swap => d <= d4)
  BY <1>12, <1>13
<1>15. d = a + 1 \/ d = b + 1 \/ d = s + e \/ (Swap /\ d = d4)
  BY <1>12, <1>13
<1>16. Exchanged(m, q, t, c, i) => d <= w
  BY <1>9, <1>11, <1>14
<1>17. d = a + 1 \/ d = b + 1 \/ d = s + e \/ (Exchanged(m, q, t, c, i) /\ d = w)
  BY <1>9, <1>11, <1>15
<1> QED
  BY <1>14, <1>16, <1>17 DEF e, w

Cost(p, r) == IF p = r THEN 0 ELSE 1
CutBest(cl, a, b, s, p, r) ==
    LesserOf(LesserOf(Bumped(cl, AtMost(cl, a)), Bumped(cl, AtMost(cl, b))), Substitute(cl, AtMost(cl, s), p = r))

\* Cutting off at cl commutes with the least of the ways.
LEMMA CutOff ==
    ASSUME NEW cl \in Nat, NEW d \in Nat, NEW a \in Nat, NEW b \in Nat, NEW s \in Nat, NEW w \in Nat,
           NEW p, NEW r,
           d <= a + 1, d <= b + 1, d <= s + Cost(p, r), d <= w + 1,
           d = a + 1 \/ d = b + 1 \/ d = s + Cost(p, r) \/ d = w + 1
    PROVE  /\ AtMost(cl, d) = LesserOf(CutBest(cl, a, b, s, p, r), Bumped(cl, AtMost(cl, w)))
           /\ CutBest(cl, a, b, s, p, r) \in 0..cl
<1> DEFINE e == Cost(p, r)
           best == CutBest(cl, a, b, s, p, r)
           A == Bumped(cl, AtMost(cl, a))
           B == Bumped(cl, AtMost(cl, b))
           S == Substitute(cl, AtMost(cl, s), p = r)
           X == Bumped(cl, AtMost(cl, w))
           D == AtMost(cl, d)
<1>1. A = AtMost(cl, a + 1) /\ B = AtMost(cl, b + 1) /\ X = AtMost(cl, w + 1)
  BY DEF Bumped, AtMost
<1>2. S = AtMost(cl, s + e) /\ e \in 0..1
  BY DEF Substitute, AtMost, Cost
<1>3. A \in 0..cl /\ B \in 0..cl /\ S \in 0..cl /\ X \in 0..cl /\ D \in 0..cl
  BY <1>1, <1>2 DEF AtMost
<1>4. D <= A /\ D <= B /\ D <= S /\ D <= X
  BY <1>1, <1>2 DEF AtMost
<1>5. D = A \/ D = B \/ D = S \/ D = X
  BY <1>1, <1>2 DEF AtMost
<1>6. best = LesserOf(LesserOf(A, B), S)
  BY DEF CutBest
<1> HIDE DEF best, A, B, S, X, D
<1>7. best \in 0..cl /\ D = LesserOf(best, X)
  BY <1>3, <1>4, <1>5, <1>6 DEF LesserOf
<1> QED
  BY <1>7 DEF best, D, X

----------------------------------------------------------------------------
(* What a state is: the column of a text, cut off.                         *)

CutColumn(m, q, cl, col, t) == \A i \in 0..Len(q) : col[i] = AtMost(cl, Upto(m, q, t, i))

\* Two labels that the automaton need not tell apart.
Alike(q, c, d) == c = d \/ (c \notin ToSet(q) /\ d \notin ToSet(q))

Represents(m, q, cl, st, t) ==
    /\ CutColumn(m, q, cl, Cur(m, st), t)
    /\ m # "Levenshtein" =>
          IF t = << >> THEN Saturated(q, cl, st.prev)
          ELSE /\ CutColumn(m, q, cl, st.prev, Front(t))
               /\ Alike(q, st.char, Last(t)) \/ Saturated(q, cl, st.prev)

LEMMA StateParts ==
    ASSUME NEW m, NEW q, NEW cl, NEW st \in StateSet(m, q, cl)
    PROVE  Cur(m, st) \in Columns(q, cl) /\ Prev(m, st) \in Columns(q, cl)
BY DEF StateSet, Cur, Prev, PairStates

LEMMA StartRepresents ==
    ASSUME NEW m \in Metrics, NEW q \in Queries, NEW cl \in Nat, << >> \in Texts
    PROVE  Represents(m, q, cl, StartOf(m, q, cl), << >>)
<1>1. \A i \in 0..Len(q) : Upto(m, q, << >>, i) = i
  BY UptoBase
<1>2. CutColumn(m, q, cl, StartColumn(q, cl), << >>)
  BY <1>1 DEF CutColumn, StartColumn
<1>3. Saturated(q, cl, DeadColumn(q, cl))
  BY DEF Saturated, DeadColumn
<1> QED
  BY <1>2, <1>3 DEF Represents, StartOf, Cur, StartPair

\* The state that follows represents the longer text, also when a label that
\* the query does not have is replaced with another.
LEMMA StepRepresents ==
    ASSUME NEW m \in Metrics, NEW q \in Queries, NEW cl \in Nat, NEW st \in StateSet(m, q, cl),
           NEW t \in Texts, NEW c, Append(t, c) \in Texts, NEW r \in Nat, Alike(q, c, r),
           Represents(m, q, cl, st, t)
    PROVE  Represents(m, q, cl, FollowOf(m, q, cl, st, r), Append(t, c))
<1> DEFINE v == Append(t, c)
           ns == FollowOf(m, q, cl, st, r)
           cu == Cur(m, st)
           pr == Prev(m, st)
           f == Cur(m, ns)
           sw == Swaps(m, q, st, r)
<1>1. q \in Seq(Nat) /\ Len(q) \in Nat /\ \A i \in 1..Len(q) : q[i] \in ToSet(q)
  <2>1. q \in Seq(Labels)
    BY QueriesAssumption
  <2>2. q \in Seq(Nat)
    BY <2>1, LabelsAssumption, Widen
  <2> QED
    BY <2>2 DEF ToSet
<1>2. /\ ns \in StateSet(m, q, cl) /\ f \in Columns(q, cl)
      /\ IsNext(q, cl, pr, cu, sw, r, f)
      /\ m # "Levenshtein" => ns.prev = st.curr /\ (ns.char = r \/ Saturated(q, cl, ns.prev))
  BY <1>1, FollowFacts
<1>3. cu \in Columns(q, cl) /\ pr \in Columns(q, cl)
  BY StateParts
<1>4. t \in Seq(Labels) /\ v # << >> /\ Last(v) = c /\ Len(v) = Len(t) + 1 /\ Front(v) = t
  <2>1. t \in Seq(Labels)
    BY TextsAssumption
  <2>2. v \in Seq(Labels)
    BY TextsAssumption
  <2>3. Len(v) = Len(t) + 1 /\ v[Len(t) + 1] = c /\ \A k \in 1..Len(t) : v[k] = t[k]
    BY <2>1
  <2>4. v # << >> /\ Last(v) = c
    BY <2>1, <2>3 DEF Last
  <2> DEFINE g == Front(v)
  <2>5. g \in Seq(Labels) /\ Len(g) = Len(v) - 1 /\ \A k \in 1..(Len(v) - 1) : g[k] = v[k]
    <3> HIDE DEF v
    <3> QED
      BY <2>2, <2>4, FrontFacts
  <2>6. Len(v) - 1 = Len(t)
    BY <2>1, <2>3
  <2> HIDE DEF v
  <2>7. \A k \in 1..Len(t) : g[k] = t[k]
    BY <2>3, <2>5, <2>6
  <2>8. g = t
    <3> HIDE DEF g
    <3> QED
      BY <2>1, <2>5, <2>6, <2>7, SeqEqual
  <2> QED
    BY <2>1, <2>3, <2>4, <2>8
<1>5. \A i \in 1..Len(q) : q[i] = c <=> q[i] = r
  BY <1>1 DEF Alike
<1>6. \A i \in 0..Len(q) : /\ cu[i] = AtMost(cl, Upto(m, q, t, i))
                           /\ Upto(m, q, t, i) \in Nat /\ Upto(m, q, v, i) \in Nat
  <2>1. \A i \in 0..Len(q) : Upto(m, q, t, i) \in Nat /\ Upto(m, q, v, i) \in Nat
    <3> HIDE DEF Upto
    <3> QED
      BY UptoBase
  <2> QED
    BY <2>1 DEF Represents, CutColumn
<1>7. \A i \in sw : i \in 2..Len(q) /\ m # "Levenshtein" /\ q[i] = st.char /\ q[i - 1] = r
  BY DEF Swaps, SwapsOf, Swapped
<1>8. \A i \in 2..Len(q) : m # "Levenshtein" /\ q[i] = st.char /\ q[i - 1] = r => i \in sw
  BY DEF Swaps, SwapsOf, Swapped
<1>9. m = "Levenshtein" \/ m = "DamerauLevenshtein"
  BY MetricsAssumption
<1>10. t # << >> => Front(t) \in Texts
  BY TextsAssumption
\* What the code finds swapped is swapped in the text, or costs nothing less.
<1>11. ASSUME NEW i \in 2..Len(q)
       PROVE  /\ pr[i - 2] \in 0..cl
              /\ Exchanged(m, q, t, c, i) => /\ pr[i - 2] = AtMost(cl, Upto(m, q, Front(t), i - 2))
                                             /\ Upto(m, q, Front(t), i - 2) \in Nat
              /\ (i \in sw <=> Exchanged(m, q, t, c, i)) \/ pr[i - 2] = cl
  <2>1. i - 2 \in 0..Len(q) /\ i > 1 /\ i \in 1..Len(q) /\ i - 1 \in 1..Len(q)
    BY <1>1
  <2>2. pr[i - 2] \in 0..cl
    BY <1>3, <2>1 DEF Columns
  <2>3. ASSUME Exchanged(m, q, t, c, i)
        PROVE  /\ pr[i - 2] = AtMost(cl, Upto(m, q, Front(t), i - 2))
               /\ Upto(m, q, Front(t), i - 2) \in Nat
    <3>1. m = "DamerauLevenshtein" /\ t # << >> /\ pr = st.prev
      BY <2>3 DEF Exchanged, Prev
    <3>2. CutColumn(m, q, cl, st.prev, Front(t))
      BY <3>1 DEF Represents
    <3> QED
      BY <1>10, <2>1, <3>1, <3>2, UptoBase DEF CutColumn
  <2>4. ASSUME ~(i \in sw <=> Exchanged(m, q, t, c, i))
        PROVE  pr[i - 2] = cl
    <3>1. m # "Levenshtein" /\ pr = st.prev
      BY <1>7, <2>4 DEF Exchanged, Prev
    <3>2. CASE t = << >>
      <4>1. Saturated(q, cl, st.prev)
        BY <3>1, <3>2 DEF Represents
      <4> QED
        BY <2>1, <3>1, <4>1 DEF Saturated
    <3>3. CASE t # << >> /\ Alike(q, st.char, Last(t))
      <4>1. q[i] \in ToSet(q) /\ (q[i] = st.char <=> q[i] = Last(t))
        BY <1>1, <2>1, <3>3 DEF Alike
      <4>2. q[i - 1] = c <=> q[i - 1] = r
        BY <1>5, <2>1
      <4>3. i \in sw <=> (q[i] = st.char /\ q[i - 1] = r)
        BY <1>7, <1>8, <3>1
      <4>4. Exchanged(m, q, t, c, i) <=> (q[i] = Last(t) /\ q[i - 1] = c)
        BY <1>9, <2>1, <3>1, <3>3 DEF Exchanged
      <4> QED
        BY <2>4, <4>1, <4>2, <4>3, <4>4
    <3>4. CASE t # << >> /\ ~Alike(q, st.char, Last(t))
      <4>1. Saturated(q, cl, st.prev)
        BY <3>1, <3>4 DEF Represents
      <4> QED
        BY <2>1, <3>1, <4>1 DEF Saturated
    <3> QED
      BY <3>2, <3>3, <3>4
  <2> QED
    BY <2>2, <2>3, <2>4
<1> DEFINE T == {i \in 0..Len(q) : f[i] # AtMost(cl, Upto(m, q, v, i))}
<1>12. T = {}
  <2> SUFFICES ASSUME T # {} PROVE FALSE
    OBVIOUS
  <2>1. PICK i \in T : \A j \in T : i <= j
    <3>1. T \in SUBSET Nat
      OBVIOUS
    <3> HIDE DEF T
    <3> QED
      BY <3>1, Least
  <2>2. i \in 0..Len(q) /\ f[i] # AtMost(cl, Upto(m, q, v, i))
    OBVIOUS
  <2>3. CASE i = 0
    <3>1. f[0] = Bumped(cl, cu[0])
      BY <1>2, <2>2, <2>3 DEF IsNext
    <3>2. Upto(m, q, t, 0) = Len(t) /\ Upto(m, q, v, 0) = Len(t) + 1 /\ Len(t) \in Nat
      <4>1. 0 \in 0..Len(q)
        BY <1>1
      <4> HIDE DEF v
      <4> QED
        BY <1>4, <4>1, UptoBase DEF v
    <3>3. cu[0] = AtMost(cl, Len(t))
      BY <1>6, <2>2, <2>3, <3>2
    <3>4. Bumped(cl, AtMost(cl, Len(t))) = AtMost(cl, Len(t) + 1)
      BY <3>2 DEF Bumped, AtMost
    <3> QED
      BY <2>2, <2>3, <3>1, <3>2, <3>3, <3>4
  <2>4. CASE i # 0
    <3>1. i \in 1..Len(q) /\ i - 1 \in 0..Len(q) /\ ~(i <= i - 1)
      BY <1>1, <2>2, <2>4
    <3> DEFINE d == Upto(m, q, v, i)
               a == Upto(m, q, v, i - 1)
               b == Upto(m, q, t, i)
               s == Upto(m, q, t, i - 1)
               swap == Exchanged(m, q, t, c, i)
               w == IF swap THEN Upto(m, q, Front(t), i - 2) ELSE d + cl
               e == Cost(q[i], r)
               best == Best(q, cl, cu, r, i, f[i - 1])
    <3>2. f[i - 1] = AtMost(cl, a)
      BY <2>1, <3>1
    <3>3. cu[i] = AtMost(cl, b) /\ cu[i - 1] = AtMost(cl, s) /\ a \in Nat /\ b \in Nat /\ s \in Nat /\ d \in Nat
      BY <1>6, <2>2, <3>1
    <3>4. f[i] = IF i \in sw THEN LesserOf(best, Bumped(cl, pr[i - 2])) ELSE best
      BY <1>2, <2>2, <2>4 DEF IsNext, Entry
    <3>5. best = CutBest(cl, a, b, s, q[i], r)
      BY <3>2, <3>3 DEF Best, CutBest
    <3>6. (i \in sw \/ swap) => i \in 2..Len(q)
      BY <1>7, <3>1 DEF Exchanged
    <3>7. w \in Nat /\ (~swap => AtMost(cl, w) = cl)
      <4>1. swap => w \in Nat
        BY <1>11, <3>6
      <4>2. ~swap => w = d + cl
        OBVIOUS
      <4> HIDE DEF w, swap, d
      <4> QED
        BY <3>3, <4>1, <4>2 DEF AtMost
    <3>8. i \in sw => pr[i - 2] = AtMost(cl, w)
      <4>1. i \in sw /\ swap => pr[i - 2] = AtMost(cl, w)
        BY <1>11, <3>6
      <4>2. i \in sw /\ ~swap => pr[i - 2] = cl
        BY <1>11, <3>6
      <4> QED
        BY <3>7, <4>1, <4>2
    <3>9. i \notin sw => AtMost(cl, w) = cl
      <4>1. i \notin sw /\ swap => cl = AtMost(cl, w)
        BY <1>11, <3>6
      <4> QED
        BY <3>7, <4>1
    <3>10. /\ d <= a + 1 /\ d <= b + 1 /\ d <= s + (IF q[i] = c THEN 0 ELSE 1)
           /\ swap => d <= Upto(m, q, Front(t), i - 2) + 1
           /\ d = a + 1 \/ d = b + 1 \/ d = s + (IF q[i] = c THEN 0 ELSE 1)
              \/ (swap /\ d = Upto(m, q, Front(t), i - 2) + 1)
      BY <3>1, Recurrence
    <3>11. e = IF q[i] = c THEN 0 ELSE 1
      BY <1>5, <3>1 DEF Cost
    <3>12. swap => w = Upto(m, q, Front(t), i - 2)
      OBVIOUS
    <3>13. ~swap => w = d + cl
      OBVIOUS
    <3> HIDE DEF d, a, b, s, w, e, swap
    <3>14. /\ d <= a + 1 /\ d <= b + 1 /\ d <= s + e /\ d <= w + 1
           /\ d = a + 1 \/ d = b + 1 \/ d = s + e \/ d = w + 1
      BY <3>3, <3>10, <3>11, <3>12, <3>13
    <3> HIDE DEF best
    <3>15. /\ AtMost(cl, d) = LesserOf(best, Bumped(cl, AtMost(cl, w)))
           /\ best \in 0..cl
      <4> DEFINE p == q[i]
      <4>1. e = Cost(p, r) /\ best = CutBest(cl, a, b, s, p, r)
        BY <3>5 DEF e
      <4> HIDE DEF p
      <4>2. /\ AtMost(cl, d) = LesserOf(CutBest(cl, a, b, s, p, r), Bumped(cl, AtMost(cl, w)))
            /\ CutBest(cl, a, b, s, p, r) \in 0..cl
        BY <3>3, <3>7, <3>14, <4>1, CutOff
      <4> QED
        BY <4>1, <4>2
    <3>16. i \notin sw => LesserOf(best, Bumped(cl, AtMost(cl, w))) = best
      BY <3>9, <3>15 DEF LesserOf, Bumped
    <3>17. AtMost(cl, d) = f[i]
      BY <3>4, <3>8, <3>15, <3>16
    <3> QED
      BY <2>2, <3>17 DEF d
  <2> QED
    BY <2>3, <2>4
<1>13. CutColumn(m, q, cl, f, v)
  BY <1>12 DEF CutColumn
<1>14. ASSUME m # "Levenshtein"
       PROVE  /\ CutColumn(m, q, cl, ns.prev, Front(v))
              /\ Alike(q, ns.char, Last(v)) \/ Saturated(q, cl, ns.prev)
  <2>1. CutColumn(m, q, cl, st.curr, t)
    BY <1>14 DEF Represents, Cur
  <2>2. Alike(q, r, c)
    BY DEF Alike
  <2> HIDE DEF ns, v
  <2> QED
    BY <1>2, <1>4, <1>14, <2>1, <2>2
<1> HIDE DEF ns, v
<1> QED
  BY <1>4, <1>13, <1>14 DEF Represents, f, v, ns

----------------------------------------------------------------------------
(* The clamp, and where a state within max comes from and leads to.        *)

ClampOf(mx) == IF (mx + 1) % WordSize < ByteMax THEN (mx + 1) % WordSize ELSE ByteMax
Hope(m, q, mx, st) == \E i \in 0..Len(q) : Cur(m, st)[i] <= mx

\* Cutting distances off at the clamp does not change which are within max,
\* also when the sum wraps around to 0.
LEMMA ClampDecides ==
    ASSUME NEW mx \in MaxDistances
    PROVE  /\ mx \in Nat /\ ClampOf(mx) \in Nat
           /\ \A d \in 0..ByteMax : AtMost(ClampOf(mx), d) <= mx <=> d <= mx
<1>1. mx \in Nat /\ mx < WordSize /\ WordSize \in Nat /\ ByteMax \in Nat /\ ByteMax < WordSize /\ WordSize > 0
  BY WidthsAssumption
<1>2. (mx + 1) % WordSize = IF mx + 1 = WordSize THEN 0 ELSE mx + 1
  BY <1>1
<1> QED
  BY <1>1, <1>2 DEF ClampOf, AtMost

LEMMA EntryLeast ==
    ASSUME NEW q \in Seq(Nat), NEW cl \in Nat, NEW prev \in Columns(q, cl), NEW col \in Columns(q, cl),
           NEW sw \in SUBSET (2..Len(q)), NEW c, NEW f \in Columns(q, cl),
           IsNext(q, cl, prev, col, sw, c, f), NEW j \in 1..Len(q)
    PROVE  /\ f[j] <= Substitute(cl, col[j - 1], q[j] = c)
           /\ \/ f[j] = Bumped(cl, f[j - 1])
              \/ f[j] = Bumped(cl, col[j])
              \/ f[j] = Substitute(cl, col[j - 1], q[j] = c)
              \/ j \in sw /\ f[j] = Bumped(cl, prev[j - 2])
<1>1. j \in 0..Len(q) /\ j - 1 \in 0..Len(q) /\ j # 0 /\ (j \in sw => j - 2 \in 0..Len(q))
  OBVIOUS
<1> DEFINE a == Bumped(cl, f[j - 1])
           b == Bumped(cl, col[j])
           s == Substitute(cl, col[j - 1], q[j] = c)
           w == Bumped(cl, prev[j - 2])
<1>2. f[j] = IF j \in sw THEN LesserOf(LesserOf(LesserOf(a, b), s), w) ELSE LesserOf(LesserOf(a, b), s)
  BY <1>1 DEF IsNext, Entry, Best
<1>3. f[j - 1] \in 0..cl /\ col[j] \in 0..cl /\ col[j - 1] \in 0..cl /\ (j \in sw => prev[j - 2] \in 0..cl)
  BY <1>1 DEF Columns
<1>4. a \in Nat /\ b \in Nat /\ s \in Nat /\ (j \in sw => w \in Nat)
  <2>1. \A x \in 0..cl : Bumped(cl, x) \in Nat
    BY DEF Bumped
  <2>2. s \in Nat
    BY <1>3 DEF Substitute
  <2> HIDE DEF s
  <2> QED
    BY <1>3, <2>1, <2>2
<1> HIDE DEF a, b, s, w
<1>5. f[j] <= s /\ (f[j] = a \/ f[j] = b \/ f[j] = s \/ (j \in sw /\ f[j] = w))
  BY <1>2, <1>4 DEF LesserOf
<1> QED
  BY <1>5 DEF a, b, s, w

\* A state from which something within max can be read is itself within max at
\* some prefix of the query.
LEMMA HopeBack ==
    ASSUME NEW m, NEW q \in Seq(Nat), NEW cl \in Nat, NEW st \in StateSet(m, q, cl), NEW c \in Nat,
           NEW mx \in Nat, Hope(m, q, mx, FollowOf(m, q, cl, st, c))
    PROVE  Hope(m, q, mx, st)
<1> DEFINE ns == FollowOf(m, q, cl, st, c)
           cu == Cur(m, st)
           pr == Prev(m, st)
           f == Cur(m, ns)
           sw == Swaps(m, q, st, c)
<1>1. f \in Columns(q, cl) /\ IsNext(q, cl, pr, cu, sw, c, f)
  BY FollowFacts
<1>2. cu \in Columns(q, cl) /\ pr \in Columns(q, cl) /\ sw \in SUBSET (2..Len(q))
  BY StateParts DEF Swaps, SwapsOf
<1>3. \A i \in sw : cu[i - 2] <= Bumped(cl, pr[i - 2])
  <2> SUFFICES ASSUME NEW i \in sw PROVE cu[i - 2] <= Bumped(cl, pr[i - 2])
    OBVIOUS
  <2>1. m # "Levenshtein" /\ i \in 2..Len(q)
    BY DEF Swaps, SwapsOf
  <2>2. st \in PairStates(q, cl) /\ cu = st.curr /\ pr = st.prev /\ i - 2 \in 0..Len(q)
    BY <2>1 DEF StateSet, Cur, Prev
  <2> QED
    BY <2>2 DEF PairStates
<1> DEFINE T == {i \in 0..Len(q) : f[i] <= mx}
<1>4. PICK i \in T : \A j \in T : i <= j
  <2>1. T \in SUBSET Nat /\ T # {}
    BY DEF Hope
  <2> HIDE DEF T
  <2> QED
    BY <2>1, Least
<1>5. i \in 0..Len(q) /\ f[i] <= mx
  OBVIOUS
<1>6. \A x \in 0..cl : Bumped(cl, x) <= mx => x <= mx
  BY DEF Bumped
<1>7. CASE i = 0
  <2>1. f[0] = Bumped(cl, cu[0]) /\ cu[0] \in 0..cl /\ 0 \in 0..Len(q)
    BY <1>1, <1>2, <1>5, <1>7 DEF IsNext, Columns
  <2>2. cu[0] <= mx
    BY <1>5, <1>6, <1>7, <2>1
  <2> QED
    BY <2>1, <2>2 DEF Hope
<1>8. CASE i # 0
  <2>1. i \in 1..Len(q) /\ i - 1 \in 0..Len(q) /\ ~(i <= i - 1)
    BY <1>5, <1>8
  <2>2. \/ f[i] = Bumped(cl, f[i - 1])
        \/ f[i] = Bumped(cl, cu[i])
        \/ f[i] = Substitute(cl, cu[i - 1], q[i] = c)
        \/ i \in sw /\ f[i] = Bumped(cl, pr[i - 2])
    <3> HIDE DEF f, cu, pr, sw
    <3> QED
      BY <1>1, <1>2, <2>1, EntryLeast
  <2>3. f[i - 1] \in 0..cl /\ cu[i] \in 0..cl /\ cu[i - 1] \in 0..cl
    BY <1>1, <1>2, <1>5, <2>1 DEF Columns
  <2>4. f[i] # Bumped(cl, f[i - 1])
    <3>1. ~(f[i - 1] <= mx)
      BY <1>4, <2>1
    <3> QED
      BY <1>5, <1>6, <2>3, <3>1
  <2>5. CASE f[i] = Bumped(cl, cu[i])
    <3>1. cu[i] <= mx
      BY <1>5, <1>6, <2>3, <2>5
    <3> QED
      BY <1>5, <3>1 DEF Hope
  <2>6. CASE f[i] = Substitute(cl, cu[i - 1], q[i] = c)
    <3>1. cu[i - 1] <= Substitute(cl, cu[i - 1], q[i] = c) /\ Substitute(cl, cu[i - 1], q[i] = c) \in Nat
      BY <2>3 DEF Substitute
    <3>2. cu[i - 1] <= mx
      <4> DEFINE x == cu[i - 1]
                 y == Substitute(cl, cu[i - 1], q[i] = c)
      <4>1. x \in Nat /\ y \in Nat /\ x <= y /\ y <= mx
        BY <1>5, <2>3, <2>6, <3>1
      <4> HIDE DEF x, y
      <4>2. x <= mx
        BY <4>1
      <4> QED
        BY <4>2 DEF x
    <3> QED
      BY <2>1, <3>2 DEF Hope
  <2>7. CASE i \in sw /\ f[i] = Bumped(cl, pr[i - 2])
    <3>1. i - 2 \in 0..Len(q) /\ cu[i - 2] <= f[i]
      BY <1>2, <1>3, <2>7
    <3>2. cu[i - 2] \in 0..cl /\ f[i] \in 0..cl
      BY <1>1, <1>2, <1>5, <3>1 DEF Columns
    <3>3. cu[i - 2] <= mx
      <4> HIDE DEF cu, f
      <4> QED
        BY <1>5, <3>1, <3>2
    <3> QED
      BY <3>1, <3>3 DEF Hope
  <2> QED
    BY <2>2, <2>4, <2>5, <2>6, <2>7
<1> QED
  BY <1>7, <1>8

\* The next label of the query loses nothing.
LEMMA HopeForward ==
    ASSUME NEW m, NEW q \in Seq(Nat), NEW cl \in Nat, NEW st \in StateSet(m, q, cl), NEW i \in 0..Len(q),
           i # Len(q)
    PROVE  /\ i + 1 \in 1..Len(q) /\ q[i + 1] \in Nat
           /\ Cur(m, FollowOf(m, q, cl, st, q[i + 1]))[i + 1] <= Cur(m, st)[i]
<1> DEFINE j == i + 1
           c == q[j]
           ns == FollowOf(m, q, cl, st, c)
           cu == Cur(m, st)
           pr == Prev(m, st)
           f == Cur(m, ns)
           sw == Swaps(m, q, st, c)
<1>1. j \in 1..Len(q) /\ c \in Nat /\ j - 1 = i
  OBVIOUS
<1> HIDE DEF j
<1>2. f \in Columns(q, cl) /\ IsNext(q, cl, pr, cu, sw, c, f)
  <2> HIDE DEF c
  <2> QED
    BY <1>1, FollowFacts
<1>3. cu \in Columns(q, cl) /\ pr \in Columns(q, cl) /\ sw \in SUBSET (2..Len(q))
  BY StateParts DEF Swaps, SwapsOf
<1>4. f[j] <= Substitute(cl, cu[j - 1], q[j] = c)
  <2> HIDE DEF f, cu, pr, sw, c
  <2> QED
    BY <1>1, <1>2, <1>3, EntryLeast
<1>5. Substitute(cl, cu[j - 1], q[j] = c) = cu[i]
  BY <1>1 DEF Substitute
<1> QED
  BY <1>1, <1>4, <1>5 DEF j

LEMMA DeadStays ==
    ASSUME NEW m, NEW q \in Seq(Nat), NEW cl \in Nat, NEW c \in Nat
    PROVE  /\ DeadOf(m, q, cl) \in StateSet(m, q, cl) /\ StartOf(m, q, cl) \in StateSet(m, q, cl)
           /\ Saturated(q, cl, Cur(m, DeadOf(m, q, cl)))
           /\ FollowOf(m, q, cl, DeadOf(m, q, cl), c) = DeadOf(m, q, cl)
<1> DEFINE D == DeadColumn(q, cl)
           S == StartColumn(q, cl)
<1>1. D \in Columns(q, cl) /\ S \in Columns(q, cl) /\ Saturated(q, cl, D)
  BY DEF DeadColumn, StartColumn, AtMost, Columns, Saturated
<1>2. \A j \in 0..Len(q) : D[j] <= Bumped(cl, D[j]) /\ S[j] <= Bumped(cl, D[j])
  BY DEF DeadColumn, StartColumn, AtMost, Bumped
<1>3. DeadPair(q, cl) \in PairStates(q, cl) /\ StartPair(q, cl) \in PairStates(q, cl)
  <2> HIDE DEF D, S
  <2>1. DeadPair(q, cl) = [prev |-> D, curr |-> D, char |-> 0]
    BY DEF DeadPair, D
  <2>2. StartPair(q, cl) = [prev |-> D, curr |-> S, char |-> 0]
    BY DEF StartPair, D, S
  <2> QED
    BY <1>1, <1>2, <2>1, <2>2 DEF PairStates
<1>4. ASSUME NEW sw \in SUBSET (2..Len(q)), NEW f \in Columns(q, cl), IsNext(q, cl, D, D, sw, c, f)
      PROVE  f = D
  <2> DEFINE T == {i \in 0..Len(q) : f[i] # cl}
  <2>1. T = {}
    <3> SUFFICES ASSUME T # {} PROVE FALSE
      OBVIOUS
    <3>1. PICK i \in T : \A j \in T : i <= j
      <4>1. T \in SUBSET Nat
        OBVIOUS
      <4> HIDE DEF T
      <4> QED
        BY <4>1, Least
    <3>2. i \in 0..Len(q) /\ f[i] # cl
      OBVIOUS
    <3>3. \A j \in 0..Len(q) : D[j] = cl
      BY DEF DeadColumn
    <3> HIDE DEF D
    <3>4. i # 0
      BY <1>4, <3>2, <3>3 DEF IsNext, Bumped
    <3>5. i \in 1..Len(q) /\ i - 1 \in 0..Len(q) /\ ~(i <= i - 1) /\ (i \in sw => i - 2 \in 0..Len(q))
      BY <3>2, <3>4
    <3>6. f[i - 1] = cl
      BY <3>1, <3>5
    <3>7. \/ f[i] = Bumped(cl, f[i - 1])
          \/ f[i] = Bumped(cl, D[i])
          \/ f[i] = Substitute(cl, D[i - 1], q[i] = c)
          \/ i \in sw /\ f[i] = Bumped(cl, D[i - 2])
      BY <1>1, <1>4, <3>5, EntryLeast
    <3> QED
      <4>1. D[i] = cl /\ D[i - 1] = cl /\ (i \in sw => D[i - 2] = cl)
        BY <3>2, <3>3, <3>5
      <4>2. Bumped(cl, cl) = cl /\ \A same : Substitute(cl, cl, same) = cl
        BY DEF Bumped, Substitute
      <4> QED
        BY <3>2, <3>6, <3>7, <4>1, <4>2
  <2>2. \A i \in 0..Len(q) : f[i] = D[i]
    BY <2>1 DEF DeadColumn
  <2>3. D = [i \in 0..Len(q) |-> D[i]] /\ f = [i \in 0..Len(q) |-> f[i]]
    BY <1>1 DEF Columns
  <2> HIDE DEF D
  <2> QED
    BY <2>2, <2>3
<1>5. CASE m = "Levenshtein"
  <2>1. NextColumn(q, cl, D, c) \in Columns(q, cl) /\ IsNext(q, cl, D, D, {}, c, NextColumn(q, cl, D, c))
    BY <1>1, NextColumnFacts
  <2>2. {} \in SUBSET (2..Len(q))
    OBVIOUS
  <2>3. NextColumn(q, cl, D, c) = D
    <3> HIDE DEF D
    <3> QED
      BY <1>4, <2>1, <2>2
  <2> QED
    BY <1>1, <1>5, <2>3 DEF DeadOf, StartOf, StateSet, FollowOf, Cur
<1>6. CASE m # "Levenshtein"
  <2> DEFINE st == DeadPair(q, cl)
  <2>1. st.prev = D /\ st.curr = D
    BY DEF DeadPair
  <2>2. PICK f \in Columns(q, cl) :
              /\ IsNext(q, cl, st.prev, st.curr, SwapsOf(q, st, c), c, f)
              /\ NextPair(q, cl, st, c) =
                    IF st.curr = D /\ f = D THEN DeadPair(q, cl)
                    ELSE [prev |-> st.curr, curr |-> f, char |-> c]
    <3> HIDE DEF st
    <3> QED
      BY <1>3, NextPairFacts DEF st
  <2>3. SwapsOf(q, st, c) \in SUBSET (2..Len(q))
    BY DEF SwapsOf
  <2>4. f = D
    <3> HIDE DEF st, D
    <3> QED
      BY <1>4, <2>1, <2>2, <2>3
  <2>5. NextPair(q, cl, st, c) = DeadPair(q, cl)
    <3> HIDE DEF st, D
    <3> QED
      BY <2>1, <2>2, <2>4
  <2> HIDE DEF D
  <2> QED
    BY <1>1, <1>3, <1>6, <2>1, <2>5 DEF DeadOf, StartOf, StateSet, FollowOf, Cur
<1> QED
  BY <1>5, <1>6

----------------------------------------------------------------------------
(* The labels, and the ids in ascending order.                             *)

LEMMA OtherFacts ==
    ASSUME NEW q \in Queries
    PROVE  /\ OtherRepresentative(q) \in Labels
           /\ OtherRepresentative(q) \notin QueryLabels(q)
           /\ QueryLabels(q) \subseteq Labels /\ IsFiniteSet(QueryLabels(q))
<1> DEFINE O == OtherLabels(q)
<1>1. O \in SUBSET Nat /\ O # {} /\ O \subseteq Labels
  BY QueriesAssumption, LabelsAssumption DEF OtherLabels, QueryLabels
<1>2. \E c \in O : \A d \in O : c <= d
  <2> HIDE DEF O
  <2> QED
    BY <1>1, Least
<1>3. OtherRepresentative(q) \in O
  BY <1>2 DEF OtherRepresentative
<1>4. QueryLabels(q) \subseteq Labels
  <2>1. q \in Seq(Labels)
    BY QueriesAssumption
  <2> QED
    BY <2>1 DEF QueryLabels, ToSet
<1>5. IsFiniteSet(QueryLabels(q))
  BY <1>4, LabelsAssumption, FS_Subset
<1> QED
  BY <1>1, <1>3, <1>4, <1>5 DEF OtherLabels

\* Every label of the query is a representative.
LEMMA OrdersOnto ==
    ASSUME NEW S, IsFiniteSet(S), NEW order \in SetToSeqs(S)
    PROVE  order \in Seq(S) /\ ToSet(order) = S
<1> DEFINE n == Cardinality(S)
           D == 1..n
<1>1. n \in Nat /\ order \in [D -> S] /\ \A i, j \in D : i # j => order[i] # order[j]
  BY FS_CardinalityType DEF SetToSeqs
<1>2. order \in Seq(S) /\ DOMAIN order = D
  <2> HIDE DEF n
  <2> QED
    BY <1>1
<1>3. IsFiniteSet(D) /\ Cardinality(D) = n
  <2>1. 0 + 1 = 1 /\ Cardinality(1..n) = n
    BY <1>1, FS_Interval
  <2> QED
    BY <1>1, FS_Interval
<1>4. ToSet(order) = S
  <2>1. order \in Injection(D, S)
    BY <1>1 DEF Injection, IsInjective
  <2>2. order \in Surjection(D, S)
    BY <1>3, <2>1, FS_Injection
  <2> QED
    BY <1>2, <2>2 DEF Surjection, ToSet
<1> QED
  BY <1>2, <1>4

LEMMA AppendSet ==
    ASSUME NEW S, NEW s \in Seq(S), NEW x \in S
    PROVE  /\ Append(s, x) \in Seq(S) /\ ToSet(Append(s, x)) = ToSet(s) \cup {x}
           /\ ToSet(s) \subseteq S
<1>1. /\ Append(s, x) \in Seq(S) /\ Len(Append(s, x)) = Len(s) + 1 /\ Len(s) \in Nat
      /\ Append(s, x)[Len(s) + 1] = x /\ \A i \in 1..Len(s) : Append(s, x)[i] = s[i]
  OBVIOUS
<1> DEFINE a == Append(s, x)
<1>2. DOMAIN a = 1..(Len(s) + 1) /\ DOMAIN s = 1..Len(s)
  BY <1>1
<1>3. 1..(Len(s) + 1) = (1..Len(s)) \cup {Len(s) + 1}
  BY <1>1
<1>4. a[Len(s) + 1] = x /\ \A i \in 1..Len(s) : a[i] = s[i]
  BY <1>1
<1>5. \A i \in 1..Len(s) : s[i] \in S
  OBVIOUS
<1> HIDE DEF a
<1>6. {a[i] : i \in DOMAIN a} = {s[i] : i \in DOMAIN s} \cup {x}
  BY <1>2, <1>3, <1>4
<1> QED
  BY <1>1, <1>2, <1>5, <1>6 DEF ToSet, a

\* Ascending enumerates a set of ids.
LEMMA AscendingFacts ==
    ASSUME NEW X, states \in Seq(X), NEW S \in SUBSET Ids
    PROVE  Ascending(S) \in Seq(Ids) /\ ToSet(Ascending(S)) = S
<1> DEFINE n == Len(states)
           V == Seq(1..n)
           G == [p \in (1..n) \X V |-> IF p[1] \in S THEN Append(p[2], p[1]) ELSE p[2]]
           Is(u) == u = [k \in 0..n |-> IF k = 0 THEN << >> ELSE IF k \in S THEN Append(u[k - 1], k) ELSE u[k - 1]]
           u == CHOOSE u : Is(u)
<1>1. n \in Nat /\ Ids = 1..n
  BY DEF Ids
<1>2. Ascending(S) = u[n]
  BY DEF Ascending
<1>3. \A i \in 1..n : \A x \in V : G[<<i, x>>] = (IF i \in S THEN Append(x, i) ELSE x) /\ G[<<i, x>>] \in V
  <2> HIDE DEF n
  <2>1. \A i \in 1..n : \A x \in V : Append(x, i) \in V
    OBVIOUS
  <2> QED
    BY <2>1
<1>4. << >> \in V
  <2> DEFINE Y == 1..n
  <2>1. << >> \in Seq(Y)
    <3> HIDE DEF Y
    <3> QED
      OBVIOUS
  <2> QED
    BY <2>1
<1> DEFINE e == << >>
<1> HIDE DEF e, V, G
<1>5. PICK f \in [0..n -> V] : IsRecursive(f, n, e, G)
  <2>1. \A i \in 1..n : \A x \in V : G[<<i, x>>] \in V
    BY <1>3
  <2>2. e \in V
    BY <1>4 DEF e
  <2> HIDE DEF n
  <2>3. HasRecursive(n, V, e, G)
    BY <1>1, <2>1, <2>2, RecursionExists
  <2> QED
    BY <2>3 DEF HasRecursive
<1>6. \A k \in 0..n : f[k] = IF k = 0 THEN << >> ELSE IF k \in S THEN Append(f[k - 1], k) ELSE f[k - 1]
  <2> SUFFICES ASSUME NEW k \in 0..n
               PROVE  f[k] = IF k = 0 THEN << >> ELSE IF k \in S THEN Append(f[k - 1], k) ELSE f[k - 1]
    OBVIOUS
  <2>1. f[k] = IF k = 0 THEN e ELSE G[<<k, f[k - 1]>>]
    BY <1>5 DEF IsRecursive
  <2>2. k # 0 => k \in 1..n /\ k - 1 \in 0..n
    BY <1>1
  <2>3. k # 0 => f[k - 1] \in V
    BY <1>5, <2>2
  <2> HIDE DEF n
  <2> QED
    BY <1>3, <2>1, <2>2, <2>3 DEF e
<1>7. Is(f)
  <2>1. f = [k \in 0..n |-> f[k]]
    OBVIOUS
  <2> QED
    BY <1>6, <2>1
<1>8. Is(u)
  <2> HIDE DEF Is
  <2> QED
    BY <1>7
<1>9. \A k \in 0..n : u[k] = IF k = 0 THEN << >> ELSE IF k \in S THEN Append(u[k - 1], k) ELSE u[k - 1]
  BY <1>8
<1> HIDE DEF u
<1> DEFINE Right(k) == u[k] \in V /\ ToSet(u[k]) = S \cap (1..k)
           T == {k \in 0..n : ~Right(k)}
<1>10. T = {}
  <2> SUFFICES ASSUME T # {} PROVE FALSE
    OBVIOUS
  <2>1. PICK k \in T : \A j \in T : k <= j
    <3>1. T \in SUBSET Nat
      BY <1>1
    <3> HIDE DEF T
    <3> QED
      BY <3>1, Least
  <2>2. k \in 0..n /\ ~Right(k)
    OBVIOUS
  <2>3. CASE k = 0
    <3>1. u[k] = << >>
      BY <1>1, <1>9, <2>2, <2>3
    <3>2. ToSet(<< >>) = {}
      BY DEF ToSet
    <3> QED
      BY <1>4, <2>2, <2>3, <3>1, <3>2
  <2>4. CASE k # 0
    <3>1. k \in 1..n /\ k - 1 \in 0..n /\ ~(k <= k - 1)
      BY <1>1, <2>2, <2>4
    <3>2. Right(k - 1)
      BY <2>1, <3>1
    <3> DEFINE x == u[k - 1]
    <3>3. x \in V /\ ToSet(x) = S \cap (1..(k - 1))
      BY <3>2
    <3>4. u[k] = IF k \in S THEN Append(x, k) ELSE x
      BY <1>9, <2>2, <2>4
    <3>5. 1..k = (1..(k - 1)) \cup {k}
      BY <3>1
    <3> HIDE DEF x, n
    <3>6. CASE k \in S
      <4>1. Append(x, k) \in Seq(1..n) /\ ToSet(Append(x, k)) = ToSet(x) \cup {k}
        <5> DEFINE Y == 1..n
        <5>1. k \in Y /\ x \in Seq(Y)
          BY <3>1, <3>3 DEF V
        <5> HIDE DEF Y
        <5>2. Append(x, k) \in Seq(Y) /\ ToSet(Append(x, k)) = ToSet(x) \cup {k}
          BY <5>1, AppendSet
        <5> QED
          BY <5>2 DEF Y
      <4>2. u[k] = Append(x, k)
        BY <3>4, <3>6
      <4> QED
        BY <2>2, <3>3, <3>5, <3>6, <4>1, <4>2 DEF V
    <3>7. CASE k \notin S
      BY <2>2, <3>3, <3>4, <3>5, <3>7
    <3> QED
      BY <3>6, <3>7
  <2> QED
    BY <2>3, <2>4
<1>11. Right(n)
  BY <1>1, <1>10
<1>12. S \cap (1..n) = S
  BY <1>1
<1> QED
  BY <1>1, <1>2, <1>11, <1>12 DEF V

----------------------------------------------------------------------------
(* The inductive invariant.                                                *)

Cl == ClampOf(max)

ParamsOK == metric \in Metrics /\ query \in Queries /\ max \in MaxDistances
RepresentativesOK ==
    /\ representatives \in Seq(Labels)
    /\ ToSet(representatives) = QueryLabels(query) \cup {OtherRepresentative(query)}

\* The states, each once; the dead one is the first, and the start the next
\* unless it is the dead one.
StatesOK ==
    /\ states \in Seq(StateSet(metric, query, Cl)) /\ states # << >>
    /\ states[1] = DeadOf(metric, query, Cl)
    /\ StartOf(metric, query, Cl) # states[1] => 2 \in Ids /\ states[2] = StartOf(metric, query, Cl)
    /\ IdsAreUnique

EdgesOK == DOMAIN edges \subseteq Ids \X Labels /\ \A e \in DOMAIN edges : edges[e] \in Ids

LinkedTo(id, c) ==
    <<id, c>> \in DOMAIN edges /\ states[edges[<<id, c>>]] = FollowOf(metric, query, Cl, states[id], c)
ExpandedTo(id) ==
    \A k \in 1..Len(representatives) : LinkedTo(id, representatives[k]) \/ (id = current /\ k >= next)
WorkOK ==
    /\ worklist \in Seq(Ids) /\ current \in {0} \cup Ids
    /\ next \in 1..(Len(representatives) + 1)
    /\ next <= Len(representatives) => current \in Ids
    /\ \A id \in Ids \ {1} : id \in ToSet(worklist) \/ ExpandedTo(id)

\* What is marked: every accepting state, only states with hope, and the
\* predecessors of all marked states but those that wait in bfs.
MarksOK ==
    /\ bfs \in Seq(Ids) /\ ToSet(bfs) \subseteq reachable /\ reachable \subseteq Ids
    /\ \A id \in Ids : IsMatch(id) => id \in reachable
    /\ \A id \in reachable : Hope(metric, query, max, states[id])
    /\ \A id \in reachable : id \in ToSet(bfs) \/ Predecessors(id) \subseteq reachable
PhaseOK ==
    /\ phase \in {"expand", "mark", "ready"}
    /\ phase = "expand" => reachable = {} /\ bfs = << >>
    /\ phase = "ready" => bfs = << >>
    /\ phase # "expand" =>
          /\ worklist = << >> /\ next > Len(representatives)
          /\ table = [id \in Ids |-> [c \in Labels |-> RowEntry(id, c)]]
          /\ MarksOK

AutomatonInv == ParamsOK /\ RepresentativesOK /\ StatesOK /\ EdgesOK /\ WorkOK /\ PhaseOK

LEMMA Names ==
    /\ Clamp = Cl
    /\ \A cl : Dead(cl) = DeadOf(metric, query, cl) /\ Start(cl) = StartOf(metric, query, cl)
    /\ \A cl, st, c : Follow(cl, st, c) = FollowOf(metric, query, cl, st, c)
    /\ \A st : LastEntry(st) = Cur(metric, st)[Len(query)]
BY DEF Clamp, Cl, ClampOf, Dead, Start, Follow, OfColumns, DeadOf, StartOf, FollowOf, LastEntry, LastOf,
       LastOfPair, Cur

LEMMA ParamsFacts ==
    ASSUME ParamsOK
    PROVE  query \in Seq(Nat) /\ Cl \in Nat /\ max \in Nat
<1>1. query \in Seq(Labels) /\ Labels \subseteq Nat
  BY QueriesAssumption, LabelsAssumption DEF ParamsOK
<1>2. query \in Seq(Nat)
  BY <1>1, Widen
<1> QED
  BY <1>2, ClampDecides DEF ParamsOK, Cl

LEMMA InvInit ==
    ASSUME Init
    PROVE  AutomatonInv
<1> DEFINE dead == DeadOf(metric, query, Cl)
           start == StartOf(metric, query, Cl)
           S == StateSet(metric, query, Cl)
<1>1. ParamsOK
  BY DEF Init, ParamsOK
<1>2. query \in Seq(Nat) /\ Cl \in Nat /\ max \in Nat
  BY <1>1, ParamsFacts
<1>3. dead \in S /\ start \in S
  BY <1>2, LabelsAssumption, DeadStays
<1>4. \/ start = dead /\ states = <<dead>> /\ worklist = << >>
      \/ start # dead /\ states = <<dead, start>> /\ worklist = <<2>>
  BY Names DEF Init
<1>5. RepresentativesOK
  <2>1. PICK order \in SetToSeqs(QueryLabels(query)) : representatives = Append(order, OtherRepresentative(query))
    BY DEF Init
  <2>2. /\ OtherRepresentative(query) \in Labels /\ QueryLabels(query) \subseteq Labels
        /\ IsFiniteSet(QueryLabels(query))
    BY <1>1, OtherFacts DEF ParamsOK
  <2> DEFINE L == QueryLabels(query)
             o == OtherRepresentative(query)
  <2>3. order \in Seq(L) /\ ToSet(order) = L
    <3> HIDE DEF L
    <3> QED
      BY <2>1, <2>2, OrdersOnto DEF L
  <2> HIDE DEF L, o
  <2>4. order \in Seq(Labels)
    BY <2>2, <2>3, Widen DEF L
  <2>5. o \in Labels
    BY <2>2 DEF o
  <2>6. Append(order, o) \in Seq(Labels) /\ ToSet(Append(order, o)) = ToSet(order) \cup {o}
    BY <2>4, <2>5, AppendSet
  <2> QED
    BY <2>1, <2>3, <2>6 DEF RepresentativesOK, L, o
<1>6. EdgesOK
  BY DEF Init, EdgesOK
<1> HIDE DEF dead, start, S
<1>7. CASE start = dead /\ states = <<dead>> /\ worklist = << >>
  <2>1. states \in Seq(S) /\ Len(states) = 1 /\ states[1] = dead /\ Ids = {1}
    BY <1>3, <1>7 DEF Ids
  <2>2. StatesOK
    BY <1>7, <2>1 DEF StatesOK, IdsAreUnique, dead, start, S
  <2>3. worklist \in Seq(Ids)
    <3> DEFINE I == Ids
    <3>1. << >> \in Seq(I)
      <4> HIDE DEF I
      <4> QED
        OBVIOUS
    <3> QED
      BY <1>7, <3>1
  <2>4. Ids \ {1} = {}
    BY <2>1
  <2>5. WorkOK
    <3>1. Len(representatives) \in Nat
      BY <1>5 DEF RepresentativesOK
    <3> QED
      BY <2>3, <2>4, <3>1 DEF WorkOK, Init
  <2> QED
    BY <1>1, <1>5, <1>6, <2>2, <2>5 DEF AutomatonInv, PhaseOK, Init
<1>8. CASE start # dead /\ states = <<dead, start>> /\ worklist = <<2>>
  <2>1. /\ states \in Seq(S) /\ Len(states) = 2 /\ states[1] = dead /\ states[2] = start /\ Ids = {1, 2}
    BY <1>3, <1>8 DEF Ids
  <2>2. StatesOK
    <3>1. IdsAreUnique
      BY <1>8, <2>1 DEF IdsAreUnique
    <3> QED
      BY <1>8, <2>1, <3>1 DEF StatesOK, dead, start, S
  <2>3. worklist \in Seq(Ids) /\ ToSet(worklist) = {2}
    <3> DEFINE I == Ids
    <3>0. 2 \in I
      BY <2>1
    <3>1. <<2>> \in Seq(I) /\ Len(<<2>>) = 1 /\ <<2>>[1] = 2
      <4> HIDE DEF I
      <4> QED
        BY <3>0
    <3> QED
      BY <1>8, <3>1 DEF ToSet
  <2>4. \A id \in Ids \ {1} : id \in ToSet(worklist)
    BY <2>1, <2>3
  <2>5. WorkOK
    <3>1. Len(representatives) \in Nat
      BY <1>5 DEF RepresentativesOK
    <3> QED
      BY <2>3, <2>4, <3>1 DEF WorkOK, Init
  <2> QED
    BY <1>1, <1>5, <1>6, <2>2, <2>5 DEF AutomatonInv, PhaseOK, Init
<1> QED
  BY <1>4, <1>7, <1>8 DEF dead, start

LEMMA ConcatSet ==
    ASSUME NEW S, NEW s \in Seq(S), NEW t \in Seq(S)
    PROVE  s \o t \in Seq(S) /\ ToSet(s \o t) = ToSet(s) \cup ToSet(t)
<1> DEFINE a == s \o t
           m == Len(s)
           n == Len(t)
<1>1. /\ m \in Nat /\ n \in Nat /\ a \in Seq(S) /\ Len(a) = m + n
      /\ \A i \in 1..m : a[i] = s[i]
      /\ \A i \in 1..n : a[m + i] = t[i]
  OBVIOUS
<1>2. DOMAIN a = 1..(m + n) /\ DOMAIN s = 1..m /\ DOMAIN t = 1..n
  BY <1>1
<1>3. \A i \in 1..(m + n) : i \in 1..m \/ (i - m \in 1..n /\ m + (i - m) = i)
  BY <1>1
<1>4. \A i \in 1..m : i \in 1..(m + n)
  BY <1>1
<1>5. \A i \in 1..n : m + i \in 1..(m + n)
  BY <1>1
<1> HIDE DEF a, m, n
<1>6. {a[i] : i \in DOMAIN a} = {s[i] : i \in DOMAIN s} \cup {t[i] : i \in DOMAIN t}
  <2>1. \A i \in DOMAIN a : a[i] \in {s[k] : k \in DOMAIN s} \cup {t[k] : k \in DOMAIN t}
    BY <1>1, <1>2, <1>3
  <2>2. \A i \in DOMAIN s : s[i] \in {a[k] : k \in DOMAIN a}
    BY <1>1, <1>2, <1>4
  <2>3. \A i \in DOMAIN t : t[i] \in {a[k] : k \in DOMAIN a}
    BY <1>1, <1>2, <1>5
  <2> QED
    BY <2>1, <2>2, <2>3
<1> QED
  BY <1>1, <1>6 DEF ToSet, a

\* The sequence without its head.
LEMMA TailFacts ==
    ASSUME NEW S, NEW s \in Seq(S), s # << >>
    PROVE  /\ Head(s) \in S /\ Tail(s) \in Seq(S)
           /\ ToSet(s) = {Head(s)} \cup ToSet(Tail(s))
<1> DEFINE n == Len(s)
           t == Tail(s)
<1>1. n \in Nat \ {0} /\ Head(s) = s[1] /\ t \in Seq(S) /\ Len(t) = n - 1 /\ \A i \in 1..(n - 1) : t[i] = s[i + 1]
  OBVIOUS
<1>2. DOMAIN s = 1..n /\ DOMAIN t = 1..(n - 1)
  BY <1>1
<1>3. \A i \in 1..n : i = 1 \/ i - 1 \in 1..(n - 1)
  BY <1>1
<1>4. \A i \in 1..(n - 1) : i + 1 \in 1..n /\ (i + 1) - 1 = i
  BY <1>1
<1>5. \A i \in 1..n : i # 1 => s[i] = t[i - 1]
  <2> SUFFICES ASSUME NEW i \in 1..n, i # 1 PROVE s[i] = t[i - 1]
    OBVIOUS
  <2>1. i - 1 \in 1..(n - 1) /\ (i - 1) + 1 = i
    BY <1>1
  <2> HIDE DEF n, t
  <2> QED
    BY <1>1, <2>1
<1>6. 1 \in 1..n
  BY <1>1
<1> HIDE DEF t, n
<1>7. {s[i] : i \in DOMAIN s} = {s[1]} \cup {t[i] : i \in DOMAIN t}
  <2>1. \A i \in DOMAIN s : s[i] \in {s[1]} \cup {t[k] : k \in DOMAIN t}
    BY <1>2, <1>3, <1>5
  <2>2. \A i \in DOMAIN t : t[i] \in {s[k] : k \in DOMAIN s}
    BY <1>1, <1>2, <1>4
  <2>3. s[1] \in {s[k] : k \in DOMAIN s}
    BY <1>2, <1>6
  <2> QED
    BY <2>1, <2>2, <2>3
<1>8. s[1] \in S
  BY <1>6 DEF n
<1> QED
  BY <1>1, <1>7, <1>8 DEF ToSet, t

\* The next state is taken up: the one before has all its edges.
LEMMA InvPopState ==
    ASSUME AutomatonInv, PopState
    PROVE  AutomatonInv'
<1> USE DEF AutomatonInv
<1>1. ParamsOK' /\ RepresentativesOK' /\ StatesOK' /\ EdgesOK'
  BY DEF PopState, ParamsOK, RepresentativesOK, StatesOK, EdgesOK, IdsAreUnique, Ids, Cl
<1>2. PhaseOK'
  BY DEF PopState, PhaseOK
<1>3. WorkOK'
  <2>1. Head(worklist) \in Ids /\ Tail(worklist) \in Seq(Ids) /\ ToSet(worklist) = {Head(worklist)} \cup ToSet(Tail(worklist))
    <3>1. worklist \in Seq(Ids) /\ worklist # << >>
      BY DEF PopState, WorkOK
    <3> QED
      BY <3>1, TailFacts
  <2>2. worklist' = Tail(worklist) /\ current' = Head(worklist) /\ next' = 1 /\ Ids' = Ids
    BY DEF PopState, Ids
  <2>3. \A id : \A c : LinkedTo(id, c)' <=> LinkedTo(id, c)
    BY DEF PopState, LinkedTo, Cl
  <2>4. representatives' = representatives /\ Len(representatives) \in Nat
    BY DEF PopState, RepresentativesOK
  <2>5. \A id : ExpandedTo(id) => ExpandedTo(id)'
    <3>1. \A k \in 1..Len(representatives) : ~(k >= next)
      BY <2>4 DEF PopState, WorkOK
    <3> QED
      BY <2>3, <2>4, <3>1 DEF ExpandedTo
  <2>6. \A id : id = Head(worklist) => ExpandedTo(id)'
    <3>1. \A k \in 1..Len(representatives) : k >= 1
      BY <2>4
    <3> QED
      BY <2>2, <2>4, <3>1 DEF ExpandedTo
  <2>7. \A id \in Ids \ {1} : id \in ToSet(worklist)' \/ ExpandedTo(id)'
    BY <2>1, <2>2, <2>5, <2>6 DEF WorkOK
  <2> QED
    BY <2>1, <2>2, <2>4, <2>7 DEF WorkOK
<1> QED
  BY <1>1, <1>2, <1>3

\* A label is tried: its state is among the states then, and has the edge.
LEMMA InvTryLabel ==
    ASSUME AutomatonInv, TryLabel
    PROVE  AutomatonInv'
<1> USE DEF AutomatonInv
<1> DEFINE c == representatives[next]
           st == FollowOf(metric, query, Cl, states[current], c)
           id == IF Known(st) # {} THEN CHOOSE i \in Known(st) : TRUE ELSE NewId
           S == StateSet(metric, query, Cl)
           n == Len(states)
           r == Len(representatives)
<1>1. ParamsOK' /\ RepresentativesOK'
  BY DEF TryLabel, ParamsOK, RepresentativesOK
<1>2. PhaseOK'
  BY DEF TryLabel, PhaseOK
<1>3. /\ phase = "expand" /\ next <= r
      /\ metric' = metric /\ query' = query /\ max' = max /\ representatives' = representatives
      /\ current' = current /\ next' = next + 1 /\ Cl' = Cl
  BY DEF TryLabel, Cl
<1>4. /\ edges' = WithEdge(<<current, c>>, id)
      /\ Known(st) # {} => states' = states /\ worklist' = worklist
      /\ Known(st) = {} => states' = Append(states, st) /\ worklist' = Append(worklist, id)
  <2>1. Follow(Clamp, states[current], c) = st
    BY Names
  <2> HIDE DEF st, c
  <2> QED
    BY <2>1 DEF TryLabel, c
<1>5. r \in Nat /\ next \in 1..r /\ c \in Labels /\ current \in Ids
  BY <1>3 DEF RepresentativesOK, WorkOK
<1>6. states \in Seq(S) /\ n \in Nat \ {0} /\ Ids = 1..n
  <2>1. states \in Seq(S) /\ states # << >>
    BY DEF StatesOK
  <2> HIDE DEF S
  <2> QED
    BY <2>1 DEF Ids
<1>7. st \in S
  <2>1. states[current] \in S
    <3> HIDE DEF S
    <3> QED
      BY <1>5, <1>6
  <2>2. c \in Nat /\ query \in Seq(Nat) /\ Cl \in Nat
    BY <1>5, LabelsAssumption, ParamsFacts
  <2> HIDE DEF c
  <2> QED
    BY <2>1, <2>2, FollowFacts
<1> HIDE DEF c, st, S
<1>8. CASE Known(st) # {}
  <2>1. id \in Ids /\ states[id] = st /\ states' = states /\ worklist' = worklist
    BY <1>4, <1>8 DEF Known, IdOf
  <2>2. Ids' = Ids
    BY <2>1 DEF Ids
  <2> HIDE DEF id
  <2>3. StatesOK'
    BY <1>3, <2>1, <2>2 DEF StatesOK, IdsAreUnique
  <2>4. \A e : e \in DOMAIN edges' <=> e \in DOMAIN edges \/ e = <<current, c>>
    BY <1>4 DEF WithEdge
  <2>5. \A e \in DOMAIN edges' : edges'[e] = IF e = <<current, c>> THEN id ELSE edges[e]
    BY <1>4 DEF WithEdge
  <2>6. EdgesOK'
    BY <1>5, <2>1, <2>2, <2>4, <2>5 DEF EdgesOK
  <2>7. \A i, d : LinkedTo(i, d) => LinkedTo(i, d)'
    <3> SUFFICES ASSUME NEW i, NEW d, LinkedTo(i, d) PROVE LinkedTo(i, d)'
      OBVIOUS
    <3>1. CASE <<i, d>> = <<current, c>>
      BY <1>3, <2>1, <2>4, <2>5, <3>1 DEF LinkedTo, st
    <3>2. CASE <<i, d>> # <<current, c>>
      BY <1>3, <2>1, <2>4, <2>5, <3>2 DEF LinkedTo
    <3> QED
      BY <3>1, <3>2
  <2>8. \A i, d : i = current /\ d = c => LinkedTo(i, d)'
    BY <1>3, <2>1, <2>4, <2>5 DEF LinkedTo, st
  <2>9. \A i : ExpandedTo(i) => ExpandedTo(i)'
    <3> SUFFICES ASSUME NEW i, ExpandedTo(i), NEW k \in 1..r
                 PROVE  \A d : d = representatives[k] => LinkedTo(i, d)' \/ (i = current /\ k >= next + 1)
      BY <1>3 DEF ExpandedTo
    <3>1. LinkedTo(i, representatives[k]) \/ (i = current /\ k >= next)
      BY DEF ExpandedTo
    <3>2. k >= next => k = next \/ k >= next + 1
      BY <1>5
    <3> QED
      BY <2>7, <2>8, <3>1, <3>2 DEF c
  <2>10. WorkOK'
    BY <1>3, <1>5, <2>1, <2>2, <2>9 DEF WorkOK
  <2> QED
    BY <1>1, <1>2, <2>3, <2>6, <2>10
<1>9. CASE Known(st) = {}
  <2>1. id = n + 1 /\ states' = Append(states, st) /\ worklist' = Append(worklist, id)
    BY <1>4, <1>9 DEF NewId
  <2> HIDE DEF id
  <2>2. /\ states' \in Seq(S) /\ Len(states') = n + 1 /\ states' # << >> /\ states'[id] = st
        /\ \A i \in 1..n : states'[i] = states[i]
    BY <1>6, <1>7, <2>1
  <2>3. Ids' = Ids \cup {id} /\ id \notin Ids
    <3>1. Ids' = 1..(n + 1)
      BY <2>2 DEF Ids
    <3> QED
      BY <1>6, <2>1, <3>1
  <2>4. \A i \in Ids : states[i] # st
    BY <1>9 DEF Known, IdOf
  <2>5. StatesOK'
    <3>1. IdsAreUnique'
      <4> SUFFICES ASSUME NEW i \in Ids', NEW j \in Ids', states'[i] = states'[j] PROVE i = j
        BY DEF IdsAreUnique
      <4>1. CASE i \in Ids /\ j \in Ids
        BY <1>6, <2>2, <4>1 DEF StatesOK, IdsAreUnique
      <4>2. CASE i = id \/ j = id
        BY <1>6, <2>2, <2>3, <2>4, <4>2
      <4> QED
        BY <2>3, <4>1, <4>2
    <3>2. states'[1] = states[1]
      BY <1>6, <2>2
    <3>3. 2 \in Ids => 2 \in Ids' /\ states'[2] = states[2]
      BY <1>6, <2>2, <2>3
    <3> QED
      BY <1>3, <2>2, <3>1, <3>2, <3>3 DEF StatesOK, S
  <2>6. \A e : e \in DOMAIN edges' <=> e \in DOMAIN edges \/ e = <<current, c>>
    BY <1>4 DEF WithEdge
  <2>7. \A e \in DOMAIN edges' : edges'[e] = IF e = <<current, c>> THEN id ELSE edges[e]
    BY <1>4 DEF WithEdge
  <2>8. EdgesOK'
    BY <1>5, <2>3, <2>6, <2>7 DEF EdgesOK
  <2>9. \A i \in Ids : \A d : LinkedTo(i, d) => LinkedTo(i, d)'
    <3> SUFFICES ASSUME NEW i \in Ids, NEW d, LinkedTo(i, d) PROVE LinkedTo(i, d)'
      OBVIOUS
    <3>1. CASE <<i, d>> = <<current, c>>
      BY <1>3, <1>6, <2>2, <2>6, <2>7, <3>1 DEF LinkedTo, st
    <3>2. CASE <<i, d>> # <<current, c>>
      <4>1. edges[<<i, d>>] \in Ids
        BY DEF LinkedTo, EdgesOK
      <4> QED
        BY <1>3, <1>6, <2>2, <2>6, <2>7, <3>2, <4>1 DEF LinkedTo
    <3> QED
      BY <3>1, <3>2
  <2>10. \A i, d : i = current /\ d = c => LinkedTo(i, d)'
    BY <1>3, <1>5, <1>6, <2>2, <2>6, <2>7 DEF LinkedTo, st
  <2>11. \A i \in Ids : ExpandedTo(i) => ExpandedTo(i)'
    <3> SUFFICES ASSUME NEW i \in Ids, ExpandedTo(i), NEW k \in 1..r
                 PROVE  \A d : d = representatives[k] => LinkedTo(i, d)' \/ (i = current /\ k >= next + 1)
      BY <1>3 DEF ExpandedTo
    <3>1. LinkedTo(i, representatives[k]) \/ (i = current /\ k >= next)
      BY DEF ExpandedTo
    <3>2. k >= next => k = next \/ k >= next + 1
      BY <1>5
    <3> QED
      BY <2>9, <2>10, <3>1, <3>2 DEF c
  <2>12. worklist' \in Seq(Ids') /\ ToSet(worklist') = ToSet(worklist) \cup {id}
    <3> DEFINE I == Ids'
    <3>1. worklist \in Seq(Ids) /\ Ids \subseteq I /\ id \in I
      BY <2>3 DEF WorkOK
    <3> HIDE DEF I
    <3>2. worklist \in Seq(I)
      BY <3>1, Widen
    <3>3. Append(worklist, id) \in Seq(I) /\ ToSet(Append(worklist, id)) = ToSet(worklist) \cup {id}
      BY <3>1, <3>2, AppendSet
    <3> QED
      BY <2>1, <3>3 DEF I
  <2>13. \A i \in Ids' \ {1} : i \in ToSet(worklist') \/ ExpandedTo(i)'
    BY <2>3, <2>11, <2>12 DEF WorkOK
  <2>14. WorkOK'
    BY <1>3, <1>5, <2>3, <2>12, <2>13 DEF WorkOK
  <2> QED
    BY <1>1, <1>2, <2>5, <2>8, <2>14
<1> QED
  BY <1>8, <1>9

\* A transition of the filled table leads to the state that follows for the
\* label, or for the other label that stands for it.
LEMMA Transition ==
    ASSUME AutomatonInv, phase # "expand", NEW id \in Ids, NEW c \in Labels
    PROVE  /\ table[id][c] \in Ids
           /\ id = 1 => table[id][c] = 1
           /\ \E r \in Labels : /\ Alike(query, c, r) /\ (c \in QueryLabels(query) => r = c)
                                /\ states[table[id][c]] = FollowOf(metric, query, Cl, states[id], r)
<1> USE DEF AutomatonInv
<1>1. table[id][c] = RowEntry(id, c)
  BY DEF PhaseOK
<1>2. query \in Queries /\ query \in Seq(Nat) /\ Cl \in Nat
  BY ParamsFacts DEF ParamsOK
<1>3. CASE id = 1
  <2>1. c \in Nat
    BY LabelsAssumption
  <2>2. FollowOf(metric, query, Cl, DeadOf(metric, query, Cl), c) = DeadOf(metric, query, Cl)
    BY <1>2, <2>1, DeadStays
  <2> QED
    BY <1>1, <1>3, <2>2 DEF RowEntry, Alike, StatesOK
<1>4. CASE id # 1
  <2> DEFINE r == IF c \in QueryLabels(query) THEN c ELSE OtherRepresentative(query)
  <2>1. table[id][c] = edges[<<id, r>>]
    BY <1>1, <1>4 DEF RowEntry
  <2>2. /\ r \in Labels /\ Alike(query, c, r) /\ (c \in QueryLabels(query) => r = c)
    BY <1>2, OtherFacts DEF Alike, QueryLabels
  <2>3. r \in ToSet(representatives)
    BY DEF RepresentativesOK
  <2>4. PICK k \in 1..Len(representatives) : representatives[k] = r
    <3>1. representatives \in Seq(Labels)
      BY DEF RepresentativesOK
    <3> HIDE DEF r
    <3> QED
      BY <2>3, <3>1 DEF ToSet
  <2>5. id \notin ToSet(worklist) /\ next > Len(representatives)
    BY DEF PhaseOK, ToSet
  <2>6. ~(k >= next)
    BY <2>5 DEF WorkOK, RepresentativesOK
  <2>7. LinkedTo(id, r)
    <3>1. ExpandedTo(id)
      BY <1>4, <2>5 DEF WorkOK
    <3> QED
      BY <2>4, <2>6, <3>1 DEF ExpandedTo
  <2>8. edges[<<id, r>>] \in Ids
    BY <2>7 DEF LinkedTo, EdgesOK
  <2> HIDE DEF r
  <2> QED
    BY <1>4, <2>1, <2>2, <2>7, <2>8 DEF LinkedTo
<1> QED
  BY <1>3, <1>4

\* Every accepting state is marked first, and waits in bfs.
LEMMA InvFillTable ==
    ASSUME AutomatonInv, FillTable
    PROVE  AutomatonInv'
<1> USE DEF AutomatonInv
<1> DEFINE M == {id \in Ids : IsMatch(id)}
<1>1. ParamsOK' /\ RepresentativesOK' /\ StatesOK' /\ EdgesOK'
  BY DEF FillTable, ParamsOK, RepresentativesOK, StatesOK, EdgesOK, IdsAreUnique, Ids, Cl
<1>2. WorkOK'
  BY DEF FillTable, WorkOK, ExpandedTo, LinkedTo, Ids, Cl
<1>3. /\ metric' = metric /\ query' = query /\ max' = max /\ states' = states /\ Ids' = Ids
      /\ worklist' = worklist /\ next' = next /\ representatives' = representatives
      /\ worklist = << >> /\ next > Len(representatives)
      /\ reachable' = M /\ bfs' = Ascending(M) /\ phase' = "mark"
  BY DEF FillTable, Ids
<1>4. Ascending(M) \in Seq(Ids) /\ ToSet(Ascending(M)) = M
  <2>1. states \in Seq(StateSet(metric, query, Cl)) /\ M \in SUBSET Ids
    BY DEF StatesOK
  <2> HIDE DEF M
  <2> QED
    BY <2>1, AscendingFacts
<1>5. \A id : IsMatch(id)' <=> IsMatch(id)
  BY <1>3 DEF IsMatch, DistanceOf, LastEntry, OfColumns
<1>6. \A id \in M : Hope(metric, query, max, states[id])
  <2>1. Len(query) \in 0..Len(query)
    BY ParamsFacts
  <2>2. \A id \in M : Cur(metric, states[id])[Len(query)] <= max
    BY Names DEF IsMatch, DistanceOf
  <2> QED
    BY <2>1, <2>2 DEF Hope
<1>7. MarksOK'
  <2>1. bfs' \in Seq(Ids') /\ ToSet(bfs') = reachable' /\ reachable' \subseteq Ids'
    BY <1>3, <1>4
  <2> QED
    BY <1>3, <1>5, <1>6, <2>1 DEF MarksOK
<1>8. table' = [id \in Ids' |-> [c \in Labels |-> RowEntry(id, c)']]
  <2>1. table' = [id \in Ids |-> [c \in Labels |-> RowEntry(id, c)]]
    BY DEF FillTable
  <2>2. \A id, c : RowEntry(id, c)' = RowEntry(id, c)
    BY DEF FillTable, RowEntry
  <2> QED
    BY <1>3, <2>1, <2>2
<1>9. PhaseOK'
  BY <1>3, <1>7, <1>8 DEF PhaseOK
<1> QED
  BY <1>1, <1>2, <1>9

\* The predecessors of a state with hope have hope.
LEMMA InvMark ==
    ASSUME AutomatonInv, Mark
    PROVE  AutomatonInv'
<1> USE DEF AutomatonInv
<1> DEFINE h == Head(bfs)
           new == Predecessors(h) \ reachable
<1>1. ParamsOK' /\ RepresentativesOK' /\ StatesOK' /\ EdgesOK'
  BY DEF Mark, ParamsOK, RepresentativesOK, StatesOK, EdgesOK, IdsAreUnique, Ids, Cl
<1>2. WorkOK'
  BY DEF Mark, WorkOK, ExpandedTo, LinkedTo, Ids, Cl
<1>3. /\ metric' = metric /\ query' = query /\ max' = max /\ states' = states /\ Ids' = Ids
      /\ worklist' = worklist /\ next' = next /\ representatives' = representatives /\ table' = table
      /\ phase = "mark" /\ phase' = "mark" /\ bfs # << >>
      /\ reachable' = reachable \cup new /\ bfs' = Tail(bfs) \o Ascending(new)
  BY DEF Mark, Ids
<1>4. MarksOK /\ worklist = << >> /\ next > Len(representatives)
  BY <1>3 DEF PhaseOK
<1>5. new \subseteq Ids
  BY DEF Predecessors
<1>6. Ascending(new) \in Seq(Ids) /\ ToSet(Ascending(new)) = new
  <2>1. states \in Seq(StateSet(metric, query, Cl))
    BY DEF StatesOK
  <2> HIDE DEF new
  <2> QED
    BY <1>5, <2>1, AscendingFacts
<1>7. h \in Ids /\ Tail(bfs) \in Seq(Ids) /\ ToSet(bfs) = {h} \cup ToSet(Tail(bfs))
  <2>1. bfs \in Seq(Ids) /\ bfs # << >>
    BY <1>3, <1>4 DEF MarksOK
  <2> QED
    BY <2>1, TailFacts
<1> HIDE DEF h
<1>8. bfs' \in Seq(Ids) /\ ToSet(bfs') = ToSet(Tail(bfs)) \cup new
  <2> DEFINE t == Tail(bfs)
             a == Ascending(new)
             I == Ids
  <2>1. t \in Seq(I) /\ a \in Seq(I) /\ ToSet(a) = new /\ bfs' = t \o a
    BY <1>3, <1>6, <1>7
  <2> HIDE DEF t, a, I
  <2>2. t \o a \in Seq(I) /\ ToSet(t \o a) = ToSet(t) \cup ToSet(a)
    BY <2>1, ConcatSet
  <2> QED
    BY <2>1, <2>2 DEF t, I
<1>9. h \in reachable /\ Hope(metric, query, max, states[h])
  BY <1>4, <1>7 DEF MarksOK
<1>10. \A p \in new : Hope(metric, query, max, states[p])
  <2> SUFFICES ASSUME NEW p \in new PROVE Hope(metric, query, max, states[p])
    OBVIOUS
  <2>1. PICK c \in Labels : p \in Ids /\ table[p][c] = h
    BY DEF Predecessors
  <2>2. PICK r \in Labels : states[h] = FollowOf(metric, query, Cl, states[p], r)
    BY <1>3, <2>1, Transition
  <2>3. states[p] \in StateSet(metric, query, Cl)
    <3> DEFINE S == StateSet(metric, query, Cl)
    <3>1. states \in Seq(S)
      BY DEF StatesOK
    <3> HIDE DEF S
    <3>2. states[p] \in S
      BY <2>1, <3>1 DEF Ids
    <3> QED
      BY <3>2 DEF S
  <2>4. query \in Seq(Nat) /\ Cl \in Nat /\ max \in Nat /\ r \in Nat
    BY ParamsFacts, LabelsAssumption
  <2> DEFINE st == states[p]
  <2> HIDE DEF st
  <2>5. Hope(metric, query, max, FollowOf(metric, query, Cl, st, r))
    BY <1>9, <2>2 DEF st
  <2>6. Hope(metric, query, max, st)
    BY <2>3, <2>4, <2>5, HopeBack DEF st
  <2> QED
    BY <2>6 DEF st
<1>11. \A id : (IsMatch(id)' <=> IsMatch(id)) /\ Predecessors(id)' = Predecessors(id)
  BY <1>3 DEF IsMatch, DistanceOf, LastEntry, OfColumns, Predecessors
<1>12. \A id \in reachable \cup new :
          id \in ToSet(Tail(bfs)) \cup new \/ Predecessors(id) \subseteq reachable \cup new
  <2> SUFFICES ASSUME NEW id \in reachable, id \notin ToSet(Tail(bfs))
               PROVE  Predecessors(id) \subseteq reachable \cup new
    OBVIOUS
  <2>1. CASE id = h
    BY <2>1
  <2>2. CASE id # h
    BY <1>4, <1>7, <2>2 DEF MarksOK
  <2> QED
    BY <2>1, <2>2
<1>13. MarksOK'
  <2>1. /\ ToSet(bfs') \subseteq reachable' /\ reachable' \subseteq Ids'
        /\ \A id \in Ids : IsMatch(id) => id \in reachable'
        /\ \A id \in reachable' : Hope(metric, query, max, states[id])
    BY <1>3, <1>4, <1>5, <1>7, <1>8, <1>10 DEF MarksOK
  <2> HIDE DEF new
  <2> QED
    BY <1>3, <1>8, <1>11, <1>12, <2>1 DEF MarksOK
<1>14. table' = [id \in Ids' |-> [c \in Labels |-> RowEntry(id, c)']]
  <2>1. table' = [id \in Ids |-> [c \in Labels |-> RowEntry(id, c)]]
    BY <1>3 DEF PhaseOK
  <2>2. \A id, c : RowEntry(id, c)' = RowEntry(id, c)
    BY DEF Mark, RowEntry
  <2> QED
    BY <1>3, <2>1, <2>2
<1>15. PhaseOK'
  BY <1>3, <1>4, <1>13, <1>14 DEF PhaseOK
<1> QED
  BY <1>1, <1>2, <1>15

LEMMA InvReturn ==
    ASSUME AutomatonInv, Return
    PROVE  AutomatonInv'
<1> USE DEF AutomatonInv
<1>1. ParamsOK' /\ RepresentativesOK' /\ StatesOK' /\ EdgesOK'
  BY DEF Return, ParamsOK, RepresentativesOK, StatesOK, EdgesOK, IdsAreUnique, Ids, Cl
<1>2. WorkOK'
  BY DEF Return, WorkOK, ExpandedTo, LinkedTo, Ids, Cl
<1>3. MarksOK'
  BY DEF Return, PhaseOK, MarksOK, Ids, IsMatch, DistanceOf, LastEntry, OfColumns, Predecessors
<1>4. PhaseOK'
  BY <1>3 DEF Return, PhaseOK, Ids, RowEntry
<1> QED
  BY <1>1, <1>2, <1>4

LEMMA InvStutter ==
    ASSUME AutomatonInv, UNCHANGED vars
    PROVE  AutomatonInv'
<1> USE DEF AutomatonInv
<1>1. ParamsOK' /\ RepresentativesOK' /\ StatesOK' /\ EdgesOK'
  BY DEF vars, ParamsOK, RepresentativesOK, StatesOK, EdgesOK, IdsAreUnique, Ids, Cl
<1>2. WorkOK'
  BY DEF vars, WorkOK, ExpandedTo, LinkedTo, Ids, Cl
<1>3. MarksOK => MarksOK'
  BY DEF vars, MarksOK, Ids, IsMatch, DistanceOf, LastEntry, OfColumns, Predecessors
<1>4. PhaseOK'
  BY <1>3 DEF vars, PhaseOK, Ids, RowEntry
<1> QED
  BY <1>1, <1>2, <1>4

\* The automaton is what its invariant says, at every step of init.
THEOREM AutomatonInvariant == Spec => []AutomatonInv
<1>1. Init => AutomatonInv
  BY InvInit
<1>2. AutomatonInv /\ [Next]_vars => AutomatonInv'
  BY InvPopState, InvTryLabel, InvFillTable, InvMark, InvReturn, InvStutter DEF Next
<1> QED
  BY <1>1, <1>2, PTL DEF Spec

----------------------------------------------------------------------------
(* What follows from it.                                                   *)

\* Nothing that the expansion found is left without its edges, and no state
\* has two ids.
LEMMA ExpansionKept ==
    ASSUME AutomatonInv
    PROVE  ExpansionSound
<1> USE DEF AutomatonInv
<1>1. representatives \in Seq(Labels) /\ DOMAIN representatives = 1..Len(representatives)
  <2>1. representatives \in Seq(Labels)
    BY DEF RepresentativesOK
  <2> QED
    BY <2>1
<1>2. ToSet(worklist) \subseteq Ids
  BY DEF WorkOK, ToSet
<1>3. ToSet(bfs) \subseteq reachable /\ reachable \subseteq Ids
  <2>1. CASE phase = "expand"
    BY <2>1 DEF PhaseOK, ToSet
  <2>2. CASE phase # "expand"
    BY <2>2 DEF PhaseOK, MarksOK
  <2> QED
    BY <2>1, <2>2
<1>4. TypeOK
  BY <1>2, <1>3 DEF TypeOK, ParamsOK, StatesOK, WorkOK, PhaseOK, EdgesOK
<1>5. \A id, c : LinkedTo(id, c) <=> Linked(id, c)
  BY Names DEF LinkedTo, Linked
<1>6. \A id : ExpandedTo(id) => Expanded(id)
  BY <1>1, <1>5 DEF ExpandedTo, Expanded
<1>7. NoneUnexpanded
  BY <1>6 DEF NoneUnexpanded, WorkOK
<1> QED
  BY <1>4, <1>7 DEF ExpansionSound

\* After a text, the automaton is in the state that represents it.
LEMMA AfterRepresents ==
    ASSUME AutomatonInv, phase = "ready", NEW text \in Texts
    PROVE  After(text) \in Ids /\ Represents(metric, query, Cl, states[After(text)], text)
<1> USE DEF AutomatonInv
<1> DEFINE n == Len(text)
           V == Ids
           G == [p \in (1..n) \X V |-> table[p[2]][text[p[1]]]]
           a == StartId
           Is(u) == u = [k \in 0..n |-> IF k = 0 THEN a ELSE table[u[k - 1]][text[k]]]
           u == CHOOSE u : Is(u)
<1>1. n \in Nat /\ text \in Seq(Labels) /\ \A k \in 1..n : text[k] \in Labels
  <2>1. text \in Seq(Labels)
    BY TextsAssumption
  <2> QED
    BY <2>1
<1>2. After(text) = u[n]
  BY DEF After
<1>3. \A k \in 1..n : \A x \in V : G[<<k, x>>] = table[x][text[k]] /\ G[<<k, x>>] \in V
  <2> SUFFICES ASSUME NEW k \in 1..n, NEW x \in V
               PROVE  G[<<k, x>>] = table[x][text[k]] /\ G[<<k, x>>] \in V
    OBVIOUS
  <2>1. table[x][text[k]] \in Ids
    BY <1>1, Transition
  <2> QED
    BY <2>1
<1>4. a \in V /\ states[a] = StartOf(metric, query, Cl)
  <2>1. 1 \in Ids
    <3> DEFINE S == StateSet(metric, query, Cl)
    <3>1. states \in Seq(S) /\ states # << >>
      BY DEF StatesOK
    <3> HIDE DEF S
    <3> QED
      BY <3>1 DEF Ids
  <2> QED
    BY <2>1, Names DEF StartId, StatesOK
<1> HIDE DEF G, V, a
<1>5. PICK f \in [0..n -> V] : IsRecursive(f, n, a, G)
  <2>1. \A k \in 1..n : \A x \in V : G[<<k, x>>] \in V
    BY <1>3
  <2> HIDE DEF n
  <2>2. HasRecursive(n, V, a, G)
    BY <1>1, <1>4, <2>1, RecursionExists
  <2> QED
    BY <2>2 DEF HasRecursive
<1>6. \A k \in 0..n : f[k] = IF k = 0 THEN a ELSE table[f[k - 1]][text[k]]
  <2> SUFFICES ASSUME NEW k \in 0..n
               PROVE  f[k] = IF k = 0 THEN a ELSE table[f[k - 1]][text[k]]
    OBVIOUS
  <2>1. f[k] = IF k = 0 THEN a ELSE G[<<k, f[k - 1]>>]
    BY <1>5 DEF IsRecursive
  <2>2. k # 0 => k \in 1..n /\ k - 1 \in 0..n
    BY <1>1
  <2>3. k # 0 => f[k - 1] \in V
    BY <1>5, <2>2
  <2> HIDE DEF n
  <2> QED
    BY <1>3, <2>1, <2>2, <2>3
<1>7. Is(f)
  <2>1. f = [k \in 0..n |-> f[k]]
    OBVIOUS
  <2> QED
    BY <1>6, <2>1
<1>8. Is(u)
  <2> HIDE DEF Is
  <2> QED
    BY <1>7
<1>9. \A k \in 0..n : u[k] = IF k = 0 THEN a ELSE table[u[k - 1]][text[k]]
  BY <1>8
<1> HIDE DEF u
<1> DEFINE Right(k) == u[k] \in Ids /\ Represents(metric, query, Cl, states[u[k]], Pre(text, k))
           T == {k \in 0..n : ~Right(k)}
<1>10. metric \in Metrics /\ query \in Queries /\ query \in Seq(Nat) /\ Cl \in Nat
  BY ParamsFacts DEF ParamsOK
<1>11. T = {}
  <2> SUFFICES ASSUME T # {} PROVE FALSE
    OBVIOUS
  <2>1. PICK k \in T : \A j \in T : k <= j
    <3>1. T \in SUBSET Nat
      BY <1>1
    <3> HIDE DEF T
    <3> QED
      BY <3>1, Least
  <2>2. k \in 0..n /\ ~Right(k)
    OBVIOUS
  <2>3. CASE k = 0
    <3>1. Pre(text, k) = << >> /\ << >> \in Texts
      <4>1. 0 \in 0..n
        BY <1>1
      <4>2. Pre(text, 0) = << >> /\ Pre(text, 0) \in Texts
        BY <4>1, TextPrefixes
      <4> QED
        BY <2>3, <4>2
    <3>2. Represents(metric, query, Cl, StartOf(metric, query, Cl), << >>)
      BY <1>10, <3>1, StartRepresents
    <3>3. u[k] = a
      BY <1>9, <2>2, <2>3
    <3> QED
      BY <1>4, <2>2, <3>1, <3>2, <3>3 DEF V
  <2>4. CASE k # 0
    <3>1. k \in 1..n /\ k - 1 \in 0..n /\ ~(k <= k - 1)
      BY <1>1, <2>2, <2>4
    <3>2. Right(k - 1)
      BY <2>1, <3>1
    <3> DEFINE id == u[k - 1]
               c == text[k]
               t == Pre(text, k - 1)
    <3>3. id \in Ids /\ Represents(metric, query, Cl, states[id], t) /\ u[k] = table[id][c]
      BY <1>9, <2>2, <2>4, <3>2
    <3>4. c \in Labels /\ t \in Texts /\ Append(t, c) \in Texts /\ Append(t, c) = Pre(text, k)
      <4> DEFINE p == Pre(text, k)
      <4>1. p \in Texts /\ p # << >> /\ Front(p) = t /\ Last(p) = c
        BY <2>2, <2>4, TextPrefixes
      <4>2. t \in Texts
        BY <3>1, TextPrefixes
      <4> HIDE DEF p, t, c
      <4>3. p = Append(t, c)
        <5>1. p \in Seq(Labels)
          BY <4>1, TextsAssumption
        <5> QED
          BY <4>1, <5>1, AppendFrontLast
      <4>4. c \in Labels
        BY <1>1, <3>1 DEF c
      <4> QED
        BY <4>1, <4>2, <4>3, <4>4 DEF p
    <3> HIDE DEF id, c, t
    <3>5. PICK r \in Labels : /\ Alike(query, c, r)
                              /\ states[table[id][c]] = FollowOf(metric, query, Cl, states[id], r)
      BY <3>3, <3>4, Transition
    <3>6. table[id][c] \in Ids
      BY <3>3, <3>4, Transition
    <3> DEFINE st == states[id]
    <3>7. st \in StateSet(metric, query, Cl)
      <4> DEFINE S == StateSet(metric, query, Cl)
      <4>1. states \in Seq(S)
        BY DEF StatesOK
      <4> HIDE DEF S
      <4>2. states[id] \in S
        BY <3>3, <4>1 DEF Ids
      <4> QED
        BY <4>2 DEF S
    <3>8. Represents(metric, query, Cl, st, t)
      BY <3>3
    <3>9. r \in Nat
      BY LabelsAssumption
    <3> HIDE DEF st
    <3>10. Represents(metric, query, Cl, FollowOf(metric, query, Cl, st, r), Append(t, c))
      BY <1>10, <3>4, <3>5, <3>7, <3>8, <3>9, StepRepresents
    <3> QED
      BY <2>2, <3>3, <3>4, <3>5, <3>6, <3>10 DEF st
  <2> QED
    BY <2>3, <2>4
<1>12. Right(n) /\ Pre(text, n) = text
  <2>1. n \in 0..n
    BY <1>1
  <2>2. Pre(text, n) = text
    BY <2>1, TextPrefixes
  <2> QED
    BY <1>11, <2>1, <2>2
<1> QED
  BY <1>2, <1>12

\* The entries of that state are the distances to the prefixes of the query,
\* and within max exactly when these are.
LEMMA AfterEntries ==
    ASSUME AutomatonInv, phase = "ready", NEW text \in Texts, NEW i \in 0..Len(query)
    PROVE  /\ Cur(metric, states[After(text)])[i] = AtMost(Cl, Upto(metric, query, text, i))
           /\ Cur(metric, states[After(text)])[i] <= max <=> Upto(metric, query, text, i) <= max
<1>1. metric \in Metrics /\ query \in Queries /\ max \in MaxDistances
  BY DEF AutomatonInv, ParamsOK
<1> DEFINE e == Cur(metric, states[After(text)])[i]
           d == Upto(metric, query, text, i)
<1>2. e = AtMost(Cl, d)
  BY AfterRepresents DEF Represents, CutColumn
<1>3. d \in 0..ByteMax
  <2>1. d \in Nat /\ d <= ByteMax
    BY <1>1, UptoBase
  <2> HIDE DEF d
  <2> QED
    BY <2>1, WidthsAssumption
<1>4. \A x \in 0..ByteMax : AtMost(Cl, x) <= max <=> x <= max
  BY <1>1, ClampDecides DEF Cl
<1> HIDE DEF e, d
<1>5. e <= max <=> d <= max
  BY <1>2, <1>3, <1>4
<1> QED
  BY <1>2, <1>5 DEF e, d

LEMMA DistancesKept ==
    ASSUME AutomatonInv
    PROVE  DistancesExact
<1> SUFFICES ASSUME phase = "ready", NEW text \in Texts
             PROVE  LET d == Distance(metric, query, text)
                    IN  /\ DistanceOf(After(text)) = IF d < Clamp THEN d ELSE Clamp
                        /\ IsMatch(After(text)) <=> d <= max
  BY DEF DistancesExact
<1> DEFINE n == Len(query)
           d == Distance(metric, query, text)
<1>1. query \in Queries
  BY DEF AutomatonInv, ParamsOK
<1>2. n \in 0..n
  <2>1. query \in Seq(Labels)
    BY <1>1, QueriesAssumption
  <2> QED
    BY <2>1
<1>3. Upto(metric, query, text, n) = d
  BY <1>1, <1>2, PrefixFacts DEF Upto
<1>4. DistanceOf(After(text)) = Cur(metric, states[After(text)])[n]
  BY Names DEF DistanceOf
<1>5. /\ DistanceOf(After(text)) = AtMost(Clamp, d)
      /\ DistanceOf(After(text)) <= max <=> d <= max
  BY <1>2, <1>3, <1>4, AfterEntries, Names
<1> QED
  BY <1>5 DEF AtMost, IsMatch

\* Every state with hope is marked when init is done: the labels of the query
\* lead from it to an accepting state.
LEMMA AllHopefulMarked ==
    ASSUME AutomatonInv, phase = "ready"
    PROVE  \A id \in Ids : Hope(metric, query, max, states[id]) => id \in reachable
<1> USE DEF AutomatonInv
<1> DEFINE n == Len(query)
           Left(k) == \E id \in Ids \ reachable, i \in 0..n : n - i = k /\ Cur(metric, states[id])[i] <= max
           T == {k \in Nat : Left(k)}
<1>1. query \in Queries /\ query \in Seq(Nat) /\ n \in Nat /\ Cl \in Nat /\ max \in Nat
  BY ParamsFacts DEF ParamsOK
<1>2. \A i \in 0..n : n - i \in Nat
  BY <1>1
<1>3. T = {}
  <2> SUFFICES ASSUME T # {} PROVE FALSE
    OBVIOUS
  <2>1. PICK k \in T : \A j \in T : k <= j
    <3>1. T \in SUBSET Nat
      OBVIOUS
    <3> HIDE DEF T
    <3> QED
      BY <3>1, Least
  <2>2. PICK id \in Ids \ reachable, i \in 0..n : n - i = k /\ Cur(metric, states[id])[i] <= max
    OBVIOUS
  <2>3. MarksOK /\ bfs = << >> /\ ToSet(bfs) = {}
    BY DEF PhaseOK, ToSet
  <2> DEFINE S == StateSet(metric, query, Cl)
  <2>4. \A x \in Ids : states[x] \in S
    <3>1. states \in Seq(S)
      BY DEF StatesOK
    <3> HIDE DEF S
    <3> QED
      BY <3>1 DEF Ids
  <2>5. \A x \in Ids : Cur(metric, states[x])[n] <= max => x \in reachable
    BY <2>3, Names DEF MarksOK, IsMatch, DistanceOf
  <2>6. i # n
    BY <2>2, <2>5
  \* The dead state has hope only when every state is accepting.
  <2>7. Hope(metric, query, max, states[1]) => FALSE
    <3> SUFFICES ASSUME Hope(metric, query, max, states[1]) PROVE FALSE
      OBVIOUS
    <3>1. Saturated(query, Cl, Cur(metric, states[1]))
      BY <1>1, LabelsAssumption, DeadStays DEF StatesOK
    <3>2. Cl <= max
      BY <3>1 DEF Hope, Saturated
    <3>3. Cur(metric, states[id]) \in Columns(query, Cl)
      BY <2>2, <2>4, StateParts
    <3>4. Cur(metric, states[id])[n] \in 0..Cl
      <4>1. n \in 0..n
        BY <1>1
      <4> QED
        BY <3>3, <4>1 DEF Columns
    <3> DEFINE x == Cur(metric, states[id])[n]
    <3>5. x <= max
      <4>1. x \in 0..Cl
        BY <3>4
      <4> HIDE DEF x
      <4> QED
        BY <1>1, <3>2, <4>1
    <3> QED
      BY <2>2, <2>5, <3>5
  <2> DEFINE c == query[i + 1]
             to == table[id][c]
  <2>8. i + 1 \in 1..n /\ c \in Nat
    BY <1>1, <2>2, <2>6
  <2>9. c \in QueryLabels(query) /\ c \in Labels
    <3>1. query \in Seq(Labels)
      BY <1>1, QueriesAssumption
    <3>2. c \in ToSet(query)
      BY <2>8, <3>1 DEF ToSet
    <3> QED
      BY <2>8, <3>1, <3>2 DEF QueryLabels
  <2>10. to \in Ids /\ states[to] = FollowOf(metric, query, Cl, states[id], c)
    <3> HIDE DEF c
    <3> QED
      BY <2>2, <2>9, Transition
  <2> DEFINE st == states[id]
  <2>11. Cur(metric, FollowOf(metric, query, Cl, st, c))[i + 1] <= Cur(metric, st)[i]
    <3>1. st \in StateSet(metric, query, Cl)
      BY <2>2, <2>4
    <3> HIDE DEF st
    <3> QED
      BY <1>1, <2>2, <2>6, <3>1, HopeForward
  <2>12. Cur(metric, states[to])[i + 1] <= max
    <3> DEFINE x == Cur(metric, states[to])[i + 1]
               y == Cur(metric, st)[i]
    <3>1. Cur(metric, states[to]) \in Columns(query, Cl) /\ Cur(metric, st) \in Columns(query, Cl)
      BY <2>2, <2>4, <2>10, StateParts
    <3>2. x \in 0..Cl /\ y \in 0..Cl
      <4>1. i + 1 \in 0..n
        BY <2>8
      <4> QED
        BY <2>2, <3>1, <4>1 DEF Columns
    <3>3. x <= y /\ y <= max
      BY <2>2, <2>10, <2>11
    <3> HIDE DEF x, y
    <3>4. x <= max
      BY <1>1, <3>2, <3>3
    <3> QED
      BY <3>4 DEF x
  <2>13. i + 1 \in 0..n /\ n - (i + 1) = k - 1 /\ k - 1 \in Nat /\ ~(k <= k - 1)
    BY <1>1, <2>2, <2>6
  <2>14. to \in reachable
    <3> SUFFICES ASSUME to \notin reachable PROVE FALSE
      OBVIOUS
    <3> HIDE DEF to
    <3>1. Left(k - 1)
      BY <2>10, <2>12, <2>13
    <3> HIDE DEF Left
    <3>2. k - 1 \in T
      BY <2>13, <3>1
    <3> HIDE DEF T
    <3> QED
      BY <2>1, <2>13, <3>2
  <2>15. to # 1
    <3>1. Hope(metric, query, max, states[to])
      BY <2>12, <2>13 DEF Hope
    <3> QED
      BY <2>7, <3>1
  <2>16. id \in Predecessors(to)
    <3>1. id # to
      BY <2>2, <2>14
    <3> QED
      BY <2>2, <2>9, <2>15, <3>1 DEF Predecessors
  <2>17. Predecessors(to) \subseteq reachable
    BY <2>3, <2>14 DEF MarksOK
  <2> QED
    BY <2>2, <2>16, <2>17
<1> SUFFICES ASSUME NEW id \in Ids, Hope(metric, query, max, states[id]), id \notin reachable PROVE FALSE
  OBVIOUS
<1>4. PICK i \in 0..n : Cur(metric, states[id])[i] <= max
  BY DEF Hope
<1>5. Left(n - i) /\ n - i \in Nat
  BY <1>2, <1>4
<1> HIDE DEF Left
<1> QED
  BY <1>3, <1>5

LEMMA PruningKept ==
    ASSUME AutomatonInv
    PROVE  PruningIsExact
<1> SUFFICES ASSUME phase = "ready", NEW text \in Texts
             PROVE  CanMatch(After(text))
                      <=> \E i \in 0..Len(query) : Distance(metric, SubSeq(query, 1, i), text) <= max
  BY DEF PruningIsExact
<1> DEFINE id == After(text)
<1>1. id \in Ids
  BY AfterRepresents
<1>2. Hope(metric, query, max, states[id]) <=> \E i \in 0..Len(query) : Upto(metric, query, text, i) <= max
  BY AfterEntries DEF Hope
<1>3. id \in reachable <=> Hope(metric, query, max, states[id])
  <2>1. \A x \in reachable : Hope(metric, query, max, states[x])
    BY DEF AutomatonInv, PhaseOK, MarksOK
  <2> HIDE DEF id
  <2> QED
    BY <1>1, <2>1, AllHopefulMarked
<1> QED
  BY <1>2, <1>3 DEF CanMatch, Upto, Pre

\* Every state that has an id gets an edge for every label, and no state has
\* two ids (init's expansion, levenshtein_dfa.cpp and damerau_nfa.cpp).
THEOREM ExpansionIsSound == Spec => []ExpansionSound
<1>1. AutomatonInv => ExpansionSound
  BY ExpansionKept
<1> QED
  BY <1>1, AutomatonInvariant, PTL

\* The table computes the distance of the metric, for every query, text and
\* maximal distance (is_match and distance of both automata).
THEOREM DistancesAreExact == Spec => []DistancesExact
<1>1. AutomatonInv => DistancesExact
  BY DistancesKept
<1> QED
  BY <1>1, AutomatonInvariant, PTL

\* A text is pruned exactly when no continuation of it matches (can_match of
\* both automata).
THEOREM PruningExact == Spec => []PruningIsExact
<1>1. AutomatonInv => PruningIsExact
  BY PruningKept
<1> QED
  BY <1>1, AutomatonInvariant, PTL

----------------------------------------------------------------------------
(* What the search assumes of an automaton.                                *)

Near(m, q, mx, t) == \E i \in 0..Len(q) : Upto(m, q, t, i) <= mx

\* Only a text near a prefix of the query goes on to one that is.
LEMMA NearBack ==
    ASSUME AutomatonInv, phase = "ready", NEW t \in Texts, NEW c, Append(t, c) \in Texts,
           Near(metric, query, max, Append(t, c))
    PROVE  Near(metric, query, max, t)
<1>1. metric \in Metrics /\ query \in Queries /\ max \in MaxDistances
      /\ query \in Seq(Nat) /\ Cl \in Nat /\ max \in Nat
  BY ParamsFacts DEF AutomatonInv, ParamsOK
<1>2. c \in Nat
  <2>1. Append(t, c) \in Seq(Labels) /\ t \in Seq(Labels)
    BY TextsAssumption
  <2>2. c = Append(t, c)[Len(t) + 1] /\ Len(t) + 1 \in 1..Len(Append(t, c))
    BY <2>1
  <2>3. c \in Labels
    BY <2>1, <2>2
  <2> QED
    BY <2>3, LabelsAssumption
<1>3. PICK id : id = After(t)
  OBVIOUS
<1>4. id \in Ids /\ Represents(metric, query, Cl, states[id], t)
  BY <1>3, AfterRepresents
<1>5. states[id] \in StateSet(metric, query, Cl)
  BY <1>4 DEF AutomatonInv, StatesOK, Ids
<1>6. PICK st : st = FollowOf(metric, query, Cl, states[id], c)
  OBVIOUS
<1>7. Represents(metric, query, Cl, st, Append(t, c))
  BY <1>1, <1>2, <1>4, <1>5, <1>6, StepRepresents DEF Alike
<1>8. PICK i \in 0..Len(query) : Upto(metric, query, Append(t, c), i) <= max
  BY DEF Near
<1>9. Upto(metric, query, Append(t, c), i) \in 0..ByteMax
  <2>1. Upto(metric, query, Append(t, c), i) \in Nat /\ Upto(metric, query, Append(t, c), i) <= ByteMax
    BY <1>1, UptoBase
  <2> QED
    BY <2>1, WidthsAssumption
<1>10. Cur(metric, st)[i] <= max
  <2>1. Cur(metric, st)[i] = AtMost(Cl, Upto(metric, query, Append(t, c), i))
    BY <1>7 DEF Represents, CutColumn
  <2> QED
    BY <1>1, <1>8, <1>9, <2>1, ClampDecides DEF Cl
<1>11. Hope(metric, query, max, states[id])
  BY <1>1, <1>2, <1>5, <1>6, <1>10, HopeBack DEF Hope
<1> QED
  BY <1>3, <1>11, AfterEntries DEF Hope, Near

\* A text near the query has only prefixes near one of the query.
LEMMA NearPrefixes ==
    ASSUME AutomatonInv, phase = "ready", NEW t \in Texts, Near(metric, query, max, t), NEW k \in 0..Len(t)
    PROVE  Near(metric, query, max, Pre(t, k))
<1> DEFINE n == Len(t)
           Bad == {l \in Nat : l <= n /\ ~Near(metric, query, max, Pre(t, n - l))}
<1>1. n \in Nat /\ Pre(t, n) = t
  <2>1. t \in Seq(Labels)
    BY TextsAssumption
  <2>2. Len(t) \in 0..Len(t)
    BY <2>1
  <2> QED
    BY <2>1, <2>2, TextPrefixes
<1>2. Bad = {}
  <2> SUFFICES ASSUME Bad # {} PROVE FALSE
    OBVIOUS
  <2>1. PICK l \in Bad : \A j \in Bad : l <= j
    <3>1. Bad \in SUBSET Nat
      OBVIOUS
    <3> HIDE DEF Bad
    <3> QED
      BY <3>1, Least
  <2>2. l \in Nat /\ l <= n /\ ~Near(metric, query, max, Pre(t, n - l))
    OBVIOUS
  <2>3. l # 0
    BY <1>1, <2>2
  <2>4. l - 1 \in Nat /\ l - 1 <= n /\ ~(l <= l - 1) /\ n - (l - 1) \in 0..n /\ n - l \in 0..n
        /\ n - (l - 1) # 0 /\ (n - (l - 1)) - 1 = n - l
    BY <1>1, <2>2, <2>3
  <2>5. PICK u : u = Pre(t, n - (l - 1))
    OBVIOUS
  <2>6. Near(metric, query, max, u)
    BY <2>1, <2>4, <2>5
  <2>7. u \in Texts /\ u # << >> /\ Front(u) = Pre(t, n - l)
    BY <2>4, <2>5, TextPrefixes
  <2>8. Pre(t, n - l) \in Texts
    BY <2>4, TextPrefixes
  <2>9. u = Append(Pre(t, n - l), Last(u))
    <3>1. u \in Seq(Labels)
      BY <2>7, TextsAssumption
    <3> QED
      BY <2>7, <3>1, AppendFrontLast
  <2>10. Near(metric, query, max, Pre(t, n - l))
    BY <2>6, <2>7, <2>8, <2>9, NearBack
  <2> QED
    BY <2>2, <2>10
<1>3. n - k \in Nat /\ n - k <= n /\ n - (n - k) = k
  BY <1>1
<1>4. n - k \notin Bad
  <2> HIDE DEF Bad
  <2> QED
    BY <1>2
<1> QED
  BY <1>3, <1>4

\* AutomataAssumption of FuzzySearch, with this table for its parameters: After
\* is its StateBehind.  Only for the greatest max the distances differ.
ServesSearch ==
    phase = "ready" => \A w \in Texts :
        LET Matching == Distance(metric, query, w) <= max
        IN  /\ DistanceOf(After(w)) <= max <=> Matching
            /\ Matching =>
                  /\ max + 1 < WordSize => DistanceOf(After(w)) = Distance(metric, query, w)
                  /\ \A k \in 1..Len(w) : CanMatch(After(SubSeq(w, 1, k)))

LEMMA SearchServed ==
    ASSUME AutomatonInv
    PROVE  ServesSearch
<1> SUFFICES ASSUME phase = "ready", NEW w \in Texts
             PROVE  /\ DistanceOf(After(w)) <= max <=> Distance(metric, query, w) <= max
                    /\ Distance(metric, query, w) <= max =>
                          /\ max + 1 < WordSize => DistanceOf(After(w)) = Distance(metric, query, w)
                          /\ \A k \in 1..Len(w) : CanMatch(After(SubSeq(w, 1, k)))
  BY DEF ServesSearch
<1> DEFINE d == Distance(metric, query, w)
<1>1. metric \in Metrics /\ query \in Queries /\ max \in MaxDistances
      /\ query \in Seq(Nat) /\ max \in Nat
  BY ParamsFacts DEF AutomatonInv, ParamsOK
<1>2. Len(query) \in 0..Len(query)
  BY <1>1
<1>3. d = Upto(metric, query, w, Len(query))
  BY <1>1, <1>2, PrefixFacts DEF Upto
<1>4. d \in Nat /\ d <= ByteMax
  BY <1>1, <1>2, <1>3, UptoBase
<1>5. /\ DistanceOf(After(w)) = IF d < Clamp THEN d ELSE Clamp
      /\ DistanceOf(After(w)) <= max <=> d <= max
  BY DistancesKept DEF DistancesExact, IsMatch
<1>6. ASSUME d <= max, max + 1 < WordSize PROVE DistanceOf(After(w)) = d
  <2>1. ByteMax \in Nat /\ WordSize \in Nat /\ (max + 1) % WordSize = max + 1
    BY <1>1, <1>6, WidthsAssumption
  <2>2. Clamp = IF max + 1 < ByteMax THEN max + 1 ELSE ByteMax
    BY <2>1 DEF Clamp
  <2> HIDE DEF d
  <2> QED
    BY <1>1, <1>4, <1>5, <1>6, <2>1, <2>2
<1>7. ASSUME d <= max, NEW k \in 1..Len(w) PROVE CanMatch(After(SubSeq(w, 1, k)))
  <2>1. Near(metric, query, max, w)
    BY <1>2, <1>3, <1>7 DEF Near
  <2>2. k \in 0..Len(w)
    <3>1. w \in Seq(Labels)
      BY TextsAssumption
    <3> QED
      BY <3>1
  <2>3. Near(metric, query, max, Pre(w, k)) /\ Pre(w, k) \in Texts
    BY <2>1, <2>2, NearPrefixes, TextPrefixes
  <2> QED
    BY <2>3, PruningKept DEF PruningIsExact, Near, Upto, Pre
<1> QED
  BY <1>5, <1>6, <1>7

\* The tables of both DFAs do for a search what it assumes of an automaton: what
\* matches has its distance, and no state on the way to it is pruned (is_match,
\* distance and can_match, as the iterators of fuzzy_search call them).
THEOREM TablesServeSearch == Spec => []ServesSearch
<1>1. AutomatonInv => ServesSearch
  BY SearchServed
<1> QED
  BY <1>1, AutomatonInvariant, PTL
==============================================================================
