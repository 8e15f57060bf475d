--------------------------- MODULE FuzzySearch_proofs ---------------------------
(***************************************************************************)
(* Proofs about FuzzySearch, for every index, query, distance, size of the *)
(* buffers, and automaton that computes what AutomataAssumption says.      *)
(***************************************************************************)
EXTENDS FuzzySearch, SequenceTheorems, FiniteSetTheorems, WellFoundedInduction, TLAPS

\* A set of naturals has a least element: what the inductions below rest on.
LEMMA Least ==
    ASSUME NEW T \in SUBSET Nat, T # {}
    PROVE  \E x \in T : \A y \in T : x <= y
<1> DEFINE R == OpToRel(<, Nat)
<1>1. IsWellFoundedOn(R, Nat)
  BY NatLessThanWellFounded
<1>2. \A x, y \in Nat : x < y => <<x, y>> \in R
  BY DEF OpToRel
<1> HIDE DEF R
<1>3. \E x \in T : \A y \in T : ~(<<y, x>> \in R)
  BY <1>1, WFMin
<1>4. \A x, y \in Nat : ~(y < x) => x <= y
  OBVIOUS
<1> QED
  BY <1>2, <1>3, <1>4

----------------------------------------------------------------------------
(* Precedes is a strict linear order, for words of any length.             *)

Word == Seq(Nat)

\* Two words agree up to the end of one, or differ at a first place.
LEMMA FirstDifference ==
    ASSUME NEW u \in Word, NEW v \in Word
    PROVE  \E k \in 0..Len(u) : IsCommonPrefix(u, v, k)
<1> USE DEF Word
<1> DEFINE T == {k \in Nat : ~AgreeUpTo(u, v, k + 1)}
<1>1. Len(u) \in T
  BY DEF AgreeUpTo
<1>2. PICK k \in T : \A l \in T : k <= l
  <2>1. T \in SUBSET Nat /\ T # {}
    BY <1>1
  <2> HIDE DEF T
  <2> QED
    BY <2>1, Least
<1>3. k \in Nat /\ k <= Len(u) /\ ~AgreeUpTo(u, v, k + 1)
  BY <1>1, <1>2
<1>4. AgreeUpTo(u, v, k)
  <2>1. CASE k = 0
    BY <2>1 DEF AgreeUpTo
  <2>2. CASE k # 0
    <3>1. k - 1 \in Nat /\ (k - 1) + 1 = k /\ ~(k <= k - 1)
      BY <1>3, <2>2
    <3>2. k - 1 \notin T
      BY <1>2, <3>1
    <3> QED
      BY <3>1, <3>2
  <2> QED
    BY <2>1, <2>2
<1>5. k < Len(u) /\ k < Len(v) => u[k + 1] # v[k + 1]
  BY <1>3, <1>4 DEF AgreeUpTo
<1> QED
  BY <1>3, <1>4, <1>5 DEF IsCommonPrefix

LEMMA PrecedesLinear ==
    ASSUME NEW u \in Word, NEW v \in Word
    PROVE  u = v \/ Precedes(u, v) \/ Precedes(v, u)
<1> USE DEF Word
<1>1. PICK k \in 0..Len(u) : IsCommonPrefix(u, v, k)
  BY FirstDifference
<1>2. k <= Len(v) /\ AgreeUpTo(u, v, k) /\ AgreeUpTo(v, u, k)
  BY <1>1 DEF IsCommonPrefix, AgreeUpTo
<1>3. CASE k = Len(u) /\ k = Len(v)
  <2>1. Len(u) = Len(v) /\ \A i \in 1..Len(u) : u[i] = v[i]
    BY <1>2, <1>3 DEF AgreeUpTo
  <2> QED
    BY <2>1, SeqEqual
<1>4. CASE k < Len(v) /\ (k < Len(u) => u[k + 1] < v[k + 1])
  BY <1>2, <1>4 DEF Precedes
<1>5. CASE k < Len(u) /\ (k < Len(v) => v[k + 1] < u[k + 1])
  BY <1>2, <1>5 DEF Precedes
<1>6. k < Len(u) /\ k < Len(v) => u[k + 1] \in Nat /\ v[k + 1] \in Nat /\ u[k + 1] # v[k + 1]
  BY <1>1 DEF IsCommonPrefix
<1> QED
  BY <1>2, <1>3, <1>4, <1>5, <1>6

LEMMA PrecedesTransitive ==
    ASSUME NEW u \in Word, NEW v \in Word, NEW w \in Word, Precedes(u, v), Precedes(v, w)
    PROVE  Precedes(u, w)
<1> USE DEF Word
<1>1. PICK k \in 0..Len(u) : AgreeUpTo(u, v, k) /\ k < Len(v) /\ (k < Len(u) => u[k + 1] < v[k + 1])
  BY DEF Precedes
<1>2. PICK l \in 0..Len(v) : AgreeUpTo(v, w, l) /\ l < Len(w) /\ (l < Len(v) => v[l + 1] < w[l + 1])
  BY DEF Precedes
<1>3. CASE k < l
  <2>1. AgreeUpTo(u, w, k) /\ k < Len(w) /\ v[k + 1] = w[k + 1]
    BY <1>1, <1>2, <1>3 DEF AgreeUpTo
  <2> QED
    BY <1>1, <2>1 DEF Precedes
<1>4. CASE l < k
  <2>1. AgreeUpTo(u, w, l) /\ l < Len(u) /\ u[l + 1] = v[l + 1] /\ l < Len(v)
    BY <1>1, <1>2, <1>4 DEF AgreeUpTo
  <2> QED
    BY <1>2, <2>1 DEF Precedes
<1>5. CASE k = l
  <2>1. AgreeUpTo(u, w, k) /\ k < Len(w) /\ v[k + 1] < w[k + 1]
    BY <1>1, <1>2, <1>5 DEF AgreeUpTo
  <2>2. k < Len(u) => u[k + 1] < w[k + 1]
    BY <1>1, <1>2, <1>5, <2>1
  <2> QED
    BY <2>1, <2>2 DEF Precedes
<1> QED
  BY <1>3, <1>4, <1>5

LEMMA PrecedesIrreflexive ==
    ASSUME NEW u \in Word
    PROVE  ~Precedes(u, u)
BY DEF Precedes, Word

----------------------------------------------------------------------------


Text == Seq(Byte)

LEMMA TextWord ==
    ASSUME NEW u \in Text
    PROVE  u \in Word /\ Len(u) \in Nat
<1>1. Byte \subseteq Nat
  BY DEF Byte
<1>2. u \in Seq(Byte)
  BY DEF Text
<1>3. u \in Seq(Nat)
  BY <1>1, <1>2, SeqMonotonic
<1> QED
  BY <1>3 DEF Word

----------------------------------------------------------------------------
(* The labels of a node.                                                   *)

Increasing(s) == \A i, j \in DOMAIN s : i < j => s[i] < s[j]

\* A finite set of naturals can be put in order: by induction on its size.
LEMMA SortedExists ==
    ASSUME NEW L \in SUBSET Nat, IsFiniteSet(L)
    PROVE  \E s \in [1..Cardinality(L) -> L] : Increasing(s) /\ L = {s[i] : i \in DOMAIN s}
<1> DEFINE Sortable(X) == \E s \in [1..Cardinality(X) -> X] : Increasing(s) /\ X = {s[i] : i \in DOMAIN s}
           T == {n \in Nat : \E X \in SUBSET Nat : IsFiniteSet(X) /\ Cardinality(X) = n /\ ~Sortable(X)}
<1> SUFFICES ASSUME ~Sortable(L) PROVE FALSE
  OBVIOUS
<1> HIDE DEF Sortable
<1>1. T \in SUBSET Nat /\ T # {}
  BY FS_CardinalityType
<1>2. PICK n \in T : \A m \in T : n <= m
  <2> HIDE DEF T
  <2> QED
    BY <1>1, Least
<1>3. PICK X \in SUBSET Nat : n \in Nat /\ IsFiniteSet(X) /\ Cardinality(X) = n /\ ~Sortable(X)
  OBVIOUS
<1>4. X # {}
  <2> SUFFICES ASSUME X = {} PROVE FALSE
    OBVIOUS
  <2>1. n = 0
    BY <1>3, FS_EmptySet
  <2> DEFINE s == [i \in 1..0 |-> 0]
  <2>2. s \in [1..0 -> X] /\ Increasing(s) /\ X = {s[i] : i \in DOMAIN s}
    BY DEF Increasing
  <2> HIDE DEF s
  <2> QED
    BY <1>3, <2>1, <2>2 DEF Sortable
<1>5. PICK x \in X : \A y \in X : x <= y
  BY <1>4, Least
<1> DEFINE Y == X \ {x}
<1>6. IsFiniteSet(Y) /\ Cardinality(Y) = n - 1 /\ Y \in SUBSET Nat
  BY <1>3, FS_RemoveElement
<1>7. n # 0
  BY <1>3, <1>4, FS_EmptySet
<1>8. Sortable(Y)
  <2>1. n - 1 \in Nat /\ ~(n <= n - 1)
    BY <1>3, <1>7
  <2>2. n - 1 \notin T
    BY <1>2, <2>1
  <2> HIDE DEF Y
  <2> QED
    BY <1>6, <2>1, <2>2
<1> HIDE DEF T
<1>9. PICK s \in [1..(n - 1) -> Y] : Increasing(s) /\ Y = {s[i] : i \in 1..(n - 1)}
  BY <1>6, <1>8 DEF Sortable
<1> DEFINE r == [i \in 1..n |-> IF i = 1 THEN x ELSE s[i - 1]]
<1>10. \A i \in 1..n : i # 1 => i - 1 \in 1..(n - 1) /\ s[i - 1] \in Y
  BY <1>3, <1>9
<1>11. r \in [1..n -> X]
  BY <1>10
<1>12. Increasing(r)
  <2> SUFFICES ASSUME NEW i \in 1..n, NEW j \in 1..n, i < j PROVE r[i] < r[j]
    BY DEF Increasing
  <2>1. j # 1 /\ r[j] = s[j - 1] /\ r[j] \in Y
    BY <1>10
  <2>2. CASE i = 1
    <3>1. r[i] = x /\ x <= r[j] /\ r[j] # x /\ x \in Nat /\ r[j] \in Nat
      BY <1>5, <2>1, <2>2
    <3> QED
      BY <3>1
  <2>3. CASE i # 1
    <3>1. i - 1 < j - 1 /\ i - 1 \in 1..(n - 1) /\ j - 1 \in 1..(n - 1) /\ r[i] = s[i - 1]
      BY <1>10, <2>1, <2>3
    <3> QED
      BY <1>9, <2>1, <3>1 DEF Increasing
  <2> QED
    BY <2>2, <2>3
<1>13. X = {r[i] : i \in 1..n}
  <2>1. \A i \in 1..n : r[i] \in X
    BY <1>11
  <2>2. ASSUME NEW y \in X
        PROVE  \E i \in 1..n : r[i] = y
    <3>1. CASE y = x
      BY <1>3, <1>7, <3>1
    <3>2. CASE y # x
      <4>1. PICK i \in 1..(n - 1) : s[i] = y
        BY <1>9, <3>2
      <4>2. i + 1 \in 1..n /\ i + 1 # 1 /\ (i + 1) - 1 = i
        BY <1>3
      <4> QED
        BY <4>1, <4>2
    <3> QED
      BY <3>1, <3>2
  <2> HIDE DEF r
  <2> QED
    BY <2>1, <2>2
<1> HIDE DEF r
<1> QED
  BY <1>3, <1>11, <1>12, <1>13 DEF Sortable

\* The words that lead from the node of a text to a final node.
Right(dict, p) == {u \in Text : p \o u \in dict}

\* The word w goes on behind the text p.
GoesOn(p, w) == AgreeUpTo(p, w, Len(p)) /\ Len(p) < Len(w)

LEMMA RightWords ==
    ASSUME NEW dict \in SUBSET Text, NEW p \in Text
    PROVE  /\ IsFinal(Right(dict, p)) <=> p \in dict
           /\ {Head(u) : u \in Right(dict, p) \ {<< >>}} = {w[Len(p) + 1] : w \in {v \in dict : GoesOn(p, v)}}
<1> USE DEF Text
<1>1. p \o << >> = p
  OBVIOUS
<1>2. IsFinal(Right(dict, p)) <=> p \in dict
  BY <1>1 DEF IsFinal, Right
<1>3. ASSUME NEW u \in Right(dict, p), u # << >>
      PROVE  p \o u \in dict /\ GoesOn(p, p \o u) /\ (p \o u)[Len(p) + 1] = Head(u)
  BY <1>3 DEF Right, GoesOn, AgreeUpTo
<1>4. ASSUME NEW w \in dict, GoesOn(p, w)
      PROVE  LET u == SubSeq(w, Len(p) + 1, Len(w))
             IN  u \in Right(dict, p) /\ u # << >> /\ Head(u) = w[Len(p) + 1]
  <2> DEFINE u == SubSeq(w, Len(p) + 1, Len(w))
  <2>1. w \in Seq(Byte) /\ Len(p) < Len(w) /\ \A i \in 1..Len(p) : w[i] = p[i]
    BY <1>4 DEF GoesOn, AgreeUpTo
  <2>2. /\ u \in Seq(Byte) /\ Len(u) = Len(w) - Len(p)
        /\ \A i \in 1..Len(u) : u[i] = w[Len(p) + i]
    BY <2>1
  <2> HIDE DEF u
  <2>3. p \o u \in Seq(Byte) /\ Len(p \o u) = Len(w)
    BY <2>1, <2>2
  <2>4. \A i \in 1..Len(w) : (p \o u)[i] = w[i]
    BY <2>1, <2>2
  <2>5. p \o u = w
    BY <2>1, <2>3, <2>4, SeqEqual
  <2>6. u \in Right(dict, p) /\ u # << >> /\ Head(u) = w[Len(p) + 1]
    <3>1. u # << >> /\ Head(u) = u[1] /\ u[1] = w[Len(p) + 1]
      BY <2>1, <2>2
    <3>2. u \in Right(dict, p)
      BY <2>2, <2>5 DEF Right
    <3> QED
      BY <3>1, <3>2
  <2> QED
    BY <2>6 DEF u
<1>5. \A u \in Right(dict, p) \ {<< >>} : \E w \in {v \in dict : GoesOn(p, v)} : w[Len(p) + 1] = Head(u)
  BY <1>3
<1>6. \A w \in {v \in dict : GoesOn(p, v)} : \E u \in Right(dict, p) \ {<< >>} : Head(u) = w[Len(p) + 1]
  BY <1>4
<1> QED
  BY <1>2, <1>5, <1>6

\* The labels of a node are in order, and are those that words go on with.
LEMMA LabelsFacts ==
    ASSUME NEW dict \in SUBSET Text, NEW p \in Text
    PROVE  LET labels == LabelsOf(Right(dict, p)) IN
           /\ labels \in Seq(Byte) /\ Len(labels) \in Nat
           /\ \A i, j \in 1..Len(labels) : i < j => labels[i] < labels[j]
           /\ \A w \in dict : GoesOn(p, w) => \E i \in 1..Len(labels) : labels[i] = w[Len(p) + 1]
           /\ \A i \in 1..Len(labels) : \E w \in dict : GoesOn(p, w) /\ labels[i] = w[Len(p) + 1]
<1> DEFINE L == {w[Len(p) + 1] : w \in {v \in dict : GoesOn(p, v)}}
           labels == LabelsOf(Right(dict, p))
           n == Cardinality(L)
<1>1. L \subseteq Byte
  <2> SUFFICES ASSUME NEW w \in dict, GoesOn(p, w) PROVE w[Len(p) + 1] \in Byte
    OBVIOUS
  <2>1. w \in Seq(Byte) /\ Len(p) \in Nat /\ Len(p) + 1 \in 1..Len(w)
    BY DEF GoesOn, Text
  <2> QED
    BY <2>1
<1>2. {Head(u) : u \in Right(dict, p) \ {<< >>}} = L
  BY RightWords
<1> HIDE DEF L
<1>3. IsFiniteSet(L) /\ L \in SUBSET Nat /\ n \in Nat
  <2>1. IsFiniteSet(Byte) /\ Byte \subseteq Nat
    <3>1. 0 \in Int /\ 255 \in Int
      OBVIOUS
    <3>2. IsFiniteSet(0..255)
      BY <3>1, FS_Interval
    <3> QED
      BY <3>2 DEF Byte
  <2>2. IsFiniteSet(L)
    BY <1>1, <2>1, FS_Subset
  <2> QED
    BY <1>1, <2>1, <2>2, FS_CardinalityType
<1>4. labels = CHOOSE s \in [1..n -> L] : Increasing(s)
  BY <1>2 DEF LabelsOf, Increasing
<1>5. PICK s \in [1..n -> L] : Increasing(s) /\ L = {s[i] : i \in DOMAIN s}
  BY <1>3, SortedExists
<1> HIDE DEF labels
<1>6. labels \in [1..n -> L] /\ Increasing(labels)
  BY <1>4, <1>5
<1>7. labels \in Seq(Byte) /\ Len(labels) = n
  <2>1. labels \in [1..n -> Byte]
    BY <1>1, <1>6
  <2> QED
    BY <1>3, <2>1
<1>8. \A c \in L : \E i \in 1..n : labels[i] = c
  <2>1. labels \in Injection(1..n, L)
    <3>1. \A i, j \in 1..n : labels[i] = labels[j] => i = j
      <4> SUFFICES ASSUME NEW i \in 1..n, NEW j \in 1..n, labels[i] = labels[j], i # j PROVE FALSE
        OBVIOUS
      <4>1. labels[i] \in Nat /\ labels[j] \in Nat
        BY <1>3, <1>6
      <4>2. i < j => labels[i] < labels[j]
        BY <1>6 DEF Increasing
      <4>3. j < i => labels[j] < labels[i]
        BY <1>6 DEF Increasing
      <4> QED
        BY <1>3, <4>1, <4>2, <4>3
    <3> QED
      BY <1>6, <3>1 DEF Injection, IsInjective
  <2>2. IsFiniteSet(1..n) /\ Cardinality(1..n) = n
    BY <1>3, FS_Interval
  <2>3. labels \in Surjection(1..n, L)
    BY <1>3, <2>1, <2>2, FS_Injection
  <2> QED
    BY <2>3 DEF Surjection
<1>9. \A w \in dict : GoesOn(p, w) => \E i \in 1..n : labels[i] = w[Len(p) + 1]
  BY <1>8 DEF L
<1>10. \A i \in 1..n : \E w \in dict : GoesOn(p, w) /\ labels[i] = w[Len(p) + 1]
  BY <1>6 DEF L
<1> QED
  BY <1>3, <1>6, <1>7, <1>9, <1>10 DEF labels, Increasing

----------------------------------------------------------------------------
(* The states of an automaton.                                             *)

\* f gives the states behind the first labels of a text, up to the n-th.
IsRun(A, text, n, f) ==
    f = [k \in 0..n |-> IF k = 0 THEN Start(A) ELSE Advance(A, f[k - 1], text[k])]

LEMMA RunExists ==
    ASSUME NEW A, NEW text \in Text
    PROVE  \A n \in Nat : \E f : IsRun(A, text, n, f)
<1> DEFINE T == {n \in Nat : ~\E f : IsRun(A, text, n, f)}
<1> SUFFICES ASSUME T # {} PROVE FALSE
  OBVIOUS
<1>1. PICK n \in T : \A m \in T : n <= m
  <2>1. T \in SUBSET Nat
    OBVIOUS
  <2> HIDE DEF T
  <2> QED
    BY <2>1, Least
<1>2. CASE n = 0
  <2> DEFINE f == [k \in 0..0 |-> Start(A)]
  <2>1. IsRun(A, text, 0, f)
    BY DEF IsRun
  <2> HIDE DEF f
  <2> QED
    BY <1>2, <2>1
<1>3. CASE n # 0
  <2>1. n \in Nat /\ n - 1 \in Nat /\ ~(n <= n - 1)
    BY <1>3
  <2>2. n - 1 \notin T
    BY <1>1, <2>1
  <2>3. PICK f : IsRun(A, text, n - 1, f)
    BY <2>1, <2>2
  <2> DEFINE g == [k \in 0..n |-> IF k = n THEN Advance(A, f[n - 1], text[n]) ELSE f[k]]
  <2>4. \A k \in 0..(n - 1) : g[k] = f[k] /\ f[k] = IF k = 0 THEN Start(A) ELSE Advance(A, f[k - 1], text[k])
    BY <2>1, <2>3 DEF IsRun
  <2>5. \A k \in 0..n : g[k] = IF k = 0 THEN Start(A) ELSE Advance(A, g[k - 1], text[k])
    <3> SUFFICES ASSUME NEW k \in 0..n PROVE g[k] = IF k = 0 THEN Start(A) ELSE Advance(A, g[k - 1], text[k])
      OBVIOUS
    <3>1. CASE k = n
      BY <1>3, <2>1, <2>4, <3>1
    <3>2. CASE k # n
      <4>1. k \in 0..(n - 1) /\ (k # 0 => k - 1 \in 0..(n - 1))
        BY <2>1, <3>2
      <4> HIDE DEF g
      <4> QED
        BY <2>4, <4>1
    <3> QED
      BY <3>1, <3>2
  <2>6. g = [k \in 0..n |-> g[k]]
    OBVIOUS
  <2> HIDE DEF g
  <2>7. IsRun(A, text, n, g)
    BY <2>5, <2>6 DEF IsRun
  <2> QED
    BY <2>7
<1> QED
  BY <1>2, <1>3

\* Two texts lead to the same state as far as they agree.
LEMMA RunsAgree ==
    ASSUME NEW A, NEW u, NEW v, NEW m \in Nat, NEW n \in Nat, NEW f, NEW g,
           IsRun(A, u, m, f), IsRun(A, v, n, g),
           NEW k \in Nat, k <= m, k <= n, \A i \in 1..k : u[i] = v[i]
    PROVE  f[k] = g[k]
<1> DEFINE T == {i \in 0..k : f[i] # g[i]}
<1> SUFFICES ASSUME T # {} PROVE FALSE
  OBVIOUS
<1>1. PICK i \in T : \A j \in T : i <= j
  <2>1. T \in SUBSET Nat
    OBVIOUS
  <2> HIDE DEF T
  <2> QED
    BY <2>1, Least
<1>2. i \in 0..k /\ i \in 0..m /\ i \in 0..n /\ f[i] # g[i]
  OBVIOUS
<1>3. f[i] = IF i = 0 THEN Start(A) ELSE Advance(A, f[i - 1], u[i])
  BY <1>2 DEF IsRun
<1>4. g[i] = IF i = 0 THEN Start(A) ELSE Advance(A, g[i - 1], v[i])
  BY <1>2 DEF IsRun
<1>5. i # 0
  BY <1>2, <1>3, <1>4
<1>6. i - 1 \in 0..k /\ ~(i <= i - 1) /\ u[i] = v[i]
  BY <1>2, <1>5
<1>7. f[i - 1] = g[i - 1]
  BY <1>1, <1>6
<1> QED
  BY <1>2, <1>3, <1>4, <1>5, <1>6, <1>7

LEMMA StateIsRun ==
    ASSUME NEW A, NEW text \in Text
    PROVE  \E f : IsRun(A, text, Len(text), f) /\ StateBehind(A, text) = f[Len(text)]
<1> DEFINE f == CHOOSE g : IsRun(A, text, Len(text), g)
<1>1. Len(text) \in Nat
  BY TextWord
<1>2. IsRun(A, text, Len(text), f)
  BY <1>1, RunExists
<1>3. StateBehind(A, text) = f[Len(text)]
  BY DEF StateBehind, IsRun
<1> QED
  BY <1>2, <1>3

LEMMA StateSteps ==
    ASSUME NEW A, NEW p \in Text, NEW c \in Byte
    PROVE  /\ StateBehind(A, << >>) = Start(A)
           /\ StateBehind(A, Append(p, c)) = Advance(A, StateBehind(A, p), c)
<1>1. /\ p \in Seq(Byte) /\ Len(p) \in Nat
      /\ Append(p, c) \in Seq(Byte) /\ Len(Append(p, c)) = Len(p) + 1
      /\ Append(p, c)[Len(p) + 1] = c /\ \A i \in 1..Len(p) : Append(p, c)[i] = p[i]
      /\ << >> \in Seq(Byte) /\ Len(<< >>) = 0
  BY DEF Text
<1>2. StateBehind(A, << >>) = Start(A)
  <2>1. PICK f : IsRun(A, << >>, 0, f) /\ StateBehind(A, << >>) = f[0]
    BY <1>1, StateIsRun DEF Text
  <2> QED
    BY <2>1 DEF IsRun
<1>3. StateBehind(A, Append(p, c)) = Advance(A, StateBehind(A, p), c)
  <2> DEFINE n == Len(p)
             m == n + 1
             q == Append(p, c)
  <2>1. PICK f : IsRun(A, p, n, f) /\ StateBehind(A, p) = f[n]
    BY StateIsRun
  <2>2. q \in Text /\ p \in Text /\ Len(q) = m /\ n \in Nat /\ m \in Nat /\ n <= m /\ m - 1 = n /\ m # 0
    BY <1>1 DEF Text
  <2>3. PICK g : IsRun(A, q, m, g) /\ StateBehind(A, q) = g[m]
    BY <2>2, StateIsRun
  <2>4. \A i \in 1..n : p[i] = q[i]
    BY <1>1
  <2> HIDE DEF n, m, q
  <2>5. f[n] = g[n]
    <3>1. n <= n
      BY <2>2
    <3>2. n \in Nat /\ m \in Nat /\ n <= m
      BY <2>2
    <3>3. IsRun(A, p, n, f) /\ IsRun(A, q, m, g)
      BY <2>1, <2>3
    <3> QED
      BY <2>4, <3>1, <3>2, <3>3, RunsAgree
  <2>6. g[m] = Advance(A, g[n], q[m])
    BY <2>2, <2>3 DEF IsRun
  <2>7. q[m] = c
    BY <1>1 DEF n, m, q
  <2> QED
    BY <2>1, <2>3, <2>5, <2>6, <2>7 DEF n, m, q
<1> QED
  BY <1>2, <1>3

----------------------------------------------------------------------------
(* The words that the walk has passed.                                     *)

\* In the node of the text p, when its first j labels are done.
Passed(p, labels, j, w) ==
    \/ Precedes(w, p) \/ w = p
    \/ GoesOn(p, w) /\ \E i \in 1..j : labels[i] = w[Len(p) + 1]

LEMMA AppendFacts ==
    ASSUME NEW p \in Text, NEW c \in Byte
    PROVE  /\ Append(p, c) \in Text /\ Len(Append(p, c)) = Len(p) + 1
           /\ Append(p, c)[Len(p) + 1] = c
           /\ \A i \in 1..Len(p) : Append(p, c)[i] = p[i]
BY DEF Text

\* Before a label is taken, the words behind it are all that is left.
LEMMA PassedBefore ==
    ASSUME NEW dict \in SUBSET Text, NEW p \in Text,
           NEW j \in Nat, j < Len(LabelsOf(Right(dict, p))),
           NEW w \in dict
    PROVE  LET labels == LabelsOf(Right(dict, p))
           IN  Passed(p, labels, j, w) <=> Precedes(w, Append(p, labels[j + 1]))
<1> DEFINE labels == LabelsOf(Right(dict, p))
           c == labels[j + 1]
           q == Append(p, c)
           n == Len(p)
<1>1. /\ labels \in Seq(Byte) /\ Len(labels) \in Nat
      /\ \A i, k \in 1..Len(labels) : i < k => labels[i] < labels[k]
      /\ GoesOn(p, w) => \E i \in 1..Len(labels) : labels[i] = w[n + 1]
  BY LabelsFacts
<1> HIDE DEF labels
<1>2. j + 1 \in 1..Len(labels) /\ c \in Byte
  <2>1. j + 1 \in 1..Len(labels)
    BY <1>1 DEF labels
  <2> QED
    BY <1>1, <2>1
<1>3. p \in Word /\ w \in Word /\ n \in Nat /\ Len(w) \in Nat
  BY TextWord
<1> HIDE DEF c
<1>4. q \in Text /\ Len(q) = n + 1 /\ q[n + 1] = c /\ \A i \in 1..n : q[i] = p[i]
  BY <1>2, AppendFacts
<1> HIDE DEF q, n
<1>5. ASSUME Passed(p, labels, j, w)
      PROVE  Precedes(w, q)
  <2>1. CASE Precedes(w, p)
    <3>1. PICK k \in 0..Len(w) : AgreeUpTo(w, p, k) /\ k < Len(p) /\ (k < Len(w) => w[k + 1] < p[k + 1])
      BY <2>1 DEF Precedes
    <3>2. AgreeUpTo(w, q, k) /\ k < Len(q) /\ q[k + 1] = p[k + 1]
      BY <1>3, <1>4, <3>1 DEF AgreeUpTo, n
    <3> QED
      BY <3>1, <3>2 DEF Precedes
  <2>2. CASE w = p
    <3>1. AgreeUpTo(w, q, n) /\ n < Len(q) /\ n = Len(w) /\ n \in 0..Len(w)
      BY <1>3, <1>4, <2>2 DEF AgreeUpTo, n
    <3>2. n < Len(w) => w[n + 1] < q[n + 1]
      BY <1>3, <3>1
    <3> QED
      BY <3>1, <3>2 DEF Precedes
  <2>3. CASE GoesOn(p, w) /\ \E i \in 1..j : labels[i] = w[n + 1]
    <3>1. PICK i \in 1..j : labels[i] = w[n + 1]
      BY <2>3
    <3>2. i \in 1..Len(labels) /\ i < j + 1
      BY <1>1, <1>2
    <3>3. w[n + 1] < q[n + 1]
      BY <1>1, <1>2, <1>4, <3>1, <3>2 DEF c
    <3>4. AgreeUpTo(w, q, n) /\ n < Len(q) /\ n \in 0..Len(w)
      BY <1>3, <1>4, <2>3 DEF AgreeUpTo, GoesOn, n
    <3> QED
      BY <3>3, <3>4 DEF Precedes
  <2> QED
    BY <1>5, <2>1, <2>2, <2>3 DEF Passed, n
<1>6. ASSUME Precedes(w, q)
      PROVE  Passed(p, labels, j, w)
  <2>1. PICK k \in 0..Len(w) : AgreeUpTo(w, q, k) /\ k < Len(q) /\ (k < Len(w) => w[k + 1] < q[k + 1])
    BY <1>6 DEF Precedes
  <2>2. CASE k < n
    <3>1. AgreeUpTo(w, p, k) /\ k < Len(p) /\ q[k + 1] = p[k + 1]
      BY <1>3, <1>4, <2>1, <2>2 DEF AgreeUpTo, n
    <3>2. Precedes(w, p)
      BY <2>1, <3>1 DEF Precedes
    <3> QED
      BY <3>2 DEF Passed
  <2>3. CASE k = n /\ Len(w) = n
    <3>1. Len(w) = Len(p) /\ \A i \in 1..Len(w) : w[i] = p[i]
      BY <1>3, <1>4, <2>1, <2>3 DEF AgreeUpTo, n
    <3>2. w = p
      BY <1>3, <3>1, SeqEqual DEF Word
    <3> QED
      BY <3>2 DEF Passed
  <2>4. CASE k = n /\ Len(w) # n
    <3>1. GoesOn(p, w) /\ w[n + 1] < c
      BY <1>3, <1>4, <2>1, <2>4 DEF AgreeUpTo, GoesOn, n
    <3>2. PICK i \in 1..Len(labels) : labels[i] = w[n + 1]
      BY <1>1, <3>1
    <3>3. i <= j
      <4> SUFFICES ASSUME ~(i <= j) PROVE FALSE
        OBVIOUS
      <4>1. i = j + 1 \/ j + 1 < i
        BY <1>1
      <4>2. labels[i] \in Nat /\ c \in Nat
        <5>1. labels[i] \in Byte
          BY <1>1
        <5>2. Byte \subseteq Nat
          BY DEF Byte
        <5> QED
          BY <1>2, <5>1, <5>2
      <4>3. c = labels[i] \/ c < labels[i]
        BY <1>1, <1>2, <4>1 DEF c
      <4> QED
        BY <3>1, <3>2, <4>2, <4>3
    <3>4. i \in 1..j
      BY <3>3
    <3> QED
      BY <3>1, <3>2, <3>4 DEF Passed, n
  <2>5. k = n \/ k < n
    BY <1>3, <1>4, <2>1
  <2> QED
    BY <2>2, <2>3, <2>4, <2>5
<1> QED
  BY <1>5, <1>6 DEF q, c, labels

\* A node is done when its labels are.
LEMMA PassedAll ==
    ASSUME NEW dict \in SUBSET Text, NEW p \in Text, NEW w \in dict
    PROVE  LET labels == LabelsOf(Right(dict, p))
           IN  Passed(p, labels, Len(labels), w) <=> Precedes(w, p) \/ AgreeUpTo(p, w, Len(p))
<1> DEFINE labels == LabelsOf(Right(dict, p))
<1>1. GoesOn(p, w) => \E i \in 1..Len(labels) : labels[i] = w[Len(p) + 1]
  BY LabelsFacts
<1>2. p \in Word /\ w \in Word /\ Len(p) \in Nat /\ Len(w) \in Nat
  BY TextWord
<1>3. AgreeUpTo(p, w, Len(p)) => w = p \/ GoesOn(p, w)
  <2> SUFFICES ASSUME AgreeUpTo(p, w, Len(p)), Len(w) = Len(p) PROVE w = p
    BY <1>2 DEF AgreeUpTo, GoesOn
  <2>1. \A i \in 1..Len(w) : w[i] = p[i]
    BY DEF AgreeUpTo
  <2> QED
    BY <1>2, <2>1, SeqEqual DEF Word
<1>4. w = p \/ GoesOn(p, w) => AgreeUpTo(p, w, Len(p))
  BY <1>2 DEF AgreeUpTo, GoesOn
<1> HIDE DEF labels
<1> QED
  BY <1>1, <1>3, <1>4 DEF Passed, labels

\* A label that is done adds the words behind it.
LEMMA PassedNext ==
    ASSUME NEW dict \in SUBSET Text, NEW p \in Text,
           NEW j \in Nat, j < Len(LabelsOf(Right(dict, p))),
           NEW w \in dict
    PROVE  LET labels == LabelsOf(Right(dict, p))
               q == Append(p, labels[j + 1])
           IN  Passed(p, labels, j + 1, w) <=> Passed(p, labels, j, w) \/ AgreeUpTo(q, w, Len(q))
<1> DEFINE labels == LabelsOf(Right(dict, p))
           c == labels[j + 1]
           q == Append(p, c)
<1>1. labels \in Seq(Byte) /\ Len(labels) \in Nat
  BY LabelsFacts
<1> HIDE DEF labels
<1>2. j + 1 \in 1..Len(labels) /\ c \in Byte
  <2>1. j + 1 \in 1..Len(labels)
    BY <1>1 DEF labels
  <2> QED
    BY <1>1, <2>1
<1>3. p \in Word /\ w \in Word /\ Len(p) \in Nat /\ Len(w) \in Nat
  BY TextWord
<1> HIDE DEF c
<1>4. Len(q) = Len(p) + 1 /\ q[Len(p) + 1] = c /\ \A i \in 1..Len(p) : q[i] = p[i]
  BY <1>2, AppendFacts
<1> HIDE DEF q
<1>5. AgreeUpTo(q, w, Len(q)) <=> GoesOn(p, w) /\ w[Len(p) + 1] = c
  BY <1>3, <1>4 DEF AgreeUpTo, GoesOn
<1>6. 1..(j + 1) = 1..j \cup {j + 1}
  OBVIOUS
<1>7. Passed(p, labels, j + 1, w) <=> Passed(p, labels, j, w) \/ (GoesOn(p, w) /\ labels[j + 1] = w[Len(p) + 1])
  BY <1>6 DEF Passed
<1> QED
  BY <1>5, <1>7 DEF q, c, labels

\* What has been passed precedes what has not.
LEMMA PassedOrder ==
    ASSUME NEW dict \in SUBSET Text, NEW p \in Text,
           NEW j \in Nat, j <= Len(LabelsOf(Right(dict, p))),
           NEW v \in dict, NEW w \in dict,
           Passed(p, LabelsOf(Right(dict, p)), j, v), ~Passed(p, LabelsOf(Right(dict, p)), j, w)
    PROVE  Precedes(v, w)
<1> DEFINE labels == LabelsOf(Right(dict, p))
<1>1. labels \in Seq(Byte) /\ Len(labels) \in Nat
  BY LabelsFacts
<1>2. /\ p \in Word /\ v \in Word /\ w \in Word
      /\ Len(p) \in Nat /\ Len(v) \in Nat /\ Len(w) \in Nat
  BY TextWord
<1>3. CASE j < Len(labels)
  <2> DEFINE q == Append(p, labels[j + 1])
  <2>1. Precedes(v, q) /\ ~Precedes(w, q)
    BY <1>3, PassedBefore
  <2>2. q \in Word
    <3>1. j + 1 \in 1..Len(labels)
      BY <1>1, <1>3
    <3>2. labels[j + 1] \in Byte
      BY <1>1, <3>1
    <3>3. q \in Text
      BY <3>2, AppendFacts
    <3> QED
      BY <3>3, TextWord
  <2> HIDE DEF q
  <2>3. w = q \/ Precedes(q, w)
    BY <1>2, <2>1, <2>2, PrecedesLinear
  <2> QED
    BY <1>2, <2>1, <2>2, <2>3, PrecedesTransitive
<1>4. CASE j = Len(labels)
  <2>1. Precedes(v, p) \/ AgreeUpTo(p, v, Len(p))
    BY <1>4, PassedAll
  <2>2. ~Precedes(w, p) /\ ~AgreeUpTo(p, w, Len(p))
    BY <1>4, PassedAll
  <2>3. w # p
    BY <1>2, <2>2 DEF AgreeUpTo
  <2>4. Precedes(p, w)
    BY <1>2, <2>2, <2>3, PrecedesLinear
  <2>5. CASE Precedes(v, p)
    BY <1>2, <2>4, <2>5, PrecedesTransitive
  <2>6. CASE AgreeUpTo(p, v, Len(p))
    <3>1. PICK k \in 0..Len(p) : AgreeUpTo(p, w, k) /\ k < Len(w) /\ (k < Len(p) => p[k + 1] < w[k + 1])
      BY <2>4 DEF Precedes
    <3>2. k # Len(p)
      BY <2>2, <3>1
    <3>3. k < Len(p) /\ k < Len(v) /\ k \in 0..Len(v)
      BY <1>2, <2>6, <3>1, <3>2 DEF AgreeUpTo
    <3>4. AgreeUpTo(v, w, k) /\ v[k + 1] = p[k + 1]
      BY <1>2, <2>6, <3>1, <3>3 DEF AgreeUpTo
    <3> QED
      BY <3>1, <3>3, <3>4 DEF Precedes
  <2> QED
    BY <2>1, <2>5, <2>6
<1> QED
  BY <1>1, <1>3, <1>4

----------------------------------------------------------------------------
(* The stack.                                                              *)

\* The text of the i-th frame of a stack, and what the stack says of it.
Spelled(p, i) == SubSeq(p, 1, i - 1)
LabelsAt(s, p, i) == LabelsOf(Right(s.dict, Spelled(p, i)))
FrameSet(s) == [node : SUBSET Text, state : {StateBehind(AutomatonOf(s), u) : u \in Text},
                depth : Nat, next : Nat]
FrameOK(s, frame, p, i) ==
    /\ frame.node = Right(s.dict, Spelled(p, i))
    /\ frame.state = StateBehind(AutomatonOf(s), Spelled(p, i))
    /\ frame.depth = i - 1
    /\ frame.next \in 0..Len(LabelsAt(s, p, i))
StackOK(s, stk, p) ==
    /\ stk \in Seq(FrameSet(s)) /\ p \in Text
    /\ Len(stk) <= MaxDepth /\ Len(p) <= MaxDepth /\ Len(stk) <= Len(p) + 1
    /\ \A i \in 1..Len(stk) : FrameOK(s, stk[i], p, i)
    /\ \A i \in 1..(Len(stk) - 1) : stk[i].next # 0 /\ LabelsAt(s, p, i)[stk[i].next] = p[i]

LEMMA SpelledFacts ==
    ASSUME NEW p \in Text, NEW i \in 1..(Len(p) + 1)
    PROVE  /\ Spelled(p, i) \in Text /\ Len(Spelled(p, i)) = i - 1
           /\ \A j \in 1..(i - 1) : Spelled(p, i)[j] = p[j]
           /\ i # Len(p) + 1 => Spelled(p, i + 1) = Append(Spelled(p, i), p[i])
           /\ Spelled(p, 1) = << >>
           /\ Spelled(p, Len(p) + 1) = p
<1> USE DEF Text, Spelled
<1>1. /\ Spelled(p, i) \in Text /\ Len(Spelled(p, i)) = i - 1
      /\ \A j \in 1..(i - 1) : Spelled(p, i)[j] = p[j]
  OBVIOUS
<1>2. Spelled(p, 1) = << >>
  OBVIOUS
<1>3. Spelled(p, Len(p) + 1) = p
  <2>1. Spelled(p, Len(p) + 1) \in Seq(Byte) /\ Len(Spelled(p, Len(p) + 1)) = Len(p)
        /\ \A j \in 1..Len(p) : Spelled(p, Len(p) + 1)[j] = p[j]
    OBVIOUS
  <2> QED
    BY <2>1, SeqEqual
<1>4. ASSUME i # Len(p) + 1
      PROVE  Spelled(p, i + 1) = Append(Spelled(p, i), p[i])
  <2> DEFINE a == Spelled(p, i + 1)
             u == Spelled(p, i)
             b == Append(u, p[i])
  <2>1. a \in Seq(Byte) /\ Len(a) = i /\ \A j \in 1..i : a[j] = p[j]
    BY <1>4
  <2>2. p[i] \in Byte
    BY <1>4
  <2>3. u \in Seq(Byte) /\ Len(u) = i - 1 /\ \A j \in 1..(i - 1) : u[j] = p[j]
    OBVIOUS
  <2> HIDE DEF a, u
  <2>4. b \in Seq(Byte) /\ Len(b) = i /\ b[i] = p[i] /\ \A j \in 1..(i - 1) : b[j] = u[j]
    BY <2>2, <2>3
  <2>5. \A j \in 1..i : b[j] = p[j]
    <3>1. \A j \in 1..i : j = i \/ j \in 1..(i - 1)
      OBVIOUS
    <3> QED
      BY <2>3, <2>4, <3>1
  <2> HIDE DEF b
  <2>6. a = b
    BY <2>1, <2>4, <2>5, SeqEqual
  <2> QED
    BY <2>6 DEF a, b, u
<1> QED
  BY <1>1, <1>2, <1>3, <1>4

\* The child of the node of p is the node of p and the label.
LEMMA ChildFacts ==
    ASSUME NEW dict \in SUBSET Text, NEW p \in Text, NEW c \in Byte
    PROVE  /\ Right(dict, << >>) = dict
           /\ ChildOf(Right(dict, p), c) = Right(dict, Append(p, c))
<1> USE DEF Text
<1>1. Right(dict, << >>) = dict
  <2>1. \A u \in Seq(Byte) : << >> \o u = u
    OBVIOUS
  <2> QED
    BY <2>1 DEF Right
<1> DEFINE q == Append(p, c)
<1>2. \A u \in Seq(Byte) : u # << >> => u = <<Head(u)>> \o Tail(u) /\ Head(u) \in Byte /\ Tail(u) \in Seq(Byte)
  <2> SUFFICES ASSUME NEW u \in Seq(Byte), u # << >>
               PROVE  u = <<Head(u)>> \o Tail(u) /\ Head(u) \in Byte /\ Tail(u) \in Seq(Byte)
    OBVIOUS
  <2>1. Head(u) \in Byte /\ Tail(u) \in Seq(Byte) /\ Len(Tail(u)) = Len(u) - 1
        /\ Head(u) = u[1] /\ \A i \in 1..(Len(u) - 1) : Tail(u)[i] = u[i + 1]
    OBVIOUS
  <2> DEFINE v == <<Head(u)>> \o Tail(u)
  <2>2. v \in Seq(Byte) /\ Len(v) = Len(u)
    BY <2>1
  <2>3. \A i \in 1..Len(u) : v[i] = u[i]
    BY <2>1
  <2> HIDE DEF v
  <2>4. v = u
    BY <2>2, <2>3, SeqEqual
  <2> QED
    BY <2>1, <2>4 DEF v
<1>3. \A v \in Seq(Byte) : p \o (<<c>> \o v) = q \o v
  <2> SUFFICES ASSUME NEW v \in Seq(Byte) PROVE p \o (<<c>> \o v) = q \o v
    OBVIOUS
  <2> DEFINE a == p \o (<<c>> \o v)
             b == q \o v
  <2>1. a \in Seq(Byte) /\ Len(a) = Len(p) + 1 + Len(v)
    OBVIOUS
  <2>2. b \in Seq(Byte) /\ Len(b) = Len(p) + 1 + Len(v)
    OBVIOUS
  <2>3. \A i \in 1..(Len(p) + 1 + Len(v)) : a[i] = b[i]
    OBVIOUS
  <2> HIDE DEF a, b
  <2>4. a = b
    BY <2>1, <2>2, <2>3, SeqEqual
  <2> QED
    BY <2>4 DEF a, b
<1>4. ASSUME NEW v \in ChildOf(Right(dict, p), c)
      PROVE  v \in Right(dict, q)
  <2>1. PICK u \in Right(dict, p) : u # << >> /\ Head(u) = c /\ v = Tail(u)
    BY DEF ChildOf
  <2>2. u \in Seq(Byte) /\ p \o u \in dict
    BY DEF Right
  <2>3. u = <<c>> \o v /\ v \in Seq(Byte)
    BY <1>2, <2>1, <2>2
  <2> QED
    BY <1>3, <2>2, <2>3 DEF Right
<1>5. ASSUME NEW v \in Right(dict, q)
      PROVE  v \in ChildOf(Right(dict, p), c)
  <2> DEFINE u == <<c>> \o v
  <2>1. v \in Seq(Byte) /\ q \o v \in dict
    BY DEF Right
  <2>2. u \in Seq(Byte) /\ u # << >> /\ Head(u) = c
    BY <2>1
  <2>3. Tail(u) = v
    <3>1. Tail(u) \in Seq(Byte) /\ Len(Tail(u)) = Len(v) /\ \A i \in 1..Len(v) : Tail(u)[i] = v[i]
      BY <2>1
    <3> QED
      BY <2>1, <3>1, SeqEqual
  <2>4. u \in Right(dict, p)
    BY <1>3, <2>1, <2>2 DEF Right
  <2> HIDE DEF u
  <2> QED
    BY <2>2, <2>3, <2>4 DEF ChildOf
<1>6. ChildOf(Right(dict, p), c) = Right(dict, q)
  BY <1>4, <1>5
<1> QED
  BY <1>1, <1>6

LEMMA RightTexts ==
    ASSUME NEW dict, NEW p
    PROVE  Right(dict, p) \in SUBSET Text
BY DEF Right

\* The top frame, and the text and the stack of its next transition.
TopOf(stk) == stk[Len(stk)]
TopLabels(s, stk, p) == LabelsAt(s, p, Len(stk))
NewText(s, stk, p) == Append(Spelled(p, Len(stk)), TopLabels(s, stk, p)[TopOf(stk).next + 1])
Bumped(stk) == [stk EXCEPT ![Len(stk)].next = @ + 1]

LEMMA TopFacts ==
    ASSUME NEW s, s.dict \in SUBSET Text, NEW stk, NEW p, StackOK(s, stk, p), stk # << >>
    PROVE  /\ Len(stk) \in 1..(Len(p) + 1) /\ Len(stk) \in Nat /\ Len(p) \in Nat /\ p \in Text
           /\ TopOf(stk) \in FrameSet(s) /\ FrameOK(s, TopOf(stk), p, Len(stk))
           /\ TopLabels(s, stk, p) \in Seq(Byte) /\ Len(TopLabels(s, stk, p)) \in Nat
           /\ TopOf(stk).next \in Nat /\ TopOf(stk).next <= Len(TopLabels(s, stk, p))
           /\ Spelled(p, Len(stk)) \in Text
<1> DEFINE n == Len(stk)
<1>1. stk \in Seq(FrameSet(s)) /\ p \in Text /\ n <= Len(p) + 1 /\ \A i \in 1..n : FrameOK(s, stk[i], p, i)
  BY DEF StackOK
<1>2. n \in Nat /\ Len(p) \in Nat /\ n # 0
  BY <1>1, TextWord
<1>3. n \in 1..n /\ n \in 1..(Len(p) + 1)
  BY <1>1, <1>2
<1>4. stk[n] \in FrameSet(s)
  BY <1>1, <1>3
<1>5. Spelled(p, n) \in Text
  BY <1>1, <1>3, SpelledFacts
<1>6. LabelsAt(s, p, n) \in Seq(Byte) /\ Len(LabelsAt(s, p, n)) \in Nat
  BY <1>5, LabelsFacts DEF LabelsAt
<1>7. FrameOK(s, stk[n], p, n)
  BY <1>1, <1>3
<1>8. stk[n].next \in Nat /\ stk[n].next <= Len(LabelsAt(s, p, n))
  BY <1>6, <1>7 DEF FrameOK
<1> QED
  BY <1>1, <1>2, <1>3, <1>4, <1>5, <1>6, <1>7, <1>8 DEF TopOf, TopLabels

LEMMA NewTextFacts ==
    ASSUME NEW s, s.dict \in SUBSET Text, NEW stk, NEW p, StackOK(s, stk, p), stk # << >>,
           TopOf(stk).next < Len(TopLabels(s, stk, p))
    PROVE  LET q == NewText(s, stk, p)
               c == TopLabels(s, stk, p)[TopOf(stk).next + 1]
           IN  /\ q \in Text /\ Len(q) = Len(stk) /\ q = Append(Spelled(p, Len(stk)), c) /\ c \in Byte
               /\ \A i \in 1..Len(stk) : Spelled(q, i) = Spelled(p, i)
               /\ \A i \in 1..(Len(stk) - 1) : q[i] = p[i]
               /\ q[Len(stk)] = c /\ Spelled(q, Len(stk) + 1) = q
<1> DEFINE n == Len(stk)
           labels == TopLabels(s, stk, p)
           j == TopOf(stk).next
           c == labels[j + 1]
           u == Spelled(p, n)
           q == Append(u, c)
<1>1. /\ n \in 1..(Len(p) + 1) /\ n \in Nat /\ Len(p) \in Nat /\ p \in Text /\ u \in Text
      /\ labels \in Seq(Byte) /\ j \in Nat
  BY TopFacts
<1>2. c \in Byte
  <2>1. j + 1 \in 1..Len(labels)
    BY <1>1
  <2> HIDE DEF labels, j
  <2> QED
    BY <1>1, <2>1
<1>3. Len(u) = n - 1 /\ \A i \in 1..(n - 1) : u[i] = p[i]
  BY <1>1, SpelledFacts
<1> HIDE DEF n, u, c
<1>4. q \in Text /\ Len(q) = n /\ q[n] = c /\ \A i \in 1..(n - 1) : q[i] = u[i]
  BY <1>1, <1>2, <1>3, AppendFacts
<1> HIDE DEF q
<1>5. \A i \in 1..(n - 1) : q[i] = p[i]
  BY <1>3, <1>4
<1>6. ASSUME NEW i \in 1..n
      PROVE  Spelled(q, i) = Spelled(p, i)
  <2>1. i \in 1..(Len(p) + 1) /\ i \in 1..(Len(q) + 1)
    BY <1>1, <1>4
  <2>2. Spelled(p, i) \in Text /\ Len(Spelled(p, i)) = i - 1 /\ \A k \in 1..(i - 1) : Spelled(p, i)[k] = p[k]
    BY <1>1, <2>1, SpelledFacts
  <2>3. Spelled(q, i) \in Text /\ Len(Spelled(q, i)) = i - 1 /\ \A k \in 1..(i - 1) : Spelled(q, i)[k] = q[k]
    BY <1>4, <2>1, SpelledFacts
  <2>4. \A k \in 1..(i - 1) : k \in 1..(n - 1)
    BY <1>1
  <2>5. \A k \in 1..(i - 1) : Spelled(q, i)[k] = Spelled(p, i)[k]
    BY <1>5, <2>2, <2>3, <2>4
  <2> QED
    BY <2>2, <2>3, <2>5, SeqEqual DEF Text
<1>7. Spelled(q, n + 1) = q
  <2>1. n \in 1..(Len(q) + 1)
    BY <1>1, <1>4
  <2> QED
    BY <1>4, <2>1, SpelledFacts
<1> QED
  BY <1>2, <1>4, <1>5, <1>6, <1>7 DEF q, c, u, n, NewText

LEMMA BumpedFacts ==
    ASSUME NEW s, NEW stk \in Seq(FrameSet(s)), stk # << >>
    PROVE  /\ Bumped(stk) \in Seq(FrameSet(s)) /\ Len(Bumped(stk)) = Len(stk) /\ Bumped(stk) # << >>
           /\ \A i \in 1..Len(stk) :
                 /\ i # Len(stk) => Bumped(stk)[i] = stk[i]
                 /\ Bumped(stk)[i].node = stk[i].node /\ Bumped(stk)[i].state = stk[i].state
                 /\ Bumped(stk)[i].depth = stk[i].depth
           /\ TopOf(Bumped(stk)).next = TopOf(stk).next + 1
<1> DEFINE n == Len(stk)
           f == stk[n]
           g == [f EXCEPT !.next = @ + 1]
<1>1. n \in Nat /\ n \in 1..n
  OBVIOUS
<1>2. f \in FrameSet(s)
  BY <1>1
<1> HIDE DEF f
<1>3. f.next \in Nat
  BY <1>2 DEF FrameSet
<1>4. g \in FrameSet(s) /\ g.node = f.node /\ g.state = f.state /\ g.depth = f.depth /\ g.next = f.next + 1
  <2> DEFINE k == f.next + 1
             h == [f EXCEPT !.next = k]
  <2>1. k \in Nat
    BY <1>3
  <2> HIDE DEF k
  <2>2. h \in FrameSet(s) /\ h.node = f.node /\ h.state = f.state /\ h.depth = f.depth /\ h.next = k
    BY <1>2, <2>1 DEF FrameSet
  <2>3. g = h
    BY DEF k
  <2> QED
    BY <2>2, <2>3 DEF k
<1>5. Bumped(stk) = [stk EXCEPT ![n] = g]
  BY DEF Bumped, f
<1> HIDE DEF g
<1>6. Bumped(stk) \in Seq(FrameSet(s)) /\ Len(Bumped(stk)) = n
  BY <1>1, <1>4, <1>5
<1>7. \A i \in 1..n : Bumped(stk)[i] = IF i = n THEN g ELSE stk[i]
  BY <1>1, <1>5
<1> QED
  BY <1>1, <1>4, <1>6, <1>7 DEF TopOf, f

\* Popping, advancing and taking a transition keep the stack.
LEMMA StackPop ==
    ASSUME NEW s, s.dict \in SUBSET Text, NEW stk, NEW p, StackOK(s, stk, p), stk # << >>
    PROVE  /\ StackOK(s, SubSeq(stk, 1, Len(stk) - 1), p)
           /\ Len(SubSeq(stk, 1, Len(stk) - 1)) = Len(stk) - 1
           /\ \A i \in 1..(Len(stk) - 1) : SubSeq(stk, 1, Len(stk) - 1)[i] = stk[i]
<1> DEFINE n == Len(stk)
           rest == SubSeq(stk, 1, n - 1)
<1>1. stk \in Seq(FrameSet(s)) /\ n \in Nat /\ n # 0 /\ n <= MaxDepth /\ n <= Len(p) + 1
      /\ p \in Text /\ Len(p) <= MaxDepth /\ Len(p) \in Nat /\ MaxDepth \in Nat
  BY TextWord, BoundsAssumption DEF StackOK
<1>2. rest \in Seq(FrameSet(s)) /\ Len(rest) = n - 1 /\ \A i \in 1..(n - 1) : rest[i] = stk[i]
  <2>1. 1 \in 1..(n + 1) /\ n - 1 \in 0..n /\ (n - 1) - 1 + 1 = n - 1
    BY <1>1
  <2>2. rest \in Seq(FrameSet(s))
    BY <1>1, <2>1, SubSeqProperties
  <2>3. Len(rest) = n - 1
    BY <1>1, <2>1, SubSeqProperties
  <2> QED
    BY <1>1, <2>1, <2>2, <2>3
<1> HIDE DEF rest
<1>3. \A i \in 1..Len(rest) : FrameOK(s, rest[i], p, i)
  <2>1. \A i \in 1..Len(rest) : i \in 1..n /\ rest[i] = stk[i]
    BY <1>1, <1>2
  <2> QED
    BY <2>1 DEF StackOK
<1>4. \A i \in 1..(Len(rest) - 1) : rest[i].next # 0 /\ LabelsAt(s, p, i)[rest[i].next] = p[i]
  <2>1. \A i \in 1..(Len(rest) - 1) : i \in 1..(n - 1) /\ rest[i] = stk[i]
    BY <1>1, <1>2
  <2> QED
    BY <2>1 DEF StackOK
<1>5. Len(rest) <= MaxDepth /\ Len(rest) <= Len(p) + 1
  BY <1>1, <1>2
<1>6. StackOK(s, rest, p)
  BY <1>1, <1>2, <1>3, <1>4, <1>5 DEF StackOK
<1> QED
  BY <1>2, <1>6 DEF rest

\* q is the path as it was, or with the label of the transition behind it.
LEMMA StackAdvance ==
    ASSUME NEW s, s.dict \in SUBSET Text, NEW stk, NEW p, StackOK(s, stk, p), stk # << >>,
           TopOf(stk).next < Len(TopLabels(s, stk, p)),
           NEW q \in {p, NewText(s, stk, p)}
    PROVE  StackOK(s, Bumped(stk), q)
<1> DEFINE n == Len(stk)
           new == Bumped(stk)
<1>1. /\ stk \in Seq(FrameSet(s)) /\ n \in Nat /\ n # 0 /\ n <= MaxDepth /\ n <= Len(p) + 1
      /\ p \in Text /\ Len(p) <= MaxDepth /\ Len(p) \in Nat /\ MaxDepth \in Nat
      /\ \A i \in 1..n : FrameOK(s, stk[i], p, i)
      /\ \A i \in 1..(n - 1) : stk[i].next # 0 /\ LabelsAt(s, p, i)[stk[i].next] = p[i]
  BY TextWord, BoundsAssumption DEF StackOK
<1>2. /\ new \in Seq(FrameSet(s)) /\ Len(new) = n
      /\ \A i \in 1..n : /\ i # n => new[i] = stk[i]
                         /\ new[i].node = stk[i].node /\ new[i].state = stk[i].state
                         /\ new[i].depth = stk[i].depth
      /\ TopOf(new).next = TopOf(stk).next + 1
  BY <1>1, BumpedFacts
<1>3. /\ q \in Text /\ Len(q) <= MaxDepth /\ n <= Len(q) + 1
      /\ \A i \in 1..n : Spelled(q, i) = Spelled(p, i)
      /\ \A i \in 1..(n - 1) : q[i] = p[i]
  <2>1. CASE q = p
    BY <1>1, <2>1
  <2>2. CASE q = NewText(s, stk, p)
    <3>1. /\ q \in Text /\ Len(q) = n
          /\ \A i \in 1..n : Spelled(q, i) = Spelled(p, i)
          /\ \A i \in 1..(n - 1) : q[i] = p[i]
      BY <2>2, NewTextFacts
    <3> QED
      BY <1>1, <3>1
  <2> QED
    BY <2>1, <2>2
<1>4. /\ TopOf(stk).next \in Nat /\ Len(TopLabels(s, stk, p)) \in Nat
      /\ new[n].next = stk[n].next + 1 /\ new[n].next \in 0..Len(LabelsAt(s, p, n))
  <2>1. TopOf(stk).next \in Nat /\ Len(TopLabels(s, stk, p)) \in Nat
    BY TopFacts
  <2> QED
    BY <1>2, <2>1 DEF TopOf, TopLabels
<1> HIDE DEF new
<1>5. ASSUME NEW i \in 1..n
      PROVE  FrameOK(s, new[i], q, i)
  <2>1. FrameOK(s, stk[i], p, i) /\ Spelled(q, i) = Spelled(p, i)
    BY <1>1, <1>3
  <2>2. LabelsAt(s, q, i) = LabelsAt(s, p, i)
    BY <2>1 DEF LabelsAt
  <2>3. new[i].next \in 0..Len(LabelsAt(s, p, i))
    <3>1. CASE i = n
      BY <1>4, <3>1
    <3>2. CASE i # n
      BY <1>2, <2>1, <3>2 DEF FrameOK
    <3> QED
      BY <3>1, <3>2
  <2> QED
    BY <1>2, <2>1, <2>2, <2>3 DEF FrameOK
<1>6. ASSUME NEW i \in 1..(n - 1)
      PROVE  new[i].next # 0 /\ LabelsAt(s, q, i)[new[i].next] = q[i]
  <2>1. i \in 1..n /\ i # n
    BY <1>1
  <2>2. Spelled(q, i) = Spelled(p, i) /\ q[i] = p[i] /\ new[i] = stk[i]
    BY <1>2, <1>3, <2>1
  <2> QED
    BY <1>1, <2>2 DEF LabelsAt
<1>7. StackOK(s, new, q)
  BY <1>1, <1>2, <1>3, <1>5, <1>6 DEF StackOK
<1> QED
  BY <1>7 DEF new

LEMMA StackPush ==
    ASSUME NEW s, s.dict \in SUBSET Text, NEW stk, NEW p, StackOK(s, stk, p), stk # << >>,
           TopOf(stk).next < Len(TopLabels(s, stk, p)), Len(stk) < MaxDepth,
           NEW f, LET q == NewText(s, stk, p)
                  IN  f = Frame(Right(s.dict, q), StateBehind(AutomatonOf(s), q), Len(stk))
    PROVE  StackOK(s, Append(Bumped(stk), f), NewText(s, stk, p))
<1> DEFINE n == Len(stk)
           b == Bumped(stk)
           new == Append(b, f)
           q == NewText(s, stk, p)
<1>1. StackOK(s, b, q)
  BY StackAdvance
<1>2. /\ q \in Text /\ Len(q) = n /\ q[n] = TopLabels(s, stk, p)[TopOf(stk).next + 1]
      /\ Spelled(q, n) = Spelled(p, n) /\ Spelled(q, n + 1) = q
  <2>1. n \in 1..n
    BY TopFacts
  <2> QED
    BY <2>1, NewTextFacts
<1>3. n \in Nat /\ n # 0 /\ TopOf(stk).next \in Nat /\ MaxDepth \in Nat
  BY TopFacts, BoundsAssumption
<1>4. Len(b) = n /\ b \in Seq(FrameSet(s)) /\ b[n].next = TopOf(stk).next + 1
  BY BumpedFacts DEF StackOK, TopOf
<1>5. f \in FrameSet(s) /\ FrameOK(s, f, q, n + 1)
  <2> HIDE DEF n, q
  <2>1. /\ f.node = Right(s.dict, q) /\ f.state = StateBehind(AutomatonOf(s), q)
        /\ f.depth = n /\ f.next = 0
        /\ f = [node |-> f.node, state |-> f.state, depth |-> f.depth, next |-> f.next]
    BY DEF Frame, n, q
  <2>2. f \in FrameSet(s)
    BY <1>2, <1>3, <2>1, RightTexts DEF FrameSet
  <2>3. 0 \in 0..Len(LabelsAt(s, q, n + 1))
    <3>1. Len(LabelsAt(s, q, n + 1)) \in Nat
      BY <1>2, LabelsFacts DEF LabelsAt
    <3> QED
      BY <3>1
  <2>4. FrameOK(s, f, q, n + 1)
    <3>1. Spelled(q, n + 1) = q /\ f.depth = (n + 1) - 1
      BY <1>2, <1>3, <2>1
    <3> QED
      BY <2>1, <2>3, <3>1 DEF FrameOK
  <2> QED
    BY <2>2, <2>4
<1>6. LabelsAt(s, q, n)[b[n].next] = q[n] /\ b[n].next # 0
  BY <1>2, <1>3, <1>4 DEF LabelsAt, TopLabels
<1> HIDE DEF b, q
<1>7. new \in Seq(FrameSet(s)) /\ Len(new) = n + 1 /\ new[n + 1] = f /\ \A i \in 1..n : new[i] = b[i]
  BY <1>4, <1>5
<1> HIDE DEF new
<1>8. ASSUME NEW i \in 1..(n + 1)
      PROVE  FrameOK(s, new[i], q, i)
  <2>1. CASE i = n + 1
    BY <1>5, <1>7, <2>1
  <2>2. CASE i # n + 1
    <3>1. i \in 1..n /\ i \in 1..Len(b)
      BY <1>3, <1>4, <2>2
    <3> QED
      BY <1>1, <1>7, <3>1 DEF StackOK
  <2> QED
    BY <2>1, <2>2
<1>9. ASSUME NEW i \in 1..n
      PROVE  new[i].next # 0 /\ LabelsAt(s, q, i)[new[i].next] = q[i]
  <2>1. CASE i = n
    BY <1>6, <1>7, <2>1
  <2>2. CASE i # n
    <3>1. i \in 1..(Len(b) - 1)
      BY <1>3, <1>4, <2>2
    <3> QED
      BY <1>1, <1>7, <3>1 DEF StackOK
  <2> QED
    BY <2>1, <2>2
<1>10. Len(new) <= MaxDepth /\ Len(q) <= MaxDepth /\ Len(new) <= Len(q) + 1 /\ Len(new) - 1 = n
  BY <1>2, <1>3, <1>7
<1> QED
  BY <1>2, <1>7, <1>8, <1>9, <1>10 DEF StackOK, new, b, q

----------------------------------------------------------------------------
(* The walk: what its steps pass.                                          *)

PassedIn(s, stk, p, w) ==
    stk = << >> \/ Passed(Spelled(p, Len(stk)), TopLabels(s, stk, p), TopOf(stk).next, w)

\* Popping passes nothing: the label above was counted when it was taken.
LEMMA WalkPop ==
    ASSUME NEW s, s.dict \in SUBSET Text, NEW stk, NEW p, StackOK(s, stk, p), stk # << >>,
           TopOf(stk).next >= Len(TopLabels(s, stk, p)), NEW w \in s.dict
    PROVE  PassedIn(s, SubSeq(stk, 1, Len(stk) - 1), p, w) <=> PassedIn(s, stk, p, w)
<1> DEFINE n == Len(stk)
           rest == SubSeq(stk, 1, n - 1)
           u == Spelled(p, n)
<1>1. /\ n \in 1..(Len(p) + 1) /\ n \in Nat /\ Len(p) \in Nat /\ p \in Text /\ u \in Text
      /\ Len(TopLabels(s, stk, p)) \in Nat /\ TopOf(stk).next \in Nat
      /\ TopOf(stk).next <= Len(TopLabels(s, stk, p))
  BY TopFacts
<1>2. PassedIn(s, stk, p, w) <=> Precedes(w, u) \/ AgreeUpTo(u, w, Len(u))
  <2>1. TopOf(stk).next = Len(TopLabels(s, stk, p))
    BY <1>1
  <2>2. Passed(u, TopLabels(s, stk, p), TopOf(stk).next, w) <=> Precedes(w, u) \/ AgreeUpTo(u, w, Len(u))
    BY <1>1, <2>1, PassedAll DEF TopLabels, LabelsAt
  <2> QED
    BY <2>2 DEF PassedIn
<1>3. /\ StackOK(s, rest, p) /\ Len(rest) = n - 1
      /\ \A i \in 1..(n - 1) : rest[i] = stk[i]
  BY StackPop
<1>4. CASE n = 1
  <2>1. rest = << >>
    BY <1>1, <1>3, <1>4 DEF StackOK
  <2>2. u = << >>
    BY <1>1, <1>4, SpelledFacts
  <2>3. AgreeUpTo(u, w, Len(u))
    BY <2>2, TextWord DEF AgreeUpTo
  <2> QED
    BY <1>2, <2>1, <2>3 DEF PassedIn
<1>5. CASE n # 1
  <2> DEFINE v == Spelled(p, n - 1)
             labels == LabelsOf(Right(s.dict, v))
             k == stk[n - 1].next
  <2>1. rest # << >> /\ n - 1 \in 1..(n - 1) /\ n - 1 \in 1..(Len(p) + 1) /\ n - 1 # Len(p) + 1
    <3>1. n - 1 # 0 /\ n - 1 \in 1..(n - 1) /\ n - 1 \in 1..(Len(p) + 1) /\ n - 1 # Len(p) + 1
      <4>1. n \in Nat /\ n # 0 /\ n # 1 /\ n <= Len(p) + 1 /\ Len(p) \in Nat
        BY <1>1, <1>5
      <4> HIDE DEF n
      <4> QED
        BY <4>1
    <3>2. Len(rest) = n - 1
      BY <1>3
    <3> HIDE DEF rest
    <3> QED
      BY <3>1, <3>2
  <2>2. TopOf(rest) = stk[n - 1] /\ TopLabels(s, rest, p) = labels /\ Spelled(p, Len(rest)) = v
    BY <1>3, <2>1 DEF TopOf, TopLabels, LabelsAt
  <2>3. k # 0 /\ labels[k] = p[n - 1]
    BY <2>1 DEF StackOK, LabelsAt
  <2>4. k \in 0..Len(labels) /\ v \in Text /\ Len(labels) \in Nat
    <3>1. StackOK(s, rest, p) /\ rest # << >>
      BY <1>3, <2>1
    <3> HIDE DEF rest, v, labels, k
    <3>2. TopOf(rest).next \in Nat /\ TopOf(rest).next <= Len(TopLabels(s, rest, p))
          /\ Spelled(p, Len(rest)) \in Text /\ Len(TopLabels(s, rest, p)) \in Nat
      BY <3>1, TopFacts
    <3> QED
      BY <2>2, <3>2 DEF k
  <2>5. u = Append(v, labels[k])
    <3>1. Spelled(p, (n - 1) + 1) = Append(v, p[n - 1])
      BY <1>1, <2>1, SpelledFacts
    <3>2. (n - 1) + 1 = n
      BY <1>1
    <3> QED
      BY <2>3, <3>1, <3>2
  <2> HIDE DEF u, v, k, n, rest
  <2>6. k - 1 \in Nat /\ k - 1 < Len(labels) /\ (k - 1) + 1 = k
    BY <2>3, <2>4
  <2>7. Passed(v, labels, k - 1, w) <=> Precedes(w, u)
    BY <2>4, <2>5, <2>6, PassedBefore
  <2>8. Passed(v, labels, k, w) <=> Passed(v, labels, k - 1, w) \/ AgreeUpTo(u, w, Len(u))
    BY <2>4, <2>5, <2>6, PassedNext
  <2>9. PassedIn(s, rest, p, w) <=> Passed(v, labels, k, w)
    BY <2>1, <2>2 DEF PassedIn, k
  <2> QED
    BY <1>2, <2>7, <2>8, <2>9 DEF u, rest, n
<1> QED
  BY <1>4, <1>5

\* A transition that is left behind passes all words behind it.
LEMMA WalkAdvance ==
    ASSUME NEW s, s.dict \in SUBSET Text, NEW stk, NEW p, StackOK(s, stk, p), stk # << >>,
           TopOf(stk).next < Len(TopLabels(s, stk, p)),
           NEW q, q = NewText(s, stk, p), NEW p2 \in {p, q}, NEW w \in s.dict
    PROVE  /\ PassedIn(s, stk, p, w) <=> Precedes(w, q)
           /\ PassedIn(s, Bumped(stk), p2, w) <=> PassedIn(s, stk, p, w) \/ AgreeUpTo(q, w, Len(q))
<1> DEFINE n == Len(stk)
           u == Spelled(p, n)
           labels == LabelsOf(Right(s.dict, u))
           j == TopOf(stk).next
<1>1. /\ n \in 1..(Len(p) + 1) /\ n \in Nat /\ p \in Text /\ u \in Text
      /\ j \in Nat /\ j < Len(labels)
  BY TopFacts DEF TopLabels, LabelsAt
<1>2. q = Append(u, labels[j + 1])
  BY DEF NewText, TopLabels, LabelsAt
<1>3. PassedIn(s, stk, p, w) <=> Passed(u, labels, j, w)
  BY DEF PassedIn, TopLabels, LabelsAt
<1>4. PassedIn(s, Bumped(stk), p2, w) <=> Passed(u, labels, j + 1, w)
  <2>1. Len(Bumped(stk)) = n /\ Bumped(stk) # << >> /\ TopOf(Bumped(stk)).next = j + 1
    BY BumpedFacts DEF StackOK
  <2>2. Spelled(p2, n) = u
    <3>1. n \in 1..n
      BY <1>1
    <3> QED
      BY <3>1, NewTextFacts
  <2> QED
    BY <2>1, <2>2 DEF PassedIn, TopLabels, LabelsAt
<1> HIDE DEF u, j, n
<1>5. Passed(u, labels, j, w) <=> Precedes(w, q)
  BY <1>1, <1>2, PassedBefore
<1>6. Passed(u, labels, j + 1, w) <=> Passed(u, labels, j, w) \/ AgreeUpTo(q, w, Len(q))
  BY <1>1, <1>2, PassedNext
<1> QED
  BY <1>3, <1>4, <1>5, <1>6 DEF n, j, u

\* A transition that is followed passes its own word.
LEMMA WalkPush ==
    ASSUME NEW s, s.dict \in SUBSET Text, NEW stk, NEW p, StackOK(s, stk, p), stk # << >>,
           TopOf(stk).next < Len(TopLabels(s, stk, p)),
           NEW q, q = NewText(s, stk, p), NEW f, f.next = 0, NEW w \in s.dict
    PROVE  PassedIn(s, Append(Bumped(stk), f), q, w) <=> PassedIn(s, stk, p, w) \/ w = q
<1> DEFINE n == Len(stk)
           b == Bumped(stk)
           new == Append(b, f)
<1>1. b \in Seq(FrameSet(s)) /\ Len(b) = n /\ n \in Nat
  BY BumpedFacts DEF StackOK
<1> HIDE DEF b
<1>2. Len(new) = n + 1 /\ new # << >> /\ TopOf(new) = f
  BY <1>1 DEF TopOf
<1> HIDE DEF new
<1>3. Spelled(q, n + 1) = q
  BY NewTextFacts
<1>4. PassedIn(s, new, q, w) <=> Passed(q, TopLabels(s, new, q), 0, w)
  BY <1>2, <1>3 DEF PassedIn
<1>5. Passed(q, TopLabels(s, new, q), 0, w) <=> Precedes(w, q) \/ w = q
  BY DEF Passed
<1>6. PassedIn(s, stk, p, w) <=> Precedes(w, q)
  BY WalkAdvance
<1> QED
  BY <1>4, <1>5, <1>6 DEF new, b

LEMMA WalkOrder ==
    ASSUME NEW s, s.dict \in SUBSET Text, NEW stk, NEW p, StackOK(s, stk, p),
           NEW v \in s.dict, NEW w \in s.dict, PassedIn(s, stk, p, v), ~PassedIn(s, stk, p, w)
    PROVE  Precedes(v, w)
<1> DEFINE u == Spelled(p, Len(stk))
           j == TopOf(stk).next
<1>1. stk # << >>
  BY DEF PassedIn
<1>2. u \in Text /\ j \in Nat /\ j <= Len(LabelsOf(Right(s.dict, u)))
  BY <1>1, TopFacts DEF TopLabels, LabelsAt
<1>3. /\ Passed(u, LabelsOf(Right(s.dict, u)), j, v)
      /\ ~Passed(u, LabelsOf(Right(s.dict, u)), j, w)
  BY <1>1 DEF PassedIn, TopLabels, LabelsAt
<1> HIDE DEF u, j
<1> QED
  BY <1>2, <1>3, PassedOrder

----------------------------------------------------------------------------
(* The matches, and what has been found of them.                           *)

ResultOf(s, w) == [word |-> w, dist |-> Distance(s.metric, s.query, w)]
MatchesOf(s) == {w \in s.dict : /\ w # << >> /\ Len(w) <= MaxDepth
                                /\ Distance(s.metric, s.query, w) <= s.max}
Plenty(s) == s.room >= s.cap * MaxDepth
FoundOK(s, found, stk, p) ==
    /\ found \in Seq({ResultOf(s, w) : w \in MatchesOf(s)})
    /\ \A i \in 1..Len(found) : PassedIn(s, stk, p, found[i].word)
    /\ \A i \in 1..(Len(found) - 1) : Precedes(found[i].word, found[i + 1].word)
    /\ Plenty(s) => \A w \in MatchesOf(s) : PassedIn(s, stk, p, w) => \E i \in 1..Len(found) : found[i].word = w

LEMMA FoundTypes ==
    ASSUME NEW s, NEW found \in Seq({ResultOf(s, w) : w \in MatchesOf(s)}), NEW i \in 1..Len(found)
    PROVE  found[i].word \in MatchesOf(s) /\ found[i] = ResultOf(s, found[i].word)
<1>1. found[i] \in {ResultOf(s, w) : w \in MatchesOf(s)}
  OBVIOUS
<1>2. PICK w \in MatchesOf(s) : found[i] = ResultOf(s, w)
  BY <1>1
<1> QED
  BY <1>2 DEF ResultOf

\* What has been found stays right if a step passes no match, or if it passes
\* one that is dropped because the word buffer is too small.
LEMMA FoundKept ==
    ASSUME NEW s, NEW found, NEW stk, NEW p, NEW stk2, NEW p2, FoundOK(s, found, stk, p),
           \A w \in MatchesOf(s) : PassedIn(s, stk, p, w) => PassedIn(s, stk2, p2, w),
           Plenty(s) => \A w \in MatchesOf(s) : PassedIn(s, stk2, p2, w) => PassedIn(s, stk, p, w)
    PROVE  FoundOK(s, found, stk2, p2)
<1>1. \A i \in 1..Len(found) : found[i].word \in MatchesOf(s)
  BY FoundTypes DEF FoundOK
<1> QED
  BY <1>1 DEF FoundOK

\* A match that is passed and found goes behind the others.
LEMMA FoundMore ==
    ASSUME NEW s, s.dict \in SUBSET Text, NEW found, NEW stk, NEW p, NEW stk2, NEW p2,
           StackOK(s, stk, p), FoundOK(s, found, stk, p),
           NEW q \in MatchesOf(s), ~PassedIn(s, stk, p, q),
           \A w \in MatchesOf(s) : PassedIn(s, stk2, p2, w) <=> PassedIn(s, stk, p, w) \/ w = q
    PROVE  FoundOK(s, Append(found, ResultOf(s, q)), stk2, p2)
<1> DEFINE S == {ResultOf(s, w) : w \in MatchesOf(s)}
           more == Append(found, ResultOf(s, q))
           n == Len(found)
<1>1. found \in Seq(S) /\ n \in Nat
  BY DEF FoundOK
<1>2. ResultOf(s, q) \in S
  OBVIOUS
<1>3. /\ more \in Seq(S) /\ Len(more) = n + 1 /\ more[n + 1] = ResultOf(s, q)
      /\ \A i \in 1..n : more[i] = found[i]
  <2> HIDE DEF S
  <2> QED
    BY <1>1, <1>2
<1> HIDE DEF more
<1>4. \A i \in 1..n : found[i].word \in MatchesOf(s) /\ PassedIn(s, stk, p, found[i].word)
  BY <1>1, FoundTypes DEF FoundOK
<1>5. more[n + 1].word = q
  BY <1>3 DEF ResultOf
<1>6. ASSUME NEW i \in 1..Len(more)
      PROVE  PassedIn(s, stk2, p2, more[i].word)
  <2>1. CASE i = n + 1
    BY <1>5, <2>1
  <2>2. CASE i # n + 1
    <3>1. i \in 1..n
      BY <1>1, <1>3, <2>2
    <3> QED
      BY <1>3, <1>4, <3>1
  <2> QED
    BY <2>1, <2>2
<1>7. ASSUME NEW i \in 1..(Len(more) - 1)
      PROVE  Precedes(more[i].word, more[i + 1].word)
  <2>1. i \in 1..n
    BY <1>1, <1>3
  <2>2. CASE i = n
    <3>1. Precedes(found[i].word, q)
      BY <1>4, <2>1, WalkOrder DEF MatchesOf
    <3> QED
      BY <1>3, <1>5, <2>1, <2>2, <3>1
  <2>3. CASE i # n
    <3>1. i \in 1..(n - 1) /\ i + 1 \in 1..n
      BY <1>1, <2>1, <2>3
    <3>2. Precedes(found[i].word, found[i + 1].word)
      BY <3>1 DEF FoundOK
    <3> QED
      BY <1>3, <2>1, <3>1, <3>2
  <2> QED
    BY <2>2, <2>3
<1>8. ASSUME Plenty(s), NEW w \in MatchesOf(s), PassedIn(s, stk2, p2, w)
      PROVE  \E i \in 1..Len(more) : more[i].word = w
  <2>1. CASE w = q
    <3>1. n + 1 \in 1..Len(more)
      BY <1>1, <1>3
    <3> QED
      BY <1>5, <2>1, <3>1
  <2>2. CASE w # q
    <3>1. PICK i \in 1..n : found[i].word = w
      BY <1>8, <2>2 DEF FoundOK
    <3>2. i \in 1..Len(more) /\ more[i] = found[i]
      BY <1>1, <1>3
    <3> QED
      BY <3>1, <3>2
  <2> QED
    BY <2>1, <2>2
<1>9. FoundOK(s, more, stk2, p2)
  BY <1>3, <1>6, <1>7, <1>8 DEF FoundOK
<1> QED
  BY <1>9 DEF more

----------------------------------------------------------------------------
(* The buffers.                                                            *)

LEMMA WrittenFacts ==
    ASSUME NEW S, NEW buf \in Seq(S), NEW word \in Seq(S), NEW at \in Nat, at <= Len(buf)
    PROVE  LET new == Written(buf, at, word)
           IN  /\ new \in Seq(S) /\ Len(new) \in Nat /\ Len(new) >= at + Len(word) /\ Len(new) >= Len(buf)
               /\ \A i \in 1..at : new[i] = buf[i]
               /\ \A i \in 1..Len(word) : new[at + i] = word[i]
<1> DEFINE l == Len(buf)
           m == Len(word)
           n == IF l > at + m THEN l ELSE at + m
           new == Written(buf, at, word)
<1>1. l \in Nat /\ m \in Nat /\ n \in Nat /\ n >= at + m /\ n >= l
  OBVIOUS
<1>2. new = [i \in 1..n |-> IF i \in (at + 1)..(at + m) THEN word[i - at] ELSE buf[i]]
  BY DEF Written
<1>3. \A i \in 1..m : word[i] \in S
  OBVIOUS
<1>4. \A i \in 1..l : buf[i] \in S
  OBVIOUS
<1>5. \A i \in 1..n : (i \in (at + 1)..(at + m) /\ i - at \in 1..m) \/ (i \notin (at + 1)..(at + m) /\ i \in 1..l)
  <2> HIDE DEF m
  <2> QED
    BY <1>1
<1> HIDE DEF l, m, n, new
<1>6. \A i \in 1..n : new[i] \in S
  BY <1>2, <1>3, <1>4, <1>5
<1>7. new \in Seq(S) /\ Len(new) = n
  <2>1. new \in [1..n -> S]
    BY <1>2, <1>6
  <2> QED
    BY <1>1, <2>1
<1>8. \A i \in 1..at : new[i] = buf[i]
  <2>1. \A i \in 1..at : i \in 1..n /\ i \notin (at + 1)..(at + m)
    BY <1>1
  <2> QED
    BY <1>2, <2>1
<1>9. \A i \in 1..m : new[at + i] = word[i]
  <2>1. \A i \in 1..m : at + i \in 1..n /\ at + i \in (at + 1)..(at + m) /\ (at + i) - at = i
    BY <1>1
  <2> QED
    BY <1>2, <2>1
<1> QED
  BY <1>1, <1>7, <1>8, <1>9 DEF new, m, l

DistancesIn(s) == {DistOf(AutomatonOf(s), StateBehind(AutomatonOf(s), u)) : u \in Text}
ResultSet(s) == [from : Nat, len : Nat, dist : DistancesIn(s)]
FoundSet(s) == [word : Text, dist : DistancesIn(s)]
ReadAt(res, wrd, i) == [word |-> SubSeq(wrd, res[i].from + 1, res[i].from + res[i].len), dist |-> res[i].dist]
BatchOf(res, wrd, n) == [i \in 1..n |-> ReadAt(res, wrd, i)]
Adjoining(res, use, n) ==
    /\ \A i \in 1..n : res[i].from + res[i].len = IF i = n THEN use ELSE res[i + 1].from
    /\ n > 0 => res[1].from = 0
BuffersOK(s, res, wrd, use, n) ==
    /\ res \in Seq(ResultSet(s)) /\ wrd \in Text
    /\ n \in Nat /\ n <= s.cap /\ n <= Len(res)
    /\ use \in Nat /\ use <= s.room /\ use <= Len(wrd) /\ use <= n * MaxDepth
    /\ Adjoining(res, use, n)
    /\ \A i \in 1..n : res[i].from + res[i].len <= use

LEMMA ResultFields ==
    ASSUME NEW s, NEW r \in ResultSet(s)
    PROVE  r.from \in Nat /\ r.len \in Nat /\ r.dist \in DistancesIn(s)
BY DEF ResultSet

\* The slice of the word buffer that a result names.
LEMMA SliceFacts ==
    ASSUME NEW wrd \in Text, NEW from \in Nat, NEW len \in Nat, from + len <= Len(wrd)
    PROVE  LET slice == SubSeq(wrd, from + 1, from + len)
           IN  slice \in Text /\ Len(slice) = len /\ \A k \in 1..len : slice[k] = wrd[from + k]
<1>1. Len(wrd) \in Nat
  BY TextWord
<1>2. \A k \in (from + 1)..(from + len) : wrd[k] \in Byte
  <2>1. \A k \in (from + 1)..(from + len) : k \in 1..Len(wrd)
    BY <1>1
  <2> QED
    BY <2>1 DEF Text
<1>3. from + 1 \in Int /\ from + len \in Int
      /\ (from + len) - (from + 1) + 1 = len /\ (from + 1 <= from + len \/ len = 0)
      /\ \A k \in 1..len : (from + 1) + k - 1 = from + k
  OBVIOUS
<1> DEFINE a == from + 1
           b == from + len
<1> HIDE DEF a, b
<1>4. /\ SubSeq(wrd, a, b) \in Seq(Byte)
      /\ Len(SubSeq(wrd, a, b)) = (IF a <= b THEN b - a + 1 ELSE 0)
      /\ \A i \in 1..(b - a + 1) : SubSeq(wrd, a, b)[i] = wrd[a + i - 1]
  BY <1>2, <1>3, SubSeqProperties DEF a, b
<1>5. (IF a <= b THEN b - a + 1 ELSE 0) = len
  BY <1>3 DEF a, b
<1> QED
  BY <1>3, <1>4, <1>5 DEF Text, a, b

LEMMA BatchTypes ==
    ASSUME NEW s, NEW res, NEW wrd, NEW use, NEW n, BuffersOK(s, res, wrd, use, n)
    PROVE  BatchOf(res, wrd, n) \in Seq(FoundSet(s)) /\ Len(BatchOf(res, wrd, n)) = n
<1>1. /\ n \in Nat /\ n <= Len(res) /\ Len(res) \in Nat /\ res \in Seq(ResultSet(s))
      /\ use \in Nat /\ use <= Len(wrd) /\ wrd \in Text /\ Len(wrd) \in Nat
  BY TextWord DEF BuffersOK
<1>2. ASSUME NEW i \in 1..n
      PROVE  ReadAt(res, wrd, i) \in FoundSet(s)
  <2>1. i \in 1..Len(res)
    BY <1>1
  <2>2. res[i] \in ResultSet(s)
    BY <1>1, <2>1
  <2>3. res[i].from \in Nat /\ res[i].len \in Nat /\ res[i].dist \in DistancesIn(s)
    BY <2>2, ResultFields
  <2>4. res[i].from + res[i].len <= Len(wrd)
    <3>1. res[i].from + res[i].len <= use
      BY DEF BuffersOK
    <3> QED
      BY <1>1, <2>3, <3>1
  <2>5. SubSeq(wrd, res[i].from + 1, res[i].from + res[i].len) \in Text
    BY <1>1, <2>3, <2>4, SliceFacts
  <2> QED
    BY <2>3, <2>5 DEF ReadAt, FoundSet
<1>3. BatchOf(res, wrd, n) \in [1..n -> FoundSet(s)]
  BY <1>2 DEF BatchOf
<1> QED
  BY <1>1, <1>3

\* A result for which both buffers have room is written behind the others and
\* leaves them as they are.
LEMMA BatchMore ==
    ASSUME NEW s, s.cap \in Nat, s.room \in Nat,
           NEW res, NEW wrd, NEW use, NEW n, BuffersOK(s, res, wrd, use, n),
           NEW q \in Text, Len(q) <= MaxDepth, n < s.cap, use + Len(q) <= s.room,
           NEW d \in DistancesIn(s)
    PROVE  LET res2 == Written(res, n, <<[from |-> use, len |-> Len(q), dist |-> d]>>)
               wrd2 == Written(wrd, use, q)
           IN  /\ BuffersOK(s, res2, wrd2, use + Len(q), n + 1)
               /\ BatchOf(res2, wrd2, n + 1) = Append(BatchOf(res, wrd, n), [word |-> q, dist |-> d])
<1> DEFINE r == [from |-> use, len |-> Len(q), dist |-> d]
           res2 == Written(res, n, <<r>>)
           wrd2 == Written(wrd, use, q)
           l == Len(q)
<1>1. /\ n \in Nat /\ n <= Len(res) /\ Len(res) \in Nat /\ res \in Seq(ResultSet(s))
      /\ use \in Nat /\ use <= Len(wrd) /\ wrd \in Text /\ Len(wrd) \in Nat
      /\ use <= n * MaxDepth /\ MaxDepth \in Nat /\ Len(q) \in Nat
  BY TextWord, BoundsAssumption DEF BuffersOK
<1>2. r \in ResultSet(s) /\ r.from = use /\ r.len = l /\ r.dist = d
  BY <1>1 DEF ResultSet
<1> HIDE DEF r
<1>3. <<r>> \in Seq(ResultSet(s)) /\ Len(<<r>>) = 1 /\ <<r>>[1] = r
  BY <1>2
<1>4. /\ res2 \in Seq(ResultSet(s)) /\ Len(res2) \in Nat /\ Len(res2) >= n + 1
      /\ \A i \in 1..n : res2[i] = res[i]
      /\ res2[n + 1] = r
  <2> DEFINE S == ResultSet(s)
             one == <<r>>
             new == Written(res, n, one)
  <2>1. one \in Seq(ResultSet(s)) /\ Len(one) = 1 /\ one[1] = r /\ 1 \in 1..Len(one)
    BY <1>3
  <2>2. res \in Seq(S) /\ one \in Seq(S) /\ n \in Nat /\ n <= Len(res)
    BY <1>1, <2>1
  <2> HIDE DEF one, S
  <2>3. /\ new \in Seq(S) /\ Len(new) \in Nat /\ Len(new) >= n + Len(one)
        /\ \A i \in 1..n : new[i] = res[i]
        /\ \A i \in 1..Len(one) : new[n + i] = one[i]
    BY <2>2, WrittenFacts
  <2> HIDE DEF new
  <2>4. new = res2
    BY DEF new, one
  <2> HIDE DEF res2
  <2> QED
    BY <2>1, <2>3, <2>4 DEF S
<1>5. /\ wrd2 \in Text /\ Len(wrd2) \in Nat /\ Len(wrd2) >= use + l
      /\ \A i \in 1..use : wrd2[i] = wrd[i]
      /\ \A i \in 1..l : wrd2[use + i] = q[i]
  BY <1>1, WrittenFacts DEF Text
<1> HIDE DEF res2, wrd2, l
<1>6. \A i \in 1..n : res[i] \in ResultSet(s) /\ res[i].from \in Nat /\ res[i].len \in Nat
                      /\ res[i].from + res[i].len <= use
  <2> SUFFICES ASSUME NEW i \in 1..n
               PROVE  res[i] \in ResultSet(s) /\ res[i].from \in Nat /\ res[i].len \in Nat
                      /\ res[i].from + res[i].len <= use
    OBVIOUS
  <2>1. i \in 1..Len(res)
    BY <1>1
  <2>2. res[i] \in ResultSet(s)
    BY <1>1, <2>1
  <2>3. res[i].from \in Nat /\ res[i].len \in Nat
    BY <2>2, ResultFields
  <2> QED
    BY <2>2, <2>3 DEF BuffersOK
<1>7. l \in Nat /\ l <= MaxDepth
  BY <1>1 DEF l
<1>8. use + l <= (n + 1) * MaxDepth
  <2>1. (n + 1) * MaxDepth = n * MaxDepth + MaxDepth /\ n * MaxDepth \in Nat
    BY <1>1
  <2> QED
    BY <1>1, <1>7, <2>1
<1>9. Adjoining(res2, use + l, n + 1)
  <2>1. ASSUME NEW i \in 1..(n + 1)
        PROVE  res2[i].from + res2[i].len = IF i = n + 1 THEN use + l ELSE res2[i + 1].from
    <3>1. CASE i = n + 1
      BY <1>2, <1>4, <3>1
    <3>2. CASE i # n + 1 /\ i = n
      <4>1. res2[i] = res[i] /\ res2[i + 1] = r /\ i \in 1..n
        BY <1>1, <1>4, <3>2
      <4>2. res[i].from + res[i].len = use
        BY <3>2, <4>1 DEF BuffersOK, Adjoining
      <4> QED
        BY <1>2, <3>2, <4>1, <4>2
    <3>3. CASE i # n + 1 /\ i # n
      <4>1. i \in 1..n /\ i + 1 \in 1..n
        BY <1>1, <3>3
      <4>2. res2[i] = res[i] /\ res2[i + 1] = res[i + 1]
        BY <1>4, <4>1
      <4>3. res[i].from + res[i].len = res[i + 1].from
        BY <3>3, <4>1 DEF BuffersOK, Adjoining
      <4> QED
        BY <3>3, <4>2, <4>3
    <3> QED
      BY <3>1, <3>2, <3>3
  <2>2. res2[1].from = 0
    <3>1. CASE n = 0
      <4>1. use = 0
        BY <1>1, <3>1
      <4> QED
        BY <1>2, <1>4, <3>1, <4>1
    <3>2. CASE n # 0
      <4>1. 1 \in 1..n /\ n > 0
        BY <1>1, <3>2
      <4> QED
        BY <1>4, <4>1 DEF BuffersOK, Adjoining
    <3> QED
      BY <3>1, <3>2
  <2> QED
    BY <2>1, <2>2 DEF Adjoining
<1>10. \A i \in 1..(n + 1) : res2[i].from + res2[i].len <= use + l
  <2> SUFFICES ASSUME NEW i \in 1..(n + 1) PROVE res2[i].from + res2[i].len <= use + l
    OBVIOUS
  <2>1. CASE i = n + 1
    <3>1. res2[i].from = use /\ res2[i].len = l
      BY <1>2, <1>4, <2>1
    <3> QED
      BY <1>1, <1>7, <3>1
  <2>2. CASE i # n + 1
    <3>1. i \in 1..n
      BY <1>1, <2>2
    <3>2. res2[i] = res[i] /\ res[i].from \in Nat /\ res[i].len \in Nat /\ res[i].from + res[i].len <= use
      BY <1>4, <1>6, <3>1
    <3>3. res[i].from + res[i].len <= use + l
      <4>1. \A a \in Nat : a <= use => a <= use + l
        BY <1>1, <1>7
      <4>2. res[i].from + res[i].len \in Nat
        BY <3>2
      <4> QED
        BY <3>2, <4>1, <4>2
    <3> QED
      BY <3>2, <3>3
  <2> QED
    BY <2>1, <2>2
<1>11. use + l \in Nat /\ use + l <= s.room /\ n + 1 \in Nat /\ n + 1 <= s.cap
  BY <1>1, <1>7 DEF l
<1>12. BuffersOK(s, res2, wrd2, use + l, n + 1)
  <2>1. n + 1 <= Len(res2) /\ use + l <= Len(wrd2)
    BY <1>1, <1>4, <1>5, <1>7
  <2> QED
    BY <1>4, <1>5, <1>8, <1>9, <1>10, <1>11, <2>1 DEF BuffersOK
<1>13. BatchOf(res2, wrd2, n + 1) = Append(BatchOf(res, wrd, n), [word |-> q, dist |-> d])
  <2> DEFINE old == BatchOf(res, wrd, n)
             new == BatchOf(res2, wrd2, n + 1)
             x == [word |-> q, dist |-> d]
             more == Append(old, x)
  <2>1. old \in Seq(FoundSet(s)) /\ Len(old) = n
    BY BatchTypes
  <2>2. new \in Seq(FoundSet(s)) /\ Len(new) = n + 1
    BY <1>12, BatchTypes
  <2>3. x \in FoundSet(s)
    BY DEF FoundSet
  <2>4. \A i \in 1..n : old[i] = ReadAt(res, wrd, i)
    BY DEF BatchOf
  <2>5. \A i \in 1..(n + 1) : new[i] = ReadAt(res2, wrd2, i)
    BY DEF BatchOf
  <2> HIDE DEF old, new, x
  <2>6. more \in Seq(FoundSet(s)) /\ Len(more) = n + 1 /\ more[n + 1] = x /\ \A i \in 1..n : more[i] = old[i]
    BY <2>1, <2>3
  <2> HIDE DEF more
  <2>7. ASSUME NEW i \in 1..n
        PROVE  ReadAt(res2, wrd2, i) = ReadAt(res, wrd, i)
    <3> DEFINE from == res[i].from
               len == res[i].len
    <3>1. res2[i] = res[i] /\ from \in Nat /\ len \in Nat /\ from + len <= use
      BY <1>4, <1>6
    <3> HIDE DEF from, len
    <3>2. from + len <= Len(wrd) /\ from + len <= Len(wrd2)
      BY <1>1, <1>5, <1>7, <3>1
    <3> DEFINE a == SubSeq(wrd, from + 1, from + len)
               b == SubSeq(wrd2, from + 1, from + len)
    <3>3. a \in Text /\ Len(a) = len /\ \A k \in 1..len : a[k] = wrd[from + k]
      BY <1>1, <3>1, <3>2, SliceFacts
    <3>4. b \in Text /\ Len(b) = len /\ \A k \in 1..len : b[k] = wrd2[from + k]
      BY <1>5, <3>1, <3>2, SliceFacts
    <3>5. \A k \in 1..len : from + k \in 1..use
      BY <1>1, <3>1
    <3>6. \A k \in 1..len : a[k] = b[k]
      BY <1>5, <3>3, <3>4, <3>5
    <3> HIDE DEF a, b
    <3>7. a = b
      BY <3>3, <3>4, <3>6, SeqEqual DEF Text
    <3> QED
      BY <3>1, <3>7 DEF ReadAt, a, b, from, len
  <2>8. ReadAt(res2, wrd2, n + 1) = x
    <3> DEFINE b == SubSeq(wrd2, use + 1, use + l)
    <3>1. b \in Text /\ Len(b) = l /\ \A k \in 1..l : b[k] = wrd2[use + k]
      BY <1>1, <1>5, <1>7, SliceFacts
    <3>2. \A k \in 1..l : b[k] = q[k]
      BY <1>5, <3>1
    <3> HIDE DEF b
    <3>3. b = q
      BY <3>1, <3>2, SeqEqual DEF Text, l
    <3> QED
      BY <1>2, <1>4, <3>3 DEF ReadAt, b, x
  <2>9. \A i \in 1..(n + 1) : new[i] = more[i]
    <3>1. \A i \in 1..(n + 1) : i = n + 1 \/ i \in 1..n
      BY <1>1
    <3> QED
      BY <2>4, <2>5, <2>6, <2>7, <2>8, <3>1
  <2>10. new = more
    BY <2>2, <2>6, <2>9, SeqEqual
  <2> QED
    BY <2>10 DEF new, more, old, x
<1> QED
  BY <1>12, <1>13 DEF res2, wrd2, l, r

\* An empty batch.
LEMMA BatchEmpty ==
    ASSUME NEW s, s.cap \in Nat, s.room \in Nat, NEW res \in Seq(ResultSet(s)), NEW wrd \in Text
    PROVE  BuffersOK(s, res, wrd, 0, 0) /\ BatchOf(res, wrd, 0) = << >>
<1>1. Len(res) \in Nat /\ Len(wrd) \in Nat /\ MaxDepth \in Nat
  BY TextWord, BoundsAssumption
<1>2. BuffersOK(s, res, wrd, 0, 0)
  BY <1>1 DEF BuffersOK, Adjoining
<1>3. BatchOf(res, wrd, 0) = << >>
  BY <1>2, BatchTypes
<1> QED
  BY <1>2, <1>3

----------------------------------------------------------------------------
(* The inductive invariant.                                                *)

WalkInv == search \in Searches /\ StackOK(search, stack, path)
BufferInv == BuffersOK(search, results, words, used, count)
FoundInv == FoundOK(search, Found, stack, path)
CallInv ==
    /\ pc \in {"caller", "collect", "returned"} /\ done \in BOOLEAN /\ total \in Nat
    /\ delivered \in Seq(FoundSet(search))
    /\ done => stack = << >>
    /\ pc = "collect" => Len(search.query) <= MaxQuery
    /\ ~(Len(search.query) <= MaxQuery) => count = 0
    /\ ~search.all /\ pc # "returned" => delivered = << >>
    /\ ~search.all /\ pc = "collect" => total = 0
    /\ ~search.all /\ pc = "caller" => total = count /\ (done \/ count = 0 \/ count >= search.cap)
    /\ pc = "returned" /\ Len(search.query) <= MaxQuery =>
          done \/ (~search.all /\ Len(delivered) = search.cap)
SearchInv == WalkInv /\ BufferInv /\ FoundInv /\ CallInv

LEMMA SearchFacts ==
    ASSUME NEW s \in Searches
    PROVE  /\ s.dict \in SUBSET Text /\ s.cap \in Nat /\ s.cap # 0 /\ s.room \in Nat
           /\ s.all \in BOOLEAN /\ Len(s.query) \in Nat
<1>1. s \in Search
  BY SearchesAssumption
<1>2. s.query \in Seq(Nat)
  BY <1>1 DEF Search
<1> QED
  BY <1>1, <1>2 DEF Search, Text

\* What the automaton says of the words of the index that are not too long.
LEMMA AutomatonFacts ==
    ASSUME NEW s \in Searches, Len(s.query) <= MaxQuery, NEW w \in s.dict, Len(w) <= MaxDepth
    PROVE  LET A == AutomatonOf(s)
           IN  /\ DistOf(A, StateBehind(A, w)) <= s.max <=> Distance(s.metric, s.query, w) <= s.max
               /\ w \in MatchesOf(s) => DistOf(A, StateBehind(A, w)) = Distance(s.metric, s.query, w)
               /\ w \in MatchesOf(s) => \A k \in 1..Len(w) : MayMatch(A, StateBehind(A, SubSeq(w, 1, k)))
BY AutomataAssumption DEF MatchesOf

\* The next transition of the top frame.
LEMMA StepFacts ==
    ASSUME WalkInv, stack # << >>
    PROVE  LET q == NewText(search, stack, path)
           IN  /\ Exhausted <=> TopOf(stack).next >= Len(TopLabels(search, stack, path))
               /\ ~Exhausted =>
                    /\ TopOf(stack).next < Len(TopLabels(search, stack, path))
                    /\ q \in Text /\ Len(q) = Len(stack) /\ Len(q) <= MaxDepth
                    /\ NewPath = q /\ Advanced = Bumped(stack) /\ Len(q) = Top.depth + 1
                    /\ NewState = StateBehind(Automaton, q) /\ Target = Right(search.dict, q)
                    /\ IsFinal(Target) <=> q \in search.dict
<1> DEFINE n == Len(stack)
           u == Spelled(path, n)
           labels == TopLabels(search, stack, path)
           q == NewText(search, stack, path)
           c == labels[TopOf(stack).next + 1]
<1>1. search \in Searches /\ StackOK(search, stack, path) /\ search.dict \in SUBSET Text
  BY SearchFacts DEF WalkInv
<1>2. /\ n \in 1..(Len(path) + 1) /\ n \in Nat /\ Len(path) \in Nat /\ path \in Text /\ u \in Text
      /\ FrameOK(search, TopOf(stack), path, n)
      /\ Len(labels) \in Nat /\ TopOf(stack).next \in Nat
  BY <1>1, TopFacts
<1>3. /\ Top = TopOf(stack) /\ Top.node = Right(search.dict, u)
      /\ Top.state = StateBehind(Automaton, u) /\ Top.depth = n - 1
      /\ LabelsOf(Top.node) = labels
  BY <1>2 DEF Top, TopOf, FrameOK, Automaton, TopLabels, LabelsAt
<1>4. Exhausted <=> TopOf(stack).next >= Len(labels)
  BY <1>3 DEF Exhausted
<1>5. ASSUME ~Exhausted
      PROVE  /\ TopOf(stack).next < Len(labels)
             /\ q \in Text /\ Len(q) = n /\ n <= MaxDepth
             /\ NewPath = q /\ Advanced = Bumped(stack) /\ n = Top.depth + 1
             /\ NewState = StateBehind(Automaton, q) /\ Target = Right(search.dict, q)
             /\ IsFinal(Target) <=> q \in search.dict
  <2>1. TopOf(stack).next < Len(labels)
    BY <1>2, <1>4, <1>5
  <2>2. q \in Text /\ Len(q) = n /\ q = Append(u, c) /\ c \in Byte
    BY <1>1, <2>1, NewTextFacts
  <2>3. Label = c
    BY <1>3 DEF Label
  <2>4. NewPath = q
    BY <1>3, <2>2, <2>3 DEF NewPath, Spelled
  <2>5. Advanced = Bumped(stack)
    BY DEF Advanced, Bumped
  <2>6. NewState = StateBehind(Automaton, q)
    <3>1. Advance(Automaton, StateBehind(Automaton, u), c) = StateBehind(Automaton, Append(u, c))
      <4> HIDE DEF u, c
      <4> QED
        BY <1>2, <2>2, StateSteps
    <3> QED
      BY <1>3, <2>2, <2>3, <3>1 DEF NewState
  <2>7. Target = Right(search.dict, q)
    <3>1. ChildOf(Right(search.dict, u), c) = Right(search.dict, Append(u, c))
      <4> HIDE DEF u, c
      <4> QED
        BY <1>1, <1>2, <2>2, ChildFacts
    <3> QED
      BY <1>3, <2>2, <2>3, <3>1 DEF Target
  <2>8. IsFinal(Target) <=> q \in search.dict
    <3> HIDE DEF q
    <3> QED
      BY <1>1, <2>2, <2>7, RightWords
  <2>9. n <= MaxDepth
    BY <1>1 DEF StackOK
  <2>10. n = Top.depth + 1
    BY <1>2, <1>3
  <2> QED
    BY <2>1, <2>2, <2>4, <2>5, <2>6, <2>7, <2>8, <2>9, <2>10
<1> QED
  BY <1>2, <1>4, <1>5

LEMMA PopStep ==
    ASSUME SearchInv, PopFrame
    PROVE  SearchInv'
<1> DEFINE rest == SubSeq(stack, 1, Len(stack) - 1)
<1>1. /\ search \in Searches /\ StackOK(search, stack, path) /\ search.dict \in SUBSET Text
      /\ stack # << >> /\ Exhausted /\ stack' = rest /\ pc = "collect" /\ WalkInv
      /\ UNCHANGED <<search, path, words, used, results, count, total, done, pc, delivered>>
  BY SearchFacts DEF SearchInv, WalkInv, PopFrame, Running
<1>2. TopOf(stack).next >= Len(TopLabels(search, stack, path))
  BY <1>1, StepFacts
<1>3. StackOK(search, rest, path)
  BY <1>1, StackPop
<1>4. \A w \in MatchesOf(search) : PassedIn(search, rest, path, w) <=> PassedIn(search, stack, path, w)
  <2>1. \A w \in search.dict : PassedIn(search, rest, path, w) <=> PassedIn(search, stack, path, w)
    BY <1>1, <1>2, WalkPop
  <2> QED
    BY <2>1 DEF MatchesOf
<1>5. Found' = Found
  BY <1>1 DEF Found, Batch, Read
<1> HIDE DEF rest
<1>6. FoundOK(search, Found, rest, path)
  BY <1>4, FoundKept DEF SearchInv, FoundInv
<1>7. WalkInv' /\ BufferInv' /\ FoundInv'
  BY <1>1, <1>3, <1>5, <1>6 DEF SearchInv, WalkInv, BufferInv, FoundInv
<1>8. CallInv'
  <2>1. ~done
    BY <1>1 DEF SearchInv, CallInv
  <2> QED
    BY <1>1, <2>1 DEF SearchInv, CallInv
<1> QED
  BY <1>7, <1>8 DEF SearchInv

LEMMA PruneStep ==
    ASSUME SearchInv, Prune
    PROVE  SearchInv'
<1> DEFINE next == Bumped(stack)
           q == NewText(search, stack, path)
<1>1. /\ search \in Searches /\ StackOK(search, stack, path) /\ search.dict \in SUBSET Text
      /\ stack # << >> /\ ~Exhausted /\ stack' = Advanced /\ pc = "collect" /\ WalkInv
      /\ ~MayMatch(Automaton, NewState) /\ Len(search.query) <= MaxQuery
      /\ UNCHANGED <<search, path, words, used, results, count, total, done, pc, delivered>>
  BY SearchFacts DEF SearchInv, WalkInv, CallInv, Prune, Running
<1>2. /\ TopOf(stack).next < Len(TopLabels(search, stack, path)) /\ Advanced = next
      /\ q \in Text /\ NewState = StateBehind(Automaton, q) /\ Len(q) = Len(stack)
  BY <1>1, StepFacts
<1>3. StackOK(search, next, path)
  BY <1>1, <1>2, StackAdvance
<1>4. ASSUME NEW w \in MatchesOf(search)
      PROVE  PassedIn(search, next, path, w) <=> PassedIn(search, stack, path, w)
  <2>1. w \in search.dict
    BY DEF MatchesOf
  <2>2. PassedIn(search, next, path, w) <=> PassedIn(search, stack, path, w) \/ AgreeUpTo(q, w, Len(q))
    BY <1>1, <1>2, <2>1, WalkAdvance
  <2>3. ~AgreeUpTo(q, w, Len(q))
    <3> SUFFICES ASSUME AgreeUpTo(q, w, Len(q)) PROVE FALSE
      OBVIOUS
    <3>1. Len(q) \in 1..Len(w) /\ w \in Text /\ Len(w) \in Nat /\ Len(q) \in Nat
      <4>1. w \in Text /\ Len(w) \in Nat
        BY <1>1, <2>1, TextWord
      <4>2. Len(stack) # 0 /\ Len(stack) \in Nat
        BY <1>1 DEF StackOK
      <4> HIDE DEF q
      <4> QED
        BY <1>2, <4>1, <4>2 DEF AgreeUpTo
    <3>2. SubSeq(w, 1, Len(q)) = q
      <4> DEFINE a == SubSeq(w, 1, Len(q))
      <4> HIDE DEF q
      <4>1. a \in Seq(Byte) /\ Len(a) = Len(q) /\ \A i \in 1..Len(q) : a[i] = w[i]
        BY <3>1 DEF Text
      <4>2. \A i \in 1..Len(q) : a[i] = q[i]
        BY <4>1 DEF AgreeUpTo
      <4> HIDE DEF a
      <4>3. a = q
        BY <1>2, <4>1, <4>2, SeqEqual DEF Text
      <4> QED
        BY <4>3 DEF a
    <3>3. MayMatch(Automaton, StateBehind(Automaton, SubSeq(w, 1, Len(q))))
      <4>1. Len(w) <= MaxDepth
        BY DEF MatchesOf
      <4> QED
        BY <1>1, <2>1, <3>1, <4>1, AutomatonFacts DEF Automaton
    <3> QED
      BY <1>1, <1>2, <3>2, <3>3
  <2> QED
    BY <2>2, <2>3
<1>5. Found' = Found
  BY <1>1 DEF Found, Batch, Read
<1> HIDE DEF next
<1>6. FoundOK(search, Found, next, path)
  BY <1>4, FoundKept DEF SearchInv, FoundInv
<1>7. WalkInv' /\ BufferInv' /\ FoundInv'
  BY <1>1, <1>2, <1>3, <1>5, <1>6 DEF SearchInv, WalkInv, BufferInv, FoundInv
<1>8. CallInv'
  <2>1. ~done
    BY <1>1 DEF SearchInv, CallInv
  <2> QED
    BY <1>1, <2>1 DEF SearchInv, CallInv
<1> QED
  BY <1>7, <1>8 DEF SearchInv

\* Taking a transition passes its own word and no other match: the target is
\* visited next, or no match lies below it.
LEMMA TakeWalks ==
    ASSUME SearchInv, Take
    PROVE  LET q == NewText(search, stack, path)
           IN  /\ StackOK(search, stack', q)
               /\ \A w \in MatchesOf(search) :
                     PassedIn(search, stack', q, w) <=> PassedIn(search, stack, path, w) \/ w = q
               /\ q \in search.dict => ~PassedIn(search, stack, path, q)
<1> DEFINE q == NewText(search, stack, path)
           next == Bumped(stack)
           f == Frame(Target, NewState, Top.depth + 1)
<1>1. /\ search \in Searches /\ StackOK(search, stack, path) /\ search.dict \in SUBSET Text
      /\ stack # << >> /\ ~Exhausted /\ WalkInv
      /\ stack' = IF Descends(Target, Top.depth) THEN Append(Advanced, f) ELSE Advanced
  BY SearchFacts DEF SearchInv, WalkInv, Take, Running
<1>2. /\ TopOf(stack).next < Len(TopLabels(search, stack, path)) /\ Advanced = next
      /\ q \in Text /\ NewState = StateBehind(Automaton, q) /\ Len(q) = Len(stack) /\ Len(q) <= MaxDepth
      /\ Len(q) = Top.depth + 1 /\ Target = Right(search.dict, q)
  BY <1>1, StepFacts
<1>3. MaxDepth \in Nat /\ Len(q) \in Nat /\ q \in Word
  BY <1>2, TextWord, BoundsAssumption
<1>4. q \in search.dict => ~PassedIn(search, stack, path, q)
  <2> SUFFICES ASSUME q \in search.dict PROVE ~PassedIn(search, stack, path, q)
    OBVIOUS
  <2>1. PassedIn(search, stack, path, q) <=> Precedes(q, q)
    BY <1>1, <1>2, WalkAdvance
  <2> QED
    BY <1>3, <2>1, PrecedesIrreflexive
<1>5. CASE Descends(Target, Top.depth)
  <2>1. stack' = Append(next, f)
    BY <1>1, <1>2, <1>5
  <2>2. f = Frame(Right(search.dict, q), StateBehind(AutomatonOf(search), q), Len(stack)) /\ f.next = 0
    BY <1>2 DEF Frame, Automaton
  <2>3. Len(stack) < MaxDepth
    BY <1>2, <1>5 DEF Descends
  <2> HIDE DEF f
  <2>4. StackOK(search, stack', q)
    BY <1>1, <1>2, <2>1, <2>2, <2>3, StackPush
  <2>5. \A w \in search.dict : PassedIn(search, stack', q, w) <=> PassedIn(search, stack, path, w) \/ w = q
    BY <1>1, <1>2, <2>1, <2>2, WalkPush
  <2> QED
    BY <1>4, <2>4, <2>5 DEF MatchesOf
<1>6. CASE ~Descends(Target, Top.depth)
  <2>1. stack' = next
    BY <1>1, <1>2, <1>6
  <2>2. StackOK(search, stack', q)
    BY <1>1, <1>2, <2>1, StackAdvance
  <2>3. ASSUME NEW w \in MatchesOf(search)
        PROVE  PassedIn(search, stack', q, w) <=> PassedIn(search, stack, path, w) \/ w = q
    <3>1. w \in search.dict /\ Len(w) <= MaxDepth /\ w \in Text /\ w \in Word /\ Len(w) \in Nat
      <4>1. w \in search.dict /\ Len(w) <= MaxDepth
        BY DEF MatchesOf
      <4> QED
        BY <1>1, <4>1, TextWord
    <3>2. PassedIn(search, stack', q, w) <=> PassedIn(search, stack, path, w) \/ AgreeUpTo(q, w, Len(q))
      BY <1>1, <1>2, <2>1, <3>1, WalkAdvance
    <3>3. AgreeUpTo(q, w, Len(q)) => w = q
      <4> SUFFICES ASSUME AgreeUpTo(q, w, Len(q)), w # q PROVE FALSE
        OBVIOUS
      <4> HIDE DEF q, next
      <4>1. Len(w) # Len(q)
        <5> SUFFICES ASSUME Len(w) = Len(q) PROVE w = q
          OBVIOUS
        <5>1. \A i \in 1..Len(w) : w[i] = q[i]
          BY DEF AgreeUpTo
        <5> QED
          BY <1>3, <3>1, <5>1, SeqEqual DEF Word
      <4>2. GoesOn(q, w) /\ Len(q) < MaxDepth
        BY <1>3, <3>1, <4>1 DEF GoesOn, AgreeUpTo
      <4>3. LabelsOf(Right(search.dict, q)) # << >>
        <5>1. \E i \in 1..Len(LabelsOf(Right(search.dict, q))) :
                 LabelsOf(Right(search.dict, q))[i] = w[Len(q) + 1]
          BY <1>1, <1>2, <3>1, <4>2, LabelsFacts
        <5>2. LabelsOf(Right(search.dict, q)) = << >> => Len(LabelsOf(Right(search.dict, q))) = 0
          OBVIOUS
        <5> QED
          BY <5>1, <5>2
      <4> QED
        BY <1>2, <1>6, <4>2, <4>3 DEF Descends
    <3>4. AgreeUpTo(q, q, Len(q))
      BY <1>3 DEF AgreeUpTo
    <3> QED
      BY <3>2, <3>3, <3>4
  <2> QED
    BY <1>4, <2>2, <2>3
<1> QED
  BY <1>5, <1>6

\* A match is emitted, and the buffers have room for it if there is plenty.
LEMMA TakeEmits ==
    ASSUME SearchInv, Take
    PROVE  LET q == NewText(search, stack, path)
           IN  /\ Emits <=> q \in MatchesOf(search)
               /\ q \in MatchesOf(search) => NewDist = Distance(search.metric, search.query, q)
               /\ NewDist \in DistancesIn(search)
               /\ Plenty(search) => HasRoom(Top.depth + 1)
<1> DEFINE q == NewText(search, stack, path)
<1>1. /\ search \in Searches /\ stack # << >> /\ ~Exhausted /\ WalkInv /\ count < search.cap
      /\ Len(search.query) <= MaxQuery
      /\ search.cap \in Nat /\ search.room \in Nat
  BY SearchFacts DEF SearchInv, WalkInv, CallInv, Take, Running
<1>2. /\ q \in Text /\ NewState = StateBehind(Automaton, q) /\ Len(q) = Len(stack) /\ Len(q) <= MaxDepth
      /\ Len(q) = Top.depth + 1 /\ (IsFinal(Target) <=> q \in search.dict)
  BY <1>1, StepFacts
<1>3. q # << >>
  <2>1. stack \in Seq(FrameSet(search))
    BY DEF SearchInv, WalkInv, StackOK
  <2>2. Len(stack) # 0
    BY <1>1, <2>1
  <2>3. Len(q) # 0
    BY <1>2, <2>2
  <2> HIDE DEF q
  <2> QED
    BY <2>3
<1>4. NewDist = DistOf(Automaton, StateBehind(Automaton, q)) /\ NewDist \in DistancesIn(search)
  BY <1>2 DEF NewDist, DistancesIn, Automaton
<1> HIDE DEF q
<1>5. q \in search.dict => (NewDist <= search.max <=> Distance(search.metric, search.query, q) <= search.max)
  BY <1>1, <1>2, <1>4, AutomatonFacts DEF Automaton
<1>6. q \in MatchesOf(search) => NewDist = Distance(search.metric, search.query, q)
  <2>1. q \in MatchesOf(search) => q \in search.dict
    BY DEF MatchesOf
  <2> QED
    BY <1>1, <1>2, <1>4, <2>1, AutomatonFacts DEF Automaton
<1>7. Emits <=> q \in MatchesOf(search)
  BY <1>2, <1>3, <1>5 DEF Emits, MatchesOf
<1>8. ASSUME Plenty(search)
      PROVE  HasRoom(Top.depth + 1)
  <2>1. count \in Nat /\ used \in Nat /\ used <= count * MaxDepth /\ MaxDepth \in Nat /\ Len(q) \in Nat
    BY <1>2, TextWord, BoundsAssumption DEF SearchInv, BufferInv, BuffersOK
  <2>2. (count + 1) * MaxDepth <= search.cap * MaxDepth
    <3>1. count + 1 <= search.cap /\ count + 1 \in Nat
      BY <1>1, <2>1
    <3>2. \A a, b, m \in Nat : a <= b => a * m <= b * m
      OBVIOUS
    <3> QED
      BY <1>1, <2>1, <3>1, <3>2
  <2>3. (count + 1) * MaxDepth = count * MaxDepth + MaxDepth /\ count * MaxDepth \in Nat
    BY <2>1
  <2>4. search.cap * MaxDepth <= search.room /\ search.cap * MaxDepth \in Nat
    BY <1>1, <1>8, <2>1 DEF Plenty
  <2>5. used + Len(q) <= search.room
    BY <1>1, <1>2, <2>1, <2>2, <2>3, <2>4
  <2> QED
    BY <1>1, <1>2, <2>5 DEF HasRoom
<1> QED
  BY <1>4, <1>6, <1>7, <1>8 DEF q

LEMMA ConcatAppend ==
    ASSUME NEW S, NEW a \in Seq(S), NEW b \in Seq(S), NEW x \in S
    PROVE  a \o Append(b, x) = Append(a \o b, x) /\ a \o b \in Seq(S)
<1> DEFINE l == a \o Append(b, x)
           r == Append(a \o b, x)
<1>1. a \o b \in Seq(S)
  OBVIOUS
<1>2. l \in Seq(S) /\ Len(l) = Len(a) + Len(b) + 1
  OBVIOUS
<1>3. r \in Seq(S) /\ Len(r) = Len(a) + Len(b) + 1
  OBVIOUS
<1>4. \A i \in 1..(Len(a) + Len(b) + 1) : l[i] = r[i]
  OBVIOUS
<1> HIDE DEF l, r
<1>5. l = r
  BY <1>2, <1>3, <1>4, SeqEqual
<1> QED
  BY <1>1, <1>5 DEF l, r

LEMMA FoundInBatch ==
    Found = CASE pc = "collect" -> delivered \o BatchOf(results, words, count)
              [] pc = "caller" -> IF search.all THEN delivered ELSE BatchOf(results, words, count)
              [] pc = "returned" -> delivered
BY DEF Found, Batch, Read, BatchOf, ReadAt

LEMMA TakeStep ==
    ASSUME SearchInv, Take
    PROVE  SearchInv'
<1> DEFINE q == NewText(search, stack, path)
           d == NewDist
<1>1. /\ search \in Searches /\ stack # << >> /\ ~Exhausted /\ WalkInv /\ count < search.cap
      /\ Len(search.query) <= MaxQuery /\ pc = "collect"
      /\ search.cap \in Nat /\ search.room \in Nat /\ search.dict \in SUBSET Text
      /\ path' = NewPath /\ UNCHANGED <<search, total, done, pc, delivered>>
  BY SearchFacts DEF SearchInv, WalkInv, CallInv, Take, Running
<1>2. q \in Text /\ Len(q) <= MaxDepth /\ Len(q) = Top.depth + 1 /\ NewPath = q /\ Len(q) \in Nat
  BY <1>1, StepFacts, TextWord
<1>3. /\ StackOK(search, stack', q)
      /\ \A w \in MatchesOf(search) :
            PassedIn(search, stack', q, w) <=> PassedIn(search, stack, path, w) \/ w = q
      /\ q \in search.dict => ~PassedIn(search, stack, path, q)
  BY TakeWalks
<1>4. /\ Emits <=> q \in MatchesOf(search)
      /\ q \in MatchesOf(search) => d = Distance(search.metric, search.query, q)
      /\ d \in DistancesIn(search)
      /\ Plenty(search) => HasRoom(Top.depth + 1)
  BY TakeEmits
<1> HIDE DEF q, d
<1>5. WalkInv'
  BY <1>1, <1>2, <1>3 DEF WalkInv
<1>6. CallInv'
  <2>1. ~done
    BY <1>1 DEF SearchInv, CallInv
  <2> QED
    BY <1>1, <2>1 DEF SearchInv, CallInv
<1>7. BuffersOK(search, results, words, used, count) /\ FoundOK(search, Found, stack, path)
      /\ StackOK(search, stack, path)
  BY DEF SearchInv, BufferInv, FoundInv, WalkInv
<1>8. CASE Emits /\ HasRoom(Top.depth + 1)
  <2> DEFINE batch == BatchOf(results, words, count)
             x == [word |-> q, dist |-> d]
             batch2 == BatchOf(results', words', count')
  <2>1. /\ words' = Written(words, used, q) /\ used' = used + Len(q) /\ count' = count + 1
        /\ results' = Written(results, count, <<[from |-> used, len |-> Len(q), dist |-> d]>>)
        /\ used + Len(q) <= search.room /\ used \in Nat /\ Top.depth + 1 = Len(q)
    <3>1. /\ words' = Written(words, used, NewPath) /\ used' = used + Top.depth + 1 /\ count' = count + 1
          /\ results' = Written(results, count, <<[from |-> used, len |-> Top.depth + 1, dist |-> NewDist]>>)
      BY <1>8 DEF Take
    <3>2. used + (Top.depth + 1) <= search.room
      BY <1>8 DEF HasRoom
    <3>3. used \in Nat
      BY <1>7 DEF BuffersOK
    <3>4. Top.depth \in Nat
      <4>1. StackOK(search, stack, path) /\ search.dict \in SUBSET Text
        BY <1>1, <1>7
      <4>2. TopOf(stack) \in FrameSet(search)
        BY <1>1, <4>1, TopFacts
      <4> QED
        BY <4>2 DEF Top, TopOf, FrameSet
    <3>5. used' = used + (Top.depth + 1)
      BY <3>1, <3>3, <3>4
    <3> QED
      BY <1>2, <3>1, <3>2, <3>3, <3>5 DEF d
  <2>2. BuffersOK(search, results', words', used', count') /\ batch2 = Append(batch, x)
    BY <1>1, <1>2, <1>4, <1>7, <2>1, BatchMore
  <2>3. batch \in Seq(FoundSet(search)) /\ x \in FoundSet(search) /\ delivered \in Seq(FoundSet(search))
    <3>1. batch \in Seq(FoundSet(search))
      BY <1>7, BatchTypes
    <3>2. x \in FoundSet(search)
      BY <1>2, <1>4 DEF FoundSet
    <3> QED
      BY <3>1, <3>2 DEF SearchInv, CallInv
  <2>4. Found = delivered \o batch
    BY <1>1, FoundInBatch
  <2>5. Found' = delivered \o batch2
    BY <1>1 DEF Found, Batch, Read, BatchOf, ReadAt
  <2>6. x = ResultOf(search, q) /\ q \in MatchesOf(search) /\ q \in search.dict
    BY <1>4, <1>8 DEF ResultOf, MatchesOf
  <2> HIDE DEF batch, batch2, x
  <2>7. Found' = Append(Found, x)
    <3>1. delivered \o Append(batch, x) = Append(delivered \o batch, x)
      BY <2>3, ConcatAppend
    <3> QED
      BY <2>2, <2>4, <2>5, <3>1
  <2>8. FoundOK(search, Append(Found, ResultOf(search, q)), stack', q)
    BY <1>1, <1>3, <1>7, <2>6, FoundMore
  <2>9. FoundInv' /\ BufferInv'
    BY <1>1, <1>2, <2>2, <2>6, <2>7, <2>8 DEF FoundInv, BufferInv
  <2> QED
    BY <1>5, <1>6, <2>9 DEF SearchInv
<1>9. CASE ~(Emits /\ HasRoom(Top.depth + 1))
  <2>1. UNCHANGED <<words, used, results, count>>
    BY <1>9 DEF Take
  <2>2. Found' = Found
    BY <1>1, <2>1 DEF Found, Batch, Read
  <2>3. Plenty(search) => q \notin MatchesOf(search)
    BY <1>4, <1>9
  <2>4. FoundOK(search, Found, stack', q)
    BY <1>3, <1>7, <2>3, FoundKept
  <2>5. FoundInv' /\ BufferInv'
    BY <1>1, <1>2, <1>7, <2>1, <2>2, <2>4 DEF FoundInv, BufferInv
  <2> QED
    BY <1>5, <1>6, <2>5 DEF SearchInv
<1> QED
  BY <1>8, <1>9

LEMMA Initially == Init => SearchInv
<1> SUFFICES ASSUME Init PROVE SearchInv
  OBVIOUS
<1> DEFINE f == Frame(search.dict, Start(Automaton), 0)
<1>1. /\ search \in Searches /\ stack = <<f>> /\ path = << >> /\ words = << >> /\ used = 0
      /\ results = << >> /\ count = 0 /\ total = 0 /\ done = FALSE /\ pc = "caller" /\ delivered = << >>
  BY DEF Init
<1>2. search.dict \in SUBSET Text /\ search.cap \in Nat /\ search.room \in Nat /\ MaxDepth \in Nat /\ MaxDepth # 0
  BY <1>1, SearchFacts, BoundsAssumption
<1>3. << >> \in Text /\ Len(<< >>) = 0
  BY DEF Text
<1>4. /\ Spelled(path, 1) = << >> /\ Right(search.dict, << >>) = search.dict
      /\ StateBehind(Automaton, << >>) = Start(Automaton)
  <2>1. 0 \in Byte
    BY DEF Byte
  <2>2. Spelled(<< >>, 1) = << >>
    BY <1>3, SpelledFacts
  <2> QED
    BY <1>1, <1>2, <1>3, <2>1, <2>2, ChildFacts, StateSteps
<1>5. f \in FrameSet(search) /\ FrameOK(search, f, path, 1) /\ f.next = 0
  <2>1. /\ f.node = search.dict /\ f.state = StateBehind(AutomatonOf(search), << >>)
        /\ f.depth = 0 /\ f.next = 0
        /\ f = [node |-> f.node, state |-> f.state, depth |-> f.depth, next |-> f.next]
    BY <1>4 DEF Frame, Automaton
  <2> HIDE DEF f
  <2>2. f \in FrameSet(search)
    BY <1>2, <1>3, <2>1 DEF FrameSet
  <2>3. Len(LabelsAt(search, path, 1)) \in Nat
    BY <1>2, <1>3, <1>4, LabelsFacts DEF LabelsAt
  <2> QED
    BY <1>4, <2>1, <2>2, <2>3 DEF FrameOK
<1> HIDE DEF f
<1>6. stack \in Seq(FrameSet(search)) /\ Len(stack) = 1 /\ stack[1] = f /\ stack # << >>
  BY <1>1, <1>5
<1>7. StackOK(search, stack, path)
  <2>1. \A i \in 1..Len(stack) : i = 1
    BY <1>6
  <2>2. 1..(Len(stack) - 1) = {}
    BY <1>6
  <2>3. Len(stack) <= MaxDepth /\ Len(path) <= MaxDepth /\ Len(stack) <= Len(path) + 1
    BY <1>1, <1>2, <1>3, <1>6
  <2> QED
    BY <1>1, <1>3, <1>5, <1>6, <2>1, <2>2, <2>3 DEF StackOK
<1>8. BuffersOK(search, results, words, used, count) /\ BatchOf(results, words, 0) = << >>
  <2>1. results \in Seq(ResultSet(search)) /\ words \in Text
    BY <1>1, <1>3
  <2> QED
    BY <1>1, <1>2, <2>1, BatchEmpty
<1>9. Found = << >>
  <2>1. BatchOf(results, words, 0) = << >>
    BY <1>8
  <2> QED
    BY <1>1, <2>1, FoundInBatch
<1>10. ASSUME NEW w \in MatchesOf(search)
       PROVE  ~PassedIn(search, stack, path, w)
  <2>1. w # << >> /\ w \in search.dict
    BY DEF MatchesOf
  <2>2. PassedIn(search, stack, path, w) <=> Passed(<< >>, TopLabels(search, stack, path), 0, w)
    BY <1>4, <1>5, <1>6 DEF PassedIn, TopOf
  <2>3. ~Passed(<< >>, TopLabels(search, stack, path), 0, w)
    BY <2>1 DEF Passed, Precedes
  <2> QED
    BY <2>2, <2>3
<1>11. FoundOK(search, Found, stack, path)
  BY <1>9, <1>10 DEF FoundOK
<1>12. CallInv
  <2>1. \A S : << >> \in Seq(S)
    OBVIOUS
  <2>2. delivered \in Seq(FoundSet(search)) /\ total \in Nat
    BY <1>1, <2>1
  <2>3. done \in BOOLEAN
    BY <1>1
  <2> QED
    BY <1>1, <2>2, <2>3 DEF CallInv
<1> QED
  BY <1>1, <1>7, <1>8, <1>11, <1>12 DEF SearchInv, WalkInv, BufferInv, FoundInv

\* Between the batches the walk stands still, and what has been found stays.
LEMMA CallStep ==
    ASSUME SearchInv, Refuse \/ Collect \/ CollectReturn \/ Return \/ UNCHANGED vars
    PROVE  SearchInv'
<1> DEFINE batch == BatchOf(results, words, count)
<1>1. /\ search \in Searches /\ search.cap \in Nat /\ search.cap # 0 /\ search.room \in Nat
      /\ search.all \in BOOLEAN
  BY SearchFacts DEF SearchInv, WalkInv
<1>2. /\ WalkInv /\ BuffersOK(search, results, words, used, count)
      /\ FoundOK(search, Found, stack, path) /\ CallInv
  BY DEF SearchInv, BufferInv, FoundInv
<1>3. /\ results \in Seq(ResultSet(search)) /\ words \in Text /\ count \in Nat /\ count <= search.cap
  BY <1>2 DEF BuffersOK
<1>4. batch \in Seq(FoundSet(search)) /\ Len(batch) = count
  BY <1>2, BatchTypes
<1>5. delivered \in Seq(FoundSet(search)) /\ total \in Nat /\ done \in BOOLEAN
  BY <1>2 DEF CallInv
<1>6. UNCHANGED <<search, stack, path>>
  BY DEF Refuse, Collect, CollectReturn, Return, vars
<1>7. WalkInv'
  BY <1>2, <1>6 DEF WalkInv
<1>8. SUFFICES Found' = Found /\ BufferInv' /\ CallInv'
  BY <1>2, <1>6, <1>7 DEF SearchInv, FoundInv
<1>9. CASE UNCHANGED vars
  <2>1. Found' = Found
    BY <1>9 DEF vars, Found, Batch, Read
  <2>2. BufferInv'
    BY <1>2, <1>9 DEF vars, BufferInv
  <2>3. CallInv'
    BY <1>2, <1>9 DEF vars, CallInv
  <2> QED
    BY <2>1, <2>2, <2>3
<1>10. CASE Refuse
  <2>1. /\ pc = "caller" /\ pc' = "returned" /\ Len(search.query) > MaxQuery
        /\ UNCHANGED <<search, stack, path, words, used, results, count, total, done, delivered>>
    BY <1>10 DEF Refuse
  <2>2. BufferInv'
    BY <1>2, <2>1 DEF BufferInv
  <2>3. MaxQuery \in Nat /\ Len(search.query) \in Nat
    BY <1>1, SearchFacts, BoundsAssumption
  <2>4. ~(Len(search.query) <= MaxQuery)
    BY <2>1, <2>3
  <2>5. CallInv'
    BY <1>2, <2>1, <2>4 DEF CallInv
  <2>6. Found' = Found
    <3>1. Found' = delivered
      BY <2>1 DEF Found
    <3>2. Found = IF search.all THEN delivered ELSE batch
      BY <2>1, FoundInBatch
    <3>3. ~search.all => delivered = << >> /\ count = 0
      BY <1>2, <2>1, <2>4 DEF CallInv
    <3>4. BatchOf(results, words, 0) = << >>
      BY <1>1, <1>3, BatchEmpty
    <3> QED
      BY <3>1, <3>2, <3>3, <3>4
  <2> QED
    BY <2>2, <2>5, <2>6
<1>11. CASE Collect
  <2>1. /\ pc = "caller" /\ pc' = "collect" /\ count' = 0 /\ used' = 0 /\ WantsMore
        /\ UNCHANGED <<search, stack, path, words, results, total, done, delivered>>
    BY <1>11 DEF Collect
  <2>2. BuffersOK(search, results, words, 0, 0) /\ BatchOf(results, words, 0) = << >>
    BY <1>1, <1>3, BatchEmpty
  <2>3. BufferInv'
    BY <2>1, <2>2 DEF BufferInv
  <2>4. ~search.all => total = 0 /\ count = 0 /\ delivered = << >>
    BY <1>1, <1>2, <1>3, <1>5, <2>1 DEF CallInv, WantsMore
  <2>5. CallInv'
    BY <1>2, <2>1, <2>4 DEF CallInv, WantsMore
  <2>6. Found' = Found
    <3>1. Found' = delivered \o BatchOf(results, words, 0)
      BY <2>1 DEF Found, Batch, Read, BatchOf, ReadAt
    <3>2. Found' = delivered
      BY <1>5, <2>2, <3>1
    <3>3. Found = IF search.all THEN delivered ELSE batch
      BY <2>1, FoundInBatch
    <3>4. ~search.all => batch = << >>
      BY <2>2, <2>4
    <3> QED
      BY <2>4, <3>2, <3>3, <3>4
  <2> QED
    BY <2>3, <2>5, <2>6
<1>12. CASE CollectReturn
  <2>1. /\ pc = "collect" /\ pc' = "caller" /\ total' = total + count /\ done' = (stack = << >>)
        /\ stack = << >> \/ count >= search.cap
        /\ delivered' = IF search.all THEN delivered \o batch ELSE delivered
        /\ UNCHANGED <<search, stack, path, words, used, results, count>>
    BY <1>12 DEF CollectReturn, Read, BatchOf, ReadAt
  <2>2. BufferInv'
    BY <1>2, <2>1 DEF BufferInv
  <2>3. ~search.all => delivered = << >> /\ total = 0
    BY <1>2, <2>1 DEF CallInv
  <2>4. delivered \o batch \in Seq(FoundSet(search)) /\ << >> \o batch = batch
    BY <1>4, <1>5
  <2>5. Found = delivered \o batch
    BY <2>1, FoundInBatch
  <2>6. Found' = IF search.all THEN delivered \o batch ELSE batch
    <3>1. Found' = IF search.all THEN delivered' ELSE batch
      BY <2>1 DEF Found, Batch, Read, BatchOf, ReadAt
    <3> QED
      BY <2>1, <3>1
  <2> HIDE DEF batch
  <2>7. Found' = Found
    BY <2>3, <2>4, <2>5, <2>6
  <2>8. CallInv'
    <3>1. delivered' \in Seq(FoundSet(search))
      BY <1>5, <2>1, <2>4
    <3>2. total' \in Nat /\ (~search.all => total' = count)
      BY <1>3, <1>5, <2>1, <2>3
    <3>3. done' \in BOOLEAN /\ (done' => stack = << >>) /\ (done' \/ count >= search.cap)
      BY <2>1
    <3>4. Len(search.query) <= MaxQuery
      BY <1>2, <2>1 DEF CallInv
    <3> QED
      BY <2>1, <2>3, <3>1, <3>2, <3>3, <3>4 DEF CallInv
  <2> QED
    BY <2>2, <2>7, <2>8
<1>13. CASE Return
  <2>1. /\ pc = "caller" /\ pc' = "returned" /\ Len(search.query) <= MaxQuery /\ ~WantsMore
        /\ delivered' = IF search.all THEN delivered ELSE BatchOf(results, words, total)
        /\ UNCHANGED <<search, stack, path, words, used, results, count, total, done>>
    BY <1>13 DEF Return, Read, BatchOf, ReadAt
  <2>2. BufferInv'
    BY <1>2, <2>1 DEF BufferInv
  <2>3. ~search.all => total = count
    BY <1>2, <2>1 DEF CallInv
  <2>4. delivered' = IF search.all THEN delivered ELSE batch
    BY <2>1, <2>3
  <2>5. Found' = Found
    <3>1. Found = IF search.all THEN delivered ELSE batch
      BY <2>1, FoundInBatch
    <3>2. Found' = delivered'
      BY <2>1 DEF Found
    <3> QED
      BY <2>4, <3>1, <3>2
  <2>6. done \/ (~search.all /\ count = search.cap)
    BY <1>1, <1>3, <2>1, <2>3 DEF WantsMore
  <2> HIDE DEF batch
  <2>7. CallInv'
    BY <1>2, <1>4, <1>5, <2>1, <2>4, <2>6 DEF CallInv
  <2> QED
    BY <2>2, <2>5, <2>7
<1> QED
  BY <1>9, <1>10, <1>11, <1>12, <1>13

\* The state of the iterator, what it has found, and where its caller is.
THEOREM SearchInvariant == Spec => []SearchInv
<1>1. SearchInv /\ [Next]_vars => SearchInv'
  <2> SUFFICES ASSUME SearchInv, [Next]_vars PROVE SearchInv'
    OBVIOUS
  <2>1. CASE PopFrame
    BY <2>1, PopStep
  <2>2. CASE Prune
    BY <2>2, PruneStep
  <2>3. CASE Take
    BY <2>3, TakeStep
  <2>4. CASE Refuse \/ Collect \/ CollectReturn \/ Return \/ UNCHANGED vars
    BY <2>4, CallStep
  <2> QED
    BY <2>1, <2>2, <2>3, <2>4 DEF Next
<1> QED
  BY <1>1, Initially, PTL DEF Spec

----------------------------------------------------------------------------
(* The properties.                                                         *)

LEMMA SoundFollows ==
    ASSUME SearchInv
    PROVE  IteratorSound
<1>1. /\ search \in Searches /\ search.dict \in SUBSET Text /\ search.cap \in Nat /\ search.room \in Nat
      /\ StackOK(search, stack, path) /\ BuffersOK(search, results, words, used, count) /\ CallInv
  BY SearchFacts DEF SearchInv, WalkInv, BufferInv
<1>2. /\ stack \in Seq(FrameSet(search)) /\ DOMAIN stack = 1..Len(stack) /\ Len(stack) \in Nat
      /\ path \in Text /\ path \in Seq(Nat) /\ Len(path) \in Nat
      /\ Len(stack) <= MaxDepth /\ Len(path) <= MaxDepth /\ Len(stack) <= Len(path) + 1
      /\ \A i \in 1..Len(stack) : FrameOK(search, stack[i], path, i)
  <2>1. stack \in Seq(FrameSet(search)) /\ path \in Text
    BY <1>1 DEF StackOK
  <2>2. path \in Seq(Nat) /\ Len(path) \in Nat
    BY <2>1, TextWord DEF Word
  <2>3. DOMAIN stack = 1..Len(stack) /\ Len(stack) \in Nat
    BY <2>1
  <2>4. /\ Len(stack) <= MaxDepth /\ Len(path) <= MaxDepth /\ Len(stack) <= Len(path) + 1
        /\ \A i \in 1..Len(stack) : FrameOK(search, stack[i], path, i)
    BY <1>1 DEF StackOK
  <2> QED
    BY <2>1, <2>2, <2>3, <2>4
<1>3. TypeOK
  <2>1. \A i \in DOMAIN stack : stack[i].next \in 0..Len(LabelsOf(stack[i].node))
    BY <1>2 DEF FrameOK, LabelsAt
  <2>2. words \in Seq(Nat)
    <3>1. words \in Text
      BY <1>1 DEF BuffersOK
    <3> QED
      BY <3>1, TextWord DEF Word
  <2>3. {used, count, total} \subseteq Nat
    BY <1>1 DEF BuffersOK, CallInv
  <2>4. done \in BOOLEAN /\ pc \in {"caller", "collect", "returned"}
    BY <1>1 DEF CallInv
  <2> QED
    BY <1>2, <2>1, <2>2, <2>3, <2>4 DEF TypeOK
<1>4. StackSpellsPath
  <2> SUFFICES ASSUME stack # << >>
               PROVE  /\ stack[1].node = search.dict
                      /\ \A i \in DOMAIN stack : stack[i].depth = i - 1
                      /\ \A i \in 2..Len(stack) :
                            LET above == stack[i - 1]
                                label == LabelsOf(above.node)[above.next]
                            IN  /\ path[i - 1] = label
                                /\ stack[i].node = ChildOf(above.node, label)
                                /\ stack[i].state = Advance(Automaton, above.state, label)
    BY DEF StackSpellsPath
  <2>1. stack[1].node = search.dict
    <3>1. 1 \in 1..Len(stack) /\ 1 \in 1..(Len(path) + 1)
      BY <1>2
    <3>2. Spelled(path, 1) = << >>
      BY <1>2, <3>1, SpelledFacts
    <3>3. stack[1].node = Right(search.dict, << >>)
      BY <1>2, <3>1, <3>2 DEF FrameOK
    <3>4. 0 \in Byte
      BY DEF Byte
    <3> QED
      BY <1>1, <1>2, <3>3, <3>4, ChildFacts
  <2>2. \A i \in DOMAIN stack : stack[i].depth = i - 1
    BY <1>2 DEF FrameOK
  <2>3. ASSUME NEW i \in 2..Len(stack)
        PROVE  LET above == stack[i - 1]
                   label == LabelsOf(above.node)[above.next]
               IN  /\ path[i - 1] = label
                   /\ stack[i].node = ChildOf(above.node, label)
                   /\ stack[i].state = Advance(Automaton, above.state, label)
    <3> DEFINE u == Spelled(path, i - 1)
               c == path[i - 1]
    <3>1. /\ i \in 1..Len(stack) /\ i - 1 \in 1..Len(stack) /\ i - 1 \in 1..(Len(stack) - 1)
          /\ i - 1 \in 1..Len(path) /\ i - 1 \in 1..(Len(path) + 1) /\ i - 1 # Len(path) + 1
          /\ (i - 1) + 1 = i
      BY <1>2
    <3>2. u \in Text /\ c \in Byte /\ Spelled(path, i) = Append(u, c)
      <4>1. path \in Seq(Byte)
        BY <1>2 DEF Text
      <4>2. c \in Byte
        BY <3>1, <4>1
      <4>3. u \in Text /\ Spelled(path, (i - 1) + 1) = Append(u, c)
        BY <1>2, <3>1, SpelledFacts
      <4> QED
        BY <3>1, <4>2, <4>3
    <3> HIDE DEF u
    <3>3. FrameOK(search, stack[i - 1], path, i - 1) /\ FrameOK(search, stack[i], path, i)
      BY <1>2, <3>1
    <3>4. /\ stack[i - 1].node = Right(search.dict, u)
          /\ stack[i - 1].state = StateBehind(Automaton, u)
      BY <3>3 DEF FrameOK, Automaton, u
    <3>5. LabelsAt(search, path, i - 1)[stack[i - 1].next] = c
      BY <1>1, <3>1 DEF StackOK
    <3>6. LabelsOf(stack[i - 1].node)[stack[i - 1].next] = c
      BY <3>4, <3>5 DEF LabelsAt, u
    <3>7. stack[i].node = Right(search.dict, Append(u, c))
          /\ stack[i].state = StateBehind(Automaton, Append(u, c))
      BY <3>2, <3>3 DEF FrameOK, Automaton
    <3> HIDE DEF c
    <3>8. /\ ChildOf(Right(search.dict, u), c) = Right(search.dict, Append(u, c))
          /\ StateBehind(Automaton, Append(u, c)) = Advance(Automaton, StateBehind(Automaton, u), c)
      BY <1>1, <3>2, ChildFacts, StateSteps
    <3> QED
      BY <3>4, <3>6, <3>7, <3>8 DEF c
  <2> QED
    BY <2>1, <2>2, <2>3
<1>5. BatchFits
  BY <1>1 DEF BuffersOK, Adjoining, BatchFits
<1> QED
  BY <1>3, <1>4, <1>5 DEF IteratorSound

\* The iterator is sound in every state of a search: its arrays are never
\* overrun, the path spells the frames of the stack and the frames are a path
\* of the index (a label of an abandoned branch is never read), and the results
\* lie one behind the other in the word buffer.
THEOREM IteratorIsSound == Spec => []IteratorSound
<1>1. SearchInv => IteratorSound
  BY SoundFollows
<1> QED
  BY <1>1, SearchInvariant, PTL

LEMMA MatchNames ==
    /\ Matches = MatchesOf(search)
    /\ \A w : Result(w) = ResultOf(search, w)
    /\ Ample <=> Plenty(search)
BY DEF Matches, MatchesOf, Result, ResultOf, DistanceOf, Ample, Plenty

\* What a search has found, in and between its batches, are matches with their
\* distances, in lexicographic order and so without repetition, whatever the
\* sizes of its buffers.
THEOREM MatchesFound == Spec => []FoundAreMatches
<1>1. SearchInv => FoundAreMatches
  <2> SUFFICES ASSUME SearchInv PROVE FoundAreMatches
    OBVIOUS
  <2>1. FoundOK(search, Found, stack, path)
    BY DEF SearchInv, FoundInv
  <2>2. Found \in Seq({ResultOf(search, w) : w \in MatchesOf(search)})
    BY <2>1 DEF FoundOK
  <2>3. DOMAIN Found = 1..Len(Found)
    BY <2>2
  <2>4. \A i \in 1..Len(Found) : Found[i].word \in MatchesOf(search) /\ Found[i] = ResultOf(search, Found[i].word)
    BY <2>2, FoundTypes
  <2>5. \A i \in DOMAIN Found : Found[i].word \in Matches /\ Found[i] = Result(Found[i].word)
    BY <2>3, <2>4, MatchNames
  <2>6. \A i \in 1..(Len(Found) - 1) : Precedes(Found[i].word, Found[i + 1].word)
    BY <2>1 DEF FoundOK
  <2> QED
    BY <2>5, <2>6 DEF FoundAreMatches
<1> QED
  BY <1>1, SearchInvariant, PTL

\* When a search returns and its word buffer has room for as many words as its
\* result buffer, no match is lost: all of them are delivered, or as many of
\* the first ones in lexicographic order as the caller's buffer holds.
THEOREM NoMatchLost == Spec => []NoneLost
<1>1. SearchInv => NoneLost
  <2> SUFFICES ASSUME SearchInv, pc = "returned", Ample, Len(search.query) <= MaxQuery,
                      NEW w \in Matches \ Delivered
               PROVE  /\ ~search.all
                      /\ Len(delivered) = search.cap
                      /\ \A found \in Delivered : Precedes(found, w)
    BY DEF NoneLost
  <2>1. /\ search \in Searches /\ search.dict \in SUBSET Text /\ StackOK(search, stack, path)
        /\ FoundOK(search, Found, stack, path) /\ CallInv
    BY SearchFacts DEF SearchInv, WalkInv, FoundInv
  <2>2. Found = delivered
    BY DEF Found
  <2>3. w \in MatchesOf(search) /\ Plenty(search)
    BY MatchNames
  <2>4. delivered \in Seq({ResultOf(search, v) : v \in MatchesOf(search)}) /\ DOMAIN delivered = 1..Len(delivered)
    <3>1. delivered \in Seq({ResultOf(search, v) : v \in MatchesOf(search)})
      BY <2>1, <2>2 DEF FoundOK
    <3> QED
      BY <3>1
  <2>5. ~PassedIn(search, stack, path, w)
    <3>1. \A i \in 1..Len(delivered) : delivered[i].word # w
      BY <2>4 DEF Delivered
    <3> QED
      BY <2>1, <2>2, <2>3, <3>1 DEF FoundOK
  <2>6. ~done
    BY <2>1, <2>5 DEF CallInv, PassedIn
  <2>7. ~search.all /\ Len(delivered) = search.cap
    BY <2>1, <2>6 DEF CallInv
  <2>8. ASSUME NEW found \in Delivered
        PROVE  Precedes(found, w)
    <3>1. PICK i \in 1..Len(delivered) : found = delivered[i].word
      BY <2>4 DEF Delivered
    <3>2. PassedIn(search, stack, path, found)
      BY <2>1, <2>2, <3>1 DEF FoundOK
    <3>3. found \in MatchesOf(search)
      BY <2>4, <3>1, FoundTypes
    <3>4. found \in search.dict /\ w \in search.dict
      BY <2>3, <3>3 DEF MatchesOf
    <3> QED
      BY <2>1, <2>5, <3>2, <3>4, WalkOrder
  <2> QED
    BY <2>7, <2>8
<1> QED
  BY <1>1, SearchInvariant, PTL
==============================================================================
