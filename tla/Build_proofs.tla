------------------------------ MODULE Build_proofs ------------------------------
(***************************************************************************)
(* Proofs about Build, for all lists of words and every width of the       *)
(* counts: what RadixSort, FstBuilder and FstWriter do one after the other *)
(* leaves an index of the words.  What is proved of FstBuilder applies as  *)
(* it is; the proofs about the other two come first.                       *)
(***************************************************************************)
EXTENDS Build, FstBuilder_proofs

----------------------------------------------------------------------------
(* Counting: what is distributed, bucket after bucket, fills the places.   *)

\* The places of the first n whose bucket is b, or below b.
InBucket(B, n, b) == {k \in 0..(n - 1) : B[k] = b}
BelowBucket(B, n, b) == {k \in 0..(n - 1) : B[k] < b}

\* The place that the k-th of n gets.
TargetOf(B, n, k) == Cardinality(BelowBucket(B, n, B[k])) + Cardinality(InBucket(B, k, B[k]))

LEMMA BucketCounts ==
    ASSUME NEW n \in Nat, NEW B, NEW b
    PROVE  /\ IsFiniteSet(InBucket(B, n, b)) /\ Cardinality(InBucket(B, n, b)) \in 0..n
           /\ IsFiniteSet(BelowBucket(B, n, b)) /\ Cardinality(BelowBucket(B, n, b)) \in 0..n
<1>1. IsFiniteSet(0..(n - 1)) /\ Cardinality(0..(n - 1)) = n
  <2>1. 0 \in Int /\ n - 1 \in Int
    OBVIOUS
  <2> QED
    BY <2>1, FS_Interval
<1>2. ASSUME NEW T, T \subseteq 0..(n - 1)
      PROVE  IsFiniteSet(T) /\ Cardinality(T) \in 0..n
  <2>1. IsFiniteSet(T) /\ Cardinality(T) <= n
    BY <1>1, <1>2, FS_Subset
  <2> QED
    BY <2>1, FS_CardinalityType
<1>3. InBucket(B, n, b) \subseteq 0..(n - 1) /\ BelowBucket(B, n, b) \subseteq 0..(n - 1)
  BY DEF InBucket, BelowBucket
<1> QED
  BY <1>2, <1>3

\* The places of a bucket end before those of the next one begin.
LEMMA BucketsApart ==
    ASSUME NEW n \in Nat, NEW B \in [0..(n - 1) -> Nat], NEW b \in Nat, NEW c \in Nat
    PROVE  LET end == Cardinality(BelowBucket(B, n, b)) + Cardinality(InBucket(B, n, b))
           IN  /\ end <= n
               /\ b < c => end <= Cardinality(BelowBucket(B, n, c))
<1> DEFINE X == BelowBucket(B, n, b)
           Y == InBucket(B, n, b)
           Z == BelowBucket(B, n, c)
           I == 0..(n - 1)
<1>1. /\ IsFiniteSet(X) /\ IsFiniteSet(Y) /\ IsFiniteSet(Z)
      /\ Cardinality(X) \in Nat /\ Cardinality(Y) \in Nat
  <2>1. \A d : /\ IsFiniteSet(InBucket(B, n, d)) /\ Cardinality(InBucket(B, n, d)) \in 0..n
               /\ IsFiniteSet(BelowBucket(B, n, d)) /\ Cardinality(BelowBucket(B, n, d)) \in 0..n
    BY BucketCounts
  <2> QED
    BY <2>1
<1>2. X \cap Y = {} /\ X \cup Y \subseteq I /\ (b < c => X \cup Y \subseteq Z)
  BY DEF BelowBucket, InBucket
<1>3. IsFiniteSet(I) /\ Cardinality(I) = n
  <2>1. 0 \in Int /\ n - 1 \in Int
    OBVIOUS
  <2> QED
    BY <2>1, FS_Interval
<1> HIDE DEF X, Y, Z, I
<1>4. IsFiniteSet(X \cup Y) /\ Cardinality(X \cup Y) = Cardinality(X) + Cardinality(Y)
  <2>1. Cardinality(X \cap Y) = 0
    BY <1>2, FS_EmptySet
  <2>2. IsFiniteSet(X \cup Y) /\ Cardinality(X \cup Y) = Cardinality(X) + Cardinality(Y) - Cardinality(X \cap Y)
    BY <1>1, FS_Union
  <2>3. \A x, y, z : x \in Nat /\ y \in Nat /\ z = 0 => x + y - z = x + y
    OBVIOUS
  <2> QED
    BY <1>1, <2>1, <2>2, <2>3
<1>5. Cardinality(X \cup Y) <= n
  BY <1>2, <1>3, FS_Subset
<1>6. b < c => Cardinality(X \cup Y) <= Cardinality(Z)
  BY <1>1, <1>2, FS_Subset
<1> QED
  BY <1>4, <1>5, <1>6 DEF X, Y, Z

\* One more of them.
LEMMA BucketGrows ==
    ASSUME NEW n \in Nat, NEW k \in 0..(n - 1), NEW B \in [0..(n - 1) -> Nat], NEW b
    PROVE  Cardinality(InBucket(B, k + 1, b)) =
               Cardinality(InBucket(B, k, b)) + (IF B[k] = b THEN 1 ELSE 0)
<1>1. k \in Nat /\ IsFiniteSet(InBucket(B, k, b)) /\ Cardinality(InBucket(B, k, b)) \in Nat
  <2>1. k \in Nat
    OBVIOUS
  <2> QED
    BY <2>1, BucketCounts
<1>2. 0..((k + 1) - 1) = (0..(k - 1)) \cup {k} /\ k \notin 0..(k - 1)
  BY <1>1
<1>3. InBucket(B, k + 1, b) = IF B[k] = b THEN InBucket(B, k, b) \cup {k} ELSE InBucket(B, k, b)
  BY <1>2 DEF InBucket
<1>4. k \notin InBucket(B, k, b)
  BY <1>2 DEF InBucket
<1>5. CASE B[k] = b
  <2>1. InBucket(B, k + 1, b) = InBucket(B, k, b) \cup {k}
    BY <1>3, <1>5
  <2>2. Cardinality(InBucket(B, k, b) \cup {k}) = Cardinality(InBucket(B, k, b)) + 1
    BY <1>1, <1>4, FS_AddElement
  <2> QED
    BY <1>5, <2>1, <2>2
<1>6. CASE B[k] # b
  BY <1>1, <1>3, <1>6
<1> QED
  BY <1>5, <1>6

LEMMA BucketMonotone ==
    ASSUME NEW n \in Nat, NEW k \in 0..n, NEW B \in [0..(n - 1) -> Nat], NEW b
    PROVE  Cardinality(InBucket(B, k, b)) <= Cardinality(InBucket(B, n, b))
<1>1. InBucket(B, k, b) \subseteq InBucket(B, n, b)
  BY DEF InBucket
<1> QED
  BY <1>1, BucketCounts, FS_Subset

\* Each gets a place of its bucket,
LEMMA TargetInBucket ==
    ASSUME NEW n \in Nat, NEW k \in 0..(n - 1), NEW B \in [0..(n - 1) -> Nat]
    PROVE  LET first == Cardinality(BelowBucket(B, n, B[k]))
           IN  /\ TargetOf(B, n, k) \in first..(first + Cardinality(InBucket(B, n, B[k])) - 1)
               /\ TargetOf(B, n, k) \in 0..(n - 1)
<1> DEFINE b == B[k]
           first == Cardinality(BelowBucket(B, n, b))
           all == Cardinality(InBucket(B, n, b))
           some == Cardinality(InBucket(B, k, b))
<1>1. b \in Nat /\ k \in Nat /\ k + 1 \in 0..n
  OBVIOUS
<1>2. first \in Nat /\ all \in Nat /\ some \in Nat
  <2>1. \A m \in Nat : Cardinality(InBucket(B, m, b)) \in Nat /\ Cardinality(BelowBucket(B, m, b)) \in Nat
    BY BucketCounts
  <2> QED
    BY <1>1, <2>1
<1>3. Cardinality(InBucket(B, k + 1, b)) = some + 1
  BY <1>1, BucketGrows
<1>4. Cardinality(InBucket(B, k + 1, b)) <= all
  BY <1>1, BucketMonotone
<1>5. first + all <= n
  BY <1>1, BucketsApart
<1>6. TargetOf(B, n, k) = first + some
  BY DEF TargetOf
<1> HIDE DEF first, all, some, b
<1> QED
  BY <1>2, <1>3, <1>4, <1>5, <1>6 DEF first, all, b

\* the later the higher its bucket and, within one, the later it comes,
LEMMA TargetOrder ==
    ASSUME NEW n \in Nat, NEW k \in 0..(n - 1), NEW l \in 0..(n - 1), NEW B \in [0..(n - 1) -> Nat],
           B[k] < B[l] \/ (B[k] = B[l] /\ k < l)
    PROVE  TargetOf(B, n, k) < TargetOf(B, n, l)
<1> DEFINE firstK == Cardinality(BelowBucket(B, n, B[k]))
           allK == Cardinality(InBucket(B, n, B[k]))
           someK == Cardinality(InBucket(B, k, B[k]))
           firstL == Cardinality(BelowBucket(B, n, B[l]))
           someL == Cardinality(InBucket(B, l, B[l]))
<1>1. B[k] \in Nat /\ B[l] \in Nat /\ k \in Nat /\ l \in Nat
  OBVIOUS
<1>2. firstK \in Nat /\ allK \in Nat /\ someK \in Nat /\ firstL \in Nat /\ someL \in Nat
  <2>1. \A m \in Nat : \A d :
            Cardinality(InBucket(B, m, d)) \in Nat /\ Cardinality(BelowBucket(B, m, d)) \in Nat
    BY BucketCounts
  <2> QED
    BY <1>1, <2>1
<1>3. TargetOf(B, n, k) = firstK + someK /\ TargetOf(B, n, l) = firstL + someL
  BY DEF TargetOf
<1>4. CASE B[k] < B[l]
  <2>1. firstK + allK <= firstL
    BY <1>1, <1>4, BucketsApart
  <2>2. TargetOf(B, n, k) \in firstK..(firstK + allK - 1)
    BY TargetInBucket
  <2> HIDE DEF firstK, allK, someK, firstL, someL
  <2> QED
    BY <1>2, <1>3, <2>1, <2>2
<1>5. CASE B[k] = B[l] /\ k < l
  <2>1. firstK = firstL
    BY <1>5
  <2>2. Cardinality(InBucket(B, k + 1, B[k])) = someK + 1
    BY <1>1, BucketGrows
  <2>3. k + 1 \in 0..l
    BY <1>1, <1>5
  <2>4. InBucket(B, k + 1, B[k]) \subseteq InBucket(B, l, B[k])
    BY <1>1, <2>3 DEF InBucket
  <2>5. IsFiniteSet(InBucket(B, l, B[k]))
    BY <1>1, BucketCounts
  <2>6. Cardinality(InBucket(B, k + 1, B[k])) <= Cardinality(InBucket(B, l, B[k]))
    BY <2>4, <2>5, FS_Subset
  <2>7. Cardinality(InBucket(B, l, B[k])) = someL
    BY <1>5
  <2> HIDE DEF firstK, allK, someK, firstL, someL
  <2> QED
    BY <1>2, <1>3, <2>1, <2>2, <2>6, <2>7
<1> QED
  BY <1>4, <1>5

\* so that no two get the same, and all places are taken.
LEMMA TargetsFill ==
    ASSUME NEW n \in Nat, NEW B \in [0..(n - 1) -> Nat]
    PROVE  /\ \A k, l \in 0..(n - 1) : TargetOf(B, n, k) = TargetOf(B, n, l) => k = l
           /\ \A p \in 0..(n - 1) : \E k \in 0..(n - 1) : TargetOf(B, n, k) = p
<1> DEFINE I == 0..(n - 1)
           f == [k \in I |-> TargetOf(B, n, k)]
<1>1. \A k \in I : TargetOf(B, n, k) \in I
  BY TargetInBucket
<1>2. ASSUME NEW k \in I, NEW l \in I, k # l
      PROVE  TargetOf(B, n, k) # TargetOf(B, n, l)
  <2>1. B[k] \in Nat /\ B[l] \in Nat /\ k \in Nat /\ l \in Nat
    OBVIOUS
  <2>2. \/ B[k] < B[l] \/ (B[k] = B[l] /\ k < l)
        \/ B[l] < B[k] \/ (B[l] = B[k] /\ l < k)
    BY <1>2, <2>1
  <2>3. TargetOf(B, n, k) < TargetOf(B, n, l) \/ TargetOf(B, n, l) < TargetOf(B, n, k)
    BY <2>2, TargetOrder
  <2> QED
    BY <1>1, <2>3
<1>3. IsFiniteSet(I)
  <2>1. 0 \in Int /\ n - 1 \in Int
    OBVIOUS
  <2> QED
    BY <2>1, FS_Interval
<1>4. f \in Injection(I, I)
  BY <1>1, <1>2 DEF Injection, IsInjective
<1>5. f \in Surjection(I, I)
  BY <1>3, <1>4, FS_Injection
<1>6. \A p \in I : \E k \in I : f[k] = p
  BY <1>5 DEF Surjection
<1> QED
  BY <1>2, <1>6

----------------------------------------------------------------------------
(* The sort: what holds between any two steps.                             *)

Sorting == sortPc \in {"call", "insert", "shift", "distribute"}

CallType == [first : Nat, size : Nat \ {0}, depth : Nat]

SortTypes ==
    /\ input \in Inputs /\ sortInput \in BOOLEAN
    /\ words \in Seq(Words) /\ scratch \in Seq(Word)
    /\ calls \in Seq(CallType)
    /\ buckets \in [Sorter!Buckets -> 0..Len(input)]
    /\ sortI \in 0..Len(input) /\ sortJ \in 0..Len(input)
    /\ sortPc \in {"build", "call", "insert", "shift", "distribute", "unique", "sorted"}
    /\ sortPc = "shift" => key \in Words
    /\ sortPc # "sorted" => Len(words) = Len(input) /\ Len(scratch) = Len(input)

\* The calls to be made are for different places of the array.
CallsApart ==
    /\ \A m \in 1..Len(calls) : calls[m].first + calls[m].size <= Len(words)
    /\ \A m, n \in 1..Len(calls) :
           m # n => Sorter!PlacesOf(calls[m]) \cap Sorter!PlacesOf(calls[n]) = {}
    /\ sortPc \in {"insert", "shift", "distribute"} => calls # << >>
    /\ sortPc \in {"build", "unique", "sorted"} => calls = << >>

\* While it runs, two words are in their final order unless one of these calls
\* has both; and the words of a call agree on its first depth labels.
OrderedBut(D, cs) ==
    \A p, q \in 1..Len(D) :
        p < q /\ (\A m \in 1..Len(cs) : ~({p, q} \subseteq Sorter!PlacesOf(cs[m]))) => AtMost(D[p], D[q])
AgreeIn(D, cs) ==
    \A m \in 1..Len(cs) : \A p, q \in Sorter!PlacesOf(cs[m]) : AgreeUpTo(D[p], D[q], cs[m].depth)
Settling == Sorting => OrderedBut(Sorter!Held, calls) /\ AgreeIn(Sorter!Held, calls)

\* Insertion has the places before i in order, but for the key, which is not
\* above what is behind it.
Inserting ==
    sortPc \in {"insert", "shift"} =>
        /\ sortI \in 1..Sorter!Call.size
        /\ sortPc = "insert" =>
               \A a, b \in 0..(sortI - 1) :
                   a < b => AtMost(words[Sorter!At(a)], words[Sorter!At(b)])
        /\ sortPc = "shift" =>
               /\ sortI < Sorter!Call.size /\ sortJ <= sortI
               /\ \A a, b \in 0..sortI :
                      a < b /\ b # sortJ => AtMost(Sorter!Held[Sorter!At(a)], Sorter!Held[Sorter!At(b)])

\* Distribution has put the first i words where they belong.
BucketsOf == [k \in Sorter!Places |-> Sorter!BucketOf(words[Sorter!At(k)], Sorter!Call.depth)]
Distributing ==
    sortPc = "distribute" =>
        LET n == Sorter!Call.size
            B == BucketsOf
        IN  /\ sortI \in 0..n
            /\ \A b \in Sorter!Buckets :
                   buckets[b] = Cardinality(BelowBucket(B, n, b)) + Cardinality(InBucket(B, sortI, b))
            /\ \A k \in 0..(sortI - 1) : scratch[Sorter!At(TargetOf(B, n, k))] = words[Sorter!At(k)]

\* No word is lost or made.
WordsOf(s) == {s[p] : p \in 1..Len(s)}
InHand == IF sortPc = "sorted" THEN words ELSE Sorter!Held
Kept == WordsOf(InHand) = WordsOf(input)

\* What the sort and std::unique leave.
Increasing(s) == \A p, q \in 1..Len(s) : p < q => Precedes(s[p], s[q])
Deduplicated(s, t) ==
    /\ \A k \in 1..(Len(t) - 1) : /\ t[k] # t[k + 1]
                                  /\ \E a \in 1..(Len(s) - 1) : s[a] = t[k] /\ s[a + 1] = t[k + 1]
    /\ \A a \in 1..(Len(s) - 1) :
           s[a] # s[a + 1] => \E k \in 1..(Len(t) - 1) : s[a] = t[k] /\ s[a + 1] = t[k + 1]
Left ==
    /\ sortPc = "unique" /\ sortInput => \A p, q \in 1..Len(words) : p < q => AtMost(words[p], words[q])
    /\ sortPc = "sorted" /\ sortInput => Increasing(words)
    /\ sortPc # "sorted" /\ ~sortInput => words = input /\ sortPc \in {"build", "unique"}
    /\ sortPc = "build" => words = input
    /\ sortPc = "sorted" /\ ~sortInput => Deduplicated(input, words)

SortInv ==
    SortTypes /\ CallsApart /\ Settling /\ Inserting /\ Distributing /\ Kept /\ Left

LEMMA WordsAreWords == Words \subseteq Word
<1>1. Words \subseteq Seq(Labels)
  BY WordsAssumption
<1>2. \A w \in Seq(Labels) : w \in Seq(Nat)
  BY LabelsAssumption, SeqMonotonic
<1> QED
  BY <1>1, <1>2 DEF Word

\* Seq(Words), element by element.
LEMMA WordList ==
    ASSUME NEW s \in Seq(Words)
    PROVE  /\ Len(s) \in Nat /\ DOMAIN s = 1..Len(s)
           /\ \A p \in 1..Len(s) : s[p] \in Words /\ s[p] \in Word
BY WordsAreWords

\* The call that runs.
LEMMA CallFacts ==
    ASSUME SortTypes, CallsApart, calls # << >>
    PROVE  /\ Len(calls) \in Nat /\ Len(calls) \in 1..Len(calls)
           /\ Sorter!Call = calls[Len(calls)] /\ Sorter!Call \in CallType
           /\ Sorter!Call.first \in Nat /\ Sorter!Call.size \in Nat /\ Sorter!Call.size > 0
           /\ Sorter!Call.depth \in Nat /\ Sorter!Call.first + Sorter!Call.size <= Len(words)
           /\ Len(words) \in Nat
           /\ \A k \in 0..(Sorter!Call.size - 1) :
                  /\ Sorter!At(k) = Sorter!Call.first + k + 1
                  /\ Sorter!At(k) \in Sorter!PlacesOf(Sorter!Call)
           /\ \A p \in Sorter!PlacesOf(Sorter!Call) :
                  /\ p \in 1..Len(words)
                  /\ \E k \in 0..(Sorter!Call.size - 1) : p = Sorter!At(k)
<1> DEFINE C == calls[Len(calls)]
<1>1. calls \in Seq(CallType) /\ Len(calls) \in Nat /\ Len(calls) \in 1..Len(calls)
  BY DEF SortTypes
<1>2. C \in CallType /\ Sorter!Call = C
  BY <1>1 DEF Sorter!Call
<1>3. C.first \in Nat /\ C.size \in Nat /\ C.size > 0 /\ C.depth \in Nat
  BY <1>2 DEF CallType
<1>4. C.first + C.size <= Len(words) /\ Len(words) \in Nat
  BY <1>1 DEF CallsApart, SortTypes
<1>5. \A k \in 0..(C.size - 1) : Sorter!At(k) = C.first + k + 1
  BY <1>2 DEF Sorter!At
<1>6. Sorter!PlacesOf(C) = (C.first + 1)..(C.first + C.size)
  BY DEF Sorter!PlacesOf
<1> HIDE DEF C
<1>7. \A k \in 0..(C.size - 1) : C.first + k + 1 \in (C.first + 1)..(C.first + C.size)
  BY <1>3
<1>8. ASSUME NEW p \in (C.first + 1)..(C.first + C.size)
      PROVE  p \in 1..Len(words) /\ \E k \in 0..(C.size - 1) : p = C.first + k + 1
  <2>1. p - C.first - 1 \in 0..(C.size - 1) /\ p = C.first + (p - C.first - 1) + 1
    BY <1>3
  <2>2. p \in 1..Len(words)
    BY <1>3, <1>4
  <2> QED
    BY <2>1, <2>2
<1> QED
  BY <1>1, <1>2, <1>3, <1>4, <1>5, <1>6, <1>7, <1>8 DEF C

\* The calls without it.
LEMMA OtherFacts ==
    ASSUME SortTypes, CallsApart, calls # << >>
    PROVE  /\ Sorter!OtherCalls \in Seq(CallType) /\ Len(Sorter!OtherCalls) = Len(calls) - 1
           /\ \A m \in 1..(Len(calls) - 1) :
                  /\ Sorter!OtherCalls[m] = calls[m] /\ calls[m] \in CallType /\ m \in 1..Len(calls)
                  /\ Sorter!PlacesOf(calls[m]) \cap Sorter!PlacesOf(Sorter!Call) = {}
<1>1. calls \in Seq(CallType) /\ Len(calls) \in Nat /\ Len(calls) >= 1
  BY DEF SortTypes
<1>2. /\ Sorter!OtherCalls \in Seq(CallType) /\ Len(Sorter!OtherCalls) = Len(calls) - 1
      /\ \A m \in 1..(Len(calls) - 1) : Sorter!OtherCalls[m] = calls[m]
  <2>1. 1 \in 1..(Len(calls) + 1) /\ Len(calls) - 1 \in Nat /\ Len(calls) - 1 \in (1 - 1)..Len(calls)
    BY <1>1
  <2>2. \A m \in 1..(Len(calls) - 1) : calls[m] \in CallType
    BY <1>1
  <2>3. Sorter!OtherCalls = [m \in 1..(Len(calls) - 1) |-> calls[m]]
    BY <1>1, <2>1, SubSeqProperties DEF Sorter!OtherCalls
  <2> QED
    BY <2>1, <2>2, <2>3, IsASeq
<1>3. \A m \in 1..(Len(calls) - 1) : m \in 1..Len(calls) /\ m # Len(calls) /\ calls[m] \in CallType
  BY <1>1
<1>4. Len(calls) \in 1..Len(calls) /\ Sorter!Call = calls[Len(calls)]
  BY <1>1 DEF Sorter!Call
<1>5. \A m \in 1..(Len(calls) - 1) : Sorter!PlacesOf(calls[m]) \cap Sorter!PlacesOf(Sorter!Call) = {}
  BY <1>3, <1>4 DEF CallsApart
<1> QED
  BY <1>2, <1>3, <1>5

\* E is D with the words of the last call rearranged.
Rearranged(D, E) ==
    LET places == Sorter!PlacesOf(Sorter!Call)
    IN  /\ \A p \in (1..Len(words)) \ places : E[p] = D[p]
        /\ \A p \in places : \E q \in places : E[p] = D[q]
        /\ \A q \in places : \E p \in places : E[p] = D[q]

LEMMA RearrangedWords ==
    ASSUME SortTypes, CallsApart, calls # << >>,
           NEW D \in Seq(Words), NEW E \in Seq(Words), Len(D) = Len(words), Len(E) = Len(words),
           Rearranged(D, E)
    PROVE  WordsOf(E) = WordsOf(D)
<1> DEFINE places == Sorter!PlacesOf(Sorter!Call)
<1>1. \A p \in places : p \in 1..Len(words)
  BY CallFacts
<1>2. /\ \A p \in (1..Len(words)) \ places : E[p] = D[p]
      /\ \A p \in places : \E q \in places : E[p] = D[q]
      /\ \A q \in places : \E p \in places : E[p] = D[q]
  BY DEF Rearranged
<1> HIDE DEF places
<1>3. \A p \in 1..Len(words) : \E q \in 1..Len(words) : E[p] = D[q]
  BY <1>1, <1>2
<1>4. \A q \in 1..Len(words) : \E p \in 1..Len(words) : E[p] = D[q]
  BY <1>1, <1>2
<1>5. WordsOf(E) = {E[p] : p \in 1..Len(words)} /\ WordsOf(D) = {D[p] : p \in 1..Len(words)}
  BY DEF WordsOf
<1>6. WordsOf(E) \subseteq WordsOf(D)
  BY <1>3, <1>5
<1>7. WordsOf(D) \subseteq WordsOf(E)
  BY <1>4, <1>5
<1> QED
  BY <1>6, <1>7

\* It is as settled as D: a word stays on its side of the words of other calls.
LEMMA RearrangedSettled ==
    ASSUME SortTypes, CallsApart, calls # << >>,
           NEW D \in Seq(Words), NEW E \in Seq(Words), Len(D) = Len(words), Len(E) = Len(words),
           Rearranged(D, E), OrderedBut(D, calls), AgreeIn(D, calls)
    PROVE  OrderedBut(E, calls) /\ AgreeIn(E, calls)
<1> DEFINE C == Sorter!Call
           places == Sorter!PlacesOf(C)
           n == Len(words)
<1>1. /\ \A p \in places : p \in 1..n
      /\ n \in Nat /\ C.first \in Nat /\ C.size \in Nat /\ places = (C.first + 1)..(C.first + C.size)
      /\ Len(calls) \in 1..Len(calls) /\ calls[Len(calls)] = C
  BY CallFacts DEF Sorter!PlacesOf
<1>2. /\ \A p \in (1..n) \ places : E[p] = D[p]
      /\ \A p \in places : \E q \in places : E[p] = D[q]
  BY DEF Rearranged
<1>3. \A m \in 1..Len(calls) : m # Len(calls) => Sorter!PlacesOf(calls[m]) \cap places = {}
  BY <1>1 DEF CallsApart
<1>4. \A m \in 1..Len(calls) : \A p \in Sorter!PlacesOf(calls[m]) : p \in 1..n
  <2> SUFFICES ASSUME NEW m \in 1..Len(calls), NEW p \in Sorter!PlacesOf(calls[m]) PROVE p \in 1..n
    OBVIOUS
  <2>1. calls[m] \in CallType
    BY DEF SortTypes
  <2>2. calls[m].first \in Nat /\ calls[m].size \in Nat /\ calls[m].first + calls[m].size <= n
    BY <2>1 DEF CallType, CallsApart
  <2>3. p \in (calls[m].first + 1)..(calls[m].first + calls[m].size)
    BY DEF Sorter!PlacesOf
  <2> QED
    BY <1>1, <2>2, <2>3
<1>5. \A p, q \in 1..n :
          p < q /\ (\A m \in 1..Len(calls) : ~({p, q} \subseteq Sorter!PlacesOf(calls[m]))) => AtMost(D[p], D[q])
  BY DEF OrderedBut
<1>6. ASSUME NEW p \in 1..n, NEW q \in 1..n, p < q,
             \A m \in 1..Len(calls) : ~({p, q} \subseteq Sorter!PlacesOf(calls[m]))
      PROVE  AtMost(E[p], E[q])
  <2>1. ~(p \in places /\ q \in places)
    BY <1>1, <1>6
  <2>2. CASE p \notin places /\ q \notin places
    BY <1>2, <1>5, <1>6, <2>2
  <2>3. CASE p \in places /\ q \notin places
    <3>1. PICK x \in places : E[p] = D[x]
      BY <1>2, <2>3
    <3>2. x \in 1..n /\ x < q
      BY <1>1, <1>6, <2>3
    <3>3. \A m \in 1..Len(calls) : ~({x, q} \subseteq Sorter!PlacesOf(calls[m]))
      BY <1>1, <1>3, <2>3
    <3> QED
      BY <1>2, <1>5, <2>3, <3>1, <3>2, <3>3
  <2>4. CASE p \notin places /\ q \in places
    <3>1. PICK x \in places : E[q] = D[x]
      BY <1>2, <2>4
    <3>2. x \in 1..n /\ p < x
      BY <1>1, <1>6, <2>4
    <3>3. \A m \in 1..Len(calls) : ~({p, x} \subseteq Sorter!PlacesOf(calls[m]))
      BY <1>1, <1>3, <2>4
    <3> QED
      BY <1>2, <1>5, <2>4, <3>1, <3>2, <3>3
  <2> QED
    BY <2>1, <2>2, <2>3, <2>4
<1>7. ASSUME NEW m \in 1..Len(calls), NEW p \in Sorter!PlacesOf(calls[m]), NEW q \in Sorter!PlacesOf(calls[m])
      PROVE  AgreeUpTo(E[p], E[q], calls[m].depth)
  <2>1. \A x, y \in Sorter!PlacesOf(calls[m]) : AgreeUpTo(D[x], D[y], calls[m].depth)
    BY DEF AgreeIn
  <2>2. CASE m = Len(calls)
    <3>1. PICK x \in places, y \in places : E[p] = D[x] /\ E[q] = D[y]
      BY <1>1, <1>2, <2>2
    <3> QED
      BY <1>1, <2>1, <2>2, <3>1
  <2>3. CASE m # Len(calls)
    <3>1. p \notin places /\ q \notin places /\ p \in 1..n /\ q \in 1..n
      BY <1>3, <1>4, <2>3
    <3>2. E[p] = D[p] /\ E[q] = D[q]
      BY <1>2, <3>1
    <3> QED
      BY <2>1, <3>2
  <2> QED
    BY <2>2, <2>3
<1> QED
  BY <1>6, <1>7 DEF OrderedBut, AgreeIn

\* Held is words, but for the place of the key.
LEMMA HeldFacts ==
    ASSUME SortTypes, CallsApart, Inserting
    PROVE  /\ Sorter!Held \in Seq(Words) /\ Len(Sorter!Held) = Len(words)
           /\ sortPc # "shift" => Sorter!Held = words
           /\ sortPc = "shift" =>
                  /\ Sorter!At(sortJ) \in 1..Len(words) /\ sortJ \in 0..(Sorter!Call.size - 1)
                  /\ Sorter!Held[Sorter!At(sortJ)] = key /\ key \in Words
                  /\ \A p \in 1..Len(words) : p # Sorter!At(sortJ) => Sorter!Held[p] = words[p]
<1>1. words \in Seq(Words) /\ Len(words) \in Nat /\ DOMAIN words = 1..Len(words)
  BY DEF SortTypes
<1>2. CASE sortPc # "shift"
  BY <1>1, <1>2 DEF Sorter!Held
<1>3. CASE sortPc = "shift"
  <2>1. calls # << >> /\ key \in Words
    BY <1>3 DEF CallsApart, SortTypes
  <2>2. sortI < Sorter!Call.size /\ sortJ <= sortI /\ sortJ \in Nat /\ sortI \in Nat
    BY <1>3 DEF Inserting, SortTypes
  <2>3. Sorter!Call.size \in Nat
    BY <2>1, CallFacts
  <2>4. sortJ \in 0..(Sorter!Call.size - 1)
    BY <2>2, <2>3
  <2>5. Sorter!At(sortJ) \in 1..Len(words)
    BY <2>1, <2>4, CallFacts
  <2>6. Sorter!Held = [words EXCEPT ![Sorter!At(sortJ)] = key]
    BY <1>3 DEF Sorter!Held
  <2> QED
    BY <1>1, <1>3, <2>1, <2>4, <2>5, <2>6, ExceptSeq
<1> QED
  BY <1>2, <1>3

\* Steps that leave the calls alone.
LEMMA SameCalls ==
    ASSUME SortTypes, CallsApart, calls' = calls, Len(words') = Len(words), sortPc' \notin {"build", "unique", "sorted"},
           calls # << >>
    PROVE  /\ CallsApart' /\ Sorter!Call' = Sorter!Call
           /\ \A k : Sorter!At(k)' = Sorter!At(k)
           /\ \A call : Sorter!PlacesOf(call)' = Sorter!PlacesOf(call)
<1>1. \A call : Sorter!PlacesOf(call)' = Sorter!PlacesOf(call)
  BY DEF Sorter!PlacesOf
<1> QED
  BY <1>1 DEF CallsApart, Sorter!Call, Sorter!At

LEMMA KeptOf ==
    ASSUME NEW s, WordsOf(s) = WordsOf(input), InHand' = s, input' = input
    PROVE  Kept'
  BY DEF Kept, WordsOf

LEMMA KeptStep ==
    ASSUME Kept, sortPc # "sorted", sortPc' # "sorted", input' = input,
           WordsOf(Sorter!Held') = WordsOf(Sorter!Held)
    PROVE  Kept'
<1>1. WordsOf(Sorter!Held) = WordsOf(input)
  BY DEF Kept, InHand
<1>2. (WordsOf(Sorter!Held) = WordsOf(input))'
  BY <1>1 DEF WordsOf
<1> QED
  BY <1>2 DEF Kept, InHand

\* What a step preserves that changes neither words, Held nor calls.
LEMMA SameHeld ==
    ASSUME Settling, Kept, Sorting, Sorting', calls' = calls, Sorter!Held' = Sorter!Held, input' = input
    PROVE  Settling' /\ Kept'
<1>1. \A call : Sorter!PlacesOf(call)' = Sorter!PlacesOf(call)
  BY DEF Sorter!PlacesOf
<1>2. OrderedBut(Sorter!Held, calls)' /\ AgreeIn(Sorter!Held, calls)'
  BY <1>1 DEF Settling, OrderedBut, AgreeIn
<1>3. sortPc # "sorted" /\ sortPc' # "sorted"
  BY DEF Sorting
<1> QED
  <2>1. Settling'
    BY <1>2, <1>3 DEF Settling
  <2>2. InHand' = InHand
    BY <1>3 DEF InHand
  <2> QED
    BY <2>1, <2>2, KeptOf DEF Kept

\* RadixSort extends Lexicographic on its own account.
LEMMA SorterOrder ==
    ASSUME NEW u, NEW v
    PROVE  /\ Sorter!Precedes(u, v) <=> Precedes(u, v)
           /\ \A k : Sorter!AgreeUpTo(u, v, k) <=> AgreeUpTo(u, v, k)
BY DEF Sorter!Precedes, Precedes, Sorter!AgreeUpTo, AgreeUpTo

LEMMA InputFacts ==
    ASSUME SortTypes
    PROVE  input \in Seq(Words) /\ Len(input) \in Nat
BY InputsAssumption DEF SortTypes

LEMMA BuildStep ==
    ASSUME SortInv, Sorter!Build
    PROVE  SortInv'
<1> USE DEF SortInv
<1>1. /\ sortPc = "build" /\ calls = << >> /\ words = input
      /\ words \in Seq(Words) /\ Len(words) \in Nat /\ DOMAIN words = 1..Len(words)
      /\ words' = words /\ input' = input /\ sortInput' = sortInput /\ scratch' = scratch
      /\ buckets' = buckets /\ sortI' = sortI /\ sortJ' = sortJ /\ key' = key
  BY InputFacts DEF Sorter!Build, CallsApart, SortTypes, Left
<1>2. CASE sortInput /\ Len(words) > 1
  <2>0. PICK c : c = [first |-> 0, size |-> Len(words), depth |-> 0]
    OBVIOUS
  <2>1. calls' = <<c>> /\ sortPc' = "call"
    BY <1>1, <1>2, <2>0 DEF Sorter!Build
  <2>2. c \in CallType /\ c.first = 0 /\ c.size = Len(words) /\ c.depth = 0
    BY <1>1, <1>2, <2>0 DEF CallType
  <2>3. Len(calls') = 1 /\ calls'[1] = c /\ calls' \in Seq(CallType) /\ \A m \in 1..1 : m = 1
    BY <2>1, <2>2
  <2>4. SortTypes'
    BY <1>1, <2>1, <2>3 DEF SortTypes, Sorter!Buckets
  <2>5. CallsApart'
    BY <1>1, <2>1, <2>2, <2>3 DEF CallsApart
  <2>6. Sorter!Held' = words
    BY <1>1, <2>1 DEF Sorter!Held
  <2>7. Sorter!PlacesOf(c)' = 1..Len(words)
    BY <1>1, <2>2 DEF Sorter!PlacesOf
  <2>8. OrderedBut(Sorter!Held, calls)'
    BY <2>3, <2>6, <2>7 DEF OrderedBut
  <2>9. AgreeIn(Sorter!Held, calls)'
    <3>1. \A p, q \in 1..Len(words) : AgreeUpTo(words[p], words[q], 0)
      BY <1>1, WordList DEF AgreeUpTo, Word
    <3> QED
      BY <2>2, <2>3, <2>6, <2>7, <3>1 DEF AgreeIn
  <2>10. Settling' /\ Kept' /\ Left'
    BY <1>1, <1>2, <2>1, <2>6, <2>8, <2>9 DEF Settling, Kept, InHand, Left, WordsOf
  <2> QED
    BY <2>1, <2>4, <2>5, <2>10 DEF Inserting, Distributing
<1>3. CASE ~(sortInput /\ Len(words) > 1)
  <2>1. calls' = << >> /\ sortPc' = "unique"
    BY <1>1, <1>3 DEF Sorter!Build
  <2>2. SortTypes' /\ CallsApart'
    BY <1>1, <2>1 DEF SortTypes, CallsApart, Sorter!Buckets
  <2>3. Left'
    BY <1>1, <1>3, <2>1 DEF Left
  <2>4. Kept'
    BY <1>1, <2>1 DEF Kept, InHand, Sorter!Held, WordsOf
  <2> QED
    BY <2>1, <2>2, <2>3, <2>4 DEF Settling, Sorting, Inserting, Distributing
<1> QED
  BY <1>2, <1>3

LEMMA CallSmallStep ==
    ASSUME SortInv, Sorter!CallSmall
    PROVE  SortInv'
<1> USE DEF SortInv
<1>1. /\ sortPc = "call" /\ sortPc' = "insert" /\ calls # << >> /\ sortI' = 1
      /\ words' = words /\ input' = input /\ sortInput' = sortInput /\ scratch' = scratch
      /\ buckets' = buckets /\ calls' = calls /\ sortJ' = sortJ /\ key' = key
  BY DEF Sorter!CallSmall
<1>2. Sorter!Call.size \in Nat /\ Sorter!Call.size > 0 /\ Sorter!Call.size <= Len(input)
  <2>1. Sorter!Call.first \in Nat /\ Sorter!Call.first + Sorter!Call.size <= Len(words) /\ Len(words) = Len(input)
        /\ Sorter!Call.size \in Nat /\ Sorter!Call.size > 0 /\ Len(words) \in Nat
    BY <1>1, CallFacts DEF SortTypes
  <2> QED
    BY <2>1
<1>3. SortTypes'
  <2>1. 1 \in 0..Len(input)
    BY <1>2, InputFacts
  <2> QED
    BY <1>1, <2>1 DEF SortTypes, Sorter!Buckets
<1>4. CallsApart' /\ Sorter!Call' = Sorter!Call
  BY <1>1, SameCalls
<1>5. Sorter!Held' = Sorter!Held
  BY <1>1 DEF Sorter!Held
<1>6. Settling' /\ Kept'
  BY <1>1, <1>5, SameHeld DEF Sorting
<1>7. Inserting'
  BY <1>1, <1>2, <1>4 DEF Inserting
<1>8. Left'
  BY <1>1 DEF Left
<1> QED
  BY <1>1, <1>3, <1>4, <1>6, <1>7, <1>8 DEF Distributing

LEMMA NextKeyStep ==
    ASSUME SortInv, Sorter!NextKey
    PROVE  SortInv'
<1> USE DEF SortInv
<1>1. /\ sortPc = "insert" /\ sortPc' = "shift" /\ sortI < Sorter!Call.size /\ sortI' = sortI
      /\ sortJ' = sortI /\ key' = words[Sorter!At(sortI)] /\ calls # << >>
      /\ words' = words /\ input' = input /\ sortInput' = sortInput /\ scratch' = scratch
      /\ buckets' = buckets /\ calls' = calls
  BY DEF Sorter!NextKey, CallsApart
<1>2. /\ sortI \in 1..Sorter!Call.size /\ Sorter!Call.size \in Nat
      /\ \A a, b \in 0..(sortI - 1) : a < b => AtMost(words[Sorter!At(a)], words[Sorter!At(b)])
  BY <1>1, CallFacts DEF Inserting
<1>3. sortI \in 0..(Sorter!Call.size - 1)
  BY <1>1, <1>2
<1>4. Sorter!At(sortI) \in 1..Len(words)
  BY <1>1, <1>3, CallFacts
<1>5. words \in Seq(Words) /\ key' \in Words
  BY <1>1, <1>4, WordList DEF SortTypes
<1>6. SortTypes'
  BY <1>1, <1>5 DEF SortTypes, Sorter!Buckets
<1>7. /\ CallsApart' /\ Sorter!Call' = Sorter!Call
      /\ \A k : Sorter!At(k)' = Sorter!At(k)
  BY <1>1, SameCalls
<1>8. Sorter!Held = words /\ Sorter!Held' = words
  <2>1. Sorter!Held' = [words EXCEPT ![Sorter!At(sortI)] = words[Sorter!At(sortI)]]
    BY <1>1, <1>7 DEF Sorter!Held, Sorter!At
  <2> QED
    BY <1>1, <1>4, <1>5, <2>1 DEF Sorter!Held
<1>9. Settling' /\ Kept'
  BY <1>1, <1>8, SameHeld DEF Sorting
<1>10. Inserting'
  <2>1. \A a, b \in 0..sortI : a < b /\ b # sortI => AtMost(words[Sorter!At(a)], words[Sorter!At(b)])
    <3>1. \A a, b \in 0..sortI : a < b /\ b # sortI => a \in 0..(sortI - 1) /\ b \in 0..(sortI - 1)
      BY <1>2
    <3> QED
      BY <1>2, <3>1
  <2>2. sortI <= sortI
    BY <1>2
  <2> QED
    BY <1>1, <1>2, <1>7, <1>8, <2>1, <2>2 DEF Inserting
<1>11. Left'
  BY <1>1 DEF Left
<1> QED
  BY <1>1, <1>6, <1>7, <1>9, <1>10, <1>11 DEF Distributing

\* The key and the word before its place change places.
LEMMA ShiftStep ==
    ASSUME SortInv, Sorter!Shift
    PROVE  SortInv'
<1> USE DEF SortInv
<1> DEFINE D == Sorter!Held
           x == Sorter!At(sortJ)
           y == Sorter!At(sortJ - 1)
<1>1. /\ sortPc = "shift" /\ sortPc' = "shift" /\ sortJ' = sortJ - 1 /\ ~Sorter!InPlace
      /\ words' = [words EXCEPT ![x] = words[y]] /\ calls # << >>
      /\ input' = input /\ sortInput' = sortInput /\ scratch' = scratch /\ key' = key
      /\ buckets' = buckets /\ calls' = calls /\ sortI' = sortI
  BY DEF Sorter!Shift, CallsApart
<1>2. /\ sortI \in 1..Sorter!Call.size /\ Sorter!Call.size \in Nat /\ Sorter!Call.first \in Nat
      /\ sortI < Sorter!Call.size /\ sortJ <= sortI /\ sortJ \in Nat
      /\ \A a, b \in 0..sortI : a < b /\ b # sortJ => AtMost(D[Sorter!At(a)], D[Sorter!At(b)])
  BY <1>1, CallFacts DEF Inserting, SortTypes
<1>3. /\ D \in Seq(Words) /\ Len(D) = Len(words) /\ D[x] = key /\ key \in Words
      /\ \A p \in 1..Len(words) : p # x => D[p] = words[p]
  BY <1>1, HeldFacts
<1>4. sortJ > 0 /\ Precedes(Sorter!Suffix(key), Sorter!Suffix(words[y]))
  <2>1. Sorter!InPlace <=> ~(sortJ > 0 /\ Precedes(Sorter!Suffix(key), Sorter!Suffix(words[y])))
    BY SorterOrder DEF Sorter!InPlace
  <2> QED
    BY <1>1, <2>1
<1>5. sortJ \in 0..(Sorter!Call.size - 1) /\ sortJ - 1 \in 0..(Sorter!Call.size - 1)
  BY <1>2, <1>4
<1>6. /\ x \in Sorter!PlacesOf(Sorter!Call) /\ y \in Sorter!PlacesOf(Sorter!Call)
      /\ x \in 1..Len(words) /\ y \in 1..Len(words) /\ x # y
  <2>1. x = Sorter!Call.first + sortJ + 1 /\ y = Sorter!Call.first + (sortJ - 1) + 1
    BY <1>1, <1>5, CallFacts
  <2>2. x # y
    BY <1>2, <2>1
  <2> QED
    BY <1>1, <1>5, <2>2, CallFacts
<1>7. /\ words' \in Seq(Words) /\ Len(words') = Len(words) /\ words'[x] = words[y]
      /\ \A p \in 1..Len(words) : p # x => words'[p] = words[p]
  <2>1. words \in Seq(Words) /\ DOMAIN words = 1..Len(words) /\ words[y] \in Words
    BY <1>6, WordList DEF SortTypes
  <2> QED
    BY <1>1, <1>6, <2>1, ExceptSeq
<1>8. /\ CallsApart' /\ Sorter!Call' = Sorter!Call
      /\ \A k : Sorter!At(k)' = Sorter!At(k)
      /\ \A call : Sorter!PlacesOf(call)' = Sorter!PlacesOf(call)
  BY <1>1, <1>7, SameCalls
<1>9. /\ D' \in Seq(Words) /\ Len(D') = Len(words) /\ D'[y] = key /\ D'[x] = D[y]
      /\ \A p \in 1..Len(words) : p # x /\ p # y => D'[p] = D[p]
  <2>1. Sorter!At(sortJ)' = y
    BY <1>1, <1>8 DEF Sorter!At
  <2>2. D' = [words' EXCEPT ![y] = key]
    BY <1>1, <2>1 DEF Sorter!Held
  <2>3. DOMAIN words' = 1..Len(words)
    BY <1>7, WordList
  <2> HIDE DEF x, y
  <2>4. D' \in Seq(Words) /\ Len(D') = Len(words)
    BY <1>3, <1>6, <1>7, <2>2, <2>3, ExceptSeq
  <2> QED
    BY <1>3, <1>6, <1>7, <2>2, <2>3, <2>4
<1>10. SortTypes'
  <2>1. sortJ - 1 \in 0..Len(input)
    BY <1>5, InputFacts DEF SortTypes
  <2> QED
    BY <1>1, <1>3, <1>7, <2>1 DEF SortTypes, Sorter!Buckets
<1> HIDE DEF D, x, y
<1>11. Rearranged(D, D')
  <2>1. \A p \in Sorter!PlacesOf(Sorter!Call) : p \in 1..Len(words)
    BY <1>1, CallFacts
  <2> QED
    BY <1>3, <1>6, <1>9, <2>1 DEF Rearranged
<1>12. Settling'
  <2>1. OrderedBut(D, calls) /\ AgreeIn(D, calls)
    BY <1>1 DEF Settling, Sorting, D
  <2>2. OrderedBut(D', calls) /\ AgreeIn(D', calls)
    BY <1>1, <1>3, <1>9, <1>11, <2>1, RearrangedSettled
  <2>3. OrderedBut(D, calls)' /\ AgreeIn(D, calls)'
    BY <1>1, <1>8, <2>2 DEF OrderedBut, AgreeIn
  <2> QED
    BY <2>3 DEF Settling, D
<1>13. Kept'
  <2>1. WordsOf(D') = WordsOf(D)
    BY <1>1, <1>3, <1>9, <1>11, RearrangedWords
  <2> QED
    BY <1>1, <2>1, KeptStep DEF D
<1>14. Precedes(key, D[y])
  <2>1. D[y] = words[y]
    BY <1>3, <1>6
  <2>2. AgreeUpTo(D[x], D[y], Sorter!Call.depth)
    BY <1>1, <1>6, CallFacts DEF Settling, Sorting, AgreeIn, D
  <2>3. key \in Word /\ D[y] \in Word /\ Sorter!Call.depth \in Nat
    BY <1>1, <1>3, <1>6, WordList, WordsAreWords, CallFacts
  <2> QED
    BY <1>3, <1>4, <2>1, <2>2, <2>3, SuffixesCompare DEF Sorter!Suffix
<1>15. AtMost(key, D[y])
  BY <1>3, <1>6, <1>14, PrecedesAtMost, WordList, WordsAreWords
<1>16. ASSUME NEW a \in 0..sortI, NEW b \in 0..sortI, a < b, b # sortJ - 1
       PROVE  AtMost(D'[Sorter!At(a)], D'[Sorter!At(b)])
  <2>1. \A c \in 0..sortI : Sorter!At(c) \in 1..Len(words) /\ Sorter!At(c) = Sorter!Call.first + c + 1
    <3>1. \A c \in 0..sortI : c \in 0..(Sorter!Call.size - 1)
      BY <1>2
    <3> QED
      BY <1>1, <3>1, CallFacts
  <2>2. \A c \in 0..sortI : /\ Sorter!At(c) = x <=> c = sortJ
                            /\ Sorter!At(c) = y <=> c = sortJ - 1
    <3>1. x = Sorter!Call.first + sortJ + 1 /\ y = Sorter!Call.first + (sortJ - 1) + 1
      <4>1. sortJ \in 0..sortI /\ sortJ - 1 \in 0..sortI
        BY <1>2, <1>4
      <4> QED
        BY <2>1, <4>1 DEF x, y
    <3>2. \A c \in 0..sortI : /\ Sorter!Call.first + c + 1 = Sorter!Call.first + sortJ + 1 <=> c = sortJ
                              /\ Sorter!Call.first + c + 1 = Sorter!Call.first + (sortJ - 1) + 1 <=> c = sortJ - 1
      BY <1>2
    <3> QED
      BY <2>1, <3>1, <3>2
  <2>3. \A c \in 0..sortI : c # sortJ /\ c # sortJ - 1 => D'[Sorter!At(c)] = D[Sorter!At(c)]
    BY <1>9, <2>1, <2>2
  <2>4. sortJ \in 0..sortI /\ sortJ - 1 \in 0..sortI /\ Sorter!At(sortJ) = x /\ Sorter!At(sortJ - 1) = y
    BY <1>2, <1>4 DEF x, y
  <2>5. CASE b = sortJ /\ a = sortJ - 1
    BY <1>9, <1>15, <2>4, <2>5
  <2>6. CASE b = sortJ /\ a # sortJ - 1
    <3>1. a < sortJ - 1 /\ a # sortJ
      BY <1>16, <1>2, <2>6
    <3>2. AtMost(D[Sorter!At(a)], D[y])
      BY <1>2, <2>4, <3>1
    <3> QED
      BY <1>9, <2>3, <2>4, <2>6, <3>1, <3>2
  <2>7. CASE b # sortJ /\ a = sortJ - 1
    <3>1. sortJ < b
      BY <1>16, <1>2, <2>7
    <3>2. AtMost(D[x], D[Sorter!At(b)])
      BY <1>2, <2>4, <2>7, <3>1
    <3> QED
      BY <1>16, <1>3, <1>9, <2>3, <2>4, <2>7, <3>2
  <2>8. CASE b # sortJ /\ a = sortJ
    <3>1. sortJ - 1 < b
      BY <1>16, <1>2, <2>8
    <3>2. AtMost(D[y], D[Sorter!At(b)])
      BY <1>2, <2>4, <2>8, <3>1
    <3> QED
      BY <1>16, <1>9, <2>3, <2>4, <2>8, <3>2
  <2>9. CASE b # sortJ /\ a # sortJ - 1 /\ a # sortJ
    BY <1>16, <1>2, <2>3, <2>9
  <2> QED
    BY <2>5, <2>6, <2>7, <2>8, <2>9
<1>17. Inserting'
  <2>1. sortJ - 1 <= sortI
    BY <1>2
  <2> QED
    BY <1>1, <1>2, <1>8, <1>16, <2>1 DEF Inserting, D
<1>18. Left'
  BY <1>1 DEF Left
<1> QED
  BY <1>1, <1>8, <1>10, <1>12, <1>13, <1>17, <1>18 DEF Distributing

LEMMA PlaceKeyStep ==
    ASSUME SortInv, Sorter!PlaceKey
    PROVE  SortInv'
<1> USE DEF SortInv
<1> DEFINE D == Sorter!Held
<1>1. /\ sortPc = "shift" /\ sortPc' = "insert" /\ sortI' = sortI + 1 /\ Sorter!InPlace
      /\ words' = [words EXCEPT ![Sorter!At(sortJ)] = key] /\ calls # << >>
      /\ input' = input /\ sortInput' = sortInput /\ scratch' = scratch /\ key' = key
      /\ buckets' = buckets /\ calls' = calls /\ sortJ' = sortJ
  BY DEF Sorter!PlaceKey, CallsApart
<1>2. /\ sortI \in 1..Sorter!Call.size /\ Sorter!Call.size \in Nat
      /\ sortI < Sorter!Call.size /\ sortJ <= sortI /\ sortJ \in Nat
      /\ \A a, b \in 0..sortI : a < b /\ b # sortJ => AtMost(D[Sorter!At(a)], D[Sorter!At(b)])
  BY <1>1, CallFacts DEF Inserting, SortTypes
<1>3. /\ D \in Seq(Words) /\ Len(D) = Len(words) /\ D[Sorter!At(sortJ)] = key /\ key \in Words
      /\ \A p \in 1..Len(words) : p # Sorter!At(sortJ) => D[p] = words[p]
  BY <1>1, HeldFacts
<1>4. words' = D
  BY <1>1 DEF Sorter!Held
<1>5. D' = D
  BY <1>1, <1>4 DEF Sorter!Held
<1>6. /\ CallsApart' /\ Sorter!Call' = Sorter!Call
      /\ \A k : Sorter!At(k)' = Sorter!At(k)
  BY <1>1, <1>3, <1>4, SameCalls
<1>7. Settling' /\ Kept'
  BY <1>1, <1>5, SameHeld DEF Sorting
<1>8. \A c \in 0..sortI : Sorter!At(c) \in 1..Len(words) /\ Sorter!At(c) \in Sorter!PlacesOf(Sorter!Call)
  <2>1. \A c \in 0..sortI : c \in 0..(Sorter!Call.size - 1)
    BY <1>2
  <2> QED
    BY <1>1, <2>1, CallFacts
<1>9. SortTypes'
  <2>1. sortI + 1 \in 0..Len(input)
    <3>1. Sorter!Call.size <= Len(words) /\ Len(words) = Len(input) /\ Len(words) \in Nat
      <4>1. Sorter!Call.first \in Nat /\ Sorter!Call.first + Sorter!Call.size <= Len(words) /\ Len(words) \in Nat
        BY <1>1, CallFacts
      <4> QED
        BY <1>1, <1>2, <4>1 DEF SortTypes
    <3> QED
      BY <1>2, <3>1
  <2> QED
    BY <1>1, <1>3, <1>4, <2>1 DEF SortTypes, Sorter!Buckets
<1>10. \A c \in 0..sortI : D[Sorter!At(c)] \in Word
  BY <1>3, <1>8, WordList
<1> HIDE DEF D
<1>11. \A a \in 0..sortI : a < sortJ => AtMost(D[Sorter!At(a)], key)
  <2> SUFFICES ASSUME NEW a \in 0..sortI, a < sortJ PROVE AtMost(D[Sorter!At(a)], key)
    OBVIOUS
  <2> DEFINE y == Sorter!At(sortJ - 1)
  <2>1. sortJ > 0 /\ sortJ - 1 \in 0..sortI /\ sortJ \in 0..sortI /\ sortJ - 1 # sortJ
    BY <1>2
  <2>2. ~Precedes(Sorter!Suffix(key), Sorter!Suffix(words[y]))
    <3>1. Sorter!InPlace <=> ~(sortJ > 0 /\ Precedes(Sorter!Suffix(key), Sorter!Suffix(words[y])))
      BY SorterOrder DEF Sorter!InPlace
    <3> QED
      BY <1>1, <2>1, <3>1
  <2>3. D[y] = words[y] /\ y \in 1..Len(words)
    <3>1. Sorter!At(sortJ - 1) # Sorter!At(sortJ)
      <4>1. Sorter!Call.first \in Nat
        BY <1>1, CallFacts
      <4> QED
        BY <2>1, <4>1 DEF Sorter!At
    <3> QED
      BY <1>3, <1>8, <2>1, <3>1
  <2>4. AgreeUpTo(key, D[y], Sorter!Call.depth)
    <3>1. AgreeUpTo(D[Sorter!At(sortJ)], D[y], Sorter!Call.depth)
      BY <1>1, <1>8, <2>1, CallFacts DEF Settling, Sorting, AgreeIn, D
    <3> QED
      BY <1>3, <3>1
  <2>5. key \in Word /\ D[y] \in Word /\ Sorter!Call.depth \in Nat /\ D[Sorter!At(a)] \in Word
    BY <1>1, <1>3, <1>10, <2>1, WordsAreWords, CallFacts
  <2>6. AtMost(D[y], key)
    BY <2>2, <2>3, <2>4, <2>5, SuffixesCompare DEF Sorter!Suffix, AtMost
  <2>7. CASE a = sortJ - 1
    BY <2>6, <2>7
  <2>8. CASE a # sortJ - 1
    <3>1. a < sortJ - 1
      BY <1>2, <2>8
    <3>2. AtMost(D[Sorter!At(a)], D[y])
      BY <1>2, <2>1, <3>1 DEF D
    <3> HIDE DEF y
    <3> QED
      BY <2>5, <2>6, <3>2, AtMostTransitive
  <2> QED
    BY <2>7, <2>8
<1>12. \A a, b \in 0..sortI : a < b => AtMost(D[Sorter!At(a)], D[Sorter!At(b)])
  BY <1>2, <1>3, <1>11 DEF D
<1>13. Inserting'
  <2>1. sortI + 1 \in 1..Sorter!Call.size /\ (sortI + 1) - 1 = sortI
    BY <1>2
  <2> QED
    BY <1>1, <1>4, <1>6, <1>12, <2>1 DEF Inserting, D
<1>14. Left'
  BY <1>1 DEF Left
<1> QED
  BY <1>1, <1>6, <1>7, <1>9, <1>13, <1>14 DEF Distributing

\* The partition is in order: its call is no longer to be made.
LEMMA InsertionReturnStep ==
    ASSUME SortInv, Sorter!InsertionReturn
    PROVE  SortInv'
<1> USE DEF SortInv
<1> DEFINE O == Sorter!OtherCalls
           C == Sorter!Call
<1>1. /\ sortPc = "insert" /\ sortPc' = "call" /\ sortI >= Sorter!Call.size /\ calls # << >>
      /\ calls' = Sorter!OtherCalls /\ words' = words
      /\ input' = input /\ sortInput' = sortInput /\ scratch' = scratch /\ key' = key
      /\ buckets' = buckets /\ sortI' = sortI /\ sortJ' = sortJ
  BY DEF Sorter!InsertionReturn, CallsApart
<1>2. /\ O \in Seq(CallType) /\ Len(O) = Len(calls) - 1
      /\ \A m \in 1..Len(O) : O[m] = calls[m] /\ m \in 1..Len(calls)
      /\ Len(calls) \in Nat /\ C = calls[Len(calls)]
  BY <1>1, OtherFacts, CallFacts
<1>3. \A call : Sorter!PlacesOf(call)' = Sorter!PlacesOf(call)
  BY DEF Sorter!PlacesOf
<1>4. sortI = C.size /\ C.size \in Nat
  BY <1>1, CallFacts DEF Inserting
<1>5. Sorter!Held = words /\ Sorter!Held' = words
  BY <1>1 DEF Sorter!Held
<1>6. OrderedBut(words, calls) /\ AgreeIn(words, calls)
  BY <1>1, <1>5 DEF Settling, Sorting
<1> HIDE DEF O, C
<1>7. OrderedBut(words, O)
  <2> SUFFICES ASSUME NEW p \in 1..Len(words), NEW q \in 1..Len(words), p < q,
                      \A m \in 1..Len(O) : ~({p, q} \subseteq Sorter!PlacesOf(O[m]))
               PROVE  AtMost(words[p], words[q])
    BY DEF OrderedBut
  <2>1. CASE {p, q} \subseteq Sorter!PlacesOf(C)
    <3>1. PICK a \in 0..(C.size - 1), b \in 0..(C.size - 1) : p = Sorter!At(a) /\ q = Sorter!At(b)
      BY <1>1, <2>1, CallFacts DEF C
    <3>2. p = C.first + a + 1 /\ q = C.first + b + 1 /\ C.first \in Nat
      BY <1>1, <3>1, CallFacts DEF C
    <3>3. a < b /\ a \in 0..(sortI - 1) /\ b \in 0..(sortI - 1)
      BY <1>4, <3>1, <3>2
    <3> QED
      BY <1>1, <3>1, <3>3 DEF Inserting
  <2>2. CASE ~({p, q} \subseteq Sorter!PlacesOf(C))
    <3>1. \A m \in 1..Len(calls) : m = Len(calls) \/ m \in 1..Len(O)
      BY <1>2
    <3>2. \A m \in 1..Len(calls) : ~({p, q} \subseteq Sorter!PlacesOf(calls[m]))
      BY <1>2, <2>2, <3>1
    <3> QED
      BY <1>6, <3>2 DEF OrderedBut
  <2> QED
    BY <2>1, <2>2
<1>8. AgreeIn(words, O)
  BY <1>2, <1>6 DEF AgreeIn
<1>9. Settling'
  <2>1. (OrderedBut(words, calls) /\ AgreeIn(words, calls))'
    BY <1>1, <1>3, <1>7, <1>8 DEF OrderedBut, AgreeIn, O
  <2> QED
    BY <1>1, <1>5, <2>1 DEF Settling, OrderedBut, AgreeIn
<1>10. SortTypes'
  BY <1>1, <1>2 DEF SortTypes, Sorter!Buckets, O
<1>11. CallsApart'
  BY <1>1, <1>2, <1>3 DEF CallsApart, O
<1>12. Kept' /\ Left'
  BY <1>1, <1>5, KeptStep DEF Left
<1> QED
  BY <1>1, <1>9, <1>10, <1>11, <1>12 DEF Inserting, Distributing

\* Nothing is left to be put in order.
LEMMA SortReturnStep ==
    ASSUME SortInv, Sorter!SortReturn
    PROVE  SortInv'
<1> USE DEF SortInv
<1>1. /\ sortPc = "call" /\ sortPc' = "unique" /\ calls = << >> /\ calls' = calls /\ words' = words
      /\ input' = input /\ sortInput' = sortInput /\ scratch' = scratch /\ key' = key
      /\ buckets' = buckets /\ sortI' = sortI /\ sortJ' = sortJ
  BY DEF Sorter!SortReturn
<1>2. Sorter!Held = words /\ Sorter!Held' = words
  BY <1>1 DEF Sorter!Held
<1>3. SortTypes'
  BY <1>1 DEF SortTypes, Sorter!Buckets
<1>4. CallsApart'
  BY <1>1 DEF CallsApart
<1>5. Kept'
  BY <1>1, <1>2, KeptStep
<1>6. sortInput
  BY <1>1 DEF Left, SortTypes
<1>7. \A p, q \in 1..Len(words) : p < q => AtMost(words[p], words[q])
  <2>1. OrderedBut(words, calls) /\ Len(calls) = 0
    BY <1>1, <1>2 DEF Settling, Sorting
  <2> QED
    BY <2>1 DEF OrderedBut
<1>8. Left'
  BY <1>1, <1>6, <1>7 DEF Left
<1> QED
  BY <1>1, <1>3, <1>4, <1>5, <1>8 DEF Settling, Sorting, Inserting, Distributing

LEMMA SorterCardinality ==
    ASSUME NEW S
    PROVE  Sorter!Cardinality(S) = Cardinality(S)
BY DEF Sorter!Cardinality, Cardinality

LEMMA BucketNumbers == \A c \in Labels : c + 1 \in Sorter!Buckets /\ c + 1 \in Nat
<1> SUFFICES ASSUME NEW c \in Labels PROVE c + 1 \in Sorter!Buckets /\ c + 1 \in Nat
  OBVIOUS
<1>1. c \in Nat
  BY LabelsAssumption
<1>2. c + 1 \in {x + 1 : x \in Labels}
  OBVIOUS
<1> QED
  BY <1>1, <1>2 DEF Sorter!Buckets

\* The code's counts are those of the functions above.
LEMMA CountFacts ==
    ASSUME SortTypes, CallsApart, calls # << >>, AgreeIn(words, calls)
    PROVE  /\ BucketsOf \in [0..(Sorter!Call.size - 1) -> Nat]
           /\ Sorter!Places = 0..(Sorter!Call.size - 1)
           /\ \A k \in 0..(Sorter!Call.size - 1) :
                  /\ Len(words[Sorter!At(k)]) >= Sorter!Call.depth
                  /\ words[Sorter!At(k)] \in Seq(Labels) /\ BucketsOf[k] \in Sorter!Buckets
                  /\ BucketsOf[k] = Sorter!BucketOf(words[Sorter!At(k)], Sorter!Call.depth)
           /\ \A b : Sorter!CountOf(b) = Cardinality(InBucket(BucketsOf, Sorter!Call.size, b))
           /\ \A b : Sorter!BoundaryOf(b) = Cardinality(BelowBucket(BucketsOf, Sorter!Call.size, b))
<1> DEFINE n == Sorter!Call.size
           B == BucketsOf
<1>1. Sorter!Places = 0..(n - 1)
  BY DEF Sorter!Places
<1>2. \A k \in 0..(n - 1) : B[k] = Sorter!BucketOf(words[Sorter!At(k)], Sorter!Call.depth)
  BY <1>1 DEF BucketsOf
<1>3. \A b : Sorter!CountOf(b) = Cardinality(InBucket(B, n, b))
  <2> SUFFICES ASSUME NEW b PROVE Sorter!CountOf(b) = Cardinality(InBucket(B, n, b))
    OBVIOUS
  <2>1. {k \in Sorter!Places : Sorter!BucketOf(words[Sorter!At(k)], Sorter!Call.depth) = b} = InBucket(B, n, b)
    BY <1>1, <1>2 DEF InBucket
  <2> QED
    BY <2>1, SorterCardinality DEF Sorter!CountOf
<1>4. \A b : Sorter!BoundaryOf(b) = Cardinality(BelowBucket(B, n, b))
  <2> SUFFICES ASSUME NEW b PROVE Sorter!BoundaryOf(b) = Cardinality(BelowBucket(B, n, b))
    OBVIOUS
  <2>1. {k \in Sorter!Places : Sorter!BucketOf(words[Sorter!At(k)], Sorter!Call.depth) < b} = BelowBucket(B, n, b)
    BY <1>1, <1>2 DEF BelowBucket
  <2> QED
    BY <2>1, SorterCardinality DEF Sorter!BoundaryOf
<1>5. ASSUME NEW k \in 0..(n - 1)
      PROVE  LET w == words[Sorter!At(k)]
             IN  /\ Len(w) >= Sorter!Call.depth /\ w \in Seq(Labels)
                 /\ B[k] \in Sorter!Buckets /\ B[k] \in Nat
  <2> DEFINE w == words[Sorter!At(k)]
             d == Sorter!Call.depth
  <2>1. w \in Words /\ d \in Nat
    BY CallFacts, WordList DEF SortTypes
  <2>2. w \in Seq(Labels)
    BY <2>1, WordsAssumption
  <2>3. Len(w) >= d
    <3>1. AgreeUpTo(w, w, d)
      BY CallFacts DEF AgreeIn
    <3>2. Len(w) \in Nat
      BY <2>2
    <3> HIDE DEF w, d
    <3> QED
      BY <2>1, <3>1, <3>2 DEF AgreeUpTo
  <2>4. B[k] = Sorter!BucketOf(w, d)
    BY <1>2
  <2> HIDE DEF w, d
  <2>5. B[k] \in Sorter!Buckets /\ B[k] \in Nat
    <3>1. CASE Len(w) = d
      BY <2>4, <3>1 DEF Sorter!BucketOf, Sorter!Buckets
    <3>2. CASE Len(w) # d
      <4>1. d + 1 \in 1..Len(w)
        BY <2>1, <2>2, <2>3, <3>2
      <4>2. w[d + 1] \in Labels
        BY <2>2, <4>1
      <4>3. B[k] = w[d + 1] + 1
        BY <2>4, <3>2 DEF Sorter!BucketOf
      <4> QED
        BY <4>2, <4>3, BucketNumbers
    <3> QED
      BY <3>1, <3>2
  <2> QED
    BY <2>2, <2>3, <2>5 DEF w, d
<1>6. B \in [0..(n - 1) -> Nat]
  <2>1. B = [k \in 0..(n - 1) |-> B[k]]
    BY <1>1 DEF BucketsOf
  <2> QED
    BY <1>5, <2>1
<1> QED
  BY <1>1, <1>2, <1>3, <1>4, <1>5, <1>6

LEMMA CallLargeStep ==
    ASSUME SortInv, Sorter!CallLarge
    PROVE  SortInv'
<1> USE DEF SortInv
<1> DEFINE n == Sorter!Call.size
           B == BucketsOf
<1>1. /\ sortPc = "call" /\ sortPc' = "distribute" /\ calls # << >> /\ sortI' = 0
      /\ words' = words /\ input' = input /\ sortInput' = sortInput /\ scratch' = scratch
      /\ calls' = calls /\ sortJ' = sortJ /\ key' = key
      /\ buckets' = [b \in Sorter!Buckets |-> Sorter!BoundaryOf(b)]
  BY DEF Sorter!CallLarge
<1>2. Sorter!Held = words /\ Sorter!Held' = words
  BY <1>1 DEF Sorter!Held
<1>3. AgreeIn(words, calls)
  BY <1>1, <1>2 DEF Settling, Sorting
<1>4. /\ CallsApart' /\ Sorter!Call' = Sorter!Call
      /\ \A k : Sorter!At(k)' = Sorter!At(k)
  BY <1>1, SameCalls
<1>5. n \in Nat /\ n <= Len(input) /\ Len(input) \in Nat
  <2>1. Sorter!Call.first \in Nat /\ Sorter!Call.first + n <= Len(words) /\ Len(words) = Len(input)
        /\ n \in Nat /\ Len(words) \in Nat
    BY <1>1, CallFacts DEF SortTypes
  <2> HIDE DEF n
  <2> QED
    BY <2>1
<1>6. \A b \in Sorter!Buckets : buckets'[b] = Cardinality(BelowBucket(B, n, b))
  BY <1>1, <1>3, CountFacts
<1>7. buckets' \in [Sorter!Buckets -> 0..Len(input)]
  <2>1. \A b : Cardinality(BelowBucket(B, n, b)) \in 0..n
    BY <1>5, BucketCounts
  <2> HIDE DEF n, B
  <2>2. \A b : Cardinality(BelowBucket(B, n, b)) \in 0..Len(input)
    BY <1>5, <2>1
  <2> QED
    BY <1>1, <1>6, <2>2
<1>8. BucketsOf' = B
  BY <1>1, <1>4 DEF BucketsOf, Sorter!Places, Sorter!BucketOf
<1>9. SortTypes'
  BY <1>1, <1>5, <1>7 DEF SortTypes, Sorter!Buckets
<1>10. Settling' /\ Kept'
  BY <1>1, <1>2, SameHeld DEF Sorting
<1>11. \A b : Cardinality(InBucket(B, 0, b)) = 0
  <2>1. \A b : InBucket(B, 0, b) = {}
    BY DEF InBucket
  <2> QED
    BY <2>1, FS_EmptySet
<1>12. Distributing'
  <2>1. \A b \in Sorter!Buckets :
            buckets'[b] = Cardinality(BelowBucket(B, n, b)) + Cardinality(InBucket(B, 0, b))
    <3>1. \A b : Cardinality(BelowBucket(B, n, b)) \in Nat
      BY <1>5, BucketCounts
    <3> QED
      BY <1>6, <1>11, <3>1
  <2> HIDE DEF B
  <2>2. 0 \in 0..n /\ \A k \in 0..(0 - 1) : FALSE
    BY <1>5
  <2>3. Sorter!Buckets' = Sorter!Buckets
    BY DEF Sorter!Buckets
  <2> QED
    BY <1>1, <1>4, <1>8, <2>1, <2>2, <2>3 DEF Distributing
<1>13. Left'
  BY <1>1 DEF Left
<1> QED
  BY <1>1, <1>4, <1>9, <1>10, <1>12, <1>13 DEF Inserting

LEMMA DistributeStep ==
    ASSUME SortInv, Sorter!Distribute
    PROVE  SortInv'
<1> USE DEF SortInv
<1> DEFINE n == Sorter!Call.size
           B == BucketsOf
           k == sortI
           w == words[Sorter!At(k)]
           b == Sorter!BucketOf(w, Sorter!Call.depth)
<1>1. /\ sortPc = "distribute" /\ sortPc' = "distribute" /\ calls # << >> /\ k < n /\ sortI' = k + 1
      /\ words' = words /\ input' = input /\ sortInput' = sortInput
      /\ calls' = calls /\ sortJ' = sortJ /\ key' = key
      /\ scratch' = [scratch EXCEPT ![Sorter!At(buckets[b])] = w]
      /\ buckets' = [buckets EXCEPT ![b] = @ + 1]
  BY DEF Sorter!Distribute, Sorter!TakenPlace, CallsApart
<1>2. Sorter!Held = words /\ Sorter!Held' = words
  BY <1>1 DEF Sorter!Held
<1>3. AgreeIn(words, calls)
  BY <1>1, <1>2 DEF Settling, Sorting
<1>4. /\ CallsApart' /\ Sorter!Call' = Sorter!Call
      /\ \A l : Sorter!At(l)' = Sorter!At(l)
  BY <1>1, SameCalls
<1>5. n \in Nat /\ n <= Len(input) /\ Len(input) \in Nat /\ Len(words) = Len(input)
  <2>1. Sorter!Call.first \in Nat /\ Sorter!Call.first + n <= Len(words) /\ Len(words) = Len(input)
        /\ n \in Nat /\ Len(words) \in Nat
    BY <1>1, CallFacts DEF SortTypes
  <2> HIDE DEF n
  <2> QED
    BY <2>1
<1>6. /\ k \in 0..n
      /\ \A c \in Sorter!Buckets :
             buckets[c] = Cardinality(BelowBucket(B, n, c)) + Cardinality(InBucket(B, k, c))
      /\ \A l \in 0..(k - 1) : scratch[Sorter!At(TargetOf(B, n, l))] = words[Sorter!At(l)]
  BY <1>1 DEF Distributing
<1>7. /\ k \in 0..(n - 1) /\ B \in [0..(n - 1) -> Nat] /\ B[k] = b /\ b \in Sorter!Buckets
      /\ w \in Words
  <2>1. k \in 0..(n - 1)
    BY <1>1, <1>5, <1>6
  <2>2. Sorter!At(k) \in 1..Len(words)
    BY <1>1, <2>1, CallFacts
  <2> QED
    BY <1>1, <1>3, <2>1, <2>2, CountFacts, WordList DEF SortTypes
<1> HIDE DEF n, B, k, w, b
<1>8. buckets[b] = TargetOf(B, n, k) /\ TargetOf(B, n, k) \in 0..(n - 1)
  <2>1. TargetOf(B, n, k) \in 0..(n - 1)
    BY <1>5, <1>7, TargetInBucket
  <2> QED
    BY <1>6, <1>7, <2>1 DEF TargetOf
<1>9. \A l \in 0..(n - 1) : Sorter!At(l) \in 1..Len(words) /\ Sorter!At(l) = Sorter!Call.first + l + 1
  BY <1>1, CallFacts DEF n
<1>10. Sorter!Call.first \in Nat
  BY <1>1, CallFacts
<1>11. buckets' \in [Sorter!Buckets -> 0..Len(input)] /\ DOMAIN buckets = Sorter!Buckets
  <2>1. buckets \in [Sorter!Buckets -> 0..Len(input)]
    BY DEF SortTypes
  <2>2. buckets[b] + 1 \in 0..Len(input)
    BY <1>5, <1>8
  <2> QED
    BY <1>1, <2>1, <2>2
<1>12. /\ scratch' \in Seq(Word) /\ Len(scratch') = Len(scratch)
       /\ scratch'[Sorter!At(TargetOf(B, n, k))] = w
       /\ \A p \in 1..Len(words) : p # Sorter!At(TargetOf(B, n, k)) => scratch'[p] = scratch[p]
  <2>1. scratch \in Seq(Word) /\ Len(scratch) = Len(words) /\ w \in Word
    BY <1>1, <1>7, WordsAreWords DEF SortTypes
  <2>2. Sorter!At(TargetOf(B, n, k)) \in 1..Len(scratch)
    BY <1>8, <1>9, <2>1
  <2>3. DOMAIN scratch = 1..Len(scratch)
    BY <2>1
  <2>4. scratch' = [scratch EXCEPT ![Sorter!At(TargetOf(B, n, k))] = w]
    BY <1>1, <1>8
  <2> QED
    BY <2>1, <2>2, <2>3, <2>4, ExceptSeq
<1>13. BucketsOf' = B
  BY <1>1, <1>4 DEF BucketsOf, Sorter!Places, Sorter!BucketOf, B
<1>14. k + 1 \in 0..n /\ (k + 1) - 1 = k /\ k \in Nat
  BY <1>5, <1>7
<1>15. SortTypes'
  <2>1. k + 1 \in 0..Len(input)
    BY <1>5, <1>14
  <2> QED
    BY <1>1, <1>11, <1>12, <2>1 DEF SortTypes, Sorter!Buckets
<1>16. Settling' /\ Kept'
  BY <1>1, <1>2, SameHeld DEF Sorting
<1>17. ASSUME NEW c \in Sorter!Buckets
       PROVE  buckets'[c] = Cardinality(BelowBucket(B, n, c)) + Cardinality(InBucket(B, k + 1, c))
  <2>1. Cardinality(InBucket(B, k + 1, c)) = Cardinality(InBucket(B, k, c)) + (IF B[k] = c THEN 1 ELSE 0)
    BY <1>5, <1>7, BucketGrows
  <2>2. Cardinality(BelowBucket(B, n, c)) \in Nat /\ Cardinality(InBucket(B, k, c)) \in Nat
    BY <1>5, <1>14, BucketCounts
  <2>3. buckets'[c] = buckets[c] + (IF b = c THEN 1 ELSE 0)
    <3>1. buckets[c] \in Nat
      BY <1>6, <2>2
    <3> QED
      BY <1>1, <1>11, <3>1
  <2> QED
    BY <1>6, <1>7, <2>1, <2>2, <2>3
<1>18. ASSUME NEW l \in 0..k
       PROVE  scratch'[Sorter!At(TargetOf(B, n, l))] = words[Sorter!At(l)]
  <2>1. CASE l = k
    BY <1>12, <2>1 DEF w
  <2>2. CASE l # k
    <3>1. l \in 0..(k - 1) /\ l \in 0..(n - 1)
      <4>1. l \in Nat /\ l <= k /\ l # k /\ k < n
        BY <1>5, <1>7, <1>14, <2>2
      <4> QED
        BY <1>5, <1>14, <4>1
    <3>2. TargetOf(B, n, l) # TargetOf(B, n, k) /\ TargetOf(B, n, l) \in 0..(n - 1)
      <4>1. k \in 0..(n - 1) /\ l # k
        BY <1>5, <1>7, <2>2
      <4>2. TargetOf(B, n, l) # TargetOf(B, n, k)
        BY <1>5, <1>7, <3>1, <4>1, TargetsFill
      <4>3. TargetOf(B, n, l) \in 0..(n - 1)
        BY <1>5, <1>7, <3>1, TargetInBucket
      <4> QED
        BY <4>2, <4>3
    <3>3. Sorter!At(TargetOf(B, n, l)) # Sorter!At(TargetOf(B, n, k)) /\ Sorter!At(TargetOf(B, n, l)) \in 1..Len(words)
      BY <1>8, <1>9, <1>10, <3>2
    <3> QED
      BY <1>6, <1>12, <3>1, <3>3
  <2> QED
    BY <2>1, <2>2
<1>19. Distributing'
  <2>1. Sorter!Buckets' = Sorter!Buckets
    BY DEF Sorter!Buckets
  <2>2. sortI' = k + 1 /\ Sorter!Call.size' = n
    BY <1>1, <1>4 DEF k, n
  <2> QED
    BY <1>1, <1>4, <1>13, <1>14, <1>17, <1>18, <2>1, <2>2 DEF Distributing
<1>20. Left'
  BY <1>1 DEF Left
<1> QED
  BY <1>1, <1>4, <1>15, <1>16, <1>19, <1>20 DEF Inserting

\* The code goes on with every bucket once.
LEMMA EachOnce ==
    ASSUME NEW S \in SUBSET Nat, IsFiniteSet(S)
    PROVE  LET N == Sorter!Cardinality(S)
               c(k) == CHOOSE b \in S : Sorter!Cardinality({d \in S : d >= b}) = k
           IN  /\ N \in Nat
               /\ \A k \in 1..N : c(k) \in S
               /\ \A k, l \in 1..N : k # l => c(k) # c(l)
               /\ \A b \in S : \E k \in 1..N : c(k) = b
<1> DEFINE N == Sorter!Cardinality(S)
           From(b) == {d \in S : d >= b}
           rank(b) == Sorter!Cardinality(From(b))
           c(k) == CHOOSE b \in S : rank(b) = k
           f == [b \in S |-> rank(b)]
<1>1. N = Cardinality(S) /\ N \in Nat
  BY SorterCardinality, FS_CardinalityType
<1>2. ASSUME NEW b \in S
      PROVE  /\ IsFiniteSet(From(b)) /\ b \in From(b) /\ rank(b) = Cardinality(From(b)) /\ rank(b) \in 1..N
  <2>1. From(b) \subseteq S /\ b \in From(b)
    OBVIOUS
  <2>2. IsFiniteSet(From(b)) /\ Cardinality(From(b)) <= N
    BY <1>1, <2>1, FS_Subset
  <2>3. Cardinality(From(b)) \in Nat /\ Cardinality(From(b)) # 0
    BY <2>1, <2>2, FS_CardinalityType, FS_EmptySet
  <2>4. rank(b) = Cardinality(From(b))
    BY SorterCardinality
  <2> HIDE DEF From, rank, N
  <2> QED
    BY <1>1, <2>1, <2>2, <2>3, <2>4
<1>3. ASSUME NEW a \in S, NEW b \in S, a < b
      PROVE  rank(b) # rank(a)
  <2>1. a \in Nat /\ b \in Nat
    OBVIOUS
  <2>2. From(b) \cup {a} \subseteq From(a) /\ a \notin From(b)
    <3>1. \A d \in Nat : d >= b => d >= a
      BY <1>3, <2>1
    <3>2. ~(a >= b) /\ a >= a
      BY <1>3, <2>1
    <3>3. \A d \in S : d \in Nat
      OBVIOUS
    <3> QED
      BY <3>1, <3>2, <3>3
  <2>3. Cardinality(From(b) \cup {a}) = Cardinality(From(b)) + 1
    BY <1>2, <2>2, FS_AddElement
  <2>4. Cardinality(From(b) \cup {a}) <= Cardinality(From(a))
    BY <1>2, <2>2, FS_Subset
  <2> HIDE DEF From, rank, N
  <2> QED
    BY <1>1, <1>2, <2>3, <2>4
<1> HIDE DEF From, rank, N
<1>4. \A a, b \in S : a # b => rank(a) # rank(b)
  <2>1. \A a, b \in S : a # b => a < b \/ b < a
    OBVIOUS
  <2> QED
    BY <1>3, <2>1
<1>5. f \in Injection(S, 1..N)
  BY <1>2, <1>4 DEF Injection, IsInjective
<1>6. IsFiniteSet(1..N) /\ Cardinality(1..N) = N
  <2>1. 1 \in Int /\ N \in Int
    BY <1>1
  <2> QED
    BY <1>1, <2>1, FS_Interval
<1>7. f \in Surjection(S, 1..N)
  BY <1>1, <1>5, <1>6, FS_Injection
<1>8. \A k \in 1..N : \E b \in S : rank(b) = k
  BY <1>7 DEF Surjection
<1>9. \A k \in 1..N : c(k) \in S /\ rank(c(k)) = k
  BY <1>8
<1>10. \A b \in S : rank(b) \in 1..N /\ c(rank(b)) = b
  <2> SUFFICES ASSUME NEW b \in S PROVE rank(b) \in 1..N /\ c(rank(b)) = b
    OBVIOUS
  <2>1. rank(b) \in 1..N
    BY <1>2
  <2>2. c(rank(b)) \in S /\ rank(c(rank(b))) = rank(b)
    BY <1>9, <2>1
  <2> HIDE DEF c
  <2> QED
    BY <1>4, <2>1, <2>2
<1> HIDE DEF c
<1>11. /\ \A k \in 1..N : c(k) \in S
       /\ \A k, l \in 1..N : k # l => c(k) # c(l)
       /\ \A b \in S : \E k \in 1..N : c(k) = b
  BY <1>9, <1>10
<1> QED
  BY <1>1, <1>11 DEF c, rank, From, N

\* Words that agree on d labels are in the order of their buckets.
LEMMA BucketsCompare ==
    ASSUME NEW u \in Word, NEW v \in Word, NEW d \in Nat, AgreeUpTo(u, v, d)
    PROVE  LET bu == Sorter!BucketOf(u, d)
               bv == Sorter!BucketOf(v, d)
           IN  /\ bu < bv => Precedes(u, v)
               /\ bu = bv /\ bu = 0 => u = v
               /\ bu = bv /\ bu # 0 => AgreeUpTo(u, v, d + 1)
<1> USE DEF Word
<1> DEFINE bu == Sorter!BucketOf(u, d)
           bv == Sorter!BucketOf(v, d)
<1>1. /\ Len(u) \in Nat /\ Len(v) \in Nat /\ d <= Len(u) /\ d <= Len(v)
      /\ \A k \in 1..d : u[k] = v[k]
  BY DEF AgreeUpTo
<1>2. /\ Len(u) = d => bu = 0
      /\ Len(u) # d => bu = u[d + 1] + 1 /\ u[d + 1] \in Nat /\ d + 1 <= Len(u)
      /\ Len(v) = d => bv = 0
      /\ Len(v) # d => bv = v[d + 1] + 1 /\ v[d + 1] \in Nat /\ d + 1 <= Len(v)
  <2>1. Len(u) # d => d + 1 \in 1..Len(u)
    BY <1>1
  <2>2. Len(v) # d => d + 1 \in 1..Len(v)
    BY <1>1
  <2> QED
    BY <2>1, <2>2 DEF Sorter!BucketOf
<1> HIDE DEF bu, bv
<1>3. ASSUME bu < bv PROVE Precedes(u, v)
  <2>1. d < Len(v)
    BY <1>1, <1>2, <1>3
  <2>2. d < Len(u) => u[d + 1] < v[d + 1]
    BY <1>1, <1>2, <1>3
  <2>3. d \in 0..Len(u)
    BY <1>1
  <2> QED
    BY <2>1, <2>2, <2>3 DEF Precedes
<1>4. ASSUME bu = bv, bu = 0 PROVE u = v
  <2>1. Len(u) = d /\ Len(v) = d
    BY <1>2, <1>4
  <2> QED
    BY <1>1, <2>1, SeqEqual
<1>5. ASSUME bu = bv, bu # 0 PROVE AgreeUpTo(u, v, d + 1)
  <2>1. d + 1 <= Len(u) /\ d + 1 <= Len(v) /\ u[d + 1] = v[d + 1]
    BY <1>2, <1>5
  <2>2. \A k \in 1..(d + 1) : k = d + 1 \/ k \in 1..d
    OBVIOUS
  <2> QED
    BY <1>1, <2>1, <2>2 DEF AgreeUpTo
<1> QED
  BY <1>3, <1>4, <1>5 DEF bu, bv
\* The calls for the buckets.
Further == Sorter!SortedFurther

LEMMA BelowFacts ==
    ASSUME SortTypes, CallsApart, calls # << >>, AgreeIn(words, calls)
    PROVE  /\ Sorter!CallsBelow \in Seq(CallType)
           /\ \A m \in 1..Len(Sorter!CallsBelow) :
                  \E b \in Further : Sorter!CallsBelow[m] = Sorter!CallFor(b)
           /\ \A m, l \in 1..Len(Sorter!CallsBelow) :
                  m # l => \E b, e \in Further : /\ b # e /\ Sorter!CallsBelow[m] = Sorter!CallFor(b)
                                                 /\ Sorter!CallsBelow[l] = Sorter!CallFor(e)
           /\ \A b \in Further : \E m \in 1..Len(Sorter!CallsBelow) :
                  Sorter!CallsBelow[m] = Sorter!CallFor(b)
           /\ Further = {b \in Sorter!Buckets \ {0} : Sorter!CountOf(b) > 1}
           /\ Further \subseteq Nat
<1> DEFINE n == Sorter!Call.size
           B == BucketsOf
           S == Further
           N == Sorter!Cardinality(S)
           c(k) == CHOOSE b \in S : Sorter!Cardinality({d \in S : d >= b}) = k
<1>1. /\ n \in Nat /\ B \in [0..(n - 1) -> Nat] /\ Sorter!Call.first \in Nat /\ Sorter!Call.depth \in Nat
      /\ \A b : Sorter!CountOf(b) = Cardinality(InBucket(B, n, b))
      /\ \A b : Sorter!BoundaryOf(b) = Cardinality(BelowBucket(B, n, b))
  BY CallFacts, CountFacts
<1>2. \A b \in S : b \in Nat /\ b \in Sorter!Buckets /\ b # 0 /\ Sorter!CountOf(b) > 1
  <2>1. \A b \in Sorter!Buckets : b \in Nat
    BY BucketNumbers DEF Sorter!Buckets
  <2> QED
    BY <2>1 DEF Further, Sorter!SortedFurther
<1>3. \A b : Sorter!CountOf(b) \in Nat /\ Sorter!BoundaryOf(b) \in Nat
  <2>1. \A b : Cardinality(InBucket(B, n, b)) \in Nat /\ Cardinality(BelowBucket(B, n, b)) \in Nat
    BY <1>1, BucketCounts
  <2> QED
    BY <1>1, <2>1
<1>4. S \in SUBSET Nat /\ IsFiniteSet(S)
  <2>1. S \subseteq {B[k] : k \in 0..(n - 1)}
    <3> SUFFICES ASSUME NEW b \in S PROVE \E k \in 0..(n - 1) : B[k] = b
      OBVIOUS
    <3>1. Cardinality(InBucket(B, n, b)) # 0
      BY <1>1, <1>2, <1>3
    <3>2. InBucket(B, n, b) # {}
      BY <3>1, FS_EmptySet
    <3> QED
      BY <3>2 DEF InBucket
  <2>2. IsFiniteSet(0..(n - 1))
    <3>1. 0 \in Int /\ n - 1 \in Int
      BY <1>1
    <3> QED
      BY <3>1, FS_Interval
  <2>3. IsFiniteSet({B[k] : k \in 0..(n - 1)})
    <3>1. B \in Surjection(0..(n - 1), {B[k] : k \in 0..(n - 1)})
      <4> HIDE DEF B, n
      <4>1. B = [k \in 0..(n - 1) |-> B[k]]
        BY <1>1
      <4> QED
        BY <4>1 DEF Surjection
    <3> HIDE DEF B, n
    <3> QED
      BY <2>2, <3>1, FS_Surjection
  <2> HIDE DEF S
  <2> QED
    BY <1>2, <2>1, <2>3, FS_Subset
<1>5. /\ N \in Nat
      /\ \A k \in 1..N : c(k) \in S
      /\ \A k, l \in 1..N : k # l => c(k) # c(l)
      /\ \A b \in S : \E k \in 1..N : c(k) = b
  BY <1>4, EachOnce
<1>6. Sorter!CallsBelow = [k \in 1..N |-> Sorter!CallFor(c(k))]
  BY DEF Sorter!CallsBelow, Further
<1> HIDE DEF c, N, S
<1>7. \A b \in S : Sorter!CallFor(b) \in CallType
  BY <1>1, <1>2, <1>3 DEF Sorter!CallFor, CallType
<1>8. Sorter!CallsBelow \in Seq(CallType) /\ Len(Sorter!CallsBelow) = N
  BY <1>5, <1>6, <1>7, IsASeq
<1>9. \A m \in 1..N : c(m) \in S /\ Sorter!CallsBelow[m] = Sorter!CallFor(c(m))
  BY <1>5, <1>6
<1>10. /\ \A m \in 1..N : \E b \in S : Sorter!CallsBelow[m] = Sorter!CallFor(b)
       /\ \A m, l \in 1..N : m # l => \E b, e \in S : /\ b # e /\ Sorter!CallsBelow[m] = Sorter!CallFor(b)
                                                      /\ Sorter!CallsBelow[l] = Sorter!CallFor(e)
       /\ \A b \in S : \E m \in 1..N : Sorter!CallsBelow[m] = Sorter!CallFor(b)
  BY <1>5, <1>9
<1>11. S = {b \in Sorter!Buckets \ {0} : Sorter!CountOf(b) > 1}
  BY DEF S, Further, Sorter!SortedFurther
<1> QED
  BY <1>4, <1>8, <1>10, <1>11 DEF S

\* The places of a call for a bucket, and which words get there.
LEMMA BucketPlaces ==
    ASSUME SortTypes, CallsApart, calls # << >>, AgreeIn(words, calls), NEW b \in Nat
    PROVE  LET places == Sorter!PlacesOf(Sorter!CallFor(b))
               n == Sorter!Call.size
           IN  /\ \A p \in places : p \in Sorter!PlacesOf(Sorter!Call)
               /\ Sorter!CallFor(b).first + Sorter!CallFor(b).size <= Len(words)
               /\ Sorter!CallFor(b).depth = Sorter!Call.depth + 1
               /\ \A e \in Nat : b # e => places \cap Sorter!PlacesOf(Sorter!CallFor(e)) = {}
               /\ \A k \in 0..(n - 1) :
                      Sorter!At(TargetOf(BucketsOf, n, k)) \in places <=> BucketsOf[k] = b
<1> DEFINE n == Sorter!Call.size
           B == BucketsOf
           F == Sorter!Call.first
           lo(x) == Cardinality(BelowBucket(B, n, x))
           len(x) == Cardinality(InBucket(B, n, x))
           P(x) == (F + lo(x) + 1)..(F + lo(x) + len(x))
<1>1. /\ n \in Nat /\ B \in [0..(n - 1) -> Nat] /\ F \in Nat /\ F + n <= Len(words) /\ Len(words) \in Nat
      /\ \A x : Sorter!CountOf(x) = len(x)
      /\ \A x : Sorter!BoundaryOf(x) = lo(x)
  BY CallFacts, CountFacts
<1>2. \A x : len(x) \in Nat /\ lo(x) \in Nat
  <2>1. \A x : Cardinality(InBucket(B, n, x)) \in 0..n /\ Cardinality(BelowBucket(B, n, x)) \in 0..n
    BY <1>1, BucketCounts
  <2> QED
    BY <2>1
<1>3. \A x : /\ Sorter!CallFor(x).first = F + lo(x) /\ Sorter!CallFor(x).size = len(x)
             /\ Sorter!CallFor(x).depth = Sorter!Call.depth + 1
  BY <1>1 DEF Sorter!CallFor
<1>4. \A x : Sorter!PlacesOf(Sorter!CallFor(x)) = P(x)
  BY <1>3 DEF Sorter!PlacesOf
<1>5. Sorter!PlacesOf(Sorter!Call) = (F + 1)..(F + n)
  BY DEF Sorter!PlacesOf
<1>6. \A x, y \in Nat : /\ lo(x) + len(x) <= n
                        /\ x < y => lo(x) + len(x) <= lo(y)
  BY <1>1, BucketsApart
<1>7. \A k \in 0..(n - 1) : /\ B[k] \in Nat /\ TargetOf(B, n, k) \in 0..(n - 1)
                            /\ TargetOf(B, n, k) \in lo(B[k])..(lo(B[k]) + len(B[k]) - 1)
                            /\ Sorter!At(TargetOf(B, n, k)) = F + TargetOf(B, n, k) + 1
  <2> SUFFICES ASSUME NEW k \in 0..(n - 1)
               PROVE  /\ B[k] \in Nat /\ TargetOf(B, n, k) \in 0..(n - 1)
                      /\ TargetOf(B, n, k) \in lo(B[k])..(lo(B[k]) + len(B[k]) - 1)
                      /\ Sorter!At(TargetOf(B, n, k)) = F + TargetOf(B, n, k) + 1
    OBVIOUS
  <2>1. TargetOf(B, n, k) \in 0..(n - 1) /\ TargetOf(B, n, k) \in lo(B[k])..(lo(B[k]) + len(B[k]) - 1)
    BY <1>1, TargetInBucket
  <2> QED
    BY <1>1, <2>1, CallFacts
<1> HIDE DEF lo, len, B, n, F
<1>8. \A x \in Nat : \A p \in P(x) : p \in (F + 1)..(F + n)
  <2> SUFFICES ASSUME NEW x \in Nat, NEW p \in P(x) PROVE p \in (F + 1)..(F + n)
    OBVIOUS
  <2>1. lo(x) + len(x) <= n /\ lo(x) \in Nat /\ len(x) \in Nat
    BY <1>2, <1>6
  <2> QED
    BY <1>1, <2>1
<1>9. \A x, y \in Nat : x < y => P(x) \cap P(y) = {}
  <2> SUFFICES ASSUME NEW x \in Nat, NEW y \in Nat, x < y PROVE P(x) \cap P(y) = {}
    OBVIOUS
  <2>1. lo(x) + len(x) <= lo(y) /\ lo(x) \in Nat /\ len(x) \in Nat /\ lo(y) \in Nat /\ len(y) \in Nat
    BY <1>2, <1>6
  <2> QED
    BY <1>1, <2>1
<1>10. \A x, y \in Nat : x # y => P(x) \cap P(y) = {}
  <2> SUFFICES ASSUME NEW x \in Nat, NEW y \in Nat, x # y PROVE P(x) \cap P(y) = {}
    OBVIOUS
  <2>1. x < y \/ y < x
    OBVIOUS
  <2> HIDE DEF P
  <2>2. CASE x < y
    BY <1>9, <2>2
  <2>3. CASE y < x
    <3>1. P(y) \cap P(x) = {}
      BY <1>9, <2>3
    <3> QED
      BY <3>1
  <2> QED
    BY <2>1, <2>2, <2>3
<1>11. \A k \in 0..(n - 1) : Sorter!At(TargetOf(B, n, k)) \in P(B[k])
  <2> SUFFICES ASSUME NEW k \in 0..(n - 1) PROVE Sorter!At(TargetOf(B, n, k)) \in P(B[k])
    OBVIOUS
  <2>1. PICK x, y : x = lo(B[k]) /\ y = len(B[k])
    OBVIOUS
  <2>2. x \in Nat /\ y \in Nat /\ TargetOf(B, n, k) \in x..(x + y - 1) /\ TargetOf(B, n, k) \in Nat
        /\ Sorter!At(TargetOf(B, n, k)) = F + TargetOf(B, n, k) + 1
    BY <1>2, <1>7, <2>1
  <2>3. F + TargetOf(B, n, k) + 1 \in (F + x + 1)..(F + x + y)
    BY <1>1, <2>2
  <2> QED
    BY <2>1, <2>2, <2>3
<1> HIDE DEF P
<1>12. \A k \in 0..(n - 1) : Sorter!At(TargetOf(B, n, k)) \in P(b) <=> B[k] = b
  <2> SUFFICES ASSUME NEW k \in 0..(n - 1), Sorter!At(TargetOf(B, n, k)) \in P(b) PROVE B[k] = b
    BY <1>11
  <2>1. B[k] \in Nat
    BY <1>7
  <2> QED
    BY <1>10, <1>11, <2>1
<1>13. F + lo(b) + len(b) <= Len(words)
  <2>1. lo(b) + len(b) <= n /\ lo(b) \in Nat /\ len(b) \in Nat
    BY <1>2, <1>6
  <2> QED
    BY <1>1, <2>1
<1> QED
  BY <1>3, <1>4, <1>5, <1>8, <1>10, <1>12, <1>13 DEF B, n
\* The elements of a concatenation.
LEMMA Joined ==
    ASSUME NEW S, NEW s \in Seq(S), NEW t \in Seq(S)
    PROVE  /\ s \o t \in Seq(S) /\ Len(s \o t) = Len(s) + Len(t) /\ Len(s) \in Nat /\ Len(t) \in Nat
           /\ \A m \in 1..Len(s) : m \in 1..Len(s \o t) /\ (s \o t)[m] = s[m]
           /\ \A l \in 1..Len(t) : Len(s) + l \in 1..Len(s \o t) /\ (s \o t)[Len(s) + l] = t[l]
           /\ \A m \in 1..Len(s \o t) : m \notin 1..Len(s) => m - Len(s) \in 1..Len(t) /\ m = Len(s) + (m - Len(s))
<1> DEFINE r == s \o t
<1>1. /\ r \in Seq(S) /\ Len(r) = Len(s) + Len(t) /\ Len(s) \in Nat /\ Len(t) \in Nat
      /\ \A i \in 1..(Len(s) + Len(t)) : r[i] = IF i <= Len(s) THEN s[i] ELSE t[i - Len(s)]
  BY ConcatProperties
<1> HIDE DEF r
<1>2. \A m \in 1..Len(s) : m \in 1..Len(r) /\ r[m] = s[m]
  BY <1>1
<1>3. \A l \in 1..Len(t) : Len(s) + l \in 1..Len(r) /\ r[Len(s) + l] = t[l]
  <2> SUFFICES ASSUME NEW l \in 1..Len(t) PROVE Len(s) + l \in 1..Len(r) /\ r[Len(s) + l] = t[l]
    OBVIOUS
  <2>1. Len(s) + l \in 1..(Len(s) + Len(t)) /\ ~(Len(s) + l <= Len(s)) /\ (Len(s) + l) - Len(s) = l
    BY <1>1
  <2> QED
    BY <1>1, <2>1
<1>4. \A m \in 1..Len(r) : m \notin 1..Len(s) => m - Len(s) \in 1..Len(t) /\ m = Len(s) + (m - Len(s))
  BY <1>1
<1> QED
  BY <1>1, <1>2, <1>3, <1>4 DEF r

LEMMA Pair ==
    ASSUME NEW k, NEW l, k # l
    PROVE  IsFiniteSet({k, l}) /\ Cardinality({k, l}) = 2
<1>1. IsFiniteSet({k}) /\ Cardinality({k}) = 1
  BY FS_Singleton
<1>2. {k} \cup {l} = {k, l} /\ l \notin {k}
  OBVIOUS
<1>3. IsFiniteSet({k} \cup {l}) /\ Cardinality({k} \cup {l}) = Cardinality({k}) + 1
  BY <1>1, <1>2, FS_AddElement
<1> QED
  BY <1>1, <1>2, <1>3

\* The words of the call are in order of their buckets; those of a bucket that
\* has a call of its own are the ones that may still be out of order.
LEMMA CopyBackStep ==
    ASSUME SortInv, Sorter!CopyBack
    PROVE  SortInv'
<1> USE DEF SortInv
<1> DEFINE n == Sorter!Call.size
           d == Sorter!Call.depth
           F == Sorter!Call.first
           B == BucketsOf
           O == Sorter!OtherCalls
           U == Sorter!CallsBelow
           all == Sorter!PlacesOf(Sorter!Call)
           T(k) == Sorter!At(TargetOf(B, n, k))
           len == Len(words)
<1>1. /\ sortPc = "distribute" /\ sortPc' = "call" /\ calls # << >> /\ sortI >= n
      /\ words' = [p \in DOMAIN words |-> IF p \in Sorter!At(0)..Sorter!At(n - 1) THEN scratch[p] ELSE words[p]]
      /\ calls' = O \o U
      /\ input' = input /\ sortInput' = sortInput /\ scratch' = scratch
      /\ sortI' = sortI /\ sortJ' = sortJ /\ key' = key /\ buckets' = buckets
  BY DEF Sorter!CopyBack, CallsApart
<1>2. Sorter!Held = words /\ Sorter!Held' = words'
  BY <1>1 DEF Sorter!Held
<1>3. OrderedBut(words, calls) /\ AgreeIn(words, calls)
  BY <1>1, <1>2 DEF Settling, Sorting
<1>4. /\ n \in Nat /\ n > 0 /\ F \in Nat /\ d \in Nat /\ F + n <= len /\ len \in Nat
      /\ words \in Seq(Words) /\ DOMAIN words = 1..len
      /\ \A k \in 0..(n - 1) : Sorter!At(k) = F + k + 1 /\ Sorter!At(k) \in all /\ Sorter!At(k) \in 1..len
      /\ \A p \in all : p \in 1..len /\ \E k \in 0..(n - 1) : p = Sorter!At(k)
      /\ all = (F + 1)..(F + n)
  BY <1>1, CallFacts DEF SortTypes, Sorter!PlacesOf
<1>5. sortI = n /\ \A k \in 0..(n - 1) : scratch[T(k)] = words[Sorter!At(k)]
  BY <1>1, <1>4 DEF Distributing
<1>6. Sorter!At(0)..Sorter!At(n - 1) = all
  <2>1. 0 \in 0..(n - 1) /\ n - 1 \in 0..(n - 1)
    BY <1>4
  <2>2. Sorter!At(0) = F + 1 /\ Sorter!At(n - 1) = F + n
    <3>1. Sorter!At(0) = F + 0 + 1 /\ Sorter!At(n - 1) = F + (n - 1) + 1
      BY <1>4, <2>1
    <3> QED
      BY <1>4, <3>1
  <2> QED
    BY <1>4, <2>2
<1>7. /\ B \in [0..(n - 1) -> Nat]
      /\ \A k \in 0..(n - 1) : /\ B[k] = Sorter!BucketOf(words[Sorter!At(k)], d) /\ B[k] \in Nat
                               /\ B[k] \in Sorter!Buckets
      /\ \A b : Sorter!CountOf(b) = Cardinality(InBucket(B, n, b))
  BY <1>1, <1>3, CountFacts
<1> HIDE DEF n, F, d, B, O, U, all, len
<1>8. /\ \A k \in 0..(n - 1) : T(k) \in all
      /\ \A k, l \in 0..(n - 1) : k # l => T(k) # T(l)
      /\ \A p \in all : \E k \in 0..(n - 1) : T(k) = p
      /\ \A k, l \in 0..(n - 1) : B[k] < B[l] => T(k) < T(l)
  <2>1. \A k \in 0..(n - 1) : TargetOf(B, n, k) \in 0..(n - 1) /\ T(k) = F + TargetOf(B, n, k) + 1
    <3>1. \A k \in 0..(n - 1) : TargetOf(B, n, k) \in 0..(n - 1)
      BY <1>4, <1>7, TargetInBucket
    <3> QED
      BY <1>4, <3>1
  <2>2. /\ \A k, l \in 0..(n - 1) : k # l => TargetOf(B, n, k) # TargetOf(B, n, l)
        /\ \A p \in 0..(n - 1) : \E k \in 0..(n - 1) : TargetOf(B, n, k) = p
    <3>1. /\ \A k, l \in 0..(n - 1) : TargetOf(B, n, k) = TargetOf(B, n, l) => k = l
          /\ \A p \in 0..(n - 1) : \E k \in 0..(n - 1) : TargetOf(B, n, k) = p
      BY <1>4, <1>7, TargetsFill
    <3> QED
      BY <3>1
  <2>3. \A k, l \in 0..(n - 1) : B[k] < B[l] => TargetOf(B, n, k) < TargetOf(B, n, l)
    BY <1>4, <1>7, TargetOrder
  <2>4. \A k, l \in 0..(n - 1) : /\ TargetOf(B, n, k) # TargetOf(B, n, l) => T(k) # T(l)
                                 /\ TargetOf(B, n, k) < TargetOf(B, n, l) => T(k) < T(l)
    <3> SUFFICES ASSUME NEW k \in 0..(n - 1), NEW l \in 0..(n - 1)
                 PROVE  /\ TargetOf(B, n, k) # TargetOf(B, n, l) => T(k) # T(l)
                        /\ TargetOf(B, n, k) < TargetOf(B, n, l) => T(k) < T(l)
      OBVIOUS
    <3>1. PICK x, y : x = TargetOf(B, n, k) /\ y = TargetOf(B, n, l)
      OBVIOUS
    <3>2. x \in Nat /\ y \in Nat /\ T(k) = F + x + 1 /\ T(l) = F + y + 1
      BY <2>1, <3>1
    <3>3. (x # y => F + x + 1 # F + y + 1) /\ (x < y => F + x + 1 < F + y + 1)
      BY <1>4, <3>2
    <3> HIDE DEF T
    <3> QED
      BY <3>1, <3>2, <3>3
  <2>5. \A k \in 0..(n - 1) : T(k) \in all
    BY <1>4, <2>1
  <2>6. \A p \in all : \E k \in 0..(n - 1) : T(k) = p
    <3> SUFFICES ASSUME NEW p \in all PROVE \E k \in 0..(n - 1) : T(k) = p
      OBVIOUS
    <3>1. PICK x \in 0..(n - 1) : p = Sorter!At(x)
      BY <1>4
    <3>2. PICK k \in 0..(n - 1) : TargetOf(B, n, k) = x
      BY <2>2
    <3> QED
      BY <3>1, <3>2
  <2> HIDE DEF T
  <2> QED
    BY <2>2, <2>3, <2>4, <2>5, <2>6
<1> HIDE DEF T
<1>9. /\ words' \in Seq(Words) /\ Len(words') = len
      /\ \A k \in 0..(n - 1) : words'[T(k)] = words[Sorter!At(k)]
      /\ \A p \in (1..len) \ all : words'[p] = words[p]
  <2>1. \A p \in 1..len : words'[p] = IF p \in all THEN scratch[p] ELSE words[p]
    BY <1>1, <1>4, <1>6
  <2>2. \A k \in 0..(n - 1) : words'[T(k)] = words[Sorter!At(k)]
    BY <1>4, <1>5, <1>8, <2>1
  <2>3. \A p \in 1..len : words[p] \in Words
    BY <1>4, WordList DEF len
  <2>4. \A p \in 1..len : words'[p] \in Words
    <3> SUFFICES ASSUME NEW p \in 1..len PROVE words'[p] \in Words
      OBVIOUS
    <3>1. CASE p \in all
      <4>1. PICK k \in 0..(n - 1) : T(k) = p
        BY <1>8, <3>1
      <4> QED
        BY <1>4, <2>2, <2>3, <4>1
    <3>2. CASE p \notin all
      BY <2>1, <2>3, <3>2
    <3> QED
      BY <3>1, <3>2
  <2>5. words' = [p \in 1..len |-> words'[p]]
    BY <1>1, <1>4, <1>6
  <2>6. words' \in Seq(Words) /\ Len(words') = len
    BY <1>4, <2>4, <2>5, IsASeq
  <2> QED
    BY <2>1, <2>2, <2>6
<1>10. Rearranged(words, words')
  <2>1. \A p \in all : \E q \in all : words'[p] = words[q]
    <3> SUFFICES ASSUME NEW p \in all PROVE \E q \in all : words'[p] = words[q]
      OBVIOUS
    <3>1. PICK k \in 0..(n - 1) : T(k) = p
      BY <1>8
    <3> QED
      BY <1>4, <1>9, <3>1
  <2>2. \A q \in all : \E p \in all : words'[p] = words[q]
    <3> SUFFICES ASSUME NEW q \in all PROVE \E p \in all : words'[p] = words[q]
      OBVIOUS
    <3>1. PICK k \in 0..(n - 1) : q = Sorter!At(k)
      BY <1>4
    <3> QED
      BY <1>8, <1>9, <3>1
  <2> QED
    BY <1>9, <2>1, <2>2 DEF Rearranged, all, len
<1>11. OrderedBut(words', calls) /\ AgreeIn(words', calls)
  BY <1>1, <1>3, <1>4, <1>9, <1>10, RearrangedSettled DEF len
<1>12. /\ O \in Seq(CallType) /\ Len(O) = Len(calls) - 1 /\ Len(calls) \in Nat /\ Len(calls) > 0
       /\ calls[Len(calls)] = Sorter!Call
       /\ \A m \in 1..Len(O) : O[m] = calls[m] /\ m \in 1..Len(calls)
       /\ \A m \in 1..Len(O) : Sorter!PlacesOf(O[m]) \cap all = {}
  <2>1. Len(calls) \in Nat /\ Len(calls) \in 1..Len(calls) /\ calls[Len(calls)] = Sorter!Call
    BY <1>1, CallFacts
  <2>2. /\ O \in Seq(CallType) /\ Len(O) = Len(calls) - 1
        /\ \A m \in 1..(Len(calls) - 1) : /\ O[m] = calls[m] /\ m \in 1..Len(calls)
                                           /\ Sorter!PlacesOf(calls[m]) \cap all = {}
    BY <1>1, OtherFacts DEF O, all
  <2> QED
    BY <2>1, <2>2
<1>13. /\ U \in Seq(CallType)
       /\ \A m \in 1..Len(U) : \E b \in Further : U[m] = Sorter!CallFor(b)
       /\ \A m, l \in 1..Len(U) :
              m # l => \E b, e \in Further : b # e /\ U[m] = Sorter!CallFor(b) /\ U[l] = Sorter!CallFor(e)
       /\ \A b \in Further : \E m \in 1..Len(U) : U[m] = Sorter!CallFor(b)
       /\ Further = {b \in Sorter!Buckets \ {0} : Sorter!CountOf(b) > 1}
       /\ Further \subseteq Nat
  BY <1>1, <1>3, BelowFacts DEF U
<1>14. \A b \in Nat : /\ \A p \in Sorter!PlacesOf(Sorter!CallFor(b)) : p \in all
                      /\ Sorter!CallFor(b).first + Sorter!CallFor(b).size <= len
                      /\ Sorter!CallFor(b).depth = d + 1
                      /\ \A e \in Nat : b # e =>
                             Sorter!PlacesOf(Sorter!CallFor(b)) \cap Sorter!PlacesOf(Sorter!CallFor(e)) = {}
                      /\ \A k \in 0..(n - 1) : T(k) \in Sorter!PlacesOf(Sorter!CallFor(b)) <=> B[k] = b
  BY <1>1, <1>3, BucketPlaces DEF all, len, d, n, B, T
<1>15. /\ O \o U \in Seq(CallType) /\ Len(O) \in Nat /\ Len(U) \in Nat
       /\ \A m \in 1..Len(O) : m \in 1..Len(O \o U) /\ (O \o U)[m] = O[m]
       /\ \A l \in 1..Len(U) : Len(O) + l \in 1..Len(O \o U) /\ (O \o U)[Len(O) + l] = U[l]
       /\ \A m \in 1..Len(O \o U) : m \in 1..Len(O) \/ \E l \in 1..Len(U) : m = Len(O) + l
  <2>1. O \in Seq(CallType) /\ U \in Seq(CallType)
    BY <1>12, <1>13
  <2>2. /\ O \o U \in Seq(CallType) /\ Len(O) \in Nat /\ Len(U) \in Nat
        /\ \A m \in 1..Len(O) : m \in 1..Len(O \o U) /\ (O \o U)[m] = O[m]
        /\ \A l \in 1..Len(U) : Len(O) + l \in 1..Len(O \o U) /\ (O \o U)[Len(O) + l] = U[l]
    BY <2>1, Joined
  <2>3. \A m \in 1..Len(O \o U) : m \notin 1..Len(O) => m - Len(O) \in 1..Len(U) /\ m = Len(O) + (m - Len(O))
    BY <2>1, Joined
  <2> QED
    BY <2>2, <2>3
<1> DEFINE V == O \o U
<1>16. \A m \in 1..Len(V) : \/ m \in 1..Len(O) /\ V[m] = O[m]
                            \/ \E l \in 1..Len(U) : m = Len(O) + l /\ V[m] = U[l]
  BY <1>15
<1>17. \A m \in 1..Len(V) : V[m].first + V[m].size <= len
  <2>1. \A m \in 1..Len(O) : O[m].first + O[m].size <= len
    BY <1>12 DEF CallsApart, len
  <2>2. \A l \in 1..Len(U) : U[l].first + U[l].size <= len
    BY <1>13, <1>14
  <2> HIDE DEF V
  <2> QED
    BY <1>16, <2>1, <2>2
<1>18. \A m, l \in 1..Len(V) : m # l => Sorter!PlacesOf(V[m]) \cap Sorter!PlacesOf(V[l]) = {}
  <2>1. \A m, l \in 1..Len(O) : m # l => Sorter!PlacesOf(O[m]) \cap Sorter!PlacesOf(O[l]) = {}
    BY <1>12 DEF CallsApart
  <2>2. \A m, l \in 1..Len(U) : m # l => Sorter!PlacesOf(U[m]) \cap Sorter!PlacesOf(U[l]) = {}
    <3> SUFFICES ASSUME NEW m \in 1..Len(U), NEW l \in 1..Len(U), m # l
                 PROVE  Sorter!PlacesOf(U[m]) \cap Sorter!PlacesOf(U[l]) = {}
      OBVIOUS
    <3>1. PICK b \in Further, e \in Further : b # e /\ U[m] = Sorter!CallFor(b) /\ U[l] = Sorter!CallFor(e)
      BY <1>13
    <3>2. b \in Nat /\ e \in Nat
      BY <1>13
    <3>3. Sorter!PlacesOf(Sorter!CallFor(b)) \cap Sorter!PlacesOf(Sorter!CallFor(e)) = {}
      BY <1>14, <3>1, <3>2
    <3> QED
      BY <3>1, <3>3
  <2>3. \A m \in 1..Len(O), l \in 1..Len(U) : Sorter!PlacesOf(O[m]) \cap Sorter!PlacesOf(U[l]) = {}
    <3> SUFFICES ASSUME NEW m \in 1..Len(O), NEW l \in 1..Len(U)
                 PROVE  Sorter!PlacesOf(O[m]) \cap Sorter!PlacesOf(U[l]) = {}
      OBVIOUS
    <3>1. PICK b \in Further : U[l] = Sorter!CallFor(b)
      BY <1>13
    <3>2. b \in Nat
      BY <1>13
    <3>3. \A p \in Sorter!PlacesOf(U[l]) : p \in all
      BY <1>14, <3>1, <3>2
    <3> QED
      BY <1>12, <3>3
  <2> HIDE DEF V
  <2> QED
    BY <1>16, <2>1, <2>2, <2>3
<1>19. OrderedBut(words', V)
  <2> SUFFICES ASSUME NEW p \in 1..Len(words'), NEW q \in 1..Len(words'), p < q,
                      \A m \in 1..Len(V) : ~({p, q} \subseteq Sorter!PlacesOf(V[m]))
               PROVE  AtMost(words'[p], words'[q])
    BY DEF OrderedBut
  <2>1. p \in 1..len /\ q \in 1..len
    BY <1>9
  <2>2. CASE ~(p \in all /\ q \in all)
    <3>1. \A m \in 1..Len(calls) : m = Len(calls) \/ m \in 1..Len(O)
      BY <1>12
    <3>2. \A m \in 1..Len(O) : ~({p, q} \subseteq Sorter!PlacesOf(calls[m]))
      BY <1>12, <1>15
    <3>3. ~({p, q} \subseteq Sorter!PlacesOf(calls[Len(calls)]))
      BY <1>12, <2>2 DEF all
    <3>4. \A m \in 1..Len(calls) : ~({p, q} \subseteq Sorter!PlacesOf(calls[m]))
      BY <3>1, <3>2, <3>3
    <3> QED
      BY <1>11, <3>4 DEF OrderedBut
  <2>3. CASE p \in all /\ q \in all
    <3>1. PICK k \in 0..(n - 1) : T(k) = p
      BY <1>8, <2>3
    <3>2. PICK l \in 0..(n - 1) : T(l) = q
      BY <1>8, <2>3
    <3>3. PICK u, v : u = words[Sorter!At(k)] /\ v = words[Sorter!At(l)]
      OBVIOUS
    <3>4. words'[p] = u /\ words'[q] = v /\ u \in Word /\ v \in Word
      BY <1>4, <1>9, <3>1, <3>2, <3>3, WordList DEF len
    <3>5. AgreeUpTo(u, v, d)
      BY <1>1, <1>3, <1>4, <3>3, CallFacts DEF AgreeIn, all, d
    <3>6. B[k] = Sorter!BucketOf(u, d) /\ B[l] = Sorter!BucketOf(v, d) /\ B[k] \in Nat /\ B[l] \in Nat
      BY <1>7, <3>3
    <3>7. p \in Nat /\ q \in Nat
      BY <2>1
    <3>8. ~(B[l] < B[k])
      BY <1>8, <3>1, <3>2, <3>7
    <3>9. CASE B[k] < B[l]
      BY <1>4, <3>4, <3>5, <3>6, <3>9, BucketsCompare, PrecedesAtMost
    <3>10. CASE B[k] = B[l] /\ B[k] = 0
      <4>1. u = v
        BY <1>4, <3>4, <3>5, <3>6, <3>10, BucketsCompare
      <4> QED
        BY <3>4, <4>1, AtMostReflexive
    <3>11. CASE B[k] = B[l] /\ B[k] # 0
      <4>1. PICK b : b = B[k]
        OBVIOUS
      <4>2. k # l
        BY <3>1, <3>2, <3>7
      <4>3. Sorter!CountOf(b) > 1
        <5>1. {k, l} \subseteq InBucket(B, n, b)
          BY <3>11, <4>1 DEF InBucket
        <5>2. IsFiniteSet(InBucket(B, n, b)) /\ Cardinality(InBucket(B, n, b)) \in Nat
          <6>1. Cardinality(InBucket(B, n, b)) \in 0..n /\ IsFiniteSet(InBucket(B, n, b))
            BY <1>4, BucketCounts
          <6> QED
            BY <1>4, <6>1
        <5>3. Cardinality({k, l}) = 2 /\ IsFiniteSet({k, l})
          BY <4>2, Pair
        <5>4. Cardinality({k, l}) <= Cardinality(InBucket(B, n, b))
          BY <5>1, <5>2, FS_Subset
        <5> QED
          BY <1>7, <5>2, <5>3, <5>4
      <4>4. b \in Further /\ b \in Nat
        BY <1>7, <1>13, <3>6, <3>11, <4>1, <4>3
      <4>5. PICK m \in 1..Len(U) : U[m] = Sorter!CallFor(b)
        BY <1>13, <4>4
      <4>6. {p, q} \subseteq Sorter!PlacesOf(U[m])
        BY <1>14, <3>1, <3>2, <3>11, <4>1, <4>4, <4>5
      <4>7. {p, q} \subseteq Sorter!PlacesOf(V[Len(O) + m]) /\ Len(O) + m \in 1..Len(V)
        BY <1>15, <4>6
      <4> QED
        BY <4>7
    <3> QED
      BY <3>6, <3>8, <3>9, <3>10, <3>11
  <2> QED
    BY <2>2, <2>3
<1>20. AgreeIn(words', V)
  <2> SUFFICES ASSUME NEW m \in 1..Len(V), NEW p \in Sorter!PlacesOf(V[m]), NEW q \in Sorter!PlacesOf(V[m])
               PROVE  AgreeUpTo(words'[p], words'[q], V[m].depth)
    BY DEF AgreeIn
  <2>1. CASE m \in 1..Len(O) /\ V[m] = O[m]
    <3>1. V[m] = calls[m] /\ m \in 1..Len(calls)
      BY <1>12, <2>1
    <3> QED
      BY <1>11, <3>1 DEF AgreeIn
  <2>2. CASE \E l \in 1..Len(U) : V[m] = U[l]
    <3>1. PICK b \in Further : V[m] = Sorter!CallFor(b)
      BY <1>13, <2>2
    <3>2. b \in Nat /\ b # 0
      BY <1>13
    <3>3. p \in all /\ q \in all /\ V[m].depth = d + 1
      BY <1>14, <3>1, <3>2
    <3>4. PICK k \in 0..(n - 1) : T(k) = p
      BY <1>8, <3>3
    <3>5. PICK l \in 0..(n - 1) : T(l) = q
      BY <1>8, <3>3
    <3>6. B[k] = b /\ B[l] = b
      BY <1>14, <3>1, <3>2, <3>4, <3>5
    <3>7. PICK u, v : u = words[Sorter!At(k)] /\ v = words[Sorter!At(l)]
      OBVIOUS
    <3>8. words'[p] = u /\ words'[q] = v /\ u \in Word /\ v \in Word
      BY <1>4, <1>9, <3>4, <3>5, <3>7, WordList DEF len
    <3>9. AgreeUpTo(u, v, d)
      BY <1>1, <1>3, <1>4, <3>7, CallFacts DEF AgreeIn, all, d
    <3>10. Sorter!BucketOf(u, d) = b /\ Sorter!BucketOf(v, d) = b
      BY <1>7, <3>6, <3>7
    <3>11. AgreeUpTo(u, v, d + 1)
      BY <1>4, <3>2, <3>8, <3>9, <3>10, BucketsCompare
    <3> QED
      BY <3>3, <3>8, <3>11
  <2> QED
    BY <1>16, <2>1, <2>2
<1>21. calls' = V /\ V \in Seq(CallType)
  BY <1>1, <1>15
<1> HIDE DEF V
<1>22. \A call : Sorter!PlacesOf(call)' = Sorter!PlacesOf(call)
  BY DEF Sorter!PlacesOf
<1>23. SortTypes'
  BY <1>1, <1>9, <1>21 DEF SortTypes, Sorter!Buckets, len
<1>24. CallsApart'
  BY <1>1, <1>9, <1>17, <1>18, <1>21, <1>22 DEF CallsApart
<1>25. Settling'
  <2>1. OrderedBut(Sorter!Held, calls)'
    BY <1>2, <1>19, <1>21, <1>22 DEF OrderedBut
  <2>2. AgreeIn(Sorter!Held, calls)'
    BY <1>2, <1>20, <1>21, <1>22 DEF AgreeIn
  <2> QED
    BY <2>1, <2>2 DEF Settling
<1>26. Kept'
  <2>1. WordsOf(words') = WordsOf(words)
    BY <1>1, <1>4, <1>9, <1>10, RearrangedWords DEF len
  <2> QED
    BY <1>1, <1>2, <2>1, KeptStep
<1>27. Left'
  BY <1>1 DEF Left
<1> QED
  BY <1>1, <1>23, <1>24, <1>25, <1>26, <1>27 DEF Inserting, Distributing
\* The list that std::unique has left of the first k words.
LEMMA UniqueSteps ==
    ASSUME SortTypes, Sorter!Unique
    PROVE  \E g \in [0..Len(words) -> Seq(Words)] :
               /\ g[0] = << >>
               /\ \A k \in 1..Len(words) :
                      g[k] = IF g[k - 1] # << >> /\ g[k - 1][Len(g[k - 1])] = words[k]
                             THEN g[k - 1] ELSE Append(g[k - 1], words[k])
               /\ words' = g[Len(words)]
<1> DEFINE n == Len(words)
           A == Seq(Words)
           more(kept, w) == IF kept # << >> /\ kept[Len(kept)] = w THEN kept ELSE Append(kept, w)
           step == [a \in A \X Words |-> more(a[1], a[2])]
           Eq(f) == f = [s \in SUBSET (1..n) |->
                            IF s = {} THEN << >> ELSE more(f[s \ {Greatest(s)}], words[Greatest(s)])]
           iter == CHOOSE f : Eq(f)
<1>1. n \in Nat /\ words \in [1..n -> Words] /\ DOMAIN words = 1..n /\ << >> \in A
  BY DEF SortTypes
<1>2. words' = iter[1..n]
  BY <1>1 DEF Sorter!Unique, Sorter!FoldLeft, Sorter!MapThenFoldSet, Sorter!Max, Sorter!Last, Greatest
<1>3. \A kept \in A, w \in Words : more(kept, w) \in A /\ step[<<kept, w>>] = more(kept, w)
  <2>1. \A kept \in A, w \in Words : Append(kept, w) \in A
    OBVIOUS
  <2> QED
    BY <2>1
<1>4. step \in [A \X Words -> A]
  <2>1. \A a \in A \X Words : a[1] \in A /\ a[2] \in Words
    OBVIOUS
  <2> HIDE DEF A, more
  <2> QED
    BY <1>3, <2>1
<1> HIDE DEF step, A, more, n
<1>5. PICK f \in [SUBSET (1..n) -> A] : \A s \in SUBSET (1..n) :
               f[s] = IF s = {} THEN << >> ELSE step[<<f[s \ {Greatest(s)}], words[Greatest(s)]>>]
  <2>1. << >> \in A /\ step \in [A \X Words -> A] /\ n \in Nat /\ words \in [1..n -> Words]
    BY <1>1, <1>4
  <2>2. \E f : FoldOf(f, A, << >>, step, n, words)
    BY <2>1, FoldExists
  <2> QED
    BY <2>2 DEF FoldOf
<1>6. \A s \in SUBSET (1..n) : s # {} => s \ {Greatest(s)} \in SUBSET (1..n) /\ Greatest(s) \in 1..n
  BY <1>1, GreatestPlace
<1>7. Eq(f)
  <2>1. \A s \in SUBSET (1..n) :
            f[s] = IF s = {} THEN << >> ELSE more(f[s \ {Greatest(s)}], words[Greatest(s)])
    BY <1>1, <1>3, <1>5, <1>6
  <2> QED
    BY <1>5, <2>1
<1>8. Eq(iter)
  BY <1>7
<1> HIDE DEF iter
<1>9. \A s \in SUBSET (1..n) :
          iter[s] = IF s = {} THEN << >> ELSE more(iter[s \ {Greatest(s)}], words[Greatest(s)])
  BY <1>8
<1> DEFINE g == [k \in 0..n |-> iter[1..k]]
<1>10. g[0] = << >>
  <2>1. 1..0 = {} /\ 0 \in 0..n
    BY <1>1
  <2> QED
    BY <1>9, <2>1
<1>11. \A k \in 1..n : g[k] = more(g[k - 1], words[k])
  <2> SUFFICES ASSUME NEW k \in 1..n PROVE g[k] = more(g[k - 1], words[k])
    OBVIOUS
  <2>1. k \in Nat \ {0} /\ k \in 0..n /\ k - 1 \in 0..n /\ 1..k \in SUBSET (1..n)
    BY <1>1
  <2> QED
    BY <1>9, <2>1, FoldedSegments
<1>12. g[n] = words'
  BY <1>1, <1>2
<1>13. \A k \in 0..n : g[k] \in A
  <2> DEFINE Bad == {k \in Nat : k <= n /\ g[k] \notin A}
  <2> HIDE DEF g
  <2> SUFFICES ASSUME Bad # {} PROVE FALSE
    BY <1>1
  <2>1. PICK k \in Bad : \A l \in Bad : k <= l
    <3>1. Bad \in SUBSET Nat
      OBVIOUS
    <3> HIDE DEF Bad
    <3> QED
      BY <3>1, Least
  <2>2. k # 0
    BY <1>1, <1>10
  <2>3. k \in 1..n /\ k - 1 \in Nat /\ k - 1 <= n /\ ~(k <= k - 1)
    BY <1>1, <2>2
  <2>4. g[k - 1] \in A /\ words[k] \in Words
    BY <1>1, <2>1, <2>3
  <2> QED
    BY <1>3, <1>11, <2>3, <2>4
<1>14. g \in [0..n -> A]
  <2>1. g = [k \in 0..n |-> g[k]]
    OBVIOUS
  <2> HIDE DEF g
  <2> QED
    BY <1>13, <2>1
<1> HIDE DEF g
<1> QED
  BY <1>10, <1>11, <1>12, <1>14 DEF n, A, more
\* What is left of the first k words: the last of them is the last, each word
\* is there, equal neighbours only once.
LeftOf(s, k, t) ==
    /\ t \in Seq(Words) /\ (t = << >> <=> k = 0)
    /\ k > 0 => t[Len(t)] = s[k]
    /\ WordsOf(t) = {s[p] : p \in 1..k}
    /\ \A m \in 1..(Len(t) - 1) :
           t[m] # t[m + 1] /\ \E a \in 1..(k - 1) : s[a] = t[m] /\ s[a + 1] = t[m + 1]
    /\ \A a \in 1..(k - 1) : s[a] # s[a + 1] =>
           \E m \in 1..(Len(t) - 1) : s[a] = t[m] /\ s[a + 1] = t[m + 1]
    /\ (\A p, q \in 1..Len(s) : p < q => AtMost(s[p], s[q])) => Increasing(t)

LEMMA LeftOfNext ==
    ASSUME NEW s \in Seq(Words), NEW k \in 1..Len(s), NEW t, LeftOf(s, k - 1, t), NEW u,
           u = IF t # << >> /\ t[Len(t)] = s[k] THEN t ELSE Append(t, s[k])
    PROVE  LeftOf(s, k, u)
<1>1. /\ t \in Seq(Words) /\ (t = << >> <=> k - 1 = 0)
      /\ k - 1 > 0 => t[Len(t)] = s[k - 1]
      /\ WordsOf(t) = {s[p] : p \in 1..(k - 1)}
      /\ \A m \in 1..(Len(t) - 1) :
             t[m] # t[m + 1] /\ \E a \in 1..(k - 2) : s[a] = t[m] /\ s[a + 1] = t[m + 1]
      /\ \A a \in 1..(k - 2) : s[a] # s[a + 1] =>
             \E m \in 1..(Len(t) - 1) : s[a] = t[m] /\ s[a + 1] = t[m + 1]
      /\ (\A p, q \in 1..Len(s) : p < q => AtMost(s[p], s[q])) => Increasing(t)
  <2>1. (k - 1) - 1 = k - 2
    OBVIOUS
  <2> QED
    BY <2>1 DEF LeftOf
<1>2. /\ k \in Nat /\ k >= 1 /\ k <= Len(s) /\ Len(s) \in Nat /\ Len(t) \in Nat /\ s[k] \in Words
      /\ \A p \in 1..Len(s) : s[p] \in Word
      /\ \A m \in 1..Len(t) : t[m] \in Word
  BY <1>1, WordList
<1>3. 1..k = (1..(k - 1)) \cup {k} /\ {s[p] : p \in 1..k} = {s[p] : p \in 1..(k - 1)} \cup {s[k]}
  <2>1. 1..k = (1..(k - 1)) \cup {k}
    BY <1>2
  <2> QED
    BY <2>1
<1>4. ASSUME t # << >>, t[Len(t)] = s[k]
      PROVE  LeftOf(s, k, u)
  <2>1. u = t /\ k - 1 > 0 /\ Len(t) > 0 /\ Len(t) \in 1..Len(t) /\ k # 0
    BY <1>1, <1>2, <1>4
  <2>2. s[k - 1] = s[k]
    BY <1>1, <1>4, <2>1
  <2>3. WordsOf(t) = {s[p] : p \in 1..k}
    <3>1. k - 1 \in 1..(k - 1)
      BY <1>2, <2>1
    <3>2. s[k] \in {s[p] : p \in 1..(k - 1)}
      BY <2>2, <3>1
    <3> QED
      BY <1>1, <1>3, <3>2
  <2>4. \A m \in 1..(Len(t) - 1) :
             t[m] # t[m + 1] /\ \E a \in 1..(k - 1) : s[a] = t[m] /\ s[a + 1] = t[m + 1]
    <3>1. \A a \in 1..(k - 2) : a \in 1..(k - 1)
      BY <1>2
    <3> QED
      BY <1>1, <3>1
  <2>5. \A a \in 1..(k - 1) : s[a] # s[a + 1] =>
             \E m \in 1..(Len(t) - 1) : s[a] = t[m] /\ s[a + 1] = t[m + 1]
    <3>1. \A a \in 1..(k - 1) : a \in 1..(k - 2) \/ (a = k - 1 /\ a + 1 = k)
      BY <1>2
    <3> QED
      BY <1>1, <2>2, <3>1
  <2> QED
    BY <1>1, <1>4, <2>1, <2>3, <2>4, <2>5 DEF LeftOf
<1>5. ASSUME ~(t # << >> /\ t[Len(t)] = s[k])
      PROVE  LeftOf(s, k, u)
  <2>1. /\ u = Append(t, s[k]) /\ u \in Seq(Words) /\ Len(u) = Len(t) + 1
        /\ u[Len(t) + 1] = s[k] /\ \A m \in 1..Len(t) : u[m] = t[m]
    BY <1>1, <1>2, <1>5
  <2>2. u # << >> /\ k > 0 /\ u[Len(u)] = s[k] /\ Len(u) - 1 = Len(t)
    BY <1>2, <2>1
  <2>3. WordsOf(u) = {s[p] : p \in 1..k}
    <3>1. 1..Len(u) = (1..Len(t)) \cup {Len(t) + 1}
      BY <1>2, <2>1
    <3>2. {u[m] : m \in 1..Len(u)} = {t[m] : m \in 1..Len(t)} \cup {s[k]}
      BY <2>1, <3>1
    <3> QED
      BY <1>1, <1>3, <3>2 DEF WordsOf
  <2>4. ASSUME Len(t) > 0
        PROVE  /\ k - 1 \in 1..(k - 1) /\ (k - 1) + 1 = k /\ t[Len(t)] = s[k - 1] /\ Len(t) \in 1..Len(t)
               /\ s[k - 1] # s[k] /\ k - 1 \in 1..Len(s)
    <3>1. t # << >>
      BY <2>4
    <3>2. k - 1 # 0
      BY <1>1, <3>1
    <3> QED
      BY <1>1, <1>2, <1>5, <2>4, <3>1, <3>2
  <2>5. \A m \in 1..(Len(u) - 1) :
             u[m] # u[m + 1] /\ \E a \in 1..(k - 1) : s[a] = u[m] /\ s[a + 1] = u[m + 1]
    <3> SUFFICES ASSUME NEW m \in 1..Len(t)
                 PROVE  u[m] # u[m + 1] /\ \E a \in 1..(k - 1) : s[a] = u[m] /\ s[a + 1] = u[m + 1]
      BY <2>2
    <3>1. CASE m = Len(t)
      <4>1. Len(t) > 0
        BY <1>2
      <4>2. u[m] = s[k - 1] /\ u[m + 1] = s[k]
        BY <2>1, <2>4, <3>1, <4>1
      <4> QED
        BY <2>4, <4>1, <4>2
    <3>2. CASE m # Len(t)
      <4>1. m \in 1..(Len(t) - 1) /\ m + 1 \in 1..Len(t)
        BY <1>2, <3>2
      <4>2. u[m] = t[m] /\ u[m + 1] = t[m + 1]
        BY <2>1, <4>1
      <4>3. \A a \in 1..(k - 2) : a \in 1..(k - 1)
        BY <1>2
      <4> QED
        BY <1>1, <4>1, <4>2, <4>3
    <3> QED
      BY <3>1, <3>2
  <2>6. \A a \in 1..(k - 1) : s[a] # s[a + 1] =>
             \E m \in 1..(Len(u) - 1) : s[a] = u[m] /\ s[a + 1] = u[m + 1]
    <3> SUFFICES ASSUME NEW a \in 1..(k - 1), s[a] # s[a + 1]
                 PROVE  \E m \in 1..Len(t) : s[a] = u[m] /\ s[a + 1] = u[m + 1]
      BY <2>2
    <3>1. CASE a = k - 1
      <4>1. t # << >> /\ Len(t) > 0
        BY <1>1, <1>2, <3>1
      <4> QED
        BY <1>2, <2>1, <2>4, <3>1, <4>1
    <3>2. CASE a # k - 1
      <4>1. a \in 1..(k - 2)
        BY <1>2, <3>2
      <4>2. PICK m \in 1..(Len(t) - 1) : s[a] = t[m] /\ s[a + 1] = t[m + 1]
        BY <1>1, <3>2, <4>1
      <4>3. m \in 1..Len(t) /\ m + 1 \in 1..Len(t)
        BY <1>2
      <4> QED
        BY <2>1, <4>2, <4>3
    <3> QED
      BY <3>1, <3>2
  <2>7. ASSUME \A p, q \in 1..Len(s) : p < q => AtMost(s[p], s[q])
        PROVE  Increasing(u)
    <3>1. \A p, q \in 1..Len(t) : p < q => Precedes(t[p], t[q])
      BY <1>1, <2>7 DEF Increasing
    <3>2. ASSUME NEW p \in 1..Len(t) PROVE Precedes(t[p], s[k])
      <4>1. Len(t) > 0
        BY <1>2
      <4>2. k - 1 < k /\ k \in 1..Len(s)
        BY <1>2
      <4>3. AtMost(s[k - 1], s[k])
        BY <2>4, <2>7, <4>1, <4>2
      <4>4. Precedes(s[k - 1], s[k])
        BY <1>2, <2>4, <4>1, <4>2, <4>3, PrecedesLinear DEF AtMost
      <4>5. CASE p = Len(t)
        BY <2>4, <4>1, <4>4, <4>5
      <4>6. CASE p # Len(t)
        <5>1. Precedes(t[p], t[Len(t)])
          BY <1>2, <2>4, <3>1, <4>1, <4>6
        <5> QED
          BY <1>2, <2>4, <4>1, <4>2, <4>4, <5>1, PrecedesTransitive
      <4> QED
        BY <4>5, <4>6
    <3>3. \A p, q \in 1..Len(u) : p < q => p \in 1..Len(t) /\ (q \in 1..Len(t) \/ q = Len(t) + 1)
      BY <1>2, <2>1
    <3> QED
      BY <2>1, <3>1, <3>2, <3>3 DEF Increasing
  <2>8. (u = << >> <=> k = 0) /\ (k > 0 => u[Len(u)] = s[k])
    BY <2>2
  <2> QED
    BY <2>1, <2>3, <2>5, <2>6, <2>7, <2>8 DEF LeftOf
<1> QED
  BY <1>4, <1>5

LEMMA UniqueStep ==
    ASSUME SortInv, Sorter!Unique
    PROVE  SortInv'
<1> USE DEF SortInv
<1> DEFINE n == Len(words)
<1>1. /\ sortPc = "unique" /\ sortPc' = "sorted" /\ calls' = calls /\ calls = << >>
      /\ input' = input /\ sortInput' = sortInput /\ scratch' = scratch
      /\ sortI' = sortI /\ sortJ' = sortJ /\ key' = key /\ buckets' = buckets
      /\ words \in Seq(Words) /\ n \in Nat
  <2>1. sortPc = "unique" /\ sortPc' = "sorted"
    BY DEF Sorter!Unique
  <2>2. UNCHANGED <<input, sortInput, scratch, calls, buckets, sortI, sortJ, key>>
    BY DEF Sorter!Unique
  <2>3. calls = << >> /\ words \in Seq(Words)
    BY <2>1 DEF CallsApart, SortTypes
  <2> QED
    BY <2>1, <2>2, <2>3
<1>2. PICK g \in [0..n -> Seq(Words)] :
          /\ g[0] = << >>
          /\ \A k \in 1..n : g[k] = IF g[k - 1] # << >> /\ g[k - 1][Len(g[k - 1])] = words[k]
                                    THEN g[k - 1] ELSE Append(g[k - 1], words[k])
          /\ words' = g[n]
  BY UniqueSteps
<1> HIDE DEF n
<1>3. LeftOf(words, 0, g[0])
  <2>1. 1..0 = {} /\ Len(<< >>) = 0 /\ 1..(0 - 1) = {}
    OBVIOUS
  <2> QED
    BY <1>2, <2>1 DEF LeftOf, WordsOf, Increasing
<1>4. LeftOf(words, n, g[n])
  <2> DEFINE Bad == {k \in Nat : k <= n /\ ~LeftOf(words, k, g[k])}
  <2> SUFFICES ASSUME Bad # {} PROVE FALSE
    BY <1>1
  <2>1. PICK k \in Bad : \A l \in Bad : k <= l
    <3>1. Bad \in SUBSET Nat
      OBVIOUS
    <3> HIDE DEF Bad
    <3> QED
      BY <3>1, Least
  <2>2. k \in 1..n /\ k - 1 \in Nat /\ k - 1 <= n /\ ~(k <= k - 1)
    BY <1>1, <1>3
  <2>3. LeftOf(words, k - 1, g[k - 1])
    BY <2>1, <2>2
  <2>4. LeftOf(words, k, g[k])
    BY <1>1, <1>2, <2>2, <2>3, LeftOfNext DEF n
  <2> QED
    BY <2>4
<1>5. /\ words' \in Seq(Words)
      /\ WordsOf(words') = WordsOf(words)
      /\ (\A p, q \in 1..n : p < q => AtMost(words[p], words[q])) => Increasing(words')
      /\ Deduplicated(words, words')
  <2>1. LeftOf(words, n, words')
    BY <1>2, <1>4
  <2>2. WordsOf(words) = {words[p] : p \in 1..n}
    BY DEF WordsOf, n
  <2> QED
    BY <2>1, <2>2 DEF LeftOf, Deduplicated, n
<1>6. SortTypes' /\ CallsApart'
  BY <1>1, <1>5 DEF SortTypes, Sorter!Buckets, CallsApart
<1>7. Kept'
  <2>1. WordsOf(words) = WordsOf(input)
    BY <1>1 DEF Kept, InHand, Sorter!Held
  <2>2. InHand' = words'
    BY <1>1 DEF InHand
  <2>3. WordsOf(words') = WordsOf(input) /\ input' = input
    BY <1>1, <1>5, <2>1
  <2> QED
    BY <2>2, <2>3, KeptOf
<1>8. Left'
  <2>1. sortInput \in BOOLEAN
    BY DEF SortTypes
  <2>2. CASE sortInput
    <3>1. \A p, q \in 1..n : p < q => AtMost(words[p], words[q])
      BY <1>1, <2>2 DEF Left, n
    <3>2. Increasing(words)'
      BY <1>5, <3>1 DEF Increasing
    <3> QED
      BY <1>1, <2>2, <3>2 DEF Left
  <2>3. CASE ~sortInput
    <3>1. words = input
      BY <1>1, <2>3 DEF Left
    <3>2. Deduplicated(input, words)'
      BY <1>1, <1>5, <3>1 DEF Deduplicated
    <3> QED
      BY <1>1, <2>3, <3>2 DEF Left
  <2> QED
    BY <2>1, <2>2, <2>3
<1> QED
  BY <1>1, <1>6, <1>7, <1>8 DEF Settling, Sorting, Inserting, Distributing

\* The words are sorted, or as they were, before anything else begins.
LEMMA SortInvInit == BuildInit => SortInv
<1> SUFFICES ASSUME BuildInit PROVE SortInv
  OBVIOUS
<1>1. /\ input \in Inputs /\ sortInput \in BOOLEAN /\ words = input
      /\ scratch = [k \in DOMAIN input |-> << >>] /\ calls = << >>
      /\ buckets = [b \in Sorter!Buckets |-> 0] /\ sortI = 0 /\ sortJ = 0 /\ sortPc = "build"
  BY DEF BuildInit, Sorter!Init
<1>2. input \in Seq(Words) /\ Len(input) \in Nat /\ DOMAIN input = 1..Len(input)
  BY <1>1, InputsAssumption
<1>3. scratch \in Seq(Word) /\ Len(scratch) = Len(input)
  <2>1. << >> \in Word
    BY DEF Word
  <2> QED
    BY <1>1, <1>2, <2>1, IsASeq
<1>4. SortTypes
  <2>1. 0 \in 0..Len(input)
    BY <1>2
  <2> QED
    BY <1>1, <1>2, <1>3, <2>1 DEF SortTypes
<1>5. CallsApart
  BY <1>1 DEF CallsApart
<1>6. Kept /\ Left
  BY <1>1 DEF Kept, InHand, Left, Sorter!Held
<1> QED
  BY <1>1, <1>4, <1>5, <1>6 DEF SortInv, Settling, Sorting, Inserting, Distributing

LEMMA SortInvStep == SortInv /\ [Sorter!Next]_sorting => SortInv'
<1> SUFFICES ASSUME SortInv, [Sorter!Next]_sorting PROVE SortInv'
  OBVIOUS
<1>1. CASE Sorter!Next
  BY <1>1, BuildStep, CallSmallStep, NextKeyStep, ShiftStep, PlaceKeyStep, InsertionReturnStep,
     CallLargeStep, DistributeStep, CopyBackStep, SortReturnStep, UniqueStep DEF Sorter!Next, Sorter!Sort
<1>2. CASE UNCHANGED sorting
  <2>1. /\ input' = input /\ sortInput' = sortInput /\ words' = words /\ scratch' = scratch
        /\ calls' = calls /\ buckets' = buckets /\ sortI' = sortI /\ sortJ' = sortJ
        /\ key' = key /\ sortPc' = sortPc
    BY <1>2 DEF sorting
  <2>2. Sorter!Call' = Sorter!Call /\ \A call : Sorter!PlacesOf(call)' = Sorter!PlacesOf(call)
    BY <2>1 DEF Sorter!Call, Sorter!PlacesOf
  <2>3. Sorter!Held' = Sorter!Held /\ \A k : Sorter!At(k)' = Sorter!At(k)
    BY <2>1, <2>2 DEF Sorter!Held, Sorter!At
  <2>4. SortTypes' /\ CallsApart'
    BY <2>1, <2>2 DEF SortInv, SortTypes, CallsApart, Sorter!Buckets
  <2>5. Settling' /\ Kept' /\ Left'
    <3>1. (OrderedBut(Sorter!Held, calls) => OrderedBut(Sorter!Held, calls)')
      BY <2>1, <2>2, <2>3 DEF OrderedBut
    <3>2. (AgreeIn(Sorter!Held, calls) => AgreeIn(Sorter!Held, calls)')
      BY <2>1, <2>2, <2>3 DEF AgreeIn
    <3>3. Settling'
      BY <2>1, <3>1, <3>2 DEF SortInv, Settling, Sorting
    <3>4. Kept'
      <4>1. InHand' = InHand
        BY <2>1, <2>3 DEF InHand
      <4> QED
        BY <2>1, <4>1, KeptOf DEF SortInv, Kept
    <3>5. (Increasing(words) => Increasing(words)') /\ (Deduplicated(input, words) => Deduplicated(input, words)')
      BY <2>1 DEF Increasing, Deduplicated
    <3>6. Left'
      BY <2>1, <3>5 DEF SortInv, Left
    <3> QED
      BY <3>3, <3>4, <3>6
  <2>6. Inserting'
    BY <2>1, <2>2, <2>3 DEF SortInv, Inserting
  <2>7. Distributing'
    <3>1. BucketsOf' = BucketsOf /\ Sorter!Buckets' = Sorter!Buckets
      BY <2>1, <2>2, <2>3 DEF BucketsOf, Sorter!Places, Sorter!BucketOf, Sorter!Buckets
    <3> QED
      BY <2>1, <2>2, <2>3, <3>1 DEF SortInv, Distributing
  <2> QED
    BY <2>4, <2>5, <2>6, <2>7 DEF SortInv
<1> QED
  BY <1>1, <1>2

\* What the runs check of the sort.
LEMMA SortProperties == SortInv => Sorter!PartitionsInBounds /\ Sorter!Settled
<1> SUFFICES ASSUME SortInv PROVE Sorter!PartitionsInBounds /\ Sorter!Settled
  OBVIOUS
<1> USE DEF SortInv
<1>1. calls \in Seq(CallType) /\ Len(words) \in Nat /\ words \in Seq(Words) /\ DOMAIN words = 1..Len(words)
  BY DEF SortTypes
<1>2. Sorter!ToSet(calls) = {calls[m] : m \in 1..Len(calls)}
  BY <1>1 DEF Sorter!ToSet
<1>3. ASSUME NEW m \in 1..Len(calls)
      PROVE  \A p \in Sorter!PlacesOf(calls[m]) : p \in 1..Len(words)
  <2>1. calls[m] \in CallType /\ calls[m].first + calls[m].size <= Len(words)
    BY <1>1 DEF CallsApart
  <2>2. calls[m].first \in Nat /\ calls[m].size \in Nat
    BY <2>1 DEF CallType
  <2> QED
    BY <1>1, <2>1, <2>2 DEF Sorter!PlacesOf
<1>4. ASSUME calls # << >>
      PROVE  OrderedBut(Sorter!Held, calls) /\ AgreeIn(Sorter!Held, calls)
  <2>1. Sorting
    BY <1>4 DEF CallsApart, SortTypes, Sorting
  <2> QED
    BY <2>1 DEF Settling
<1>5. Sorter!Held \in Seq(Words) /\ Len(Sorter!Held) = Len(words)
  BY HeldFacts
<1>6. ASSUME NEW m \in 1..Len(calls), NEW p \in Sorter!PlacesOf(calls[m])
      PROVE  Len(Sorter!Held[p]) >= calls[m].depth
  <2>1. calls # << >>
    BY <1>1
  <2>2. AgreeUpTo(Sorter!Held[p], Sorter!Held[p], calls[m].depth)
    BY <1>4, <2>1 DEF AgreeIn
  <2>3. Sorter!Held[p] \in Word
    BY <1>3, <1>5, WordList
  <2>4. calls[m].depth \in Nat
    <3>1. calls[m] \in CallType
      BY <1>1
    <3> QED
      BY <3>1 DEF CallType
  <2> QED
    BY <2>2, <2>3, <2>4 DEF AgreeUpTo, Word
<1>7. Sorter!PartitionsInBounds
  <2>1. {sortI, sortJ} \subseteq 0..Len(input) /\ buckets \in [Sorter!Buckets -> 0..Len(input)]
    BY DEF SortTypes
  <2>2. \A m \in 1..Len(calls) : Sorter!PlacesOf(calls[m]) \subseteq DOMAIN words
    BY <1>1, <1>3
  <2> QED
    BY <1>2, <1>6, <2>1, <2>2 DEF Sorter!PartitionsInBounds
<1>8. Sorter!Settled
  <2> SUFFICES ASSUME sortPc \in {"call", "insert", "shift", "distribute"}
               PROVE  /\ \A p, q \in DOMAIN words :
                             p < q /\ (\A call \in Sorter!ToSet(calls) : ~({p, q} \subseteq Sorter!PlacesOf(call)))
                               => ~Sorter!Precedes(Sorter!Held[q], Sorter!Held[p])
                      /\ \A call \in Sorter!ToSet(calls) : \A p, q \in Sorter!PlacesOf(call) :
                             Sorter!AgreeUpTo(Sorter!Held[p], Sorter!Held[q], call.depth)
    BY DEF Sorter!Settled
  <2>1. OrderedBut(Sorter!Held, calls) /\ AgreeIn(Sorter!Held, calls)
    BY DEF Settling, Sorting
  <2>2. \A p, q \in DOMAIN words :
            p < q /\ (\A call \in Sorter!ToSet(calls) : ~({p, q} \subseteq Sorter!PlacesOf(call)))
              => ~Precedes(Sorter!Held[q], Sorter!Held[p])
    BY <1>1, <1>2, <1>5, <2>1 DEF OrderedBut, AtMost
  <2>3. \A call \in Sorter!ToSet(calls) : \A p, q \in Sorter!PlacesOf(call) :
            AgreeUpTo(Sorter!Held[p], Sorter!Held[q], call.depth)
    BY <1>2, <2>1 DEF AgreeIn
  <2> QED
    BY <2>2, <2>3, SorterOrder
<1> QED
  BY <1>7, <1>8
----------------------------------------------------------------------------
(* A step of build is one of the sort, of the builder or of the writer.     *)

AddedInv == added \in 0..Len(words) /\ (sortPc # "sorted" => added = 0)

LEMMA StepOfPart ==
    ASSUME SortInv, AddedInv, [BuildNext]_buildVars
    PROVE  [Sorter!Next]_sorting /\ [Next]_vars
<1>1. CASE Sort
  BY <1>1 DEF Sort
<1>2. CASE AddNext
  <2>1. words[added + 1] \in Words
    BY <1>2 DEF AddNext, SortInv, SortTypes, AddedInv
  <2> QED
    BY <1>2, <2>1 DEF AddNext, Next
<1>3. CASE BuilderStep
  BY <1>3 DEF BuilderStep, Next
<1>4. CASE Refuse \/ Return
  BY <1>4 DEF Refuse, Return
<1>5. CASE Finish
  BY <1>5 DEF Finish, Next
<1>6. CASE Write
  BY <1>6 DEF Write
<1>7. CASE UNCHANGED buildVars
  BY <1>7 DEF buildVars
<1> QED
  BY <1>1, <1>2, <1>3, <1>4, <1>5, <1>6, <1>7 DEF BuildNext

LEMMA AddedStep ==
    ASSUME SortInv, AddedInv, [BuildNext]_buildVars
    PROVE  AddedInv'
<1>1. Len(words) \in Nat /\ added \in Nat /\ added <= Len(words)
  BY DEF SortInv, SortTypes, AddedInv
<1>2. CASE Sort
  <2>1. sortPc # "sorted" /\ added' = added /\ added = 0
    BY <1>2 DEF Sort, AddedInv, Sorter!Next, Sorter!Sort, Sorter!Build, Sorter!CallSmall,
       Sorter!NextKey, Sorter!Shift, Sorter!PlaceKey, Sorter!InsertionReturn, Sorter!CallLarge,
       Sorter!Distribute, Sorter!CopyBack, Sorter!SortReturn, Sorter!Unique
  <2>2. Len(words') \in Nat
    BY StepOfPart, SortInvStep DEF SortInv, SortTypes
  <2> QED
    BY <2>1, <2>2 DEF AddedInv
<1>3. CASE AddNext
  <2>1. /\ sortPc = "sorted" /\ added < Len(words) /\ added' = added + 1
        /\ words' = words /\ sortPc' = sortPc
    BY <1>3 DEF AddNext, sorting
  <2> QED
    BY <1>1, <2>1 DEF AddedInv
<1>4. CASE BuilderStep \/ Refuse \/ Return \/ Finish \/ Write \/ UNCHANGED buildVars
  <2>1. words' = words /\ sortPc' = sortPc /\ added' = added
    BY <1>4 DEF BuilderStep, Refuse, Return, Finish, Write, buildVars, sorting
  <2> QED
    BY <2>1 DEF AddedInv
<1> QED
  BY <1>2, <1>3, <1>4 DEF BuildNext

----------------------------------------------------------------------------
(* The walk of the writer over the nodes of the builder.                    *)

FrameType == [id : Nat, processed : BOOLEAN]

LEMMA FrameProcessed ==
    ASSUME NEW f \in FrameType
    PROVE  [f EXCEPT !.processed = TRUE] = [id |-> f.id, processed |-> TRUE]
<1> DEFINE new == [f EXCEPT !.processed = TRUE]
<1>1. new \in FrameType /\ new.id = f.id /\ new.processed = TRUE
  BY DEF FrameType
<1> HIDE DEF new
<1>2. PICK x \in Nat, p \in BOOLEAN : new = [id |-> x, processed |-> p]
  BY <1>1 DEF FrameType
<1>3. new.id = x /\ new.processed = p
  BY <1>2
<1>4. p = TRUE /\ x = f.id
  BY <1>1, <1>3
<1>5. new = [id |-> f.id, processed |-> TRUE]
  BY <1>4, <1>2
<1> QED
  BY <1>5 DEF new

LEMMA HandedNodes ==
    ASSUME TypeOK, NEW n \in 1..Len(pool)
    PROVE  /\ Writer!Node(n).transitions = pool[n].trans
           /\ Writer!Node(n).final = pool[n].final
           /\ Writer!ChildrenOf(n) = [i \in 1..Len(pool[n].trans) |-> pool[n].trans[i].child]
           /\ Writer!ChildrenOf(n) \in Seq(Nat)
           /\ Len(Writer!ChildrenOf(n)) = Len(pool[n].trans)
           /\ Len(pool[n].trans) \in Nat
           /\ Writer!ToSet(Writer!ChildrenOf(n)) = Children(pool, n)
<1>1. n \in DOMAIN pool /\ pool[n] \in Node /\ DOMAIN pool = 1..Len(pool)
  BY DEF TypeOK
<1>2. Writer!Node(n) = [final |-> pool[n].final, transitions |-> pool[n].trans]
  BY <1>1 DEF Writer!Node, Handed
<1>3. pool[n].trans \in Seq(Transition)
  BY <1>1 DEF Node
<1>4. Len(pool[n].trans) \in Nat /\ DOMAIN pool[n].trans = 1..Len(pool[n].trans)
  BY <1>3
<1>5. \A i \in 1..Len(pool[n].trans) : pool[n].trans[i].child \in Nat
  <2>1. \A i \in 1..Len(pool[n].trans) : pool[n].trans[i] \in Transition
    BY <1>3
  <2>2. \A t \in Transition : t.child \in Nat
    BY DEF Transition
  <2> QED
    BY <2>1, <2>2
<1>6. Writer!ChildrenOf(n) = [i \in 1..Len(pool[n].trans) |-> pool[n].trans[i].child]
  BY <1>2, <1>4 DEF Writer!ChildrenOf
<1> DEFINE s == [i \in 1..Len(pool[n].trans) |-> pool[n].trans[i].child]
<1>7. s \in Seq(Nat) /\ Len(s) = Len(pool[n].trans)
  BY <1>4, <1>5
<1>8. Writer!ToSet(s) = Children(pool, n)
  BY <1>4 DEF Writer!ToSet, Children
<1> QED
  BY <1>2, <1>4, <1>6, <1>7, <1>8

\* What is on the stack once those of the first k nodes of ids that have not
\* been seen are pushed.
PushedOnto(base, seen, ids, k, t) ==
    /\ t \in Seq(FrameType)
    /\ Len(base) <= Len(t)
    /\ \A i \in 1..Len(base) : t[i] = base[i]
    /\ \A i \in (Len(base) + 1)..Len(t) :
           ~t[i].processed /\ t[i].id \notin seen /\ \E p \in 1..k : ids[p] = t[i].id
    /\ \A p \in 1..k : ids[p] \in seen \/ \E i \in (Len(base) + 1)..Len(t) : t[i].id = ids[p]

LEMMA PushedNext ==
    ASSUME NEW base \in Seq(FrameType), NEW seen, NEW m \in Nat, NEW ids \in [1..m -> Nat],
           NEW k \in 1..m, NEW t, PushedOnto(base, seen, ids, k - 1, t)
    PROVE  PushedOnto(base, seen, ids, k,
               IF ids[k] \in seen THEN t ELSE Append(t, [id |-> ids[k], processed |-> FALSE]))
<1>1. /\ t \in Seq(FrameType) /\ Len(t) \in Nat /\ Len(base) \in Nat /\ Len(base) <= Len(t)
      /\ \A i \in 1..Len(base) : t[i] = base[i]
      /\ \A i \in (Len(base) + 1)..Len(t) :
             ~t[i].processed /\ t[i].id \notin seen /\ \E p \in 1..(k - 1) : ids[p] = t[i].id
      /\ \A p \in 1..(k - 1) : ids[p] \in seen \/ \E i \in (Len(base) + 1)..Len(t) : t[i].id = ids[p]
  BY DEF PushedOnto
<1>2. \A p \in 1..(k - 1) : p \in 1..k
  OBVIOUS
<1>3. \A p \in 1..k : p \in 1..(k - 1) \/ p = k
  OBVIOUS
<1>4. CASE ids[k] \in seen
  <2>1. PushedOnto(base, seen, ids, k, t)
    BY <1>1, <1>2, <1>3, <1>4 DEF PushedOnto
  <2> QED
    BY <1>4, <2>1
<1>5. CASE ids[k] \notin seen
  <2> DEFINE e == [id |-> ids[k], processed |-> FALSE]
             u == Append(t, e)
  <2>1. e \in FrameType /\ e.id = ids[k] /\ ~e.processed
    BY DEF FrameType
  <2> HIDE DEF e
  <2>2. /\ u \in Seq(FrameType) /\ Len(u) = Len(t) + 1 /\ u[Len(t) + 1] = e
        /\ \A i \in 1..Len(t) : u[i] = t[i]
    BY <1>1, <2>1
  <2> HIDE DEF u
  <2>3. k \in 1..k /\ Len(t) + 1 \in (Len(base) + 1)..Len(u)
    BY <1>1, <2>2
  <2>4. \A i \in (Len(base) + 1)..Len(u) : i \in (Len(base) + 1)..Len(t) \/ i = Len(t) + 1
    BY <1>1, <2>2
  <2>5. \A i \in (Len(base) + 1)..Len(t) : i \in (Len(base) + 1)..Len(u) /\ i \in 1..Len(t)
    BY <1>1, <2>2
  <2>6. \A i \in 1..Len(base) : u[i] = base[i]
    BY <1>1, <2>2
  <2>7. ASSUME NEW i \in (Len(base) + 1)..Len(u)
        PROVE  ~u[i].processed /\ u[i].id \notin seen /\ \E p \in 1..k : ids[p] = u[i].id
    <3>1. CASE i = Len(t) + 1
      BY <1>5, <2>1, <2>2, <2>3, <3>1
    <3>2. CASE i \in (Len(base) + 1)..Len(t)
      BY <1>1, <1>2, <2>2, <2>5, <3>2
    <3> QED
      BY <2>4, <3>1, <3>2
  <2>8. ASSUME NEW p \in 1..k
        PROVE  ids[p] \in seen \/ \E i \in (Len(base) + 1)..Len(u) : u[i].id = ids[p]
    <3>1. CASE p = k
      BY <2>1, <2>2, <2>3, <3>1
    <3>2. CASE p \in 1..(k - 1)
      BY <1>1, <2>2, <2>5, <3>2
    <3> QED
      BY <1>3, <3>1, <3>2
  <2>9. Len(base) <= Len(u)
    BY <1>1, <2>2
  <2>10. PushedOnto(base, seen, ids, k, u)
    BY <2>2, <2>6, <2>7, <2>8, <2>9 DEF PushedOnto
  <2> QED
    BY <1>5, <2>10 DEF u, e
<1> QED
  BY <1>4, <1>5

LEMMA VisitPushes ==
    ASSUME TypeOK, stk \in Seq(FrameType), stk # << >>, Writer!Top.id \in 1..Len(pool), Writer!Visit,
           NEW ids, ids = Writer!Reverse(Writer!ChildrenOf(Writer!Top.id))
    PROVE  PushedOnto(Append(Writer!Popped, [id |-> Writer!Top.id, processed |-> TRUE]),
                      visited \cup {Writer!Top.id}, ids, Len(ids), stk')
<1> DEFINE seen == visited \cup {Writer!Top.id}
           m == Len(ids)
           A == Seq(FrameType)
           base == Append(Writer!Popped, [Writer!Top EXCEPT !.processed = TRUE])
           more(frames, c) == IF c \in seen THEN frames ELSE Append(frames, [id |-> c, processed |-> FALSE])
           step == [a \in A \X Nat |-> more(a[1], a[2])]
           Eq(f) == f = [s \in SUBSET (1..m) |->
                            IF s = {} THEN base ELSE more(f[s \ {Greatest(s)}], ids[Greatest(s)])]
           iter == CHOOSE f : Eq(f)
<1>1. ids \in [1..m -> Nat] /\ m \in Nat /\ DOMAIN ids = 1..m
  <2>1. PICK cs : cs = Writer!ChildrenOf(Writer!Top.id)
    OBVIOUS
  <2>2. cs \in Seq(Nat)
    BY <2>1, HandedNodes
  <2>3. ids = [i \in 1..Len(cs) |-> cs[(Len(cs) - i) + 1]]
    BY <2>1 DEF Writer!Reverse
  <2>4. Len(cs) \in Nat /\ \A i \in 1..Len(cs) : (Len(cs) - i) + 1 \in 1..Len(cs)
    BY <2>2
  <2>5. \A i \in 1..Len(cs) : cs[i] \in Nat
    BY <2>2
  <2>6. ids \in [1..Len(cs) -> Nat]
    BY <2>3, <2>4, <2>5
  <2> QED
    BY <2>4, <2>6
<1>2. base \in A /\ base = Append(Writer!Popped, [id |-> Writer!Top.id, processed |-> TRUE])
  <2>1. Len(stk) \in Nat \ {0} /\ Writer!Top = stk[Len(stk)]
    BY DEF Writer!Top
  <2>2. Writer!Top \in FrameType
    BY <2>1
  <2>3. [Writer!Top EXCEPT !.processed = TRUE] = [id |-> Writer!Top.id, processed |-> TRUE]
    BY <2>2, FrameProcessed
  <2>4. [id |-> Writer!Top.id, processed |-> TRUE] \in FrameType
    BY <2>2 DEF FrameType
  <2>5. Writer!Popped \in A
    BY <2>1 DEF Writer!Popped
  <2> QED
    BY <2>3, <2>4, <2>5
<1>3. stk' = iter[1..m]
  BY <1>1 DEF Writer!Visit, Writer!FoldLeft, Writer!MapThenFoldSet, Writer!Max, Writer!Frame, Greatest
<1>4. \A frames \in A, c \in Nat :
          more(frames, c) \in A /\ step[<<frames, c>>] = more(frames, c)
  <2>1. \A frames \in A, c \in Nat : Append(frames, [id |-> c, processed |-> FALSE]) \in A
    BY DEF FrameType
  <2> QED
    BY <2>1
<1>5. step \in [A \X Nat -> A]
  <2>1. \A a \in A \X Nat : a[1] \in A /\ a[2] \in Nat
    OBVIOUS
  <2> HIDE DEF A, more
  <2> QED
    BY <1>4, <2>1
<1> HIDE DEF step, A, more, m, base
<1>6. PICK f : FoldOf(f, A, base, step, m, ids)
  BY <1>1, <1>2, <1>5, FoldExists
<1>7. f \in [SUBSET (1..m) -> A] /\ \A s \in SUBSET (1..m) :
               f[s] = IF s = {} THEN base ELSE step[<<f[s \ {Greatest(s)}], ids[Greatest(s)]>>]
  BY <1>6 DEF FoldOf
<1>8. \A s \in SUBSET (1..m) : s # {} => s \ {Greatest(s)} \in SUBSET (1..m) /\ Greatest(s) \in 1..m
  BY <1>1, GreatestPlace
<1>9. Eq(f)
  <2>1. \A s \in SUBSET (1..m) :
            f[s] = IF s = {} THEN base ELSE more(f[s \ {Greatest(s)}], ids[Greatest(s)])
    BY <1>1, <1>4, <1>7, <1>8
  <2> QED
    BY <1>7, <2>1
<1>10. Eq(iter)
  BY <1>9
<1> HIDE DEF iter
<1>11. \A s \in SUBSET (1..m) :
          iter[s] = IF s = {} THEN base ELSE more(iter[s \ {Greatest(s)}], ids[Greatest(s)])
  BY <1>10
<1> DEFINE g == [k \in 0..m |-> iter[1..k]]
<1>12. g[0] = base
  <2>1. 1..0 = {} /\ 0 \in 0..m
    BY <1>1
  <2> QED
    BY <1>11, <2>1
<1>13. \A k \in 1..m : g[k] = more(g[k - 1], ids[k])
  <2> SUFFICES ASSUME NEW k \in 1..m PROVE g[k] = more(g[k - 1], ids[k])
    OBVIOUS
  <2>1. k \in Nat \ {0} /\ k \in 0..m /\ k - 1 \in 0..m /\ 1..k \in SUBSET (1..m)
    BY <1>1
  <2> QED
    BY <1>11, <2>1, FoldedSegments
<1>14. g[m] = stk'
  BY <1>1, <1>3
<1> HIDE DEF g, seen
<1>15. PushedOnto(base, seen, ids, m, g[m])
  <2> DEFINE Bad == {k \in Nat : k <= m /\ ~PushedOnto(base, seen, ids, k, g[k])}
  <2> SUFFICES ASSUME Bad # {} PROVE FALSE
    BY <1>1
  <2>1. PICK k \in Bad : \A l \in Bad : k <= l
    <3>1. Bad \in SUBSET Nat
      OBVIOUS
    <3> HIDE DEF Bad
    <3> QED
      BY <3>1, Least
  <2>2. k # 0
    <3>1. base \in Seq(FrameType)
      BY <1>2 DEF A
    <3>2. PushedOnto(base, seen, ids, 0, base)
      BY <3>1 DEF PushedOnto
    <3> QED
      BY <1>12, <3>2
  <2>3. k \in 1..m /\ k - 1 \in Nat /\ k - 1 <= m /\ ~(k <= k - 1)
    BY <1>1, <2>2
  <2>4. PushedOnto(base, seen, ids, k - 1, g[k - 1])
    BY <2>1, <2>3
  <2>5. base \in Seq(FrameType)
    BY <1>2 DEF A
  <2>6. PushedOnto(base, seen, ids, k, more(g[k - 1], ids[k]))
    BY <1>1, <2>3, <2>4, <2>5, PushedNext DEF more
  <2> QED
    BY <1>13, <2>3, <2>6
<1> QED
  BY <1>2, <1>14, <1>15 DEF seen, m

WalkTypes ==
    /\ stk \in Seq(FrameType)
    /\ \A i \in 1..Len(stk) : stk[i].id \in Canonical
    /\ visited \subseteq Canonical
    /\ order \in Seq(visited)

\* A visited node is in the order, once, or waits on the stack for its children.
VisitedInv ==
    /\ \A i, j \in 1..Len(order) : order[i] = order[j] => i = j
    /\ \A n \in visited : \/ \E i \in 1..Len(order) : order[i] = n
                          \/ \E i \in 1..Len(stk) : stk[i].processed /\ stk[i].id = n
    /\ \A i \in 1..Len(stk) : stk[i].processed =>
           stk[i].id \in visited /\ \A k \in 1..Len(order) : order[k] # stk[i].id
    /\ RootId \in visited \/ \E i \in 1..Len(stk) : stk[i].id = RootId

\* What waits above a node on the stack is below it in the automaton.
AboveInv ==
    \A r : RankOn(r) =>
        \A i, j \in 1..Len(stk) : i < j /\ stk[i].processed => r[stk[j].id] < r[stk[i].id]

\* The children of a node that has been visited are before it in the order, or
\* will be.
ChildrenInv ==
    /\ \A i \in 1..Len(stk) : stk[i].processed =>
           \A m \in Children(pool, stk[i].id) :
               m \in visited \/ \E j \in (i + 1)..Len(stk) : ~stk[j].processed /\ stk[j].id = m
    /\ \A k \in 1..Len(order) : \A m \in Children(pool, order[k]) :
           \E l \in 1..(k - 1) : order[l] = m

\* Nothing is met that the root does not reach.
ReachedInv ==
    \A S : ClosedUnderChildren(S) => visited \subseteq S /\ \A i \in 1..Len(stk) : stk[i].id \in S

WalkInv == WalkTypes /\ VisitedInv /\ AboveInv /\ ChildrenInv /\ ReachedInv

LEMMA WalkFresh ==
    stk = <<Writer!Frame(1)>> /\ visited = {} /\ order = << >> => WalkInv
<1> SUFFICES ASSUME stk = <<Writer!Frame(1)>>, visited = {}, order = << >>
             PROVE  WalkInv
  OBVIOUS
<1> DEFINE e == [id |-> 1, processed |-> FALSE]
<1>1. e \in FrameType /\ e.id = RootId /\ ~e.processed /\ stk = <<e>>
  BY DEF FrameType, Writer!Frame, RootId
<1> HIDE DEF e
<1>2. stk \in Seq(FrameType) /\ Len(stk) = 1 /\ 1..Len(stk) = {1} /\ stk[1] = e
  BY <1>1
<1>3. WalkTypes
  BY <1>1, <1>2 DEF WalkTypes, Canonical
<1>4. VisitedInv
  BY <1>1, <1>2 DEF VisitedInv
<1>5. AboveInv
  BY <1>2 DEF AboveInv
<1>6. ChildrenInv
  BY <1>1, <1>2 DEF ChildrenInv
<1>7. ReachedInv
  BY <1>1, <1>2 DEF ReachedInv, ClosedUnderChildren
<1> QED
  BY <1>3, <1>4, <1>5, <1>6, <1>7 DEF WalkInv

\* The stack without its top.
LEMMA PoppedStack ==
    ASSUME stk \in Seq(FrameType), stk # << >>
    PROVE  /\ Len(stk) \in Nat \ {0} /\ Writer!Top = stk[Len(stk)] /\ Writer!Top \in FrameType
           /\ Writer!Popped \in Seq(FrameType) /\ Len(Writer!Popped) = Len(stk) - 1
           /\ \A i \in 1..(Len(stk) - 1) : Writer!Popped[i] = stk[i]
<1>1. Len(stk) \in Nat \ {0} /\ Writer!Top = stk[Len(stk)]
  BY DEF Writer!Top
<1>2. Writer!Top \in FrameType
  BY <1>1
<1>3. PICK s : s = SubSeq(stk, 1, Len(stk) - 1)
  OBVIOUS
<1>4. s \in Seq(FrameType) /\ Len(s) = Len(stk) - 1 /\ \A i \in 1..(Len(stk) - 1) : s[i] = stk[i]
  <2>1. CASE Len(stk) > 1
    BY <1>3, <2>1, Shortened
  <2>2. CASE Len(stk) = 1
    BY <1>3, <2>2
  <2>3. Len(stk) > 1 \/ Len(stk) = 1
    <3>1. Len(stk) \in Nat /\ Len(stk) # 0
      OBVIOUS
    <3>2. \A k \in Nat : k # 0 => k > 1 \/ k = 1
      OBVIOUS
    <3> QED
      BY <3>1, <3>2
  <2> QED
    BY <2>1, <2>2, <2>3
<1> QED
  BY <1>1, <1>2, <1>3, <1>4 DEF Writer!Popped

LEMMA EmitStep ==
    ASSUME BuilderInv, finished, WalkInv, Writer!Emit, UNCHANGED vars
    PROVE  WalkInv'
<1> USE DEF WalkInv
<1> DEFINE n == Len(stk)
           t == Writer!Top.id
           L == Len(order)
<1>1. /\ stk \in Seq(FrameType) /\ stk # << >> /\ stk[n].processed /\ stk[n].id = t
      /\ visited' = visited /\ order' = Append(order, t)
      /\ n \in Nat \ {0} /\ Len(stk') = n - 1 /\ stk' \in Seq(FrameType)
      /\ \A i \in 1..(n - 1) : stk'[i] = stk[i]
  BY PoppedStack DEF Writer!Emit, WalkTypes
<1>2. Canonical' = Canonical /\ pool' = pool /\ registered' = registered
  BY DEF vars, Canonical
<1>3. \A r : RankOn(r)' <=> RankOn(r)
  BY <1>2 DEF RankOn, Children
<1>4. t \in visited /\ t \in Canonical /\ n \in 1..n /\ \A k \in 1..L : order[k] # t
  BY <1>1 DEF WalkTypes, VisitedInv
<1> HIDE DEF t
<1>5. /\ order \in Seq(visited) /\ L \in Nat /\ order' \in Seq(visited) /\ Len(order') = L + 1
      /\ order'[L + 1] = t /\ \A k \in 1..L : order'[k] = order[k]
  BY <1>1, <1>4 DEF WalkTypes
<1> HIDE DEF n, L
<1>6. \A i \in 1..(n - 1) : i \in 1..n /\ i < n
  BY <1>1
<1>7. \A i \in 1..n : i \in 1..(n - 1) \/ i = n
  BY <1>1
<1>8. \A k \in 1..(L + 1) : k \in 1..L \/ k = L + 1
  BY <1>5
<1>9. \A k \in 1..L : k \in 1..(L + 1)
  BY <1>5
<1>10. PICK r : RankOn(r)
  BY RankExists
<1>11. /\ r \in [Canonical -> Nat]
       /\ \A m \in Children(pool, t) : m \in Canonical /\ r[m] < r[t]
       /\ \A i \in 1..(n - 1) : stk[i].processed => r[t] < r[stk[i].id] /\ stk[i].id \in Canonical
  <2>1. \A i, j \in 1..n : i < j /\ stk[i].processed => r[stk[j].id] < r[stk[i].id]
    BY <1>10 DEF AboveInv, n
  <2>2. \A i \in 1..n : stk[i].id \in Canonical
    BY DEF WalkTypes, n
  <2> QED
    BY <1>1, <1>4, <1>6, <1>10, <2>1, <2>2 DEF RankOn
<1>12. \A i \in 1..(n - 1) : stk[i].processed => stk[i].id # t
  BY <1>4, <1>11
<1>13. WalkTypes'
  BY <1>1, <1>2, <1>5, <1>6 DEF WalkTypes, n
<1>14. VisitedInv'
  <2>1. ASSUME NEW i \in 1..(L + 1), NEW j \in 1..(L + 1), order'[i] = order'[j] PROVE i = j
    BY <1>4, <1>5, <1>8, <2>1 DEF VisitedInv, L
  <2>2. ASSUME NEW m \in visited
        PROVE  \/ \E i \in 1..(L + 1) : order'[i] = m
               \/ \E i \in 1..(n - 1) : stk'[i].processed /\ stk'[i].id = m
    <3>1. CASE \E i \in 1..L : order[i] = m
      BY <1>5, <1>9, <3>1
    <3>2. ASSUME NEW i \in 1..n, stk[i].processed, stk[i].id = m
          PROVE  \/ \E k \in 1..(L + 1) : order'[k] = m
                 \/ \E k \in 1..(n - 1) : stk'[k].processed /\ stk'[k].id = m
      <4>1. CASE i = n
        <5>1. L + 1 \in 1..(L + 1) /\ m = t
          BY <1>1, <1>5, <3>2, <4>1
        <5> QED
          BY <1>5, <5>1
      <4>2. CASE i \in 1..(n - 1)
        BY <1>1, <3>2, <4>2
      <4> QED
        BY <1>7, <4>1, <4>2
    <3> QED
      BY <3>1, <3>2 DEF VisitedInv, L, n
  <2>3. ASSUME NEW i \in 1..(n - 1), stk'[i].processed
        PROVE  stk'[i].id \in visited /\ \A k \in 1..(L + 1) : order'[k] # stk'[i].id
    <3>1. stk[i].processed /\ i \in 1..n /\ stk'[i] = stk[i]
      BY <1>1, <1>6, <2>3
    <3>2. stk[i].id \in visited /\ \A k \in 1..L : order[k] # stk[i].id
      BY <3>1 DEF VisitedInv, L, n
    <3> QED
      BY <1>5, <1>8, <1>12, <3>1, <3>2
  <2>4. RootId \in visited \/ \E i \in 1..(n - 1) : stk'[i].id = RootId
    BY <1>1, <1>4, <1>7 DEF VisitedInv, n
  <2>5. \A i, j \in 1..Len(order') : order'[i] = order'[j] => i = j
    BY <1>5, <2>1
  <2>6. \A m \in visited' : \/ \E i \in 1..Len(order') : order'[i] = m
                            \/ \E i \in 1..Len(stk') : stk'[i].processed /\ stk'[i].id = m
    BY <1>1, <1>5, <2>2
  <2>7. \A i \in 1..Len(stk') : stk'[i].processed =>
            stk'[i].id \in visited' /\ \A k \in 1..Len(order') : order'[k] # stk'[i].id
    BY <1>1, <1>5, <2>3
  <2>8. RootId \in visited' \/ \E i \in 1..Len(stk') : stk'[i].id = RootId
    BY <1>1, <2>4
  <2> QED
    BY <2>5, <2>6, <2>7, <2>8 DEF VisitedInv, RootId
<1>15. AboveInv'
  BY <1>1, <1>3, <1>6 DEF AboveInv, n
<1>16. ChildrenInv'
  <2>1. ASSUME NEW i \in 1..(n - 1), stk[i].processed, NEW m \in Children(pool, stk[i].id)
        PROVE  m \in visited \/ \E j \in (i + 1)..(n - 1) : ~stk'[j].processed /\ stk'[j].id = m
    <3>1. CASE m \in visited
      BY <3>1
    <3>2. ASSUME NEW j \in (i + 1)..n, ~stk[j].processed, stk[j].id = m
          PROVE  \E k \in (i + 1)..(n - 1) : ~stk'[k].processed /\ stk'[k].id = m
      <4>1. j # n
        BY <1>1, <3>2
      <4>2. j \in (i + 1)..(n - 1) /\ j \in 1..(n - 1)
        BY <1>1, <4>1
      <4> QED
        BY <1>1, <3>2, <4>2
    <3> QED
      BY <1>6, <2>1, <3>1, <3>2 DEF ChildrenInv, n
  <2>2. ASSUME NEW m \in Children(pool, t)
        PROVE  \E l \in 1..L : order[l] = m
    <3>1. m \in visited
      <4>1. m \in visited \/ \E j \in (n + 1)..n : ~stk[j].processed /\ stk[j].id = m
        BY <1>1, <1>4 DEF ChildrenInv, n
      <4> QED
        BY <1>1, <4>1
    <3>2. ASSUME NEW i \in 1..n, stk[i].processed, stk[i].id = m PROVE FALSE
      <4>1. r[m] < r[t] /\ r[m] \in Nat /\ r[t] \in Nat
        BY <1>4, <1>11
      <4>2. CASE i = n
        BY <1>1, <3>2, <4>1, <4>2
      <4>3. CASE i \in 1..(n - 1)
        BY <1>11, <3>2, <4>1, <4>3
      <4> QED
        BY <1>7, <4>2, <4>3
    <3> QED
      BY <3>1, <3>2 DEF VisitedInv, L, n
  <2>3. ASSUME NEW k \in 1..(L + 1), NEW m \in Children(pool, order'[k])
        PROVE  \E l \in 1..(k - 1) : order'[l] = m
    <3>1. CASE k = L + 1
      <4>1. (L + 1) - 1 = L
        BY <1>5
      <4> QED
        BY <1>5, <2>2, <3>1, <4>1
    <3>2. CASE k \in 1..L
      <4>1. \E l \in 1..(k - 1) : order[l] = m
        BY <1>5, <3>2 DEF ChildrenInv, L
      <4>2. \A l \in 1..(k - 1) : l \in 1..L
        BY <1>5, <3>2
      <4> QED
        BY <1>5, <4>1, <4>2
    <3> QED
      BY <1>8, <3>1, <3>2
  <2>4. ASSUME NEW i \in 1..Len(stk'), stk'[i].processed, NEW m \in Children(pool', stk'[i].id)
        PROVE  m \in visited' \/ \E j \in (i + 1)..Len(stk') : ~stk'[j].processed /\ stk'[j].id = m
    <3>1. i \in 1..(n - 1) /\ stk'[i] = stk[i]
      BY <1>1
    <3>2. stk[i].processed /\ m \in Children(pool, stk[i].id)
      BY <1>2, <2>4, <3>1
    <3> QED
      BY <1>1, <2>1, <3>1, <3>2
  <2>5. ASSUME NEW k \in 1..Len(order'), NEW m \in Children(pool', order'[k])
        PROVE  \E l \in 1..(k - 1) : order'[l] = m
    <3>1. k \in 1..(L + 1) /\ m \in Children(pool, order'[k])
      BY <1>2, <1>5
    <3> QED
      BY <2>3, <3>1
  <2> QED
    BY <2>4, <2>5 DEF ChildrenInv
<1>17. ReachedInv'
  <2>1. \A S : ClosedUnderChildren(S)' <=> ClosedUnderChildren(S)
    BY <1>2 DEF ClosedUnderChildren, Children
  <2> QED
    BY <1>1, <1>6, <2>1 DEF ReachedInv, n
<1> QED
  BY <1>13, <1>14, <1>15, <1>16, <1>17

LEMMA SkipStep ==
    ASSUME BuilderInv, finished, WalkInv, Writer!Skip, UNCHANGED vars
    PROVE  WalkInv'
<1> USE DEF WalkInv
<1> DEFINE n == Len(stk)
<1>1. /\ stk \in Seq(FrameType) /\ stk # << >> /\ ~stk[n].processed /\ stk[n].id \in visited
      /\ visited' = visited /\ order' = order
      /\ n \in Nat \ {0} /\ Len(stk') = n - 1 /\ stk' \in Seq(FrameType)
      /\ \A i \in 1..(n - 1) : stk'[i] = stk[i]
  BY PoppedStack DEF Writer!Skip, WalkTypes
<1>2. Canonical' = Canonical /\ pool' = pool /\ registered' = registered
  BY DEF vars, Canonical
<1> HIDE DEF n
<1>3. \A i \in 1..(n - 1) : i \in 1..n /\ i < n
  BY <1>1
<1>4. \A i \in 1..n : i \in 1..(n - 1) \/ i = n
  BY <1>1
<1>5. WalkTypes'
  BY <1>1, <1>2, <1>3 DEF WalkTypes, n
<1>6. VisitedInv'
  <2>1. ASSUME NEW m \in visited, NEW i \in 1..n, stk[i].processed, stk[i].id = m
        PROVE  \E k \in 1..(n - 1) : stk'[k].processed /\ stk'[k].id = m
    <3>1. i \in 1..(n - 1)
      BY <1>1, <1>4, <2>1
    <3> QED
      BY <1>1, <2>1, <3>1
  <2>2. \A m \in visited : \/ \E i \in 1..Len(order) : order[i] = m
                           \/ \E i \in 1..(n - 1) : stk'[i].processed /\ stk'[i].id = m
    BY <2>1 DEF VisitedInv, n
  <2>3. RootId \in visited \/ \E i \in 1..(n - 1) : stk'[i].id = RootId
    BY <1>1, <1>4 DEF VisitedInv, n
  <2>4. \A i \in 1..(n - 1) : stk'[i].processed =>
            stk'[i].id \in visited /\ \A k \in 1..Len(order) : order[k] # stk'[i].id
    BY <1>1, <1>3 DEF VisitedInv, n
  <2>5. \A i, j \in 1..Len(order) : order[i] = order[j] => i = j
    BY DEF VisitedInv
  <2> QED
    BY <1>1, <2>2, <2>3, <2>4, <2>5 DEF VisitedInv, RootId
<1>7. AboveInv'
  <2>1. \A r : RankOn(r)' <=> RankOn(r)
    BY <1>2 DEF RankOn, Children
  <2> QED
    BY <1>1, <1>3, <2>1 DEF AboveInv, n
<1>8. ChildrenInv'
  <2>1. ASSUME NEW i \in 1..(n - 1), stk[i].processed, NEW m \in Children(pool, stk[i].id)
        PROVE  m \in visited \/ \E j \in (i + 1)..(n - 1) : ~stk'[j].processed /\ stk'[j].id = m
    <3>1. CASE m \in visited
      BY <3>1
    <3>2. ASSUME NEW j \in (i + 1)..n, ~stk[j].processed, stk[j].id = m
          PROVE  m \in visited \/ \E k \in (i + 1)..(n - 1) : ~stk'[k].processed /\ stk'[k].id = m
      <4>1. CASE j = n
        BY <1>1, <3>2, <4>1
      <4>2. CASE j # n
        <5>1. j \in (i + 1)..(n - 1) /\ j \in 1..(n - 1)
          BY <1>1, <4>2
        <5> QED
          BY <1>1, <3>2, <5>1
      <4> QED
        BY <4>1, <4>2
    <3> QED
      BY <1>3, <2>1, <3>1, <3>2 DEF ChildrenInv, n
  <2>2. ASSUME NEW i \in 1..Len(stk'), stk'[i].processed, NEW m \in Children(pool', stk'[i].id)
        PROVE  m \in visited' \/ \E j \in (i + 1)..Len(stk') : ~stk'[j].processed /\ stk'[j].id = m
    <3>1. i \in 1..(n - 1) /\ stk'[i] = stk[i]
      BY <1>1
    <3>2. stk[i].processed /\ m \in Children(pool, stk[i].id)
      BY <1>2, <2>2, <3>1
    <3> QED
      BY <1>1, <2>1, <3>1, <3>2
  <2>3. \A k \in 1..Len(order') : \A m \in Children(pool', order'[k]) : \E l \in 1..(k - 1) : order'[l] = m
    <3>1. \A k \in 1..Len(order) : \A m \in Children(pool, order[k]) : \E l \in 1..(k - 1) : order[l] = m
      BY DEF ChildrenInv
    <3>2. order' = order /\ pool' = pool
      BY <1>1, <1>2
    <3> QED
      BY <3>1, <3>2
  <2> QED
    BY <2>2, <2>3 DEF ChildrenInv
<1>9. ReachedInv'
  <2>1. \A S : ClosedUnderChildren(S)' <=> ClosedUnderChildren(S)
    BY <1>2 DEF ClosedUnderChildren, Children
  <2> QED
    BY <1>1, <1>3, <2>1 DEF ReachedInv, n
<1> QED
  BY <1>5, <1>6, <1>7, <1>8, <1>9

\* What a visit leaves: the node, now processed, and above it those of its
\* children that have not been visited.
LEMMA VisitEffect ==
    ASSUME BuilderInv, finished, WalkTypes, Writer!Visit
    PROVE  LET n == Len(stk)
               t == stk[n].id
           IN  /\ n \in Nat \ {0} /\ t \in Canonical /\ t \notin visited /\ ~stk[n].processed
               /\ visited' = visited \cup {t} /\ order' = order
               /\ stk' \in Seq(FrameType) /\ Len(stk') \in Nat /\ n <= Len(stk')
               /\ \A i \in 1..(n - 1) : stk'[i] = stk[i]
               /\ stk'[n].id = t /\ stk'[n].processed
               /\ \A i \in (n + 1)..Len(stk') :
                      ~stk'[i].processed /\ stk'[i].id \in Children(pool, t) /\ stk'[i].id \notin visited'
               /\ \A m \in Children(pool, t) :
                      m \in visited' \/ \E i \in (n + 1)..Len(stk') : stk'[i].id = m
<1> DEFINE n == Len(stk)
           t == stk[n].id
<1>1. /\ stk \in Seq(FrameType) /\ stk # << >> /\ ~stk[n].processed /\ t \notin visited
      /\ visited' = visited \cup {t} /\ order' = order /\ Writer!Top.id = t /\ Writer!Top = stk[n]
  BY PoppedStack DEF Writer!Visit, WalkTypes
<1>2. /\ n \in Nat \ {0} /\ Writer!Popped \in Seq(FrameType) /\ Len(Writer!Popped) = n - 1
      /\ \A i \in 1..(n - 1) : Writer!Popped[i] = stk[i]
  BY <1>1, PoppedStack
<1>3. t \in Canonical /\ t \in 1..Len(pool) /\ t \in Nat
  <2>1. n \in 1..n
    BY <1>2
  <2>2. t \in Canonical
    BY <2>1 DEF WalkTypes
  <2>3. t \in 1..Len(pool)
    BY <2>2, CanonicalNodes
  <2> QED
    BY <2>2, <2>3
<1>4. PICK cs : cs = Writer!ChildrenOf(t)
  OBVIOUS
<1>5. /\ cs \in Seq(Nat) /\ Len(cs) \in Nat /\ {cs[j] : j \in 1..Len(cs)} = Children(pool, t)
  <2>1. TypeOK
    BY DEF BuilderInv
  <2>2. /\ cs = [i \in 1..Len(pool[t].trans) |-> pool[t].trans[i].child] /\ cs \in Seq(Nat)
        /\ Len(cs) = Len(pool[t].trans) /\ Len(pool[t].trans) \in Nat
    BY <1>3, <1>4, <2>1, HandedNodes
  <2>3. \A j \in 1..Len(cs) : cs[j] = pool[t].trans[j].child
    BY <2>2
  <2> QED
    BY <2>2, <2>3 DEF Children
<1>6. PICK ids : ids = Writer!Reverse(cs)
  OBVIOUS
<1>7. /\ Len(ids) = Len(cs)
      /\ \A p \in 1..Len(ids) : ids[p] \in Children(pool, t)
      /\ \A m \in Children(pool, t) : \E p \in 1..Len(ids) : ids[p] = m
  <2>1. ids = [i \in 1..Len(cs) |-> cs[(Len(cs) - i) + 1]]
    BY <1>6 DEF Writer!Reverse
  <2>2. Len(ids) = Len(cs)
    BY <1>5, <2>1
  <2>3. \A p \in 1..Len(cs) : (Len(cs) - p) + 1 \in 1..Len(cs)
    BY <1>5
  <2>4. ASSUME NEW p \in 1..Len(ids) PROVE ids[p] \in Children(pool, t)
    <3>1. ids[p] = cs[(Len(cs) - p) + 1]
      BY <2>1, <2>2
    <3> QED
      BY <1>5, <2>2, <2>3, <3>1
  <2>5. ASSUME NEW j \in 1..Len(cs) PROVE \E p \in 1..Len(ids) : ids[p] = cs[j]
    <3>1. (Len(cs) - j) + 1 \in 1..Len(cs) /\ (Len(cs) - ((Len(cs) - j) + 1)) + 1 = j
      BY <1>5
    <3>2. ids[(Len(cs) - j) + 1] = cs[j]
      BY <2>1, <3>1
    <3> QED
      BY <2>2, <3>1, <3>2
  <2> QED
    BY <1>5, <2>2, <2>4, <2>5
<1>8. PICK e : e = [id |-> t, processed |-> TRUE]
  OBVIOUS
<1>9. PICK base : base = Append(Writer!Popped, e)
  OBVIOUS
<1>10. e \in FrameType /\ e.id = t /\ e.processed
  BY <1>3, <1>8 DEF FrameType
<1> HIDE DEF n, t
<1>11. Len(base) = n /\ base[n] = e /\ \A i \in 1..(n - 1) : base[i] = stk[i]
  BY <1>2, <1>9, <1>10
<1>12. PushedOnto(base, visited', ids, Len(ids), stk')
  <2>1. TypeOK
    BY DEF BuilderInv
  <2>2. PushedOnto(Append(Writer!Popped, [id |-> Writer!Top.id, processed |-> TRUE]),
                   visited \cup {Writer!Top.id}, ids, Len(ids), stk')
    BY <1>1, <1>3, <1>4, <1>6, <2>1, VisitPushes
  <2> QED
    BY <1>1, <1>8, <1>9, <2>2
<1>13. /\ stk' \in Seq(FrameType) /\ n <= Len(stk') /\ Len(stk') \in Nat
       /\ \A i \in 1..n : stk'[i] = base[i]
       /\ \A i \in (n + 1)..Len(stk') :
              ~stk'[i].processed /\ stk'[i].id \notin visited' /\ \E p \in 1..Len(ids) : ids[p] = stk'[i].id
       /\ \A p \in 1..Len(ids) : ids[p] \in visited' \/ \E i \in (n + 1)..Len(stk') : stk'[i].id = ids[p]
  BY <1>11, <1>12 DEF PushedOnto
<1>14. \A i \in 1..(n - 1) : stk'[i] = stk[i]
  BY <1>2, <1>11, <1>13
<1>15. stk'[n] = e
  BY <1>2, <1>11, <1>13
<1>16. \A i \in (n + 1)..Len(stk') :
           ~stk'[i].processed /\ stk'[i].id \in Children(pool, t) /\ stk'[i].id \notin visited'
  BY <1>7, <1>13
<1>17. \A m \in Children(pool, t) : m \in visited' \/ \E i \in (n + 1)..Len(stk') : stk'[i].id = m
  <2> SUFFICES ASSUME NEW m \in Children(pool, t)
               PROVE  m \in visited' \/ \E i \in (n + 1)..Len(stk') : stk'[i].id = m
    OBVIOUS
  <2>1. PICK p \in 1..Len(ids) : ids[p] = m
    BY <1>7
  <2>2. ids[p] \in visited' \/ \E i \in (n + 1)..Len(stk') : stk'[i].id = ids[p]
    BY <1>13
  <2> QED
    BY <2>1, <2>2
<1> QED
  BY <1>1, <1>2, <1>3, <1>10, <1>13, <1>14, <1>15, <1>16, <1>17 DEF n, t

LEMMA VisitStep ==
    ASSUME BuilderInv, finished, WalkInv, Writer!Visit, UNCHANGED vars
    PROVE  WalkInv'
<1> USE DEF WalkInv
<1> DEFINE n == Len(stk)
           t == stk[n].id
           N == Len(stk')
<1>1. /\ n \in Nat \ {0} /\ t \in Canonical /\ t \notin visited /\ ~stk[n].processed
      /\ visited' = visited \cup {t} /\ order' = order
      /\ stk' \in Seq(FrameType) /\ N \in Nat /\ n <= N
      /\ \A i \in 1..(n - 1) : stk'[i] = stk[i]
      /\ stk'[n].id = t /\ stk'[n].processed
      /\ \A i \in (n + 1)..N :
             ~stk'[i].processed /\ stk'[i].id \in Children(pool, t) /\ stk'[i].id \notin visited'
      /\ \A m \in Children(pool, t) : m \in visited' \/ \E i \in (n + 1)..N : stk'[i].id = m
  BY VisitEffect
<1>2. Canonical' = Canonical /\ pool' = pool /\ registered' = registered
  BY DEF vars, Canonical
<1>3. Children(pool, t) \subseteq Canonical
  BY <1>1, CanonicalNodes
<1>4. /\ \A i \in 1..n : stk[i].id \in Canonical /\ stk[i] \in FrameType
      /\ visited \subseteq Canonical /\ order \in Seq(visited)
  BY DEF WalkTypes
<1>5. \A i \in 1..N : i \in 1..(n - 1) \/ i = n \/ i \in (n + 1)..N
  BY <1>1
<1>6. \A i \in 1..n : i \in 1..(n - 1) \/ i = n
  BY <1>1
<1>7. \A i \in 1..(n - 1) : i \in 1..n /\ i < n /\ i \in 1..N
  BY <1>1
<1>8. n \in 1..n /\ n \in 1..N
  BY <1>1
<1> HIDE DEF n, t, N
<1>9. \A i \in 1..N : stk'[i].processed => i \in 1..(n - 1) \/ i = n
  BY <1>1, <1>5
<1>10. WalkTypes'
  <2>1. \A i \in 1..N : stk'[i].id \in Canonical
    BY <1>1, <1>3, <1>4, <1>5, <1>7
  <2>2. order \in Seq(visited \cup {t})
    <3>1. order \in [1..Len(order) -> visited] /\ Len(order) \in Nat
      BY <1>4
    <3>2. order \in [1..Len(order) -> visited \cup {t}]
      BY <3>1
    <3> QED
      BY <3>1, <3>2
  <2> QED
    BY <1>1, <1>2, <1>4, <2>1, <2>2 DEF WalkTypes, N
<1>11. VisitedInv'
  <2>1. \A i, j \in 1..Len(order) : order[i] = order[j] => i = j
    BY DEF VisitedInv
  <2>2. ASSUME NEW m \in visited \cup {t}
        PROVE  \/ \E i \in 1..Len(order) : order[i] = m
               \/ \E i \in 1..N : stk'[i].processed /\ stk'[i].id = m
    <3>1. CASE m = t
      BY <1>1, <1>8, <3>1
    <3>2. ASSUME NEW i \in 1..n, stk[i].processed, stk[i].id = m
          PROVE  \E k \in 1..N : stk'[k].processed /\ stk'[k].id = m
      <4>1. i \in 1..(n - 1)
        BY <1>1, <1>6, <3>2
      <4> QED
        BY <1>1, <1>7, <3>2, <4>1
    <3>3. m \in visited => \/ \E i \in 1..Len(order) : order[i] = m
                           \/ \E i \in 1..n : stk[i].processed /\ stk[i].id = m
      BY DEF VisitedInv, n
    <3> QED
      BY <3>1, <3>2, <3>3
  <2>3. ASSUME NEW i \in 1..N, stk'[i].processed
        PROVE  stk'[i].id \in visited' /\ \A k \in 1..Len(order) : order[k] # stk'[i].id
    <3>1. CASE i = n
      <4>1. \A k \in 1..Len(order) : order[k] \in visited
        BY <1>4
      <4> QED
        BY <1>1, <3>1, <4>1
    <3>2. CASE i \in 1..(n - 1)
      <4>1. stk'[i] = stk[i] /\ i \in 1..n /\ stk[i].processed
        BY <1>1, <1>7, <2>3, <3>2
      <4>2. stk[i].id \in visited /\ \A k \in 1..Len(order) : order[k] # stk[i].id
        BY <4>1 DEF VisitedInv, n
      <4> QED
        BY <1>1, <4>1, <4>2
    <3> QED
      BY <1>9, <2>3, <3>1, <3>2
  <2>4. RootId \in visited' \/ \E i \in 1..N : stk'[i].id = RootId
    <3>1. RootId \in visited \/ \E i \in 1..n : stk[i].id = RootId
      BY DEF VisitedInv, n
    <3>2. ASSUME NEW i \in 1..n, stk[i].id = RootId PROVE \E k \in 1..N : stk'[k].id = RootId
      <4>1. CASE i = n
        BY <1>1, <1>8, <3>2, <4>1 DEF t
      <4>2. CASE i \in 1..(n - 1)
        BY <1>1, <1>7, <3>2, <4>2
      <4> QED
        BY <1>6, <4>1, <4>2
    <3> QED
      BY <1>1, <3>1, <3>2
  <2> QED
    BY <1>1, <2>1, <2>2, <2>3, <2>4 DEF VisitedInv, RootId, N
<1>12. AboveInv'
  <2>1. \A r : RankOn(r)' <=> RankOn(r)
    BY <1>2 DEF RankOn, Children
  <2> SUFFICES ASSUME NEW r, RankOn(r), NEW i \in 1..N, NEW j \in 1..N, i < j, stk'[i].processed
               PROVE  r[stk'[j].id] < r[stk'[i].id]
    BY <2>1 DEF AboveInv, N
  <2>2. \A m \in Canonical : r[m] \in Nat
    BY DEF RankOn
  <2>3. \A k \in (n + 1)..N : stk'[k].id \in Canonical /\ r[stk'[k].id] < r[t]
    BY <1>1, <1>3 DEF RankOn
  <2>4. \A a, b \in 1..n : a < b /\ stk[a].processed => r[stk[b].id] < r[stk[a].id]
    BY DEF AboveInv, n
  <2>5. CASE i = n
    <3>1. j \in (n + 1)..N
      BY <1>1, <2>5
    <3> QED
      BY <1>1, <2>3, <2>5, <3>1
  <2>6. CASE i \in 1..(n - 1)
    <3>1. stk'[i] = stk[i] /\ i \in 1..n /\ i < n /\ stk[i].processed
      BY <1>1, <1>7, <2>6
    <3>2. r[t] < r[stk[i].id]
      BY <1>8, <2>4, <3>1 DEF t
    <3>3. CASE j \in 1..(n - 1)
      <4>1. stk'[j] = stk[j] /\ j \in 1..n
        BY <1>1, <1>7, <3>3
      <4> QED
        BY <2>4, <3>1, <4>1
    <3>4. CASE j = n
      BY <1>1, <3>1, <3>2, <3>4
    <3>5. CASE j \in (n + 1)..N
      <4>1. r[stk'[j].id] < r[t] /\ r[stk'[j].id] \in Nat
        BY <2>2, <2>3, <3>5
      <4>2. r[t] \in Nat /\ r[stk[i].id] \in Nat
        BY <1>1, <1>4, <2>2, <3>1
      <4>3. r[stk'[j].id] < r[stk[i].id]
        BY <3>2, <4>1, <4>2
      <4> QED
        BY <3>1, <4>3
    <3> QED
      BY <1>5, <3>3, <3>4, <3>5
  <2> QED
    BY <1>9, <2>5, <2>6
<1>13. ChildrenInv'
  <2>1. ASSUME NEW i \in 1..N, stk'[i].processed, NEW m \in Children(pool', stk'[i].id)
        PROVE  m \in visited' \/ \E j \in (i + 1)..N : ~stk'[j].processed /\ stk'[j].id = m
    <3>1. m \in Children(pool, stk'[i].id)
      BY <1>2
    <3>2. CASE i = n
      <4>1. m \in Children(pool, t)
        BY <1>1, <3>1, <3>2
      <4>2. m \in visited' \/ \E j \in (n + 1)..N : stk'[j].id = m
        BY <1>1, <4>1
      <4> QED
        BY <1>1, <3>2, <4>2
    <3>3. CASE i \in 1..(n - 1)
      <4>1. stk'[i] = stk[i] /\ i \in 1..n /\ stk[i].processed
        BY <1>1, <1>7, <2>1, <3>3
      <4>2. m \in visited \/ \E j \in (i + 1)..n : ~stk[j].processed /\ stk[j].id = m
        BY <3>1, <4>1 DEF ChildrenInv, n
      <4>3. ASSUME NEW j \in (i + 1)..n, ~stk[j].processed, stk[j].id = m
            PROVE  m \in visited' \/ \E k \in (i + 1)..N : ~stk'[k].processed /\ stk'[k].id = m
        <5>1. CASE j = n
          BY <1>1, <4>3, <5>1 DEF t
        <5>2. CASE j # n
          <6>1. j \in 1..(n - 1) /\ j \in (i + 1)..N
            BY <1>1, <3>3, <5>2
          <6> QED
            BY <1>1, <4>3, <6>1
        <5> QED
          BY <5>1, <5>2
      <4> QED
        BY <1>1, <4>2, <4>3
    <3> QED
      BY <1>9, <2>1, <3>2, <3>3
  <2>2. \A k \in 1..Len(order') : \A m \in Children(pool', order'[k]) : \E l \in 1..(k - 1) : order'[l] = m
    <3>1. \A k \in 1..Len(order) : \A m \in Children(pool, order[k]) : \E l \in 1..(k - 1) : order[l] = m
      BY DEF ChildrenInv
    <3>2. order' = order /\ pool' = pool
      BY <1>1, <1>2
    <3> QED
      BY <3>1, <3>2
  <2> QED
    BY <2>1, <2>2 DEF ChildrenInv, N
<1>14. ReachedInv'
  <2>1. \A S : ClosedUnderChildren(S)' <=> ClosedUnderChildren(S)
    BY <1>2 DEF ClosedUnderChildren, Children
  <2> SUFFICES ASSUME NEW S, ClosedUnderChildren(S)
               PROVE  visited' \subseteq S /\ \A i \in 1..N : stk'[i].id \in S
    BY <2>1 DEF ReachedInv, N
  <2>2. visited \subseteq S /\ \A i \in 1..n : stk[i].id \in S
    BY DEF ReachedInv, n
  <2>3. t \in S /\ Children(pool, t) \subseteq S
    BY <1>8, <2>2 DEF ClosedUnderChildren, t
  <2> QED
    BY <1>1, <1>5, <1>7, <2>2, <2>3
<1> QED
  BY <1>10, <1>11, <1>12, <1>13, <1>14

\* The rest of the writer leaves the walk alone.
LEMMA WalkStep ==
    ASSUME BuilderInv, finished, WalkInv, Writer!Next, UNCHANGED vars
    PROVE  WalkInv'
<1>1. CASE Writer!Emit \/ Writer!Skip \/ Writer!Visit
  BY <1>1, EmitStep, SkipStep, VisitStep
<1>2. CASE Writer!Place \/ Writer!WriteHeader \/ Writer!WriteNode \/ Writer!Return
  <2>1. stk' = stk /\ visited' = visited /\ order' = order
    BY <1>2 DEF Writer!Place, Writer!WriteHeader, Writer!WriteNode, Writer!Return
  <2>2. pool' = pool /\ registered' = registered
    BY DEF vars
  <2>3. Canonical' = Canonical /\ \A n : Children(pool', n) = Children(pool, n)
    BY <2>2 DEF Canonical
  <2>4. \A r : RankOn(r)' <=> RankOn(r)
    BY <2>2, <2>3 DEF RankOn
  <2>5. \A S : ClosedUnderChildren(S)' <=> ClosedUnderChildren(S)
    BY <2>2, <2>3 DEF ClosedUnderChildren
  <2>6. WalkTypes' /\ VisitedInv'
    BY <2>1, <2>3 DEF WalkInv, WalkTypes, VisitedInv, RootId
  <2>7. AboveInv' /\ ReachedInv'
    BY <2>1, <2>4, <2>5 DEF WalkInv, AboveInv, ReachedInv
  <2>8. ChildrenInv'
    BY <2>1, <2>2 DEF WalkInv, ChildrenInv
  <2> QED
    BY <2>6, <2>7, <2>8 DEF WalkInv
<1> QED
  BY <1>1, <1>2 DEF Writer!Next

LEMMA ReachedNodes ==
    ASSUME BuilderInv, finished
    PROVE  \E f : /\ f \in [0..Len(pool) -> SUBSET Canonical]
                  /\ f[0] = {RootId}
                  /\ \A k \in 1..Len(pool) :
                         f[k] = f[k - 1] \cup UNION {Children(pool, n) : n \in f[k - 1]}
                  /\ Writer!ReachableNodes = f[Len(pool)]
<1> DEFINE N == Len(pool)
           A == SUBSET Canonical
           step == [ids \in A |-> Writer!Reached(ids)]
           Is(R) == R = [k \in 0..N |-> IF k = 0 THEN {1} ELSE Writer!Reached(R[k - 1])]
           R == CHOOSE R : Is(R)
<1>1. N \in Nat /\ Canonical \subseteq 1..N /\ \A n \in Canonical : Children(pool, n) \subseteq Canonical
  BY CanonicalNodes, PathNodes DEF BuilderInv
<1>2. Writer!ReachableNodes = R[N]
  <2>1. Len(Handed.nodes) = N /\ Handed.root = 1
    <3>1. DOMAIN pool = 1..N /\ N \in Nat
      BY <1>1, PathNodes DEF BuilderInv
    <3> QED
      BY <3>1 DEF Handed
  <2> QED
    BY <2>1 DEF Writer!ReachableNodes
<1>3. ASSUME NEW ids \in A
      PROVE  /\ Writer!Reached(ids) = ids \cup UNION {Children(pool, n) : n \in ids}
             /\ Writer!Reached(ids) \in A
  <2>1. \A n \in ids : n \in 1..N
    BY <1>1
  <2>2. TypeOK
    BY DEF BuilderInv
  <2>3. \A n \in ids : Writer!ToSet(Writer!ChildrenOf(n)) = Children(pool, n)
    BY <2>1, <2>2, HandedNodes
  <2>4. Writer!Reached(ids) = ids \cup UNION {Children(pool, n) : n \in ids}
    BY <2>3 DEF Writer!Reached
  <2> QED
    BY <1>1, <2>4
<1>4. step \in [A -> A] /\ {1} \in A
  BY <1>3 DEF Canonical, RootId
<1> HIDE DEF N, A
<1>5. PICK f : IterOf(f, A, {1}, step, N)
  <2> HIDE DEF step
  <2> QED
    BY <1>1, <1>4, IterExists
<1>6. f \in [0..N -> A] /\ f[0] = {1} /\ \A k \in 1..N : f[k] = step[f[k - 1]]
  BY <1>5 DEF IterOf
<1>7. \A k \in 1..N : k - 1 \in 0..N /\ k \in 0..N /\ k # 0
  BY <1>1
<1>8. \A k \in 1..N : f[k - 1] \in A /\ f[k] = Writer!Reached(f[k - 1])
  BY <1>6, <1>7
<1>9. Is(f)
  <2>1. \A k \in 0..N : f[k] = IF k = 0 THEN {1} ELSE Writer!Reached(f[k - 1])
    BY <1>1, <1>6, <1>8
  <2> QED
    BY <1>6, <2>1
<1>10. Is(R)
  BY <1>9
<1> HIDE DEF R
<1>11. /\ R[0] = {1} /\ R = [k \in 0..N |-> R[k]]
       /\ \A k \in 1..N : R[k] = Writer!Reached(R[k - 1])
  <2>1. 0 \in 0..N
    BY <1>1
  <2>2. \A k \in 0..N : R[k] = IF k = 0 THEN {1} ELSE Writer!Reached(R[k - 1])
    BY <1>10
  <2> QED
    BY <1>7, <1>10, <2>1, <2>2
<1>12. \A k \in 0..N : R[k] = f[k]
  <2> DEFINE Bad == {k \in Nat : k <= N /\ R[k] # f[k]}
  <2> SUFFICES ASSUME Bad # {} PROVE FALSE
    BY <1>1
  <2>1. PICK k \in Bad : \A l \in Bad : k <= l
    <3>1. Bad \in SUBSET Nat
      OBVIOUS
    <3> HIDE DEF Bad
    <3> QED
      BY <3>1, Least
  <2>2. k # 0
    BY <1>6, <1>11
  <2>3. k \in 1..N /\ k - 1 \in Nat /\ k - 1 <= N /\ ~(k <= k - 1)
    BY <1>1, <2>2
  <2>4. R[k - 1] = f[k - 1]
    BY <2>1, <2>3
  <2> QED
    BY <1>8, <1>11, <2>3, <2>4
<1>13. N \in 0..N
  BY <1>1
<1>14. \A k \in 1..N : f[k] = f[k - 1] \cup UNION {Children(pool, n) : n \in f[k - 1]}
  BY <1>3, <1>8
<1> QED
  BY <1>2, <1>6, <1>12, <1>13, <1>14 DEF N, A, RootId

LEMMA OrderIsReachable ==
    ASSUME BuilderInv, finished, WalkInv, stk = << >>
    PROVE  Writer!ToSet(order) = Writer!ReachableNodes
<1> DEFINE N == Len(pool)
           L == Len(order)
           O == {order[k] : k \in 1..L}
<1> USE DEF WalkInv
<1>1. PICK f : /\ f \in [0..N -> SUBSET Canonical]
               /\ f[0] = {RootId}
               /\ \A k \in 1..N : f[k] = f[k - 1] \cup UNION {Children(pool, n) : n \in f[k - 1]}
               /\ Writer!ReachableNodes = f[N]
  BY ReachedNodes
<1>2. N \in Nat /\ Canonical \subseteq 1..N
  BY CanonicalNodes, PathNodes DEF BuilderInv
<1>3. /\ order \in Seq(visited) /\ L \in Nat /\ visited \subseteq Canonical
      /\ \A k \in 1..L : order[k] \in visited
  BY DEF WalkTypes
<1>4. Writer!ToSet(order) = O
  BY <1>3 DEF Writer!ToSet
<1>5. visited = O /\ RootId \in O
  <2>1. 1..Len(stk) = {}
    OBVIOUS
  <2>2. \A n \in visited : \E i \in 1..L : order[i] = n
    BY <2>1 DEF VisitedInv
  <2>3. RootId \in visited
    BY <2>1 DEF VisitedInv
  <2> QED
    BY <1>3, <2>2, <2>3
<1>6. \A k \in 1..L : \A m \in Children(pool, order[k]) : \E l \in 1..(k - 1) : order[l] = m
  BY DEF ChildrenInv
<1>7. \A S : ClosedUnderChildren(S) => visited \subseteq S
  BY DEF ReachedInv
<1>8. \A i, j \in 1..L : order[i] = order[j] => i = j
  BY DEF VisitedInv
<1> HIDE DEF N, L, O
<1>9. \A k \in 0..N : f[k] \subseteq O
  <2> DEFINE Bad == {k \in Nat : k <= N /\ ~(f[k] \subseteq O)}
  <2> SUFFICES ASSUME Bad # {} PROVE FALSE
    BY <1>2
  <2>1. PICK k \in Bad : \A l \in Bad : k <= l
    <3>1. Bad \in SUBSET Nat
      OBVIOUS
    <3> HIDE DEF Bad
    <3> QED
      BY <3>1, Least
  <2>2. k # 0
    BY <1>1, <1>5
  <2>3. k \in 1..N /\ k - 1 \in Nat /\ k - 1 <= N /\ ~(k <= k - 1)
    BY <1>2, <2>2
  <2>4. f[k - 1] \subseteq O
    BY <2>1, <2>3
  <2>5. \A n \in O : Children(pool, n) \subseteq O
    <3> SUFFICES ASSUME NEW i \in 1..L, NEW m \in Children(pool, order[i]) PROVE m \in O
      BY DEF O
    <3>1. PICK l \in 1..(i - 1) : order[l] = m
      BY <1>6
    <3>2. l \in 1..L
      BY <1>3
    <3> QED
      BY <3>1, <3>2 DEF O
  <2> QED
    BY <1>1, <2>3, <2>4, <2>5
<1>10. L <= N
  <2>1. order \in [1..L -> 1..N]
    <3>1. order = [k \in 1..L |-> order[k]]
      BY <1>3 DEF L
    <3>2. \A k \in 1..L : order[k] \in 1..N
      BY <1>2, <1>3
    <3> QED
      BY <3>1, <3>2
  <2>2. order \in Injection(1..L, 1..N)
    BY <1>8, <2>1, Fun_IsInj
  <2>3. IsFiniteSet(1..N) /\ Cardinality(1..N) = N /\ Cardinality(1..L) = L /\ IsFiniteSet(1..L)
    BY <1>2, <1>3, FS_Interval
  <2>4. Cardinality(1..L) <= Cardinality(1..N)
    BY <2>2, <2>3, FS_Injection
  <2> QED
    BY <2>3, <2>4
<1>11. \A k \in 1..N : f[k - 1] \subseteq f[k]
  BY <1>1
<1>12. \A l \in 0..N : \A k \in 0..l : f[k] \subseteq f[l]
  <2> DEFINE Bad == {l \in Nat : l <= N /\ \E k \in 0..l : ~(f[k] \subseteq f[l])}
  <2> SUFFICES ASSUME Bad # {} PROVE FALSE
    BY <1>2
  <2>1. PICK l \in Bad : \A j \in Bad : l <= j
    <3>1. Bad \in SUBSET Nat
      OBVIOUS
    <3> HIDE DEF Bad
    <3> QED
      BY <3>1, Least
  <2>2. PICK k \in 0..l : ~(f[k] \subseteq f[l])
    OBVIOUS
  <2>3. k # l
    BY <2>2
  <2>4. l \in Nat /\ l <= N /\ l - 1 \in Nat /\ l - 1 <= N /\ ~(l <= l - 1) /\ k \in 0..(l - 1) /\ l \in 1..N
    BY <1>2, <2>3
  <2>5. f[k] \subseteq f[l - 1]
    BY <2>1, <2>4
  <2> QED
    BY <1>11, <2>2, <2>4, <2>5
<1> DEFINE S == {n \in O : \E k \in 1..L : order[k] = n /\ n \in f[L - k]}
<1>13. ClosedUnderChildren(S)
  <2>1. RootId \in S
    <3>1. PICK k \in 1..L : order[k] = RootId
      BY <1>5 DEF O
    <3>2. L - k \in 0..N /\ 0 \in 0..(L - k)
      BY <1>2, <1>3, <1>10
    <3>3. RootId \in f[L - k]
      BY <1>1, <1>12, <3>2
    <3> QED
      BY <1>5, <3>1, <3>3
  <2>2. ASSUME NEW n \in S, NEW m \in Children(pool, n) PROVE m \in S
    <3>1. PICK k \in 1..L : order[k] = n /\ n \in f[L - k]
      OBVIOUS
    <3>2. PICK l \in 1..(k - 1) : order[l] = m
      BY <1>6, <3>1
    <3>3. /\ l \in 1..L /\ (L - k) + 1 \in 1..N /\ ((L - k) + 1) - 1 = L - k
          /\ L - l \in 0..N /\ (L - k) + 1 \in 0..(L - l)
      BY <1>2, <1>3, <1>10
    <3>4. m \in f[(L - k) + 1]
      BY <1>1, <3>1, <3>3
    <3>5. m \in f[L - l]
      BY <1>12, <3>3, <3>4
    <3>6. m \in O
      BY <3>2, <3>3 DEF O
    <3> QED
      BY <3>2, <3>3, <3>5, <3>6
  <2> HIDE DEF S
  <2> QED
    BY <2>1, <2>2 DEF ClosedUnderChildren
<1>14. O \subseteq f[N]
  <2>1. visited \subseteq S
    <3> HIDE DEF S
    <3> QED
      BY <1>7, <1>13
  <2> SUFFICES ASSUME NEW n \in O PROVE n \in f[N]
    OBVIOUS
  <2>2. PICK k \in 1..L : n \in f[L - k]
    BY <1>5, <2>1
  <2>3. L - k \in 0..N /\ N \in 0..N
    BY <1>2, <1>3, <1>10
  <2> QED
    BY <1>12, <2>2, <2>3
<1>15. f[N] \subseteq O
  <2>1. N \in 0..N
    BY <1>2
  <2> QED
    BY <1>9, <2>1
<1> QED
  BY <1>1, <1>4, <1>14, <1>15

LEMMA WalkOrders ==
    ASSUME BuilderInv, WalkInv, ~finished => stk # << >> /\ order = << >>
    PROVE  ChildrenFirst
<1> USE DEF WalkInv
<1>1. /\ order \in Seq(visited) /\ Len(order) \in Nat /\ DOMAIN order = 1..Len(order)
      /\ visited \subseteq Canonical /\ \A i \in 1..Len(order) : order[i] \in visited
  BY DEF WalkTypes
<1>2. \A i, j \in DOMAIN order : order[i] = order[j] => i = j
  BY <1>1 DEF VisitedInv
<1>3. ASSUME NEW i \in DOMAIN order
      PROVE  Writer!ToSet(Writer!ChildrenOf(order[i])) \subseteq Writer!ToSet(SubSeq(order, 1, i - 1))
  <2>1. i \in 1..Len(order) /\ order[i] \in 1..Len(pool)
    BY <1>1, CanonicalNodes
  <2>2. TypeOK
    BY DEF BuilderInv
  <2>3. Writer!ToSet(Writer!ChildrenOf(order[i])) = Children(pool, order[i])
    BY <2>1, <2>2, HandedNodes
  <2>4. \A m \in Children(pool, order[i]) : \E l \in 1..(i - 1) : order[l] = m
    BY <2>1 DEF ChildrenInv
  <2>5. PICK s : s = SubSeq(order, 1, i - 1)
    OBVIOUS
  <2>6. Len(s) = i - 1 /\ DOMAIN s = 1..(i - 1) /\ \A l \in 1..(i - 1) : s[l] = order[l]
    <3>1. i - 1 \in Nat /\ i - 1 <= Len(order)
      BY <1>1
    <3>2. \A l \in 1..(i - 1) : order[l] \in visited
      BY <1>1, <2>1
    <3>3. /\ s \in Seq(visited) /\ Len(s) = i - 1
          /\ \A l \in 1..(i - 1) : s[l] = order[1 + l - 1]
      BY <1>1, <2>5, <3>1, <3>2, SubSeqProperties, 1 \in Int, i - 1 \in Int
    <3>4. \A l \in 1..(i - 1) : 1 + l - 1 = l
      OBVIOUS
    <3> QED
      BY <3>1, <3>3, <3>4
  <2>7. Writer!ToSet(s) = {order[l] : l \in 1..(i - 1)}
    BY <2>6 DEF Writer!ToSet
  <2> QED
    BY <2>3, <2>4, <2>5, <2>7
<1>4. stk = << >> => Writer!ToSet(order) = Writer!ReachableNodes
  BY OrderIsReachable
<1> QED
  BY <1>2, <1>3, <1>4 DEF ChildrenFirst, Writer!ChildrenFirst
----------------------------------------------------------------------------
(* The cells of a node.                                                     *)

PairsUpTo(t, S, a, b, k) ==
    /\ t \in Seq(S)
    /\ Len(t) = 2 * k
    /\ \A i \in 1..k : t[2 * i - 1] = a[i] /\ t[2 * i] = b[i]

LEMMA PairAppended ==
    ASSUME NEW S, NEW k \in Nat, NEW a, NEW b, NEW t, PairsUpTo(t, S, a, b, k),
           a[k + 1] \in S, b[k + 1] \in S
    PROVE  PairsUpTo(t \o <<a[k + 1], b[k + 1]>>, S, a, b, k + 1)
<1>1. /\ t \in Seq(S) /\ Len(t) = 2 * k
      /\ \A i \in 1..k : t[2 * i - 1] = a[i] /\ t[2 * i] = b[i]
  BY DEF PairsUpTo
<1>2. PICK s : s = <<a[k + 1], b[k + 1]>>
  OBVIOUS
<1>3. s \in Seq(S) /\ Len(s) = 2 /\ s[1] = a[k + 1] /\ s[2] = b[k + 1]
  BY <1>2
<1>4. PICK u : u = t \o s
  OBVIOUS
<1>5. /\ u \in Seq(S) /\ Len(u) = 2 * k + 2
      /\ \A i \in 1..(2 * k) : u[i] = t[i]
      /\ u[2 * k + 1] = s[1] /\ u[2 * k + 2] = s[2]
  <2>1. /\ u \in Seq(S) /\ Len(u) = Len(t) + Len(s)
        /\ \A i \in 1..Len(t) : u[i] = t[i]
        /\ \A l \in 1..Len(s) : u[Len(t) + l] = s[l]
    <3>1. t \in Seq(S) /\ s \in Seq(S)
      BY <1>1, <1>3
    <3> QED
      BY <1>4, <3>1, Joined
  <2>2. 1 \in 1..Len(s) /\ 2 \in 1..Len(s)
    BY <1>3
  <2> QED
    BY <1>1, <1>3, <2>1, <2>2
<1>6. ASSUME NEW i \in 1..(k + 1) PROVE u[2 * i - 1] = a[i] /\ u[2 * i] = b[i]
  <2>1. CASE i = k + 1
    BY <1>3, <1>5, <2>1
  <2>2. CASE i \in 1..k
    <3>1. 2 * i - 1 \in 1..(2 * k) /\ 2 * i \in 1..(2 * k)
      BY <2>2
    <3> QED
      BY <1>1, <1>5, <2>2, <3>1
  <2> QED
    BY <2>1, <2>2
<1>7. Len(u) = 2 * (k + 1)
  BY <1>5
<1> QED
  BY <1>2, <1>4, <1>5, <1>6, <1>7 DEF PairsUpTo

LEMMA FlattenedPairs ==
    ASSUME NEW S, NEW m \in Nat, NEW a \in [1..m -> S], NEW b \in [1..m -> S],
           NEW seqs, seqs = [i \in 1..m |-> <<a[i], b[i]>>]
    PROVE  PairsUpTo(Writer!FlattenSeq(seqs), S, a, b, m)
<1> DEFINE A == Seq(S)
           X == S \X S
           step == [c \in A \X X |-> c[1] \o c[2]]
           Is(F) == F = [i \in 1..m |-> IF i = 1 THEN seqs[i] ELSE F[i - 1] \o seqs[i]]
           F == CHOOSE F : Is(F)
<1>1. Len(seqs) = m /\ seqs \in [1..m -> X] /\ \A i \in 1..m : seqs[i] = <<a[i], b[i]>>
  OBVIOUS
<1>2. CASE m = 0
  <2>1. seqs = << >>
    BY <1>1, <1>2
  <2>2. Writer!FlattenSeq(seqs) = << >>
    BY <1>1, <1>2, <2>1 DEF Writer!FlattenSeq
  <2>3. PairsUpTo(<< >>, S, a, b, 0)
    BY DEF PairsUpTo
  <2> QED
    BY <1>2, <2>2, <2>3
<1>3. CASE m # 0
  <2>1. Writer!FlattenSeq(seqs) = F[m]
    BY <1>1, <1>3 DEF Writer!FlattenSeq
  <2>2. \A x \in X : x \in Seq(S)
    <3> SUFFICES ASSUME NEW x \in S \X S PROVE x \in Seq(S)
      OBVIOUS
    <3>1. PICK c \in S, d \in S : x = <<c, d>>
      OBVIOUS
    <3> QED
      BY <3>1
  <2>3. step \in [A \X X -> A] /\ \A c \in A, x \in X : step[<<c, x>>] = c \o x
    <3>1. \A c \in A, x \in X : c \o x \in A
      BY <2>2
    <3>2. \A p \in A \X X : p[1] \in A /\ p[2] \in X
      OBVIOUS
    <3> QED
      BY <3>1, <3>2
  <2>4. << >> \in A
    OBVIOUS
  <2> HIDE DEF step, X, A
  <2>5. PICK f : FoldOf(f, A, << >>, step, m, seqs)
    BY <1>1, <2>3, <2>4, FoldExists
  <2>6. f \in [SUBSET (1..m) -> A] /\ \A s \in SUBSET (1..m) :
            f[s] = IF s = {} THEN << >> ELSE step[<<f[s \ {Greatest(s)}], seqs[Greatest(s)]>>]
    BY <2>5 DEF FoldOf
  <2> DEFINE g == [i \in 0..m |-> f[1..i]]
  <2>7. g[0] = << >>
    <3>1. 0 \in 0..m /\ 1..0 = {} /\ {} \in SUBSET (1..m)
      OBVIOUS
    <3> QED
      BY <2>6, <3>1
  <2>8. \A i \in 0..m : g[i] \in A
    BY <2>6
  <2>9. ASSUME NEW i \in 1..m PROVE g[i] = g[i - 1] \o seqs[i]
    <3>1. i \in Nat \ {0} /\ i \in 0..m /\ i - 1 \in 0..m /\ 1..i \in SUBSET (1..m)
      OBVIOUS
    <3>2. 1..i # {} /\ Greatest(1..i) = i /\ (1..i) \ {i} = 1..(i - 1)
      BY <3>1, FoldedSegments
    <3>3. f[1..i] = step[<<f[1..(i - 1)], seqs[i]>>]
      BY <2>6, <3>1, <3>2
    <3>4. g[i] = step[<<g[i - 1], seqs[i]>>]
      BY <3>1, <3>3
    <3> QED
      BY <1>1, <2>3, <2>8, <3>1, <3>4
  <2> HIDE DEF g
  <2>10. Is([i \in 1..m |-> g[i]])
    <3> DEFINE h == [i \in 1..m |-> g[i]]
    <3>1. ASSUME NEW i \in 1..m
          PROVE  h[i] = IF i = 1 THEN seqs[i] ELSE h[i - 1] \o seqs[i]
      <4>1. CASE i = 1
        <5>1. g[1] = << >> \o seqs[1]
          <6>1. 1 \in 1..m /\ 1 - 1 = 0
            BY <1>3
          <6> QED
            BY <2>7, <2>9, <6>1
        <5>2. seqs[1] \in Seq(S)
          BY <1>1, <2>2, <4>1
        <5>3. << >> \o seqs[1] = seqs[1]
          BY <5>2
        <5> QED
          BY <4>1, <5>1, <5>3
      <4>2. CASE i # 1
        <5>1. i - 1 \in 1..m
          BY <4>2
        <5> QED
          BY <2>9, <4>2, <5>1
      <4> QED
        BY <4>1, <4>2
    <3> QED
      BY <3>1
  <2>11. Is(F)
    BY <2>10
  <2> HIDE DEF F
  <2>12. \A i \in 1..m : F[i] = IF i = 1 THEN seqs[i] ELSE F[i - 1] \o seqs[i]
    BY <2>11
  <2> DEFINE Bad == {i \in Nat : i \in 1..m /\ ~PairsUpTo(F[i], S, a, b, i)}
  <2>13. Bad = {}
    <3> SUFFICES ASSUME Bad # {} PROVE FALSE
      OBVIOUS
    <3>1. PICK i \in Bad : \A l \in Bad : i <= l
      <4>1. Bad \in SUBSET Nat
        OBVIOUS
      <4> HIDE DEF Bad
      <4> QED
        BY <4>1, Least
    <3>2. PairsUpTo(<< >>, S, a, b, 0)
      BY DEF PairsUpTo
    <3>3. CASE i = 1
      <4>1. a[0 + 1] \in S /\ b[0 + 1] \in S /\ 0 \in Nat /\ 0 + 1 = 1
        BY <1>3
      <4>2. PairsUpTo(<< >> \o <<a[1], b[1]>>, S, a, b, 1)
        BY <3>2, <4>1, PairAppended
      <4>3. << >> \o <<a[1], b[1]>> = <<a[1], b[1]>>
        BY <4>1
      <4>4. F[1] = <<a[1], b[1]>>
        BY <1>1, <1>3, <2>12
      <4> QED
        BY <3>3, <4>2, <4>3, <4>4
    <3>4. CASE i # 1
      <4>1. i - 1 \in Nat /\ i - 1 \in 1..m /\ (i - 1) + 1 = i /\ ~(i <= i - 1)
        BY <3>4
      <4>2. PairsUpTo(F[i - 1], S, a, b, i - 1)
        BY <3>1, <4>1
      <4>3. a[i] \in S /\ b[i] \in S
        OBVIOUS
      <4>4. PairsUpTo(F[i - 1] \o <<a[i], b[i]>>, S, a, b, i)
        <5>1. PairsUpTo(F[i - 1] \o <<a[(i - 1) + 1], b[(i - 1) + 1]>>, S, a, b, (i - 1) + 1)
          <6>1. a[(i - 1) + 1] \in S /\ b[(i - 1) + 1] \in S
            BY <4>1, <4>3
          <6> HIDE DEF Bad
          <6> QED
            BY <4>1, <4>2, <6>1, PairAppended
        <5> QED
          BY <4>1, <5>1
      <4>5. F[i] = F[i - 1] \o <<a[i], b[i]>>
        BY <1>1, <2>12, <3>4
      <4> QED
        BY <4>4, <4>5
    <3> QED
      BY <3>3, <3>4
  <2>14. m \in 1..m
    BY <1>3
  <2>15. PairsUpTo(F[m], S, a, b, m)
    BY <2>13, <2>14
  <2> QED
    BY <2>1, <2>15
<1> QED
  BY <1>2, <1>3

CellType == Nat \cup [final : BOOLEAN, count : Nat]

\* What the writer writes for a node.
CellsFor(n) == Writer!HeadCells(n) \o Writer!TransitionCells(n)

\* One cell or two, for the count.
HeadSize(n) == IF Len(pool[n].trans) >= Escape THEN 2 ELSE 1

IsNodeCells(cells, n) ==
    LET k == Len(pool[n].trans)
        h == HeadSize(n)
    IN  /\ cells \in Seq(CellType)
        /\ Len(cells) = h + 2 * k
        /\ cells[1] = [final |-> pool[n].final, count |-> IF k >= Escape THEN Escape ELSE k]
        /\ k >= Escape => cells[2] = k - Escape
        /\ \A i \in 1..k : /\ cells[h + (2 * i - 1)] = pool[n].trans[i].label
                           /\ cells[h + 2 * i] = offsets[pool[n].trans[i].child]

LEMMA CellCounts ==
    ASSUME TypeOK, NEW n \in 1..Len(pool)
    PROVE  /\ Writer!CellsOf(n) = HeadSize(n) + 2 * Len(pool[n].trans)
           /\ Writer!CellsOf(n) \in Nat \ {0}
<1>1. Writer!Node(n).transitions = pool[n].trans /\ Len(pool[n].trans) \in Nat
  BY HandedNodes
<1>2. Writer!CellsOf(n) = HeadSize(n) + 2 * Len(pool[n].trans)
  BY <1>1 DEF Writer!CellsOf, HeadSize
<1>3. HeadSize(n) \in {1, 2}
  BY DEF HeadSize
<1> QED
  BY <1>1, <1>2, <1>3

LEMMA NodeCells ==
    ASSUME TypeOK, NEW n \in 1..Len(pool), \A m \in Children(pool, n) : offsets[m] \in Nat
    PROVE  IsNodeCells(CellsFor(n), n)
<1> DEFINE k == Len(pool[n].trans)
           h == HeadSize(n)
           a == [i \in 1..k |-> pool[n].trans[i].label]
           b == [i \in 1..k |-> offsets[pool[n].trans[i].child]]
           head == Writer!HeadCells(n)
           tail == Writer!TransitionCells(n)
<1>1. /\ Writer!Node(n).transitions = pool[n].trans /\ Writer!Node(n).final = pool[n].final
      /\ k \in Nat
  BY HandedNodes
<1>2. pool[n] \in Node /\ pool[n].trans \in Seq(Transition) /\ DOMAIN pool[n].trans = 1..k
  <2>1. pool[n] \in Node
    BY DEF TypeOK
  <2>2. pool[n].trans \in Seq(Transition)
    BY <2>1 DEF Node
  <2> QED
    BY <2>1, <2>2
<1>3. pool[n].final \in BOOLEAN
  BY <1>2 DEF Node
<1>4. \A i \in 1..k : pool[n].trans[i].label \in Nat /\ offsets[pool[n].trans[i].child] \in Nat
  <2> SUFFICES ASSUME NEW i \in 1..k
               PROVE  pool[n].trans[i].label \in Nat /\ offsets[pool[n].trans[i].child] \in Nat
    OBVIOUS
  <2>1. pool[n].trans[i] \in Transition
    BY <1>2
  <2>2. pool[n].trans[i].label \in Labels
    BY <2>1 DEF Transition
  <2>3. pool[n].trans[i].child \in Children(pool, n)
    BY DEF Children
  <2> QED
    BY <2>2, <2>3, LabelsAssumption
<1>5. a \in [1..k -> Nat] /\ b \in [1..k -> Nat]
  BY <1>4
<1>6. PICK seqs : seqs = [i \in 1..k |-> <<a[i], b[i]>>]
  OBVIOUS
<1>7. tail = Writer!FlattenSeq(seqs)
  BY <1>1, <1>2, <1>6 DEF Writer!TransitionCells
<1> HIDE DEF tail
<1>8. PairsUpTo(tail, Nat, a, b, k)
  <2> HIDE DEF a, b, k
  <2> QED
    BY <1>1, <1>5, <1>6, <1>7, FlattenedPairs
<1>9. \A i \in 1..k : a[i] = pool[n].trans[i].label /\ b[i] = offsets[pool[n].trans[i].child]
  OBVIOUS
<1> HIDE DEF a, b
<1>10. /\ tail \in Seq(Nat) /\ Len(tail) = 2 * k
       /\ \A i \in 1..k : tail[2 * i - 1] = a[i] /\ tail[2 * i] = b[i]
  BY <1>8 DEF PairsUpTo
<1>11. tail \in Seq(CellType)
  <2>1. tail \in [1..(2 * k) -> Nat]
    BY <1>1, <1>10
  <2>2. tail \in [1..(2 * k) -> CellType]
    BY <2>1 DEF CellType
  <2> QED
    BY <1>1, <2>2
<1>12. PICK e : e = [final |-> pool[n].final, count |-> IF k >= Escape THEN Escape ELSE k]
  OBVIOUS
<1>13. e \in CellType
  BY <1>1, <1>3, <1>12, EscapeAssumption DEF CellType
<1>14. head = IF k >= Escape THEN <<e, k - Escape>> ELSE <<e>>
  <2>1. CASE k >= Escape
    BY <1>1, <1>12, <2>1, EscapeAssumption DEF Writer!HeadCells
  <2>2. CASE ~(k >= Escape)
    BY <1>1, <1>12, <2>2, EscapeAssumption DEF Writer!HeadCells
  <2> QED
    BY <2>1, <2>2
<1> HIDE DEF head
<1>15. head \in Seq(CellType) /\ Len(head) = h /\ head[1] = e /\ (k >= Escape => head[2] = k - Escape)
  <2>1. CASE k >= Escape
    <3>1. k - Escape \in Nat
      BY <1>1, <2>1, EscapeAssumption
    <3>2. k - Escape \in CellType
      BY <3>1 DEF CellType
    <3> QED
      BY <1>13, <1>14, <2>1, <3>2 DEF HeadSize
  <2>2. CASE ~(k >= Escape)
    BY <1>13, <1>14, <2>2 DEF HeadSize
  <2> QED
    BY <2>1, <2>2
<1>16. h \in {1, 2} /\ (k >= Escape => h = 2)
  BY DEF HeadSize
<1> HIDE DEF h, k
<1>17. PICK cells : cells = head \o tail
  OBVIOUS
<1>18. /\ cells \in Seq(CellType) /\ Len(cells) = h + 2 * k
       /\ \A i \in 1..h : cells[i] = head[i]
       /\ \A i \in 1..(2 * k) : cells[h + i] = tail[i]
  <2>1. head \in Seq(CellType) /\ tail \in Seq(CellType)
    BY <1>11, <1>15
  <2>2. /\ head \o tail \in Seq(CellType) /\ Len(head \o tail) = Len(head) + Len(tail)
        /\ \A i \in 1..Len(head) : (head \o tail)[i] = head[i]
        /\ \A i \in 1..Len(tail) : (head \o tail)[Len(head) + i] = tail[i]
    BY <2>1, Joined
  <2>3. Len(head) = h /\ Len(tail) = 2 * k
    BY <1>10, <1>15
  <2> QED
    BY <1>17, <2>2, <2>3
<1>19. cells[1] = e /\ (k >= Escape => cells[2] = k - Escape)
  <2>1. 1 \in 1..h /\ (k >= Escape => 2 \in 1..h)
    BY <1>16
  <2> QED
    BY <1>15, <1>18, <2>1
<1>20. ASSUME NEW i \in 1..k
       PROVE  /\ cells[h + (2 * i - 1)] = pool[n].trans[i].label
              /\ cells[h + 2 * i] = offsets[pool[n].trans[i].child]
  <2>1. 2 * i - 1 \in 1..(2 * k) /\ 2 * i \in 1..(2 * k)
    BY <1>1
  <2>2. cells[h + (2 * i - 1)] = tail[2 * i - 1] /\ cells[h + 2 * i] = tail[2 * i]
    BY <1>18, <2>1
  <2> QED
    BY <1>9, <1>10, <2>2
<1>21. IsNodeCells(cells, n)
  BY <1>12, <1>18, <1>19, <1>20 DEF IsNodeCells, h, k
<1> QED
  BY <1>17, <1>21 DEF CellsFor, head, tail
----------------------------------------------------------------------------
(* Where the nodes are laid out, and what is written there.                 *)

\* The first P nodes of the order have their places, one behind the other.
LaidOut(P) ==
    /\ P \in 0..Len(order)
    /\ offsets \in [{order[k] : k \in 1..P} -> Nat]
    /\ \A j, k \in 1..P : j < k => offsets[order[j]] + Writer!CellsOf(order[j]) <= offsets[order[k]]
    /\ \A k \in 1..P : offsets[order[k]] + Writer!CellsOf(order[k]) <= writePos
    /\ stk # << >> => P = 0
    /\ writerPhase # "walk" => stk = << >> /\ P = Len(order)

\* The data has the node, where it belongs.
Holds(n) ==
    LET k == Len(pool[n].trans)
        h == HeadSize(n)
        at == offsets[n]
    IN  /\ data[at + 1] = [final |-> pool[n].final, count |-> IF k >= Escape THEN Escape ELSE k]
        /\ k >= Escape => data[at + 2] = k - Escape
        /\ \A i \in 1..k : /\ data[at + (h + (2 * i - 1))] = pool[n].trans[i].label
                           /\ data[at + (h + 2 * i)] = offsets[pool[n].trans[i].child]

WrittenInv ==
    /\ writerPhase \in {"walk", "write", "returned"}
    /\ writerPhase = "walk" => data = << >> /\ written = 0
    /\ writerPhase # "walk" =>
           /\ data \in [1..writePos -> CellType]
           /\ written \in 0..Len(order)
           /\ header.root = offsets[RootId] /\ header.nodes = Len(order)
    /\ writerPhase = "returned" => written = Len(order)
    /\ \A k \in 1..written : Holds(order[k])

LayoutInv == writePos \in Nat /\ (\E P \in Nat : LaidOut(P)) /\ WrittenInv

\* The writer has not begun.
Unwritten ==
    /\ stk = <<Writer!Frame(1)>> /\ visited = {} /\ order = << >> /\ offsets = << >>
    /\ writePos = 0 /\ data = << >> /\ written = 0 /\ writerPhase = "walk"

LEMMA LayoutFresh == Unwritten => LayoutInv
<1> SUFFICES ASSUME order = << >>, offsets = << >>, writePos = 0,
                    data = << >>, written = 0, writerPhase = "walk", stk # << >>
             PROVE  LayoutInv
  BY DEF Unwritten
<1>1. LaidOut(0)
  <2>1. {order[k] : k \in 1..0} = {} /\ 1..0 = {}
    OBVIOUS
  <2>2. << >> \in [{} -> Nat]
    OBVIOUS
  <2> QED
    BY <2>1, <2>2 DEF LaidOut
<1>2. WrittenInv
  BY DEF WrittenInv
<1>3. 0 \in Nat
  OBVIOUS
<1> QED
  BY <1>1, <1>2, <1>3 DEF LayoutInv

\* While the walk goes on, nothing is placed.
LEMMA LayoutWaits ==
    ASSUME LayoutInv, stk # << >>, writerPhase = "walk", Len(order') \in Nat,
           UNCHANGED <<offsets, writePos, data, written, header, writerPhase>>
    PROVE  LayoutInv'
<1> USE DEF LayoutInv
<1>1. PICK P \in Nat : LaidOut(P)
  OBVIOUS
<1>2. P = 0
  BY <1>1 DEF LaidOut
<1>3. offsets \in [{} -> Nat]
  <2>1. {order[k] : k \in 1..0} = {}
    OBVIOUS
  <2> QED
    BY <1>1, <1>2, <2>1 DEF LaidOut
<1>4. LaidOut(0)'
  <2>1. {order'[k] : k \in 1..0} = {} /\ 1..0 = {}
    OBVIOUS
  <2>2. offsets' \in [{} -> Nat]
    BY <1>3
  <2> QED
    BY <2>1, <2>2 DEF LaidOut
<1>5. written' = 0 /\ data' = << >> /\ writerPhase' = "walk"
  BY DEF WrittenInv
<1>6. WrittenInv'
  BY <1>5 DEF WrittenInv
<1>7. 0 \in Nat
  OBVIOUS
<1> QED
  BY <1>4, <1>6, <1>7

LEMMA PlacedNodes ==
    ASSUME WalkInv, NEW P \in Nat, LaidOut(P)
    PROVE  Writer!Placed = P
<1> DEFINE S == {order[k] : k \in 1..P}
           f == [k \in 1..P |-> order[k]]
<1>1. P <= Len(order) /\ Len(order) \in Nat /\ DOMAIN offsets = S
  BY DEF LaidOut, WalkInv, WalkTypes
<1>2. \A i, j \in 1..Len(order) : order[i] = order[j] => i = j
  BY DEF WalkInv, VisitedInv
<1>3. f \in [1..P -> S] /\ \A k \in 1..P : f[k] = order[k] /\ k \in 1..Len(order)
  BY <1>1
<1>4. \A i, j \in 1..P : f[i] = f[j] => i = j
  BY <1>2, <1>3
<1>5. \A y \in S : \E k \in 1..P : f[k] = y
  OBVIOUS
<1> HIDE DEF f, S
<1>6. f \in Injection(1..P, S) /\ f \in Surjection(1..P, S)
  BY <1>3, <1>4, <1>5, Fun_IsInj, Fun_IsSurj
<1>7. IsFiniteSet(1..P) /\ Cardinality(1..P) = P
  BY FS_Interval
<1>8. IsFiniteSet(S) /\ Cardinality(S) <= P
  BY <1>6, <1>7, FS_Surjection
<1>9. P <= Cardinality(S)
  BY <1>6, <1>7, <1>8, FS_Injection
<1>10. Cardinality(S) = P
  <2>1. Cardinality(S) \in Nat
    BY <1>8, FS_CardinalityType
  <2> QED
    BY <1>8, <1>9, <2>1
<1>11. Writer!Cardinality(S) = Cardinality(S)
  BY DEF Writer!Cardinality, Cardinality
<1> QED
  BY <1>1, <1>10, <1>11 DEF Writer!Placed

LEMMA CellsKept ==
    ASSUME pool' = pool, order' = order
    PROVE  \A k : Writer!CellsOf(order[k])' = Writer!CellsOf(order[k])
<1>1. Handed' = Handed
  BY DEF Handed
<1> QED
  BY <1>1 DEF Writer!CellsOf, Writer!Node

\* A node of the order has its own place.
LEMMA PlaceStep ==
    ASSUME BuilderInv, WalkInv, LayoutInv, Writer!Place, UNCHANGED vars
    PROVE  LayoutInv'
<1> USE DEF LayoutInv
<1>1. PICK P \in Nat : LaidOut(P)
  OBVIOUS
<1>2. /\ writerPhase = "walk" /\ stk = << >> /\ P < Len(order)
      /\ stk' = stk /\ order' = order /\ data' = data /\ written' = written
      /\ header' = header /\ writerPhase' = writerPhase
  BY <1>1, PlacedNodes DEF Writer!Place
<1>3. PICK id : id = order[P + 1]
  OBVIOUS
<1>4. /\ offsets' = [n \in DOMAIN offsets \cup {id} |-> IF n = id THEN writePos ELSE offsets[n]]
      /\ writePos' = writePos + Writer!CellsOf(id)
  BY <1>1, <1>3, PlacedNodes DEF Writer!Place
<1>5. /\ order \in Seq(visited) /\ Len(order) \in Nat /\ P + 1 \in 1..Len(order)
      /\ \A k \in 1..Len(order) : order[k] \in 1..Len(pool)
  <2>1. order \in Seq(visited) /\ visited \subseteq 1..Len(pool)
    BY CanonicalNodes DEF WalkInv, WalkTypes
  <2>2. Len(order) \in Nat /\ \A k \in 1..Len(order) : order[k] \in visited
    BY <2>1
  <2>3. P + 1 \in 1..Len(order)
    BY <1>2, <2>2
  <2> QED
    BY <2>1, <2>2, <2>3
<1>6. \A k \in 1..Len(order) : Writer!CellsOf(order[k]) \in Nat
  <2>1. TypeOK
    BY DEF BuilderInv
  <2> QED
    BY <1>5, <2>1, CellCounts
<1>7. \A i, j \in 1..Len(order) : order[i] = order[j] => i = j
  BY DEF WalkInv, VisitedInv
<1> DEFINE S == {order[k] : k \in 1..P}
           T == {order[k] : k \in 1..(P + 1)}
<1>8. /\ offsets \in [S -> Nat]
      /\ \A j, k \in 1..P : j < k => offsets[order[j]] + Writer!CellsOf(order[j]) <= offsets[order[k]]
      /\ \A k \in 1..P : offsets[order[k]] + Writer!CellsOf(order[k]) <= writePos
  BY <1>1 DEF LaidOut
<1>9. \A k \in 1..(P + 1) : k \in 1..P \/ k = P + 1
  OBVIOUS
<1>10. \A k \in 1..P : k \in 1..Len(order) /\ order[k] # id /\ order[k] \in S /\ order[k] \in T
  <2> SUFFICES ASSUME NEW k \in 1..P
               PROVE  k \in 1..Len(order) /\ order[k] # id /\ order[k] \in S /\ order[k] \in T
    OBVIOUS
  <2>1. k \in 1..Len(order) /\ k # P + 1 /\ k \in 1..(P + 1)
    BY <1>5
  <2>2. order[k] # id
    BY <1>3, <1>5, <1>7, <2>1
  <2> QED
    BY <2>1, <2>2
<1>11. T = S \cup {id} /\ DOMAIN offsets = S
  <2>1. id \in T /\ S \subseteq T
    <3>1. P + 1 \in 1..(P + 1)
      OBVIOUS
    <3> QED
      BY <1>3, <1>10, <3>1
  <2>2. T \subseteq S \cup {id}
    BY <1>3, <1>9
  <2> QED
    BY <1>8, <2>1, <2>2
<1> HIDE DEF S, T
<1>12. offsets' \in [T -> Nat]
  BY <1>4, <1>8, <1>11
<1>13. offsets'[id] = writePos /\ \A k \in 1..P : offsets'[order[k]] = offsets[order[k]]
  BY <1>4, <1>10, <1>11
<1>14. \A k : Writer!CellsOf(order[k])' = Writer!CellsOf(order[k])
  BY <1>2, CellsKept DEF vars
<1>15. ASSUME NEW j \in 1..(P + 1), NEW k \in 1..(P + 1), j < k
       PROVE  offsets'[order[j]] + Writer!CellsOf(order[j]) <= offsets'[order[k]]
  <2>1. j \in 1..P
    BY <1>15
  <2>2. CASE k = P + 1
    BY <1>3, <1>8, <1>13, <2>1, <2>2
  <2>3. CASE k \in 1..P
    BY <1>8, <1>13, <1>15, <2>1, <2>3
  <2> QED
    BY <1>9, <2>2, <2>3
<1>16. ASSUME NEW k \in 1..(P + 1)
       PROVE  offsets'[order[k]] + Writer!CellsOf(order[k]) <= writePos'
  <2>1. CASE k = P + 1
    BY <1>3, <1>4, <1>5, <1>6, <1>13, <2>1
  <2>2. CASE k \in 1..P
    <3>1. offsets[order[k]] + Writer!CellsOf(order[k]) <= writePos
      BY <1>8, <2>2
    <3>2. /\ offsets[order[k]] \in Nat /\ Writer!CellsOf(order[k]) \in Nat
          /\ writePos \in Nat /\ Writer!CellsOf(id) \in Nat
      BY <1>3, <1>5, <1>6, <1>8, <1>10, <2>2
    <3> QED
      BY <1>4, <1>13, <2>2, <3>1, <3>2
  <2> QED
    BY <1>9, <2>1, <2>2
<1>17. LaidOut(P + 1)'
  <2>1. offsets' \in [{order'[k] : k \in 1..(P + 1)} -> Nat]
    BY <1>2, <1>12 DEF T
  <2>2. P + 1 \in 0..Len(order')
    BY <1>2, <1>5
  <2>3. \A j, k \in 1..(P + 1) : j < k =>
            offsets'[order'[j]] + Writer!CellsOf(order[j])' <= offsets'[order'[k]]
    BY <1>2, <1>14, <1>15
  <2>4. \A k \in 1..(P + 1) : offsets'[order'[k]] + Writer!CellsOf(order[k])' <= writePos'
    BY <1>2, <1>14, <1>16
  <2> QED
    BY <1>2, <2>1, <2>2, <2>3, <2>4 DEF LaidOut
<1>18. WrittenInv'
  BY <1>2 DEF WrittenInv
<1>19. writePos' \in Nat
  <2>1. writePos \in Nat /\ Writer!CellsOf(id) \in Nat
    BY <1>3, <1>5, <1>6
  <2> QED
    BY <1>4, <2>1
<1>20. P + 1 \in Nat
  OBVIOUS
<1> QED
  BY <1>17, <1>18, <1>19, <1>20

\* The places of the nodes stay while the data is written.
LEMMA LaidOutKept ==
    ASSUME NEW P \in Nat, LaidOut(P), pool' = pool,
           UNCHANGED <<stk, order, offsets, writePos>>, writerPhase' # "walk" => P = Len(order) /\ stk = << >>
    PROVE  LaidOut(P)'
<1>1. \A k : Writer!CellsOf(order[k])' = Writer!CellsOf(order[k])
  BY CellsKept
<1>2. \A j, k \in 1..P : j < k =>
          offsets'[order'[j]] + Writer!CellsOf(order[j])' <= offsets'[order'[k]]
  BY <1>1 DEF LaidOut
<1>3. \A k \in 1..P : offsets'[order'[k]] + Writer!CellsOf(order[k])' <= writePos'
  BY <1>1 DEF LaidOut
<1>4. P \in 0..Len(order') /\ offsets' \in [{order'[k] : k \in 1..P} -> Nat] /\ (stk' # << >> => P = 0)
  BY DEF LaidOut
<1> QED
  BY <1>2, <1>3, <1>4 DEF LaidOut

LEMMA HeaderStep ==
    ASSUME WalkInv, LayoutInv, Writer!WriteHeader, UNCHANGED vars
    PROVE  LayoutInv'
<1> USE DEF LayoutInv
<1>1. PICK P \in Nat : LaidOut(P)
  OBVIOUS
<1>2. /\ writerPhase = "walk" /\ stk = << >> /\ P = Len(order)
      /\ UNCHANGED <<stk, order, offsets, writePos, written>> /\ writerPhase' = "write"
      /\ data' = [i \in 1..writePos |-> 0]
      /\ header'.root = offsets[1] /\ header'.nodes = Len(order)
  BY <1>1, PlacedNodes DEF Writer!WriteHeader, Handed
<1>3. LaidOut(P)'
  BY <1>1, <1>2, LaidOutKept DEF vars
<1>4. written = 0 /\ Len(order) \in Nat
  BY <1>2 DEF WrittenInv, WalkInv, WalkTypes
<1>5. data' \in [1..writePos -> CellType]
  BY <1>2 DEF CellType
<1>6. WrittenInv'
  BY <1>2, <1>4, <1>5 DEF WrittenInv, RootId
<1> QED
  BY <1>2, <1>3, <1>6

\* The next node is written, and those that have been written stay.
LEMMA WriteStep ==
    ASSUME BuilderInv, finished, WalkInv, LayoutInv, Writer!WriteNode, UNCHANGED vars
    PROVE  LayoutInv'
<1> USE DEF LayoutInv
<1>1. PICK P \in Nat : LaidOut(P)
  OBVIOUS
<1>2. /\ writerPhase = "write" /\ written < Len(order) /\ written' = written + 1
      /\ UNCHANGED <<stk, order, offsets, writePos, header, writerPhase>>
      /\ data' = Writer!WithNode(order[written + 1])
  BY DEF Writer!WriteNode
<1>3. P = Len(order) /\ stk = << >>
  BY <1>1, <1>2 DEF LaidOut
<1>4. LaidOut(P)'
  BY <1>1, <1>2, <1>3, LaidOutKept DEF vars
<1>5. /\ written \in Nat /\ Len(order) \in Nat /\ writePos \in Nat
      /\ data \in [1..writePos -> CellType]
      /\ header.root = offsets[RootId] /\ header.nodes = Len(order)
      /\ \A k \in 1..written : Holds(order[k])
  BY <1>2 DEF WrittenInv, WalkInv, WalkTypes
<1>0. PICK m, id, at, W :
         m = written + 1 /\ id = order[m] /\ at = offsets[id] /\ W = Writer!CellsOf(id)
  OBVIOUS
<1>6. m \in 1..Len(order) /\ m \in Nat /\ \A k \in 1..m : k \in 1..written \/ k = m
  BY <1>0, <1>2, <1>5
<1>7. \A k \in 1..Len(order) : order[k] \in Canonical /\ order[k] \in 1..Len(pool)
  <2>1. order \in Seq(visited) /\ visited \subseteq Canonical /\ Canonical \subseteq 1..Len(pool)
    BY CanonicalNodes DEF WalkInv, WalkTypes
  <2>2. \A k \in 1..Len(order) : order[k] \in visited
    BY <2>1
  <2> QED
    BY <2>1, <2>2
<1>8. \A k \in 1..Len(order) : offsets[order[k]] \in Nat
  BY <1>1, <1>3 DEF LaidOut
<1>9. \A k \in 1..Len(order) : \A c \in Children(pool, order[k]) : offsets[c] \in Nat
  <2> SUFFICES ASSUME NEW k \in 1..Len(order), NEW c \in Children(pool, order[k])
               PROVE  offsets[c] \in Nat
    OBVIOUS
  <2>1. PICK l \in 1..(k - 1) : order[l] = c
    BY DEF WalkInv, ChildrenInv
  <2>2. l \in 1..Len(order)
    BY <1>5
  <2> QED
    BY <1>8, <2>1, <2>2
<1>10. TypeOK
  BY DEF BuilderInv
<1>11. PICK cells : cells = CellsFor(id)
  OBVIOUS
<1>12. IsNodeCells(cells, id)
  BY <1>0, <1>6, <1>7, <1>9, <1>10, <1>11, NodeCells
<1>13. /\ W = HeadSize(id) + 2 * Len(pool[id].trans) /\ W \in Nat
       /\ Len(cells) = W /\ cells \in Seq(CellType) /\ Len(pool[id].trans) \in Nat
       /\ HeadSize(id) \in {1, 2}
  <2>1. id \in 1..Len(pool)
    BY <1>0, <1>6, <1>7
  <2>2. W = HeadSize(id) + 2 * Len(pool[id].trans) /\ W \in Nat
    BY <1>0, <1>10, <2>1, CellCounts
  <2>3. Len(pool[id].trans) \in Nat
    BY <1>10, <2>1, HandedNodes
  <2>4. HeadSize(id) \in {1, 2}
    BY DEF HeadSize
  <2> QED
    BY <1>12, <2>2, <2>3, <2>4 DEF IsNodeCells
<1>14. at + W <= writePos /\ at \in Nat
  BY <1>0, <1>1, <1>3, <1>6, <1>8 DEF LaidOut
<1>15. data' = [i \in DOMAIN data \cup ((at + 1)..(at + W)) |->
                    IF i \in (at + 1)..(at + W) THEN cells[i - at] ELSE data[i]]
  BY <1>0, <1>2, <1>11, <1>13 DEF Writer!WithNode, CellsFor
<1>16. \A k \in 1..written : offsets[order[k]] + Writer!CellsOf(order[k]) <= at
  <2> SUFFICES ASSUME NEW k \in 1..written
               PROVE  offsets[order[k]] + Writer!CellsOf(order[k]) <= at
    OBVIOUS
  <2>1. k \in 1..P /\ m \in 1..P /\ k < m
    BY <1>0, <1>2, <1>3, <1>5
  <2> QED
    BY <1>0, <1>1, <2>1 DEF LaidOut
<1>17. /\ (at + 1)..(at + W) \subseteq 1..writePos /\ DOMAIN data = 1..writePos
       /\ \A c \in 1..W : at + c \in (at + 1)..(at + W) /\ (at + c) - at = c /\ at + c \in 1..writePos
  <2>1. DOMAIN data = 1..writePos
    BY <1>5
  <2>2. \A i \in (at + 1)..(at + W) : i \in 1..writePos
    BY <1>5, <1>13, <1>14
  <2>3. \A c \in 1..W : at + c \in (at + 1)..(at + W) /\ (at + c) - at = c
    BY <1>13, <1>14
  <2> QED
    BY <2>1, <2>2, <2>3
<1>18. /\ data' = [i \in 1..writePos |-> IF i \in (at + 1)..(at + W) THEN cells[i - at] ELSE data[i]]
  BY <1>15, <1>17
<1>19. \A c \in 1..W : data'[at + c] = cells[c]
  BY <1>17, <1>18
<1>20. \A i \in 1..writePos : i <= at => data'[i] = data[i]
  BY <1>14, <1>18
<1>21. data' \in [1..writePos -> CellType]
  <2>1. \A i \in (at + 1)..(at + W) : cells[i - at] \in CellType
    <3> SUFFICES ASSUME NEW i \in (at + 1)..(at + W) PROVE cells[i - at] \in CellType
      OBVIOUS
    <3>1. i - at \in 1..W
      BY <1>13, <1>14
    <3> QED
      BY <1>13, <3>1
  <2> QED
    BY <1>5, <1>18, <2>1
<1>22. pool' = pool /\ offsets' = offsets /\ order' = order
  BY <1>2 DEF vars
<1>23. Holds(id)'
  <2> DEFINE k == Len(pool[id].trans)
             h == HeadSize(id)
  <2>1. /\ cells[1] = [final |-> pool[id].final, count |-> IF k >= Escape THEN Escape ELSE k]
        /\ k >= Escape => cells[2] = k - Escape
        /\ \A i \in 1..k : /\ cells[h + (2 * i - 1)] = pool[id].trans[i].label
                           /\ cells[h + 2 * i] = offsets[pool[id].trans[i].child]
    BY <1>12 DEF IsNodeCells
  <2>2. k >= Escape => h = 2
    BY DEF HeadSize
  <2>3. k \in Nat /\ h \in {1, 2} /\ W = h + 2 * k
    BY <1>13
  <2> HIDE DEF k, h
  <2>4. data'[at + 1] = cells[1] /\ (k >= Escape => data'[at + 2] = cells[2])
    <3>1. 1 \in 1..W /\ (k >= Escape => 2 \in 1..W)
      BY <2>2, <2>3
    <3> QED
      BY <1>19, <3>1
  <2>5. \A i \in 1..k : /\ data'[at + (h + (2 * i - 1))] = cells[h + (2 * i - 1)]
                        /\ data'[at + (h + 2 * i)] = cells[h + 2 * i]
    <3>1. \A i \in 1..k : h + (2 * i - 1) \in 1..W /\ h + 2 * i \in 1..W
      BY <2>3
    <3> QED
      BY <1>19, <3>1
  <2>6. /\ data'[at + 1] = [final |-> pool[id].final, count |-> IF k >= Escape THEN Escape ELSE k]
        /\ k >= Escape => data'[at + 2] = k - Escape
        /\ \A i \in 1..k : /\ data'[at + (h + (2 * i - 1))] = pool[id].trans[i].label
                           /\ data'[at + (h + 2 * i)] = offsets[pool[id].trans[i].child]
    BY <2>1, <2>4, <2>5
  <2> QED
    BY <1>0, <1>22, <2>6 DEF Holds, HeadSize, k, h
<1>24. ASSUME NEW j \in 1..written PROVE Holds(order[j])'
  <2>1. PICK n : n = order[j]
    OBVIOUS
  <2>2. n \in 1..Len(pool) /\ offsets[n] \in Nat /\ offsets[n] + Writer!CellsOf(n) <= at
    <3>1. j \in 1..Len(order)
      BY <1>2, <1>5
    <3> QED
      BY <1>7, <1>8, <1>16, <2>1, <3>1
  <2> DEFINE k == Len(pool[n].trans)
             h == HeadSize(n)
             o == offsets[n]
  <2>3. Writer!CellsOf(n) = h + 2 * k /\ k \in Nat
    BY <1>10, <2>2, CellCounts, HandedNodes
  <2>4. h \in {1, 2} /\ (k >= Escape => h = 2)
    BY DEF HeadSize
  <2>5. Holds(n)
    BY <1>5, <2>1
  <2>6. /\ data[o + 1] = [final |-> pool[n].final, count |-> IF k >= Escape THEN Escape ELSE k]
        /\ k >= Escape => data[o + 2] = k - Escape
        /\ \A i \in 1..k : /\ data[o + (h + (2 * i - 1))] = pool[n].trans[i].label
                           /\ data[o + (h + 2 * i)] = offsets[pool[n].trans[i].child]
    BY <2>5 DEF Holds
  <2>7. o \in Nat /\ o + (h + 2 * k) <= at
    BY <2>2, <2>3
  <2> HIDE DEF k, h, o
  <2>8. \A c \in 1..(h + 2 * k) : data'[o + c] = data[o + c]
    <3> SUFFICES ASSUME NEW c \in 1..(h + 2 * k) PROVE data'[o + c] = data[o + c]
      OBVIOUS
    <3>1. o + c \in Nat /\ o + c >= 1 /\ o + c <= at
      BY <1>14, <2>3, <2>4, <2>7
    <3>2. o + c \in 1..writePos
      BY <1>5, <1>13, <1>14, <3>1
    <3> QED
      BY <1>20, <3>1, <3>2
  <2>9. 1 \in 1..(h + 2 * k) /\ (k >= Escape => 2 \in 1..(h + 2 * k))
    BY <2>3, <2>4
  <2>10. \A i \in 1..k : h + (2 * i - 1) \in 1..(h + 2 * k) /\ h + 2 * i \in 1..(h + 2 * k)
    BY <2>3, <2>4
  <2>11. /\ data'[o + 1] = [final |-> pool[n].final, count |-> IF k >= Escape THEN Escape ELSE k]
         /\ k >= Escape => data'[o + 2] = k - Escape
         /\ \A i \in 1..k : /\ data'[o + (h + (2 * i - 1))] = pool[n].trans[i].label
                            /\ data'[o + (h + 2 * i)] = offsets[pool[n].trans[i].child]
    BY <2>6, <2>8, <2>9, <2>10
  <2>12. Holds(n)'
    BY <1>22, <2>11 DEF Holds, HeadSize, k, h, o
  <2>13. n = order[j] /\ order' = order
    BY <1>22, <2>1
  <2> QED
    BY <2>12, <2>13 DEF Holds, HeadSize
<1>25. ASSUME NEW j \in 1..m PROVE Holds(order[j])'
  <2>1. CASE j = m
    BY <1>0, <1>22, <1>23, <2>1 DEF Holds, HeadSize
  <2> QED
    BY <1>6, <1>24, <2>1
<1>26. WrittenInv'
  <2>1. m \in 0..Len(order) /\ written' = m
    BY <1>0, <1>2, <1>6
  <2>2. writePos' = writePos /\ header' = header /\ writerPhase' = "write"
    BY <1>2
  <2> QED
    BY <1>5, <1>21, <1>22, <1>25, <2>1, <2>2 DEF WrittenInv, RootId
<1>27. writePos' \in Nat
  BY <1>2, <1>5
<1> QED
  BY <1>4, <1>26, <1>27

LEMMA LayoutSame ==
    ASSUME LayoutInv, pool' = pool,
           UNCHANGED <<stk, order, offsets, writePos, data, written, header>>,
           \/ writerPhase' = writerPhase
           \/ writerPhase = "write" /\ writerPhase' = "returned" /\ written = Len(order)
    PROVE  LayoutInv'
<1> USE DEF LayoutInv
<1>1. PICK P \in Nat : LaidOut(P)
  OBVIOUS
<1>2. LaidOut(P)'
  <2>1. writerPhase' # "walk" => P = Len(order) /\ stk = << >>
    BY <1>1 DEF LaidOut
  <2> QED
    BY <1>1, <2>1, LaidOutKept
<1>3. \A k \in 1..written : Holds(order[k])'
  <2> SUFFICES ASSUME NEW k \in 1..written PROVE Holds(order[k])'
    OBVIOUS
  <2>1. Holds(order[k])
    BY DEF WrittenInv
  <2> QED
    BY <2>1 DEF Holds, HeadSize
<1>4. WrittenInv'
  <2>1. /\ writerPhase' \in {"walk", "write", "returned"}
        /\ writerPhase' = "walk" => data' = << >> /\ written' = 0
        /\ writerPhase' = "returned" => written' = Len(order')
    BY DEF WrittenInv
  <2>2. writerPhase' # "walk" =>
           /\ data' \in [1..writePos' -> CellType]
           /\ written' \in 0..Len(order')
           /\ header'.root = offsets'[RootId] /\ header'.nodes = Len(order')
    BY DEF WrittenInv
  <2>3. \A k \in 1..written' : Holds(order[k])'
    BY <1>3
  <2> QED
    BY <2>1, <2>2, <2>3 DEF WrittenInv, RootId
<1> QED
  BY <1>2, <1>4

LEMMA LayoutStep ==
    ASSUME BuilderInv, finished, WalkInv, LayoutInv, Writer!Next, UNCHANGED vars
    PROVE  LayoutInv'
<1>1. CASE Writer!Emit \/ Writer!Skip \/ Writer!Visit
  <2>1. /\ stk # << >> /\ writerPhase = "walk"
        /\ UNCHANGED <<offsets, writePos, data, written, header, writerPhase>>
    BY <1>1 DEF Writer!Emit, Writer!Skip, Writer!Visit
  <2>2. Len(order') \in Nat
    BY WalkStep DEF WalkInv, WalkTypes
  <2> QED
    BY <2>1, <2>2, LayoutWaits
<1>2. CASE Writer!Place
  BY <1>2, PlaceStep
<1>3. CASE Writer!WriteHeader
  BY <1>3, HeaderStep
<1>4. CASE Writer!WriteNode
  BY <1>4, WriteStep
<1>5. CASE Writer!Return
  <2>1. /\ UNCHANGED <<stk, order, offsets, writePos, data, written, header>>
        /\ writerPhase = "write" /\ writerPhase' = "returned" /\ written = Len(order)
    BY <1>5 DEF Writer!Return
  <2> QED
    BY <2>1, LayoutSame DEF vars
<1> QED
  BY <1>1, <1>2, <1>3, <1>4, <1>5 DEF Writer!Next

----------------------------------------------------------------------------
(* All of build.                                                            *)

WholeInv ==
    /\ SortInv /\ AddedInv /\ BuilderInv
    /\ WalkInv /\ LayoutInv
    /\ ~finished => Unwritten
    /\ outcome \in {"none", "ok", "InputNotSorted"}

LEMMA Fresh == Unwritten => WalkInv /\ LayoutInv
BY WalkFresh, LayoutFresh DEF Unwritten

LEMMA WholeInvInit == BuildInit => WholeInv
<1> SUFFICES ASSUME BuildInit PROVE WholeInv
  OBVIOUS
<1>1. SortInv
  BY SortInvInit
<1>2. Init /\ Writer!Init /\ added = 0 /\ outcome = "none"
  BY DEF BuildInit
<1>3. AddedInv
  BY <1>1, <1>2 DEF AddedInv, SortInv, SortTypes
<1>4. BuilderInv
  BY <1>2, BuilderInvInit
<1>5. Unwritten
  BY <1>2 DEF Writer!Init, Unwritten, Handed
<1>6. WalkInv /\ LayoutInv
  BY <1>5, WalkFresh, LayoutFresh DEF Unwritten
<1> QED
  BY <1>1, <1>2, <1>3, <1>4, <1>5, <1>6 DEF WholeInv

\* The builder does nothing more once it has finished.
LEMMA BuilderDone ==
    ASSUME BuilderInv, finished, [Next]_vars
    PROVE  UNCHANGED vars
<1>1. pc = "idle"
  BY DEF BuilderInv, PathInv, PathOpen
<1> QED
  BY <1>1 DEF Next, Step, AddRejected, AddStart, FinishStart, MinimizeStep, MinimizeReturn,
     ExtendStep, AddReturn, FinishReturn, vars

LEMMA WholeInvStep == WholeInv /\ [BuildNext]_buildVars => WholeInv'
<1> SUFFICES ASSUME WholeInv, [BuildNext]_buildVars PROVE WholeInv'
  OBVIOUS
<1> USE DEF WholeInv
<1>1. [Sorter!Next]_sorting /\ [Next]_vars
  BY StepOfPart
<1>2. SortInv' /\ AddedInv' /\ BuilderInv'
  BY <1>1, SortInvStep, AddedStep, BuilderInvStep
<1>3. outcome' \in {"none", "ok", "InputNotSorted"}
  BY DEF BuildNext, Sort, AddNext, BuilderStep, Refuse, Finish, Write, Return, buildVars
<1>4. CASE Write
  <2>1. finished /\ UNCHANGED vars /\ Writer!Next
    BY <1>4 DEF Write
  <2>2. WalkInv' /\ LayoutInv'
    BY <2>1, WalkStep, LayoutStep
  <2>3. finished'
    BY <2>1 DEF vars
  <2> QED
    BY <1>2, <1>3, <2>2, <2>3
<1>5. CASE UNCHANGED writing
  <2>1. /\ stk' = stk /\ visited' = visited /\ order' = order /\ offsets' = offsets
        /\ writePos' = writePos /\ written' = written /\ header' = header
        /\ writerPhase' = writerPhase /\ data' = data
    BY <1>5 DEF writing
  <2>2. CASE finished
    <3>1. UNCHANGED vars
      BY <1>1, <2>2, BuilderDone
    <3>2. pool' = pool /\ registered' = registered /\ finished'
      BY <2>2, <3>1 DEF vars
    <3>3. Canonical' = Canonical /\ \A n : Children(pool', n) = Children(pool, n)
      BY <3>2 DEF Canonical
    <3>4. \A r : RankOn(r)' <=> RankOn(r)
      BY <3>2, <3>3 DEF RankOn
    <3>5. \A S : ClosedUnderChildren(S)' <=> ClosedUnderChildren(S)
      BY <3>2, <3>3 DEF ClosedUnderChildren
    <3>6. WalkTypes' /\ VisitedInv'
      BY <2>1, <3>3 DEF WalkInv, WalkTypes, VisitedInv, RootId
    <3>7. AboveInv' /\ ReachedInv'
      BY <2>1, <3>4, <3>5 DEF WalkInv, AboveInv, ReachedInv
    <3>8. ChildrenInv'
      BY <2>1, <3>2 DEF WalkInv, ChildrenInv
    <3>9. LayoutInv'
      BY <2>1, <3>2, LayoutSame
    <3> QED
      BY <1>2, <1>3, <3>2, <3>6, <3>7, <3>8, <3>9 DEF WalkInv
  <2>3. CASE ~finished
    <3>1. Unwritten'
      BY <2>1, <2>3 DEF Unwritten, Writer!Frame
    <3>2. (Unwritten => WalkInv /\ LayoutInv)'
      BY Fresh, PTL
    <3> QED
      BY <1>2, <1>3, <3>1, <3>2
  <2> QED
    BY <2>2, <2>3
<1> QED
  BY <1>4, <1>5 DEF BuildNext, Sort, AddNext, BuilderStep, Refuse, Finish, Return, buildVars

LEMMA WriterTypes ==
    ASSUME WholeInv
    PROVE  Writer!TypeOK
<1> USE DEF WholeInv
<1>1. Canonical \subseteq 1..Len(pool) /\ DOMAIN pool = 1..Len(pool)
  BY CanonicalNodes, PathNodes DEF BuilderInv
<1>2. DOMAIN Handed.nodes = 1..Len(pool)
  BY <1>1 DEF Handed
<1>3. /\ stk \in Seq(FrameType) /\ \A i \in 1..Len(stk) : stk[i].id \in Canonical
      /\ visited \subseteq Canonical /\ order \in Seq(visited)
  BY DEF WalkInv, WalkTypes
<1>4. DOMAIN stk = 1..Len(stk) /\ DOMAIN order = 1..Len(order) /\ \A k \in 1..Len(order) : order[k] \in visited
  BY <1>3
<1>5. Writer!ToSet(order) \subseteq visited
  BY <1>4 DEF Writer!ToSet
<1>6. DOMAIN offsets \subseteq visited
  <2>1. PICK P \in Nat : LaidOut(P)
    BY DEF LayoutInv
  <2>2. DOMAIN offsets = {order[k] : k \in 1..P} /\ P <= Len(order)
    BY <2>1 DEF LaidOut
  <2>3. \A k \in 1..P : k \in 1..Len(order)
    BY <1>3, <2>2
  <2> QED
    BY <1>4, <2>2, <2>3
<1>7. DOMAIN data = 1..Len(data) /\ Len(data) \in {0, writePos}
  <2>1. CASE writerPhase = "walk"
    BY <2>1 DEF LayoutInv, WrittenInv
  <2>2. CASE writerPhase # "walk"
    <3>1. writePos \in Nat /\ data \in [1..writePos -> CellType]
      BY <2>2 DEF LayoutInv, WrittenInv
    <3>2. Len(data) = writePos /\ DOMAIN data = 1..writePos
      BY <3>1
    <3> QED
      BY <3>2
  <2> QED
    BY <2>1, <2>2
<1>8. writerPhase \in {"walk", "write", "returned"}
  BY DEF LayoutInv, WrittenInv
<1> QED
  BY <1>1, <1>2, <1>3, <1>4, <1>5, <1>6, <1>7, <1>8 DEF Writer!TypeOK

\* Between any two steps of build, the state of its three parts is of its type,
\* the partitions of the sort are within the words, and what it has settled is.
THEOREM SettledCorrect == BuildSpec => []Settled
<1>1. WholeInv => Settled
  <2> SUFFICES ASSUME WholeInv PROVE Settled
    OBVIOUS
  <2>1. Sorter!PartitionsInBounds /\ Sorter!Settled
    BY SortProperties DEF WholeInv
  <2>2. TypeOK /\ Writer!TypeOK
    BY WriterTypes DEF WholeInv, BuilderInv
  <2> QED
    BY <2>1, <2>2 DEF Settled, BuildTypeOK, WholeInv, AddedInv
<1> QED
  BY <1>1, WholeInvInit, WholeInvStep, PTL DEF BuildSpec

\* The writer orders the nodes that the root reaches, each once and after its
\* children, whatever the builder has left in the pool.
THEOREM OrderCorrect == BuildSpec => []ChildrenFirst
<1>1. WholeInv => ChildrenFirst
  <2> SUFFICES ASSUME WholeInv PROVE ChildrenFirst
    OBVIOUS
  <2>1. ~finished => stk # << >> /\ order = << >>
    BY DEF WholeInv, Unwritten
  <2> QED
    BY <2>1, WalkOrders DEF WholeInv
<1> QED
  BY <1>1, WholeInvInit, WholeInvStep, PTL DEF BuildSpec

----------------------------------------------------------------------------
(* The loop of build: what it has added, and when it is refused.           *)

LastAdded(k) == IF k = 0 THEN << >> ELSE words[k]

\* How many words add() has taken.
Taken == IF result = "InputNotSorted" THEN added - 1 ELSE added

LoopInv ==
    /\ sortPc # "sorted" => pc = "idle" /\ ~finished /\ prev = << >> /\ result = "none"
    /\ pc \in {"idle", "freeze"} /\ result # "InputNotSorted" => prev = LastAdded(added)
    /\ pc \in {"minimize", "extend"} => added > 0 /\ word = words[added]
    /\ result = "InputNotSorted" =>
           pc = "idle" /\ ~finished /\ added > 1 /\ Precedes(words[added], words[added - 1])
    /\ \A k \in 1..(Taken - 1) : AtMost(words[k], words[k + 1])
    /\ pc = "freeze" \/ finished => added = Len(words)
    /\ outcome = "InputNotSorted" => result = "InputNotSorted"
    /\ outcome = "ok" => writerPhase = "returned"

LEMMA LoopInit == BuildInit => LoopInv
  BY DEF BuildInit, Init, Sorter!Init, LoopInv, LastAdded, Taken

\* std::unique leaves no equal neighbours.
LEMMA NeighboursDiffer ==
    ASSUME SortInv, sortPc = "sorted", NEW k \in 1..(Len(words) - 1)
    PROVE  words[k] # words[k + 1] /\ words[k] \in Word /\ words[k + 1] \in Word
<1>1. words \in Seq(Words) /\ Left
  BY DEF SortInv, SortTypes
<1>2. k \in 1..Len(words) /\ k + 1 \in 1..Len(words) /\ k < k + 1
  BY <1>1
<1>3. words[k] \in Word /\ words[k + 1] \in Word
  BY <1>1, <1>2, WordList
<1>4. CASE sortInput
  <2>1. Precedes(words[k], words[k + 1])
    BY <1>1, <1>2, <1>4 DEF Left, Increasing
  <2> QED
    BY <1>3, <2>1, PrecedesAtMost
<1>5. CASE ~sortInput
  BY <1>1, <1>3, <1>5 DEF Left, Deduplicated
<1> QED
  BY <1>4, <1>5

LEMMA LoopAdds ==
    ASSUME SortInv, AddedInv, TypeOK, LoopInv, AddNext
    PROVE  LoopInv'
<1> USE DEF LoopInv
<1>1. /\ sortPc = "sorted" /\ outcome = "none" /\ result # "InputNotSorted" /\ added < Len(words)
      /\ added' = added + 1 /\ outcome' = outcome /\ sortPc' = sortPc /\ words' = words
      /\ writerPhase' = writerPhase /\ pc = "idle" /\ ~finished /\ finished' = finished /\ prev' = prev
  BY DEF AddNext, AddStart, AddRejected, sorting, writing
<1>2. added \in Nat /\ Len(words) \in Nat /\ words \in Seq(Words)
  BY <1>1 DEF AddedInv, SortInv, SortTypes
<1>3. prev = LastAdded(added)
  BY <1>1
<1>4. added > 0 => /\ words[added] # words[added + 1]
                   /\ words[added] \in Word /\ words[added + 1] \in Word /\ prev = words[added]
  <2> SUFFICES ASSUME added > 0
               PROVE  /\ words[added] # words[added + 1]
                      /\ words[added] \in Word /\ words[added + 1] \in Word /\ prev = words[added]
    OBVIOUS
  <2>1. added \in 1..(Len(words) - 1)
    BY <1>1, <1>2
  <2> QED
    BY <1>1, <1>3, <2>1, NeighboursDiffer DEF LastAdded
<1>5. Taken = added /\ \A k \in 1..(added - 1) : AtMost(words[k], words[k + 1])
  BY <1>1 DEF Taken
<1>6. CASE AddStart(words[added + 1])
  <2>1. /\ InOrder(words[added + 1]) /\ word' = words[added + 1] /\ pc' = "minimize" /\ result' = result
    BY <1>6 DEF AddStart
  <2>2. added > 0 => AtMost(words[added], words[added + 1])
    <3> SUFFICES ASSUME added > 0 PROVE AtMost(words[added], words[added + 1])
      OBVIOUS
    <3>1. CASE prev = << >>
      BY <1>4, <3>1 DEF AtMost, Precedes, Word
    <3>2. CASE Precedes(prev, words[added + 1])
      BY <1>4, <3>2, PrecedesAtMost
    <3> QED
      BY <2>1, <3>1, <3>2 DEF InOrder
  <2>3. Taken' = added + 1
    BY <1>1, <2>1 DEF Taken
  <2>4. \A k \in 1..(Taken' - 1) : AtMost(words'[k], words'[k + 1])
    <3> SUFFICES ASSUME NEW k \in 1..added PROVE AtMost(words[k], words[k + 1])
      BY <1>1, <1>2, <2>3
    <3>1. k \in 1..(added - 1) \/ (k = added /\ added > 0)
      BY <1>2
    <3> QED
      BY <1>5, <2>2, <3>1
  <2>5. added' > 0 /\ word' = words'[added']
    BY <1>1, <1>2, <2>1
  <2> QED
    BY <1>1, <2>1, <2>4, <2>5 DEF AtMost
<1>7. CASE AddRejected(words[added + 1])
  <2>1. ~InOrder(words[added + 1]) /\ result' = "InputNotSorted" /\ pc' = pc
    BY <1>7 DEF AddRejected
  <2>2. added > 0
    BY <1>2, <1>3, <2>1 DEF InOrder, LastAdded
  <2>3. Precedes(words[added + 1], words[added])
    BY <1>4, <2>1, <2>2, PrecedesLinear DEF InOrder
  <2>4. added' > 1 /\ words'[added'] = words[added + 1] /\ words'[added' - 1] = words[added] /\ Taken' = added
    BY <1>1, <1>2, <2>1, <2>2 DEF Taken
  <2>5. \A k \in 1..(Taken' - 1) : AtMost(words'[k], words'[k + 1])
    BY <1>1, <1>5, <2>4
  <2> QED
    BY <1>1, <2>1, <2>3, <2>4, <2>5 DEF AtMost
<1> QED
  BY <1>6, <1>7 DEF AddNext

LEMMA LoopBuilds ==
    ASSUME AddedInv, LoopInv, BuilderStep
    PROVE  LoopInv'
<1> USE DEF LoopInv
<1>1. /\ outcome' = outcome /\ sortPc' = sortPc /\ words' = words /\ added' = added
      /\ writerPhase' = writerPhase /\ Step
  BY DEF BuilderStep, sorting, writing
<1>2. pc # "idle"
  BY <1>1 DEF Step, MinimizeStep, MinimizeReturn, ExtendStep, AddReturn, FinishReturn
<1>3. sortPc = "sorted" /\ result # "InputNotSorted"
  BY <1>2
<1>4. result' # "InputNotSorted" /\ word' = word
  BY <1>1, <1>3 DEF Step, MinimizeStep, MinimizeReturn, ExtendStep, AddReturn, FinishReturn
<1>5. Taken' = Taken
  BY <1>1, <1>3, <1>4 DEF Taken
<1>6. \A k \in 1..(Taken' - 1) : AtMost(words'[k], words'[k + 1])
  BY <1>1, <1>5
<1>7. CASE AddReturn
  <2>1. pc = "extend" /\ pc' = "idle" /\ prev' = word /\ finished' = finished
    BY <1>7 DEF AddReturn
  <2>2. prev' = LastAdded(added)'
    BY <1>1, <2>1 DEF LastAdded
  <2> QED
    BY <1>1, <1>3, <1>4, <1>6, <2>1, <2>2
<1>8. CASE FinishReturn
  <2>1. pc = "freeze" /\ pc' = "idle" /\ prev' = prev /\ added = Len(words)
    BY <1>8 DEF FinishReturn
  <2>2. prev' = LastAdded(added)'
    BY <1>1, <1>3, <2>1 DEF LastAdded
  <2> QED
    BY <1>1, <1>3, <1>4, <1>6, <2>1, <2>2
<1>9. CASE MinimizeStep \/ MinimizeReturn \/ ExtendStep
  <2>1. /\ prev' = prev /\ finished' = finished
        /\ pc' = pc \/ (pc = "minimize" /\ pc' = "extend")
    BY <1>9 DEF MinimizeStep, MinimizeReturn, ExtendStep
  <2>2. LastAdded(added)' = LastAdded(added)
    BY <1>1 DEF LastAdded
  <2> QED
    BY <1>1, <1>2, <1>3, <1>4, <1>6, <2>1, <2>2
<1> QED
  BY <1>1, <1>7, <1>8, <1>9 DEF Step

LEMMA LoopStep ==
    ASSUME SortInv, AddedInv, TypeOK, LoopInv, WrittenInv, [BuildNext]_buildVars
    PROVE  LoopInv'
<1> USE DEF LoopInv
<1>1. CASE Sort
  <2>1. /\ UNCHANGED vars /\ added' = added /\ outcome' = outcome /\ writerPhase' = writerPhase
        /\ Sorter!Next
    BY <1>1 DEF Sort, writing
  <2>2. sortPc # "sorted"
    BY <2>1 DEF Sorter!Next, Sorter!Build, Sorter!Sort, Sorter!CallSmall, Sorter!NextKey, Sorter!Shift,
       Sorter!PlaceKey, Sorter!InsertionReturn, Sorter!CallLarge, Sorter!Distribute, Sorter!CopyBack,
       Sorter!SortReturn, Sorter!Unique
  <2>3. added = 0 /\ pc = "idle" /\ ~finished /\ prev = << >> /\ result = "none"
    BY <2>2 DEF AddedInv
  <2>4. pc' = pc /\ finished' = finished /\ prev' = prev /\ result' = result
    BY <2>1 DEF vars
  <2>5. LastAdded(added)' = << >> /\ Taken' = 0
    BY <2>1, <2>3, <2>4 DEF LastAdded, Taken
  <2> QED
    BY <2>1, <2>3, <2>4, <2>5
<1>2. CASE AddNext
  BY <1>2, LoopAdds
<1>3. CASE BuilderStep
  BY <1>3, LoopBuilds
<1>4. ASSUME UNCHANGED <<sorting, added>>, prev' = prev, finished' = finished, result' = result, word' = word
      PROVE  /\ sortPc' = sortPc /\ words' = words /\ added' = added
             /\ LastAdded(added)' = LastAdded(added) /\ Taken' = Taken
  <2>1. sortPc' = sortPc /\ words' = words /\ added' = added
    BY <1>4 DEF sorting
  <2> QED
    BY <1>4, <2>1 DEF LastAdded, Taken
<1>5. CASE Refuse
  <2>1. /\ UNCHANGED <<sorting, added>> /\ prev' = prev /\ finished' = finished /\ result' = result
        /\ word' = word /\ pc' = pc /\ writerPhase' = writerPhase
        /\ result = "InputNotSorted" /\ outcome' = "InputNotSorted"
    BY <1>5 DEF Refuse, vars, writing
  <2> QED
    BY <1>4, <2>1
<1>6. CASE Finish
  <2>1. /\ UNCHANGED <<sorting, added>> /\ prev' = prev /\ finished' = finished /\ result' = result
        /\ word' = word /\ pc = "idle" /\ pc' = "freeze" /\ writerPhase' = writerPhase
        /\ sortPc = "sorted" /\ result # "InputNotSorted" /\ added = Len(words) /\ outcome' = outcome
    BY <1>6 DEF Finish, FinishStart, writing
  <2> QED
    BY <1>4, <2>1
<1>7. CASE Write
  <2>1. /\ UNCHANGED <<sorting, added>> /\ prev' = prev /\ finished' = finished /\ result' = result
        /\ word' = word /\ pc' = pc /\ outcome' = outcome /\ Writer!Next
    BY <1>7 DEF Write, vars
  <2>2. writerPhase # "returned"
    BY <2>1 DEF Writer!Next, Writer!Emit, Writer!Skip, Writer!Visit, Writer!Place, Writer!WriteHeader,
       Writer!WriteNode, Writer!Return
  <2> QED
    BY <1>4, <2>1, <2>2
<1>8. CASE Return
  <2>1. /\ UNCHANGED <<sorting, added>> /\ prev' = prev /\ finished' = finished /\ result' = result
        /\ word' = word /\ pc' = pc /\ writerPhase' = writerPhase
        /\ writerPhase = "returned" /\ outcome' = "ok"
    BY <1>8 DEF Return, vars, writing
  <2> QED
    BY <1>4, <2>1
<1>9. CASE UNCHANGED buildVars
  <2>1. /\ UNCHANGED <<sorting, added>> /\ prev' = prev /\ finished' = finished /\ result' = result
        /\ word' = word /\ pc' = pc /\ writerPhase' = writerPhase /\ outcome' = outcome
    BY <1>9 DEF buildVars, vars, writing
  <2> QED
    BY <1>4, <2>1
<1> QED
  BY <1>1, <1>2, <1>3, <1>5, <1>6, <1>7, <1>8, <1>9 DEF BuildNext

\* Only what decreases is refused.
LEMMA RefusedDecreases ==
    ASSUME SortInv, AddedInv, LoopInv, outcome = "InputNotSorted"
    PROVE  ~sortInput /\ ~Sorter!NeverDecreasing(input)
<1>1. /\ added > 1 /\ Precedes(words[added], words[added - 1]) /\ sortPc = "sorted"
      /\ result = "InputNotSorted"
  BY DEF LoopInv
<1>2. words \in Seq(Words) /\ added \in 0..Len(words) /\ Len(words) \in Nat
  BY DEF AddedInv, SortInv, SortTypes
<1>3. /\ added - 1 \in 1..(Len(words) - 1) /\ added \in 1..Len(words) /\ added - 1 \in 1..Len(words)
      /\ added - 1 < added /\ (added - 1) + 1 = added
  BY <1>1, <1>2
<1>4. words[added - 1] \in Word /\ words[added] \in Word /\ words[added - 1] # words[added]
  BY <1>1, <1>3, NeighboursDiffer
<1>5. ~sortInput
  <2>1. sortInput => Precedes(words[added - 1], words[added])
    BY <1>1, <1>3 DEF SortInv, Left, Increasing
  <2> QED
    BY <1>1, <1>4, <2>1, PrecedesAtMost DEF AtMost
<1>6. PICK a \in 1..(Len(input) - 1) : input[a] = words[added - 1] /\ input[a + 1] = words[added]
  <2>1. Deduplicated(input, words)
    BY <1>1, <1>5 DEF SortInv, Left
  <2>2. PICK k \in 1..(Len(words) - 1) : k = added - 1 /\ k + 1 = added
    BY <1>3
  <2>3. \E a \in 1..(Len(input) - 1) : input[a] = words[k] /\ input[a + 1] = words[k + 1]
    BY <2>1 DEF Deduplicated
  <2> QED
    BY <2>2, <2>3
<1>7. Sorter!Precedes(input[a + 1], input[a])
  BY <1>1, <1>6, SorterOrder
<1> QED
  BY <1>5, <1>6, <1>7 DEF Sorter!NeverDecreasing

\* Words in strict order decrease nowhere.
LEMMA StrictNeverDecreases ==
    ASSUME SortInv, StrictlyIncreasing(input)
    PROVE  Sorter!NeverDecreasing(input)
<1> SUFFICES ASSUME NEW a \in 1..(Len(input) - 1) PROVE ~Precedes(input[a + 1], input[a])
  BY SorterOrder DEF Sorter!NeverDecreasing
<1>1. input \in Seq(Words) /\ Len(input) \in Nat
  BY InputFacts DEF SortInv
<1>2. a \in 1..Len(input) /\ a + 1 \in 1..Len(input)
  BY <1>1
<1>3. input[a] \in Word /\ input[a + 1] \in Word
  BY <1>1, <1>2, WordList
<1>4. Precedes(input[a], input[a + 1])
  BY DEF StrictlyIncreasing
<1> QED
  BY <1>3, <1>4, PrecedesAtMost DEF AtMost

\* build has returned without an error: it has added all words.
LEMMA ReturnedFinished ==
    ASSUME LoopInv, ~finished => Unwritten, outcome = "ok"
    PROVE  /\ finished /\ writerPhase = "returned" /\ sortPc = "sorted" /\ result # "InputNotSorted"
           /\ added = Len(words) /\ Taken = Len(words)
<1>1. writerPhase = "returned"
  BY DEF LoopInv
<1>2. finished
  BY <1>1 DEF Unwritten
<1> QED
  BY <1>1, <1>2 DEF LoopInv, Taken

LEMMA TakenAscends ==
    ASSUME SortInv, AddedInv, LoopInv, ~finished => Unwritten, outcome = "ok"
    PROVE  sortInput \/ Sorter!NeverDecreasing(input)
<1> SUFFICES ASSUME ~sortInput, NEW a \in 1..(Len(input) - 1) PROVE ~Precedes(input[a + 1], input[a])
  BY SorterOrder DEF Sorter!NeverDecreasing
<1>1. sortPc = "sorted" /\ Taken = Len(words)
  BY ReturnedFinished
<1>2. input \in Seq(Words) /\ Len(input) \in Nat /\ words \in Seq(Words)
  BY InputFacts DEF SortInv, SortTypes
<1>3. input[a] \in Word /\ input[a + 1] \in Word
  <2>1. a \in 1..Len(input) /\ a + 1 \in 1..Len(input)
    BY <1>2
  <2> QED
    BY <1>2, <2>1, WordList
<1>4. CASE input[a] = input[a + 1]
  BY <1>3, <1>4, PrecedesIrreflexive
<1>5. CASE input[a] # input[a + 1]
  <2>1. Deduplicated(input, words)
    BY <1>1 DEF SortInv, Left
  <2>2. PICK k \in 1..(Len(words) - 1) : input[a] = words[k] /\ input[a + 1] = words[k + 1]
    BY <1>5, <2>1 DEF Deduplicated
  <2>3. AtMost(words[k], words[k + 1])
    BY <1>1, <2>2 DEF LoopInv
  <2> QED
    BY <2>2, <2>3 DEF AtMost
<1> QED
  BY <1>4, <1>5

----------------------------------------------------------------------------
(* What the automaton accepts while the loop runs.                         *)

\* How many words are in the automaton: add() returns when its word is.
Returned == IF pc \in {"minimize", "extend"} THEN added - 1 ELSE added

\* The words of all lengths: none is longer than the longest word.
WordsInv == result # "InputNotSorted" => Accepted(pool) = {words[k] : k \in 1..Returned}

DictInv == MinimalInv /\ RootLinked /\ WordsInv

LEMMA DictInit == BuildInit => DictInv
<1> SUFFICES ASSUME BuildInit PROVE DictInv
  OBVIOUS
<1>1. Init /\ added = 0 /\ pc = "idle"
  BY DEF BuildInit, Init
<1>2. Accepted(pool) = {}
  BY <1>1, NothingAccepted
<1>3. Returned = 0
  BY <1>1 DEF Returned
<1>4. {words[k] : k \in 1..0} = {}
  OBVIOUS
<1> QED
  BY <1>1, <1>2, <1>3, <1>4, MinimalInit, BuilderInvInit DEF DictInv, WordsInv, BuilderInv

LEMMA WordsStep ==
    ASSUME CountSuffices, SortInv, AddedInv, LoopInv, DictInv, [BuildNext]_buildVars
    PROVE  WordsInv'
<1> USE DEF DictInv
<1>1. [Next]_vars
  BY StepOfPart
<1>2. /\ AddReturn => Accepted(pool') = Accepted(pool) \cup {word}
      /\ AddReturn \/ Accepted(pool') = Accepted(pool)
  BY <1>1, AcceptedStep DEF MinimalInv
<1> DEFINE Same(n) == \A k \in 1..n : words'[k] = words[k]
<1>3. \A n : Same(n) => {words'[k] : k \in 1..n} = {words[k] : k \in 1..n}
  OBVIOUS
<1> HIDE DEF Same
<1>4. added \in Nat
  BY DEF AddedInv, SortInv, SortTypes
<1>5. ASSUME ~AddReturn, result' # "InputNotSorted" => result # "InputNotSorted",
             result' # "InputNotSorted" => Returned' = Returned, Same(Returned)
      PROVE  WordsInv'
  BY <1>2, <1>3, <1>5 DEF WordsInv
<1>6. CASE Sort
  <2>1. UNCHANGED vars /\ added' = added /\ Sorter!Next
    BY <1>6 DEF Sort
  <2>2. sortPc # "sorted"
    BY <2>1 DEF Sorter!Next, Sorter!Build, Sorter!Sort, Sorter!CallSmall, Sorter!NextKey, Sorter!Shift,
       Sorter!PlaceKey, Sorter!InsertionReturn, Sorter!CallLarge, Sorter!Distribute, Sorter!CopyBack,
       Sorter!SortReturn, Sorter!Unique
  <2>3. added = 0 /\ pc = "idle" /\ pc' = pc /\ result' = result
    BY <2>1, <2>2 DEF AddedInv, LoopInv, vars
  <2>4. Returned = 0 /\ Returned' = 0
    BY <2>1, <2>3 DEF Returned
  <2>5. Same(0)
    BY DEF Same
  <2>6. ~AddReturn
    BY <2>3 DEF AddReturn
  <2> QED
    BY <1>5, <2>3, <2>4, <2>5, <2>6
<1>7. CASE AddNext
  <2>1. words' = words /\ pc = "idle" /\ added' = added + 1 /\ result # "InputNotSorted"
    BY <1>7 DEF AddNext, AddStart, AddRejected, sorting
  <2>2. result' # "InputNotSorted" => pc' = "minimize"
    BY <1>7 DEF AddNext, AddStart, AddRejected
  <2>3. result' # "InputNotSorted" => Returned' = Returned
    BY <1>4, <2>1, <2>2 DEF Returned
  <2> QED
    BY <1>5, <2>1, <2>3 DEF AddReturn, Same
<1>8. CASE BuilderStep
  <2>1. words' = words /\ added' = added /\ Step
    BY <1>8 DEF BuilderStep, sorting
  <2>2. pc # "idle" /\ result # "InputNotSorted"
    BY <2>1 DEF LoopInv, Step, MinimizeStep, MinimizeReturn, ExtendStep, AddReturn, FinishReturn
  <2>3. CASE AddReturn
    <3>1. pc = "extend" /\ pc' = "idle" /\ added > 0 /\ word = words[added]
      BY <2>3 DEF AddReturn, LoopInv
    <3>2. Returned = added - 1 /\ Returned' = added
      BY <2>1, <3>1 DEF Returned
    <3>3. Accepted(pool') = {words[k] : k \in 1..(added - 1)} \cup {words[added]}
      BY <1>2, <2>2, <2>3, <3>1, <3>2 DEF WordsInv
    <3>4. 1..added = (1..(added - 1)) \cup {added}
      BY <1>4, <3>1
    <3> QED
      BY <2>1, <3>2, <3>3, <3>4 DEF WordsInv
  <2>4. CASE ~AddReturn
    <3>1. Returned' = Returned
      BY <2>1, <2>2, <2>4 DEF Returned, Step, MinimizeStep, MinimizeReturn, ExtendStep, FinishReturn
    <3> QED
      BY <1>5, <2>1, <2>2, <2>4, <3>1 DEF Same
  <2> QED
    BY <2>3, <2>4
<1>9. CASE Finish
  <2>1. words' = words /\ added' = added /\ pc = "idle" /\ pc' = "freeze" /\ result' = result
    BY <1>9 DEF Finish, FinishStart, sorting
  <2>2. Returned' = Returned /\ ~AddReturn
    BY <2>1 DEF Returned, AddReturn
  <2> QED
    BY <1>5, <2>1, <2>2 DEF Same
<1>10. CASE Refuse \/ Write \/ Return \/ UNCHANGED buildVars
  <2>1. words' = words /\ added' = added /\ pc' = pc /\ result' = result /\ pool' = pool
    BY <1>10 DEF Refuse, Write, Return, buildVars, sorting, vars
  <2> QED
    BY <2>1 DEF WordsInv, Returned
<1> QED
  BY <1>6, <1>7, <1>8, <1>9, <1>10 DEF BuildNext

LEMMA DictStep ==
    ASSUME CountSuffices, SortInv, AddedInv, BuilderInv, BuilderInv', LoopInv, DictInv, [BuildNext]_buildVars
    PROVE  DictInv'
<1>1. [Next]_vars
  BY StepOfPart
<1>2. MinimalInv'
  BY <1>1, MinimalStep DEF DictInv
<1> QED
  BY <1>2, WordsStep DEF DictInv, BuilderInv

LEMMA WordsIndexed ==
    ASSUME SortInv, AddedInv, LoopInv, DictInv, ~finished => Unwritten, outcome = "ok"
    PROVE  /\ Accepted(pool) = ToSet(input)
           /\ \A u \in Accepted(pool) : Len(u) <= MaxLength
<1>1. sortPc = "sorted" /\ result # "InputNotSorted" /\ added = Len(words) /\ finished
  BY ReturnedFinished
<1>2. pc = "idle"
  BY <1>1 DEF DictInv, MinimalInv, BuildInv, PathInv, PathOpen
<1>3. Accepted(pool) = WordsOf(words)
  BY <1>1, <1>2 DEF DictInv, WordsInv, Returned, WordsOf
<1>4. WordsOf(words) = WordsOf(input)
  BY <1>1 DEF SortInv, Kept, InHand
<1>5. input \in Seq(Words)
  BY InputFacts DEF SortInv
<1>6. WordsOf(input) = ToSet(input)
  BY <1>5 DEF WordsOf, ToSet
<1>7. ToSet(input) \subseteq Words
  BY <1>5 DEF ToSet
<1> QED
  BY <1>3, <1>4, <1>6, <1>7, WordsAssumption

----------------------------------------------------------------------------
(* Reading the index.                                                      *)

\* The nodes of the index are in the bytes.
Complete == BuilderInv /\ finished /\ WalkInv /\ LayoutInv /\ writerPhase = "returned"

Nodes == {order[k] : k \in 1..Len(order)}

LEMMA CompleteNodes ==
    ASSUME Complete
    PROVE  /\ Len(order) \in Nat /\ Nodes \subseteq Canonical /\ Nodes \subseteq 1..Len(pool)
           /\ RootId \in Nodes
           /\ \A n \in Nodes : Children(pool, n) \subseteq Nodes
           /\ \A j, k \in 1..Len(order) : order[j] = order[k] => j = k
<1> USE DEF Complete, WalkInv
<1>1. stk = << >>
  <2>1. PICK P \in Nat : LaidOut(P)
    BY DEF LayoutInv
  <2> QED
    BY <2>1 DEF LaidOut
<1>2. Len(order) \in Nat /\ \A k \in 1..Len(order) : order[k] \in visited
  BY DEF WalkTypes
<1>3. Nodes \subseteq Canonical
  BY <1>2 DEF WalkTypes, Nodes
<1>4. Canonical \subseteq 1..Len(pool)
  BY CanonicalNodes
<1>5. Len(stk) = 0
  BY <1>1
<1>6. RootId \in visited
  BY <1>5 DEF VisitedInv
<1>7. RootId \in Nodes
  BY <1>5, <1>6 DEF VisitedInv, Nodes
<1>8. \A n \in Nodes : Children(pool, n) \subseteq Nodes
  <2> SUFFICES ASSUME NEW k \in 1..Len(order), NEW m \in Children(pool, order[k]) PROVE m \in Nodes
    BY DEF Nodes
  <2>1. PICK l \in 1..(k - 1) : order[l] = m
    BY DEF ChildrenInv
  <2>2. l \in 1..Len(order)
    BY <1>2, <2>1
  <2> QED
    BY <2>1, <2>2 DEF Nodes
<1> QED
  BY <1>2, <1>3, <1>4, <1>7, <1>8 DEF VisitedInv

LEMMA CompleteOffsets ==
    ASSUME Complete
    PROVE  /\ \A n \in Nodes : offsets[n] \in Nat /\ Holds(n)
           /\ \A m, n \in Nodes : offsets[m] = offsets[n] => m = n
           /\ header.root = offsets[RootId] /\ header.nodes = Len(order)
<1>1. PICK P \in Nat : LaidOut(P)
  BY DEF Complete, LayoutInv
<1>2. P = Len(order) /\ written = Len(order) /\ Len(order) \in Nat
  BY <1>1, CompleteNodes DEF Complete, LaidOut, LayoutInv, WrittenInv
<1>3. \A k \in 1..Len(order) : offsets[order[k]] \in Nat /\ Holds(order[k])
  BY <1>1, <1>2 DEF Complete, LaidOut, LayoutInv, WrittenInv
<1>4. \A j, k \in 1..Len(order) : j < k => offsets[order[j]] < offsets[order[k]]
  <2> SUFFICES ASSUME NEW j \in 1..Len(order), NEW k \in 1..Len(order), j < k
               PROVE  offsets[order[j]] < offsets[order[k]]
    OBVIOUS
  <2>1. offsets[order[j]] + Writer!CellsOf(order[j]) <= offsets[order[k]]
    BY <1>1, <1>2 DEF LaidOut
  <2>2. order[j] \in 1..Len(pool)
    BY CompleteNodes DEF Nodes
  <2>3. Writer!CellsOf(order[j]) \in Nat \ {0}
    BY <2>2, CellCounts DEF Complete, BuilderInv
  <2> QED
    BY <1>3, <2>1, <2>3
<1>5. \A j, k \in 1..Len(order) : offsets[order[j]] = offsets[order[k]] => j = k
  <2> SUFFICES ASSUME NEW j \in 1..Len(order), NEW k \in 1..Len(order), j < k
               PROVE  offsets[order[j]] # offsets[order[k]]
    BY <1>2
  <2> QED
    BY <1>3, <1>4
<1> QED
  BY <1>3, <1>5 DEF Nodes, Complete, LayoutInv, WrittenInv

\* What is read at the offset of a node is the node, however its count is kept.
LEMMA ReadsNode ==
    ASSUME Complete, NEW n \in Nodes
    PROVE  LET node == ReadNode(data, offsets[n])
           IN  /\ node.final = pool[n].final
               /\ node.count = Len(pool[n].trans) /\ node.count \in Nat
               /\ \A i \in 1..node.count :
                      /\ LabelAt(data, node, i) = pool[n].trans[i].label
                      /\ TargetAt(data, node, i) = offsets[pool[n].trans[i].child]
<1> DEFINE k == Len(pool[n].trans)
           at == offsets[n]
           h == HeadSize(n)
           node == ReadNode(data, at)
<1>1. at \in Nat /\ Holds(n)
  BY CompleteOffsets
<1>2. k \in Nat /\ Escape \in Nat \ {0}
  BY CompleteNodes, PathNodes, EscapeAssumption DEF Complete, BuilderInv
<1>3. /\ data[at + 1] = [final |-> pool[n].final, count |-> IF k >= Escape THEN Escape ELSE k]
      /\ k >= Escape => data[at + 2] = k - Escape
      /\ \A i \in 1..k : /\ data[at + (h + (2 * i - 1))] = pool[n].trans[i].label
                         /\ data[at + (h + 2 * i)] = offsets[pool[n].trans[i].child]
  BY <1>1 DEF Holds
<1>4. h = IF k >= Escape THEN 2 ELSE 1
  BY DEF HeadSize
<1> HIDE DEF k, at, h
<1>5. node = [final |-> pool[n].final, count |-> k, at |-> at + h]
  <2>1. Cell(data, at) = data[at + 1] /\ Cell(data, at + 1) = data[at + 2]
    BY <1>1 DEF Cell
  <2>2. CASE k >= Escape
    <3>1. Cell(data, at).count = Escape /\ Cell(data, at).final = pool[n].final /\ h = 2
      BY <1>3, <1>4, <2>1, <2>2
    <3>2. Escape + Cell(data, at + 1) = k
      BY <1>2, <1>3, <2>1, <2>2
    <3> QED
      BY <3>1, <3>2 DEF ReadNode
  <2>3. CASE ~(k >= Escape)
    <3>1. Cell(data, at).count = k /\ Cell(data, at).final = pool[n].final /\ h = 1
      BY <1>3, <1>4, <2>1, <2>3
    <3>2. k # Escape
      BY <1>2, <2>3
    <3> QED
      BY <3>1, <3>2 DEF ReadNode
  <2> QED
    BY <2>2, <2>3
<1>6. node.final = pool[n].final /\ node.count = k /\ node.at = at + h
  BY <1>5
<1> HIDE DEF node
<1>7. ASSUME NEW i \in 1..k
      PROVE  /\ LabelAt(data, node, i) = pool[n].trans[i].label
             /\ TargetAt(data, node, i) = offsets[pool[n].trans[i].child]
  <2>1. h \in Nat
    BY <1>4
  <2>2. /\ (node.at + 2 * (i - 1)) + 1 = at + (h + (2 * i - 1))
        /\ (node.at + 2 * (i - 1) + 1) + 1 = at + (h + 2 * i)
    BY <1>1, <1>2, <1>6, <2>1
  <2> QED
    BY <1>3, <2>2 DEF LabelAt, TargetAt, Cell
<1> QED
  BY <1>2, <1>6, <1>7 DEF node, k, at

LEMMA PoolOfIndex ==
    ASSUME Complete, DictInv
    PROVE  /\ IsPool(pool) /\ RootId \in 1..Len(pool) /\ \A n \in Nodes : n \in 1..Len(pool)
           /\ \A n \in Nodes : \A m \in Children(pool, n) : m \in registered /\ m # RootId /\ m \in Nodes
<1> USE DEF Complete
<1>1. IsPool(pool) /\ RootId \in 1..Len(pool)
  BY PoolIsPool DEF DictInv, MinimalInv
<1>2. Nodes \subseteq 1..Len(pool) /\ Nodes \subseteq Canonical /\ \A n \in Nodes : Children(pool, n) \subseteq Nodes
  BY CompleteNodes
<1>3. ASSUME NEW n \in Nodes, NEW m \in Children(pool, n) PROVE m \in registered /\ m # RootId
  <2>1. CASE n \in registered
    <3>1. RootId \notin Children(pool, n)
      BY <2>1 DEF DictInv, MinimalInv, NodesUseful
    <3>2. n \in 1..Len(pool)
      BY <1>2
    <3>3. m \in registered
      BY <2>1, <3>2, PathNodes DEF BuilderInv, RegisteredLinked, Children
    <3> QED
      BY <3>1, <3>3
  <2>2. CASE n = RootId
    <3>1. m \in registered
      BY <2>2 DEF BuilderInv, RootLinked
    <3>2. PICK r : RankOn(r)
      BY RankExists
    <3>3. RootId \in Canonical /\ r[RootId] \in Nat
      BY <3>2 DEF RankOn, Canonical
    <3>4. m # RootId
      BY <2>2, <3>2, <3>3 DEF RankOn
    <3> QED
      BY <3>1, <3>4
  <2> QED
    BY <1>2, <2>1, <2>2 DEF Canonical
<1> QED
  BY <1>1, <1>2, <1>3

LEMMA DeepNext ==
    ASSUME Complete, DictInv, NEW n \in Nodes, NEW k \in Nat, Deep(n, k), NEW m \in Children(pool, n)
    PROVE  Deep(m, k + 1)
<1>1. m \in registered /\ m # RootId /\ n \in 1..Len(pool) /\ m \in 1..Len(pool) /\ IsPool(pool)
  BY PoolOfIndex
<1>2. PICK j \in 1..Len(pool[n].trans) : m = pool[n].trans[j].child
  BY DEF Children
<1>3. PICK c \in Labels : Leads(pool, n, c, m)
  <2>1. pool[n].trans[j].label \in Labels
    BY <1>1, PoolNodes
  <2> QED
    BY <1>2, <2>1 DEF Leads
<1>4. ASSUME NEW v \in Seq(Labels), AcceptsFrom(pool, m, v)
      PROVE  \E u \in Accepted(pool) : Len(u) = (k + 1) + Len(v)
  <2>1. AcceptsFrom(pool, n, <<c>> \o v)
    BY <1>1, <1>3, <1>4, AcceptsLabel
  <2>2. <<c>> \o v \in Seq(Labels) /\ Len(<<c>> \o v) = 1 + Len(v) /\ Len(v) \in Nat
    OBVIOUS
  <2>3. PICK u \in Accepted(pool) : Len(u) = k + Len(<<c>> \o v)
    BY <2>1, <2>2 DEF Deep
  <2> QED
    BY <2>2, <2>3
<1> QED
  BY <1>1, <1>4 DEF Deep

LEMMA DeepBound ==
    ASSUME Complete, DictInv, \A u \in Accepted(pool) : Len(u) <= MaxLength,
           NEW n \in Nodes, NEW k \in Nat, Deep(n, k)
    PROVE  k <= MaxLength
<1>1. CASE k = 0
  BY <1>1, MaxLengthAssumption
<1>2. CASE k > 0
  <2>1. n \in registered /\ n # RootId
    BY <1>2 DEF Deep
  <2>2. Useful(pool, n)
    BY <2>1 DEF DictInv, MinimalInv, NodesUseful
  <2>3. PICK v \in Seq(Labels) : AcceptsFrom(pool, n, v)
    BY <2>1, <2>2, AcceptsSomething DEF DictInv
  <2>4. PICK u \in Accepted(pool) : Len(u) = k + Len(v)
    BY <2>3 DEF Deep
  <2>5. Len(u) <= MaxLength /\ Len(v) \in Nat
    BY <2>4
  <2> QED
    BY <2>4, <2>5, MaxLengthAssumption
<1> QED
  BY <1>1, <1>2

LEMMA TargetsAre ==
    ASSUME Complete, NEW n \in Nodes
    PROVE  TargetsOf(offsets[n]) = {offsets[m] : m \in Children(pool, n)}
<1> DEFINE node == ReadNode(data, offsets[n])
<1>1. /\ node.count = Len(pool[n].trans)
      /\ \A i \in 1..node.count : TargetAt(data, node, i) = offsets[pool[n].trans[i].child]
  BY ReadsNode
<1>2. TargetsOf(offsets[n]) = {TargetAt(data, node, t) : t \in 1..node.count}
  BY DEF TargetsOf
<1> HIDE DEF node
<1> QED
  BY <1>1, <1>2 DEF Children

\* The levels that IndexNodes goes through.
LevelsOf(R) ==
    R = [k \in 0..(MaxLength + 1) |->
            IF k = 0 THEN {header.root} ELSE UNION {TargetsOf(at) : at \in R[k - 1]}]

LEMMA LevelsExist ==
    ASSUME Complete
    PROVE  \E R : LevelsOf(R)
<1> DEFINE N == MaxLength + 1
           A == SUBSET {offsets[n] : n \in Nodes}
           step == [ats \in A |-> UNION {TargetsOf(at) : at \in ats}]
<1>1. N \in Nat
  BY MaxLengthAssumption
<1>2. ASSUME NEW ats \in A PROVE UNION {TargetsOf(at) : at \in ats} \in A
  <2>1. ASSUME NEW at \in ats PROVE TargetsOf(at) \in A
    <3>1. PICK n \in Nodes : at = offsets[n]
      OBVIOUS
    <3>2. TargetsOf(at) = {offsets[m] : m \in Children(pool, n)}
      BY <3>1, TargetsAre
    <3>3. Children(pool, n) \subseteq Nodes
      BY CompleteNodes
    <3> QED
      BY <3>2, <3>3
  <2> QED
    BY <2>1
<1>3. step \in [A -> A] /\ \A ats \in A : step[ats] = UNION {TargetsOf(at) : at \in ats}
  BY <1>2
<1>4. {header.root} \in A
  BY CompleteNodes, CompleteOffsets
<1> HIDE DEF N, A, step
<1>5. PICK f : IterOf(f, A, {header.root}, step, N)
  BY <1>1, <1>3, <1>4, IterExists
<1>6. f \in [0..N -> A] /\ f[0] = {header.root} /\ \A k \in 1..N : f[k] = step[f[k - 1]]
  BY <1>5 DEF IterOf
<1>7. \A k \in 0..N : f[k] = IF k = 0 THEN {header.root} ELSE UNION {TargetsOf(at) : at \in f[k - 1]}
  <2> SUFFICES ASSUME NEW k \in 0..N, k # 0 PROVE f[k] = UNION {TargetsOf(at) : at \in f[k - 1]}
    BY <1>6
  <2>1. k \in 1..N /\ k - 1 \in 0..N
    BY <1>1
  <2>2. f[k - 1] \in A
    BY <1>6, <2>1
  <2> QED
    BY <1>3, <1>6, <2>1, <2>2
<1>8. LevelsOf(f)
  BY <1>6, <1>7 DEF LevelsOf, N
<1> QED
  BY <1>8

LEMMA IndexNodesAre ==
    ASSUME Complete, DictInv, \A u \in Accepted(pool) : Len(u) <= MaxLength
    PROVE  IndexNodes = {offsets[n] : n \in Nodes}
<1> DEFINE N == MaxLength + 1
           R == CHOOSE R : LevelsOf(R)
<1>1. IndexNodes = UNION {R[k] : k \in 0..N}
  BY DEF IndexNodes, LevelsOf
<1>2. LevelsOf(R)
  BY LevelsExist
<1>3. N \in Nat /\ MaxLength \in Nat
  BY MaxLengthAssumption
<1> HIDE DEF R, N
<1>4. R[0] = {header.root} /\ \A k \in 1..N : R[k] = UNION {TargetsOf(at) : at \in R[k - 1]}
  <2>1. \A k \in 0..N : R[k] = IF k = 0 THEN {header.root} ELSE UNION {TargetsOf(at) : at \in R[k - 1]}
    BY <1>2 DEF LevelsOf, N
  <2>2. 0 \in 0..N /\ \A k \in 1..N : k \in 0..N /\ k # 0
    BY <1>3
  <2> QED
    BY <2>1, <2>2
<1>5. header.root = offsets[RootId] /\ RootId \in Nodes
  BY CompleteNodes, CompleteOffsets
<1> DEFINE At(k) == {n \in Nodes : Deep(n, k)}
           In(k) == \A at \in R[k] : \E n \in At(k) : at = offsets[n]
<1>6. \A k \in 0..N : In(k)
  <2> DEFINE Bad == {k \in Nat : k <= N /\ ~In(k)}
  <2> SUFFICES ASSUME Bad # {} PROVE FALSE
    BY <1>3
  <2>1. PICK k \in Bad : \A l \in Bad : k <= l
    <3>1. Bad \in SUBSET Nat
      OBVIOUS
    <3> HIDE DEF Bad
    <3> QED
      BY <3>1, Least
  <2>2. In(0)
    BY <1>4, <1>5, DeepRoot
  <2>3. k # 0
    BY <2>1, <2>2
  <2>4. k \in 1..N /\ k - 1 \in Nat /\ k - 1 <= N /\ ~(k <= k - 1) /\ (k - 1) + 1 = k
    BY <1>3, <2>3
  <2>5. In(k - 1)
    BY <2>1, <2>4
  <2>6. In(k)
    <3> SUFFICES ASSUME NEW at \in R[k] PROVE \E n \in At(k) : at = offsets[n]
      OBVIOUS
    <3>1. PICK b \in R[k - 1] : at \in TargetsOf(b)
      BY <1>4, <2>4
    <3>2. PICK n \in Nodes : Deep(n, k - 1) /\ b = offsets[n]
      BY <2>5
    <3>3. PICK m \in Children(pool, n) : at = offsets[m]
      BY <3>1, <3>2, TargetsAre
    <3>4. Deep(m, k) /\ m \in Nodes
      BY <2>4, <3>2, DeepNext, CompleteNodes
    <3> QED
      BY <3>3, <3>4
  <2> QED
    BY <2>1, <2>6
<1> HIDE DEF In
<1>7. \A k \in 0..N : \A at \in R[k] : \E n \in Nodes : Deep(n, k) /\ at = offsets[n]
  BY <1>6 DEF In
<1> DEFINE S == {n \in Nodes : \E k \in 0..MaxLength : offsets[n] \in R[k]}
<1>8. ClosedUnderChildren(S)
  <2>1. RootId \in S
    BY <1>3, <1>4, <1>5
  <2>2. ASSUME NEW n \in S, NEW m \in Children(pool, n) PROVE m \in S
    <3>1. PICK k \in 0..MaxLength : offsets[n] \in R[k]
      OBVIOUS
    <3>2. m \in Nodes /\ n \in Nodes
      BY CompleteNodes
    <3>3. k + 1 \in 1..N /\ k + 1 \in 0..N /\ (k + 1) - 1 = k
      BY <1>3 DEF N
    <3>4. offsets[m] \in TargetsOf(offsets[n])
      BY <3>2, TargetsAre
    <3>5. offsets[m] \in R[k + 1]
      BY <1>4, <3>1, <3>3, <3>4
    <3>6. PICK l \in Nodes : Deep(l, k + 1) /\ offsets[m] = offsets[l]
      BY <1>7, <3>3, <3>5
    <3>7. k + 1 <= MaxLength
      <4>1. k + 1 \in Nat
        OBVIOUS
      <4> QED
        BY <3>6, <4>1, DeepBound
    <3>8. k + 1 \in 0..MaxLength
      BY <1>3, <3>7
    <3> QED
      BY <3>2, <3>5, <3>8
  <2> QED
    BY <2>1, <2>2 DEF ClosedUnderChildren
<1>9. Nodes \subseteq S
  <2>1. visited \subseteq S
    BY <1>8 DEF Complete, WalkInv, ReachedInv
  <2>2. Nodes \subseteq visited
    BY DEF Complete, WalkInv, WalkTypes, Nodes
  <2> QED
    BY <2>1, <2>2
<1>10. \A k \in 0..MaxLength : k \in 0..N
  BY <1>3 DEF N
<1> QED
  BY <1>1, <1>7, <1>9, <1>10

\* What the recurrence of LanguageAt makes of the words behind the targets.
WordsAt(L, at) ==
    LET node == ReadNode(data, at)
    IN  (IF node.final THEN {<< >>} ELSE {}) \cup
        UNION {{<<LabelAt(data, node, t)>> \o w : w \in L[TargetAt(data, node, t)]} : t \in 1..node.count}

LanguagesOf(L) == L = [at \in IndexNodes |-> WordsAt(L, at)]

LEMMA WordsUnfold ==
    ASSUME Complete, DictInv, NEW n \in Nodes, NEW L,
           \A m \in Children(pool, n) : L[offsets[m]] = WordsFrom(m)
    PROVE  WordsAt(L, offsets[n]) = WordsFrom(n)
<1> DEFINE node == ReadNode(data, offsets[n])
           behind(t) == {<<LabelAt(data, node, t)>> \o w : w \in L[TargetAt(data, node, t)]}
           k == Len(pool[n].trans)
<1>1. /\ node.final = pool[n].final /\ node.count = k /\ k \in Nat
      /\ \A t \in 1..k : /\ LabelAt(data, node, t) = pool[n].trans[t].label
                         /\ TargetAt(data, node, t) = offsets[pool[n].trans[t].child]
  BY ReadsNode
<1>2. IsPool(pool) /\ n \in 1..Len(pool)
  BY PoolOfIndex
<1>3. WordsAt(L, offsets[n]) = (IF node.final THEN {<< >>} ELSE {}) \cup UNION {behind(t) : t \in 1..node.count}
  BY DEF WordsAt
<1>4. ASSUME NEW t \in 1..k
      PROVE  behind(t) = {<<pool[n].trans[t].label>> \o w : w \in WordsFrom(pool[n].trans[t].child)}
  <2>1. pool[n].trans[t].child \in Children(pool, n)
    BY <1>4 DEF Children
  <2>2. L[TargetAt(data, node, t)] = WordsFrom(pool[n].trans[t].child)
    BY <1>1, <2>1
  <2> QED
    BY <1>1, <2>2
<1> HIDE DEF behind, node
<1>5. ASSUME NEW u \in WordsAt(L, offsets[n]) PROVE u \in WordsFrom(n)
  <2>1. CASE u = << >> /\ pool[n].final
    <3>1. << >> \in Seq(Labels)
      OBVIOUS
    <3> QED
      BY <1>2, <2>1, <3>1, AcceptsEmpty DEF WordsFrom
  <2>2. ASSUME NEW t \in 1..k, u \in behind(t) PROVE u \in WordsFrom(n)
    <3> DEFINE c == pool[n].trans[t].label
               m == pool[n].trans[t].child
    <3>1. c \in Labels /\ m \in 1..Len(pool) /\ Leads(pool, n, c, m)
      BY <1>2, PoolNodes DEF Leads
    <3>2. PICK w \in WordsFrom(m) : u = <<c>> \o w
      BY <1>4, <2>2
    <3> HIDE DEF c, m
    <3>3. w \in Seq(Labels) /\ AcceptsFrom(pool, m, w)
      BY DEF WordsFrom
    <3>4. <<c>> \o w \in Seq(Labels)
      BY <3>1, <3>3
    <3>5. AcceptsFrom(pool, n, <<c>> \o w)
      BY <1>2, <3>1, <3>3, AcceptsLabel
    <3> QED
      BY <3>2, <3>4, <3>5 DEF WordsFrom
  <2> QED
    BY <1>1, <1>3, <1>5, <2>1, <2>2
<1>6. ASSUME NEW u \in WordsFrom(n) PROVE u \in WordsAt(L, offsets[n])
  <2>1. u \in Seq(Labels) /\ AcceptsFrom(pool, n, u)
    BY DEF WordsFrom
  <2>2. CASE u = << >>
    BY <1>1, <1>2, <1>3, <2>1, <2>2, AcceptsEmpty
  <2>3. CASE u # << >>
    <3>1. PICK c \in Labels, w \in Seq(Labels) : u = <<c>> \o w
      <4>1. u[1] \in Labels /\ Tail(u) \in Seq(Labels) /\ u = <<u[1]>> \o Tail(u)
        BY <2>1, <2>3, HeadAndTail
      <4>2. PICK c, w : c = u[1] /\ w = Tail(u)
        OBVIOUS
      <4>3. c \in Labels /\ w \in Seq(Labels) /\ u = <<c>> \o w
        BY <4>1, <4>2
      <4> QED
        BY <4>3
    <3>2. PICK m \in 1..Len(pool) : Leads(pool, n, c, m) /\ AcceptsFrom(pool, m, w)
      BY <1>2, <2>1, <3>1, AcceptsLabel
    <3>3. PICK t \in 1..k : pool[n].trans[t].label = c /\ pool[n].trans[t].child = m
      BY <3>2 DEF Leads
    <3>4. w \in WordsFrom(m)
      BY <3>2 DEF WordsFrom
    <3>5. u \in behind(t)
      BY <1>4, <3>1, <3>3, <3>4
    <3> QED
      BY <1>1, <1>3, <3>5
  <2> QED
    BY <2>2, <2>3
<1> QED
  BY <1>5, <1>6

LEMMA LanguagesAre ==
    ASSUME Complete, DictInv, \A u \in Accepted(pool) : Len(u) <= MaxLength
    PROVE  /\ DOMAIN LanguageAt = {offsets[n] : n \in Nodes}
           /\ \A n \in Nodes : LanguageAt[offsets[n]] = WordsFrom(n)
<1>1. IndexNodes = {offsets[n] : n \in Nodes}
  BY IndexNodesAre
<1>2. \A m, n \in Nodes : offsets[m] = offsets[n] => m = n
  BY CompleteOffsets
<1>3. \A n \in Nodes : Children(pool, n) \subseteq Nodes
  BY CompleteNodes
<1> DEFINE NodeAt(at) == CHOOSE n \in Nodes : offsets[n] = at
           G == [at \in IndexNodes |-> WordsFrom(NodeAt(at))]
           L == CHOOSE L : LanguagesOf(L)
<1>4. \A n \in Nodes : NodeAt(offsets[n]) = n
  BY <1>2
<1> HIDE DEF NodeAt
<1>5. \A n \in Nodes : G[offsets[n]] = WordsFrom(n)
  BY <1>1, <1>4
<1>6. LanguagesOf(G)
  <2>1. ASSUME NEW at \in IndexNodes PROVE G[at] = WordsAt(G, at)
    <3>1. PICK n \in Nodes : at = offsets[n]
      BY <1>1
    <3>2. \A m \in Children(pool, n) : G[offsets[m]] = WordsFrom(m)
      BY <1>3, <1>5
    <3> HIDE DEF G
    <3>3. WordsAt(G, offsets[n]) = WordsFrom(n)
      BY <3>2, WordsUnfold
    <3> QED
      BY <1>5, <3>1, <3>3
  <2>2. G = [at \in IndexNodes |-> G[at]]
    OBVIOUS
  <2> HIDE DEF G
  <2> QED
    BY <2>1, <2>2 DEF LanguagesOf
<1>7. LanguageAt = L
  BY DEF LanguageAt, LanguagesOf, WordsAt
<1>8. LanguagesOf(L)
  BY <1>6
<1> HIDE DEF L, G
<1>9. DOMAIN L = IndexNodes /\ \A at \in IndexNodes : L[at] = WordsAt(L, at)
  BY <1>8 DEF LanguagesOf
<1> DEFINE Right(n) == L[offsets[n]] = WordsFrom(n)
<1>10. ASSUME NEW n \in Nodes, \A m \in Children(pool, n) : Right(m) PROVE Right(n)
  <2>1. WordsAt(L, offsets[n]) = WordsFrom(n)
    BY <1>10, WordsUnfold
  <2>2. offsets[n] \in IndexNodes
    BY <1>1
  <2> QED
    BY <1>9, <2>1, <2>2
<1> HIDE DEF Right
<1>11. \A k \in 1..Len(order) : Right(order[k])
  <2> DEFINE Bad == {k \in Nat : k \in 1..Len(order) /\ ~Right(order[k])}
  <2>1. Len(order) \in Nat
    BY CompleteNodes
  <2> SUFFICES ASSUME Bad # {} PROVE FALSE
    OBVIOUS
  <2>2. PICK k \in Bad : \A l \in Bad : k <= l
    <3>1. Bad \in SUBSET Nat
      OBVIOUS
    <3> HIDE DEF Bad
    <3> QED
      BY <3>1, Least
  <2>3. k \in 1..Len(order) /\ ~Right(order[k]) /\ order[k] \in Nodes
    BY DEF Nodes
  <2>4. ASSUME NEW m \in Children(pool, order[k]) PROVE Right(m)
    <3>1. PICK l \in 1..(k - 1) : order[l] = m
      BY <2>3 DEF Complete, WalkInv, ChildrenInv
    <3>2. l \in 1..Len(order) /\ l \in Nat /\ ~(k <= l)
      BY <2>1, <2>3, <3>1
    <3> QED
      BY <2>2, <3>1, <3>2
  <2> QED
    BY <1>10, <2>3, <2>4
<1>12. \A n \in Nodes : Right(n)
  BY <1>11 DEF Nodes
<1> QED
  BY <1>1, <1>7, <1>9, <1>12 DEF Right

\* One label of contains().
KeyNext(a, c) ==
    IF ~a.found THEN NotFound
    ELSE LET node == ReadNode(data, a.offset)
             hits == Matching(data, node, c)
         IN  IF hits = {} THEN NotFound
             ELSE [found |-> TRUE, offset |-> TargetAt(data, node, First(hits))]

KeyStates(A, k) ==
    A = [i \in 0..Len(k) |-> IF i = 0 THEN [found |-> TRUE, offset |-> header.root]
                             ELSE KeyNext(A[i - 1], k[i])]

LEMMA FirstHit ==
    ASSUME NEW S \in SUBSET Nat, S # {}
    PROVE  First(S) \in S
<1>1. \E x \in S : \A y \in S : x <= y
  BY Least
<1> QED
  BY <1>1 DEF First

\* It follows the transition for the label, if there is one.
LEMMA KeyFollows ==
    ASSUME Complete, DictInv, NEW n \in Nodes, NEW c \in Labels, NEW a, a.found, a.offset = offsets[n]
    PROVE  \/ /\ KeyNext(a, c) = NotFound
              /\ \A m : ~Leads(pool, n, c, m)
           \/ \E m \in Nodes : /\ KeyNext(a, c) = [found |-> TRUE, offset |-> offsets[m]]
                               /\ \A l : Leads(pool, n, c, l) <=> l = m
<1> DEFINE node == ReadNode(data, offsets[n])
           k == Len(pool[n].trans)
           hits == Matching(data, node, c)
<1>1. /\ node.count = k /\ k \in Nat
      /\ \A t \in 1..k : /\ LabelAt(data, node, t) = pool[n].trans[t].label
                         /\ TargetAt(data, node, t) = offsets[pool[n].trans[t].child]
  BY ReadsNode
<1>2. hits = {t \in 1..k : pool[n].trans[t].label = c}
  BY <1>1 DEF Matching
<1>3. KeyNext(a, c) = IF hits = {} THEN NotFound
                      ELSE [found |-> TRUE, offset |-> TargetAt(data, node, First(hits))]
  BY DEF KeyNext
<1> HIDE DEF hits, node
<1>4. CASE hits = {}
  BY <1>2, <1>3, <1>4 DEF Leads
<1>5. CASE hits # {}
  <2>1. hits \in SUBSET Nat
    BY <1>1, <1>2
  <2>2. PICK t : t = First(hits) /\ t \in hits
    BY <1>5, <2>1, FirstHit
  <2>3. t \in 1..k /\ pool[n].trans[t].label = c
    BY <1>2, <2>2
  <2>4. PICK m : m = pool[n].trans[t].child
    OBVIOUS
  <2>5. m \in Nodes
    BY <2>3, <2>4, CompleteNodes DEF Children
  <2>6. KeyNext(a, c) = [found |-> TRUE, offset |-> offsets[m]]
    BY <1>1, <1>3, <1>5, <2>2, <2>3, <2>4
  <2>7. Leads(pool, n, c, m)
    BY <2>3, <2>4 DEF Leads
  <2>8. TypeOK /\ LabelsSorted /\ n \in 1..Len(pool)
    BY PoolOfIndex DEF DictInv, MinimalInv, BuildInv
  <2>9. \A l : Leads(pool, n, c, l) => l = m
    BY <2>7, <2>8, LeadsOnce
  <2> QED
    BY <2>5, <2>6, <2>7, <2>9
<1> QED
  BY <1>4, <1>5

LEMMA KeyStatesExist ==
    ASSUME Complete, DictInv, NEW k \in Seq(Labels)
    PROVE  \E A : KeyStates(A, k)
<1> DEFINE S == {NotFound} \cup {[found |-> TRUE, offset |-> offsets[n]] : n \in Nodes}
           step == [x \in S \X Labels |-> KeyNext(x[1], x[2])]
           base == [found |-> TRUE, offset |-> header.root]
           N == Len(k)
<1>1. N \in Nat /\ k \in [1..N -> Labels]
  OBVIOUS
<1>2. base \in S
  BY CompleteNodes, CompleteOffsets
<1>3. ASSUME NEW a \in S, NEW c \in Labels PROVE KeyNext(a, c) \in S
  <2>1. CASE a = NotFound
    BY <2>1 DEF KeyNext, NotFound
  <2>2. ASSUME NEW n \in Nodes, a = [found |-> TRUE, offset |-> offsets[n]]
        PROVE  KeyNext(a, c) \in S
    <3>1. a.found /\ a.offset = offsets[n]
      BY <2>2
    <3> QED
      BY <3>1, KeyFollows
  <2> QED
    BY <2>1, <2>2
<1>4. step \in [S \X Labels -> S] /\ \A a \in S, c \in Labels : step[<<a, c>>] = KeyNext(a, c)
  <2>1. \A x \in S \X Labels : x[1] \in S /\ x[2] \in Labels
    OBVIOUS
  <2>2. \A a \in S, c \in Labels : <<a, c>> \in S \X Labels /\ <<a, c>>[1] = a /\ <<a, c>>[2] = c
    OBVIOUS
  <2> HIDE DEF S
  <2> QED
    BY <1>3, <2>1, <2>2
<1> HIDE DEF S, step, base, N
<1>5. PICK f : RunOf(f, S, base, step, N, k)
  BY <1>1, <1>2, <1>4, RunExists
<1>6. f \in [0..N -> S] /\ f[0] = base /\ \A i \in 1..N : f[i] = step[<<f[i - 1], k[i]>>]
  BY <1>5 DEF RunOf
<1>7. \A i \in 0..N : f[i] = IF i = 0 THEN base ELSE KeyNext(f[i - 1], k[i])
  <2> SUFFICES ASSUME NEW i \in 0..N, i # 0 PROVE f[i] = KeyNext(f[i - 1], k[i])
    BY <1>6
  <2>1. i \in 1..N /\ i - 1 \in 0..N
    BY <1>1
  <2>2. f[i - 1] \in S /\ k[i] \in Labels
    BY <1>1, <1>6, <2>1
  <2> QED
    BY <1>4, <1>6, <2>1, <2>2
<1>8. KeyStates(f, k)
  BY <1>6, <1>7 DEF KeyStates, N, base
<1> QED
  BY <1>8

\* contains() finds the words of the index and no others, of any length.
LEMMA ContainsWords ==
    ASSUME Complete, DictInv, NEW w \in Seq(Labels)
    PROVE  ContainsKey(data, header.root, w) <=> w \in Accepted(pool)
<1> DEFINE A == CHOOSE A : KeyStates(A, w)
           N == Len(w)
<1>1. ContainsKey(data, header.root, w) <=> A[N].found /\ ReadNode(data, A[N].offset).final
  BY DEF ContainsKey, KeyStates, KeyNext
<1>2. KeyStates(A, w)
  BY KeyStatesExist
<1>3. N \in Nat /\ \A i \in 1..N : w[i] \in Labels
  OBVIOUS
<1> HIDE DEF A
<1>4. /\ A[0] = [found |-> TRUE, offset |-> header.root]
      /\ \A i \in 1..N : A[i] = KeyNext(A[i - 1], w[i])
  <2>1. \A i \in 0..N : A[i] = IF i = 0 THEN [found |-> TRUE, offset |-> header.root]
                               ELSE KeyNext(A[i - 1], w[i])
    BY <1>2 DEF KeyStates
  <2>2. 0 \in 0..N /\ \A i \in 1..N : i \in 0..N /\ i # 0
    BY <1>3
  <2> QED
    BY <2>1, <2>2
<1> HIDE DEF N
<1> DEFINE Word0 == AcceptsFrom(pool, RootId, w)
           Tracks(i) ==
               \/ /\ A[i].found
                  /\ \E n \in Nodes : A[i].offset = offsets[n] /\ (Word0 <=> AcceptsFrom(pool, n, RestOf(w, i)))
               \/ ~A[i].found /\ ~Word0
<1>5. Tracks(0)
  <2>1. RestOf(w, 0) = w
    BY <1>3 DEF RestOf
  <2>2. RootId \in Nodes /\ header.root = offsets[RootId]
    BY CompleteNodes, CompleteOffsets
  <2> QED
    BY <1>4, <2>1, <2>2
<1>6. ASSUME NEW i \in 1..N, Tracks(i - 1) PROVE Tracks(i)
  <2>1. /\ RestOf(w, i - 1) = <<w[i]>> \o RestOf(w, i)
        /\ RestOf(w, i) \in Seq(Labels) /\ w[i] \in Labels /\ A[i] = KeyNext(A[i - 1], w[i])
    BY <1>4, RestNext DEF N
  <2>2. CASE ~A[i - 1].found
    BY <1>6, <2>1, <2>2 DEF KeyNext, NotFound
  <2>3. CASE A[i - 1].found
    <3>1. PICK n \in Nodes : /\ A[i - 1].offset = offsets[n]
                             /\ Word0 <=> AcceptsFrom(pool, n, RestOf(w, i - 1))
      BY <1>6, <2>3
    <3>2. IsPool(pool) /\ n \in 1..Len(pool) /\ \A m \in Nodes : m \in 1..Len(pool)
      BY PoolOfIndex
    <3>3. Word0 <=> \E m \in 1..Len(pool) : Leads(pool, n, w[i], m) /\ AcceptsFrom(pool, m, RestOf(w, i))
      BY <2>1, <3>1, <3>2, AcceptsLabel
    <3>4. CASE A[i] = NotFound /\ \A m : ~Leads(pool, n, w[i], m)
      BY <3>3, <3>4 DEF NotFound
    <3>5. ASSUME NEW m \in Nodes, A[i] = [found |-> TRUE, offset |-> offsets[m]],
                 \A l : Leads(pool, n, w[i], l) <=> l = m
          PROVE  Tracks(i)
      <4>1. Word0 <=> AcceptsFrom(pool, m, RestOf(w, i))
        BY <3>2, <3>3, <3>5
      <4>2. A[i].found /\ A[i].offset = offsets[m]
        BY <3>5
      <4> QED
        BY <4>1, <4>2
    <3> HIDE DEF Tracks
    <3> QED
      BY <2>1, <2>3, <3>1, <3>4, <3>5, KeyFollows
  <2> QED
    BY <2>2, <2>3
<1> HIDE DEF Tracks
<1>7. Tracks(N)
  <2> DEFINE Bad == {i \in Nat : i <= N /\ ~Tracks(i)}
  <2> SUFFICES ASSUME Bad # {} PROVE FALSE
    BY <1>3 DEF N
  <2>1. PICK i \in Bad : \A l \in Bad : i <= l
    <3>1. Bad \in SUBSET Nat
      OBVIOUS
    <3> HIDE DEF Bad
    <3> QED
      BY <3>1, Least
  <2>2. i # 0
    BY <1>5, <2>1
  <2>3. i \in 1..N /\ i - 1 \in Nat /\ i - 1 <= N /\ ~(i <= i - 1)
    BY <1>3, <2>2 DEF N
  <2>4. Tracks(i - 1)
    BY <2>1, <2>3
  <2> QED
    BY <1>6, <2>1, <2>3, <2>4
<1>8. RestOf(w, N) = << >>
  BY <1>3 DEF RestOf, N
<1>9. Word0 <=> w \in Accepted(pool)
  BY DEF AcceptsFrom, Accepted, Accepts
<1>10. CASE A[N].found
  <2>1. PICK n \in Nodes : A[N].offset = offsets[n] /\ (Word0 <=> AcceptsFrom(pool, n, << >>))
    BY <1>7, <1>8, <1>10 DEF Tracks
  <2>2. AcceptsFrom(pool, n, << >>) <=> pool[n].final
    BY PoolOfIndex, AcceptsEmpty
  <2>3. ReadNode(data, offsets[n]).final = pool[n].final
    BY ReadsNode
  <2> QED
    BY <1>1, <1>9, <1>10, <2>1, <2>2, <2>3
<1>11. CASE ~A[N].found
  BY <1>1, <1>7, <1>9, <1>11 DEF Tracks
<1> QED
  BY <1>10, <1>11

----------------------------------------------------------------------------
(* What build returns.                                                     *)

\* Every node but the root lies below it.
LEMMA NodesDeep ==
    ASSUME Complete, DictInv, NEW n \in Nodes, n # RootId
    PROVE  \E k \in Nat \ {0} : Deep(n, k)
<1> DEFINE S == {l \in Nodes : \E k \in Nat : Deep(l, k) /\ (l # RootId => k > 0)}
<1>1. ClosedUnderChildren(S)
  <2>1. RootId \in S
    BY DeepRoot, CompleteNodes
  <2>2. ASSUME NEW l \in S, NEW m \in Children(pool, l) PROVE m \in S
    <3>1. PICK k \in Nat : Deep(l, k)
      OBVIOUS
    <3>2. Deep(m, k + 1) /\ m \in Nodes
      BY <3>1, DeepNext, CompleteNodes
    <3>3. k + 1 \in Nat /\ k + 1 > 0
      OBVIOUS
    <3> QED
      BY <3>2, <3>3
  <2> QED
    BY <2>1, <2>2 DEF ClosedUnderChildren
<1>2. Nodes \subseteq visited
  BY DEF Complete, WalkInv, WalkTypes, Nodes
<1>3. visited \subseteq S
  BY <1>1 DEF Complete, WalkInv, ReachedInv
<1>4. PICK k \in Nat : Deep(n, k) /\ k > 0
  BY <1>2, <1>3
<1> QED
  BY <1>4

\* No node below the root has its words: the longest of them would be longer.
LEMMA RootApart ==
    ASSUME Complete, DictInv, \A u \in Accepted(pool) : Len(u) <= MaxLength,
           NEW n \in Nodes, n # RootId, WordsFrom(n) = WordsFrom(RootId)
    PROVE  FALSE
<1>1. PICK k \in Nat \ {0} : Deep(n, k)
  BY NodesDeep
<1>2. n \in registered /\ n # RootId
  BY <1>1 DEF Deep
<1>3. PICK v \in Seq(Labels) : AcceptsFrom(pool, n, v)
  <2>1. Useful(pool, n)
    BY <1>2 DEF DictInv, MinimalInv, NodesUseful
  <2> QED
    BY <1>2, <2>1, AcceptsSomething DEF DictInv
<1>4. WordsFrom(RootId) = Accepted(pool)
  BY DEF WordsFrom, AcceptsFrom, Accepted, Accepts
<1>5. v \in Accepted(pool)
  BY <1>3, <1>4 DEF WordsFrom
<1> DEFINE T == {MaxLength - Len(u) : u \in Accepted(pool)}
<1>6. \A u \in Accepted(pool) : Len(u) \in Nat /\ Len(u) <= MaxLength
  BY DEF Accepted
<1>7. T \in SUBSET Nat /\ T # {}
  BY <1>5, <1>6, MaxLengthAssumption
<1>8. PICK x \in T : \A y \in T : x <= y
  <2> HIDE DEF T
  <2> QED
    BY <1>7, Least
<1>9. PICK u \in Accepted(pool) : x = MaxLength - Len(u)
  OBVIOUS
<1>10. u \in Seq(Labels) /\ AcceptsFrom(pool, n, u)
  BY <1>4 DEF WordsFrom
<1>11. PICK w \in Accepted(pool) : Len(w) = k + Len(u)
  BY <1>1, <1>10 DEF Deep
<1>12. x <= MaxLength - Len(w)
  BY <1>8
<1> QED
  BY <1>6, <1>9, <1>11, <1>12, MaxLengthAssumption

LEMMA WordsTell ==
    ASSUME Complete, DictInv, \A u \in Accepted(pool) : Len(u) <= MaxLength,
           NEW m \in Nodes, NEW n \in Nodes, WordsFrom(m) = WordsFrom(n)
    PROVE  m = n
<1>1. CASE m = RootId \/ n = RootId
  BY <1>1, RootApart
<1>2. CASE m # RootId /\ n # RootId
  <2>1. m \in registered /\ n \in registered
    BY <1>2, CompleteNodes DEF Canonical
  <2>2. SameWords(m, n)
    BY DEF SameWords, WordsFrom
  <2> QED
    BY <2>1, <2>2, Distinct DEF DictInv
<1> QED
  BY <1>1, <1>2

LEMMA NodesCounted ==
    ASSUME Complete
    PROVE  Cardinality({offsets[n] : n \in Nodes}) = Len(order)
<1> DEFINE S == 1..Len(order)
           T == {offsets[n] : n \in Nodes}
           f == [k \in S |-> offsets[order[k]]]
<1>1. Len(order) \in Nat /\ \A j, k \in S : order[j] = order[k] => j = k
  BY CompleteNodes
<1>2. \A m, n \in Nodes : offsets[m] = offsets[n] => m = n
  BY CompleteOffsets
<1>3. T = {f[k] : k \in S}
  BY DEF Nodes
<1>4. \A j, k \in S : f[j] = f[k] => j = k
  BY <1>1, <1>2 DEF Nodes
<1>5. f \in [S -> T]
  BY <1>3
<1> HIDE DEF T, f
<1>6. f \in Injection(S, T)
  BY <1>4, <1>5, Fun_IsInj
<1>7. f \in Surjection(S, T)
  BY <1>3, <1>5, Fun_IsSurj
<1>8. f \in Bijection(S, T)
  BY <1>6, <1>7, Fun_IsBij
<1>9. IsFiniteSet(S) /\ Cardinality(S) = Len(order)
  <2>1. PICK m : m = Len(order)
    OBVIOUS
  <2>2. m \in Nat /\ m \in Int /\ 1 \in Int
    BY <1>1, <2>1
  <2>3. IsFiniteSet(1..m) /\ Cardinality(1..m) = IF 1 > m THEN 0 ELSE m - 1 + 1
    BY <2>2, FS_Interval, Zenon
  <2>4. IsFiniteSet(1..m) /\ Cardinality(1..m) = m
    BY <2>2, <2>3
  <2> QED
    BY <2>1, <2>4
<1>10. Cardinality(S) = Cardinality(T)
  <2>1. ExistsBijection(S, T)
    BY <1>8 DEF ExistsBijection
  <2> QED
    BY <1>9, <2>1, FS_Bijection
<1> QED
  BY <1>9, <1>10 DEF T

IndexInv == WholeInv /\ LoopInv /\ DictInv

LEMMA IndexInvInit == BuildInit => IndexInv
  BY WholeInvInit, LoopInit, DictInit DEF IndexInv

LEMMA IndexInvStep == CountSuffices /\ IndexInv /\ [BuildNext]_buildVars => IndexInv'
<1> SUFFICES ASSUME CountSuffices, IndexInv, [BuildNext]_buildVars PROVE IndexInv'
  OBVIOUS
<1> USE DEF IndexInv
<1>1. WholeInv'
  BY WholeInvStep
<1>2. LoopInv'
  BY LoopStep DEF WholeInv, BuilderInv, LayoutInv
<1>3. DictInv'
  BY <1>1, DictStep DEF WholeInv
<1> QED
  BY <1>1, <1>2, <1>3

LEMMA IndexComplete ==
    ASSUME IndexInv, outcome = "ok"
    PROVE  /\ Complete /\ DictInv
           /\ Accepted(pool) = ToSet(input) /\ \A u \in Accepted(pool) : Len(u) <= MaxLength
<1>1. Complete
  BY ReturnedFinished DEF IndexInv, WholeInv, Complete
<1> QED
  BY <1>1, WordsIndexed DEF IndexInv, WholeInv

\* What the code refuses, without an assumption on the counts: exactly the lists
\* that it was not asked to sort and that decrease somewhere, an empty word after
\* which add() does not compare among them or not.  This is less than the header
\* promises (fuzzyfst.h:60-61: words that are not in strict order): of words that
\* are equal neighbours all but one are dropped before add() can refuse them.
THEOREM RefusesDecreasing ==
    BuildSpec => [](/\ outcome = "InputNotSorted" => ~sortInput /\ ~Sorter!NeverDecreasing(input)
                    /\ outcome = "ok" => sortInput \/ Sorter!NeverDecreasing(input))
<1> DEFINE Refuses == /\ outcome = "InputNotSorted" => ~sortInput /\ ~Sorter!NeverDecreasing(input)
                      /\ outcome = "ok" => sortInput \/ Sorter!NeverDecreasing(input)
<1>1. WholeInv /\ LoopInv => Refuses
  BY RefusedDecreases, TakenAscends DEF WholeInv
<1>2. BuildInit => WholeInv /\ LoopInv
  BY WholeInvInit, LoopInit
<1>3. WholeInv /\ LoopInv /\ [BuildNext]_buildVars => (WholeInv /\ LoopInv)'
  BY WholeInvStep, LoopStep DEF WholeInv, BuilderInv, LayoutInv
<1> QED
  BY <1>1, <1>2, <1>3, PTL DEF BuildSpec

\* An index that build returns has the words it was called with, each of them
\* and no other, as the searches read it and as contains() does: whatever their
\* order, the duplicates, the prefixes, and what the nodes share.
THEOREM IndexCorrect == CountSuffices => (BuildSpec => []IndexedOrRefused)
<1> SUFFICES ASSUME CountSuffices PROVE BuildSpec => []IndexedOrRefused
  OBVIOUS
<1>1. IndexInv => IndexedOrRefused
  <2> SUFFICES ASSUME IndexInv PROVE IndexedOrRefused
    OBVIOUS
  <2>1. outcome = "InputNotSorted" => ~sortInput /\ ~StrictlyIncreasing(input)
    BY RefusedDecreases, StrictNeverDecreases DEF IndexInv, WholeInv
  <2>2. outcome = "ok" => sortInput \/ Sorter!NeverDecreasing(input)
    BY TakenAscends DEF IndexInv, WholeInv
  <2>3. ASSUME outcome = "ok" PROVE LanguageAt[header.root] = ToSet(input)
    <3>1. Complete /\ DictInv /\ Accepted(pool) = ToSet(input) /\ \A u \in Accepted(pool) : Len(u) <= MaxLength
      BY <2>3, IndexComplete
    <3>2. header.root = offsets[RootId] /\ RootId \in Nodes
      BY <3>1, CompleteNodes, CompleteOffsets
    <3>3. LanguageAt[offsets[RootId]] = WordsFrom(RootId)
      BY <3>1, <3>2, LanguagesAre
    <3>4. WordsFrom(RootId) = Accepted(pool)
      BY DEF WordsFrom, AcceptsFrom, Accepted, Accepts
    <3> QED
      BY <3>1, <3>2, <3>3, <3>4
  <2>4. ASSUME outcome = "ok", NEW w \in BoundedSeq(Labels, MaxLength)
        PROVE  ContainsKey(data, header.root, w) <=> w \in ToSet(input)
    <3>1. Complete /\ DictInv /\ Accepted(pool) = ToSet(input)
      BY <2>4, IndexComplete
    <3>2. w \in Seq(Labels)
      BY MaxLengthAssumption DEF BoundedSeq, SeqOf
    <3> QED
      BY <3>1, <3>2, ContainsWords
  <2> QED
    BY <2>1, <2>2, <2>3, <2>4 DEF IndexedOrRefused
<1>2. IndexInv /\ [BuildNext]_buildVars => IndexInv'
  BY IndexInvStep
<1> QED
  BY <1>1, <1>2, IndexInvInit, PTL DEF BuildSpec

\* The index is minimal: no two of its nodes have the same words behind them,
\* the root included, which finish() registers whatever the state map answers.
THEOREM NodesCorrect == CountSuffices => (BuildSpec => []NodesAreLanguages)
<1> SUFFICES ASSUME CountSuffices PROVE BuildSpec => []NodesAreLanguages
  OBVIOUS
<1>1. IndexInv => NodesAreLanguages
  <2> SUFFICES ASSUME IndexInv, outcome = "ok"
               PROVE  /\ \A a, b \in DOMAIN LanguageAt : LanguageAt[a] = LanguageAt[b] => a = b
                      /\ header.nodes = Cardinality(DOMAIN LanguageAt)
    BY DEF NodesAreLanguages
  <2>1. Complete /\ DictInv /\ \A u \in Accepted(pool) : Len(u) <= MaxLength
    BY IndexComplete
  <2>2. /\ DOMAIN LanguageAt = {offsets[n] : n \in Nodes}
        /\ \A n \in Nodes : LanguageAt[offsets[n]] = WordsFrom(n)
    BY <2>1, LanguagesAre
  <2>3. ASSUME NEW m \in Nodes, NEW n \in Nodes, LanguageAt[offsets[m]] = LanguageAt[offsets[n]]
        PROVE  offsets[m] = offsets[n]
    <3>1. WordsFrom(m) = WordsFrom(n)
      BY <2>2, <2>3
    <3>2. m = n
      BY <2>1, <3>1, WordsTell
    <3> QED
      BY <3>2
  <2>4. header.nodes = Cardinality(DOMAIN LanguageAt)
    BY <2>1, <2>2, NodesCounted, CompleteOffsets
  <2> QED
    BY <2>2, <2>3, <2>4
<1>2. IndexInv /\ [BuildNext]_buildVars => IndexInv'
  BY IndexInvStep
<1> QED
  BY <1>1, <1>2, IndexInvInit, PTL DEF BuildSpec
==============================================================================
