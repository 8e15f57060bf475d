------------------------------- MODULE RadixSort -------------------------------
(***************************************************************************)
(* What build (src/fuzzyfst.cpp) does to the words before the builder gets *)
(* them: radix_sort (src/radix_sort.cpp), which distributes a partition of *)
(* the array into buckets by one label, and goes on with every bucket by   *)
(* the next label, or sorts a small one by insertion; then std::unique.    *)
(***************************************************************************)
EXTENDS Lexicographic, Integers, FiniteSets, SequencesExt

CONSTANTS
    Inputs,       \* the lists of words that build is called with
    Labels,       \* a byte in the code: 0, 1, ...
    Threshold     \* INSERTION_SORT_THRESHOLD: 32 in the code

VARIABLES
    input,       \* the words that build is called with, and opts.sort_input
    sortInput,
    data,        \* the words
    scratch,     \* the second array of radix_sort
    calls,       \* the calls of radix_sort_impl to be made; the next one is last
    offsets,     \* offsets[b]: the next free place of bucket b
    i, j, key,   \* the loop variables of the call that runs
    pc

vars == <<input, sortInput, data, scratch, calls, offsets, i, j, key, pc>>

\* A call: the size words of data behind the first ones, which are sorted by
\* their labels behind the first depth ones.
Call == calls[Len(calls)]
OtherCalls == SubSeq(calls, 1, Len(calls) - 1)
At(k) == Call.first + k + 1   \* the place of data[k] and scratch[k]

\* Bucket 0 is for the words that end at depth.
Buckets == {0} \cup {c + 1 : c \in Labels}
BucketOf(w, depth) == IF Len(w) = depth THEN 0 ELSE w[depth + 1] + 1

Places == 0..(Call.size - 1)
CountOf(b) == Cardinality({k \in Places : BucketOf(data[At(k)], Call.depth) = b})
BoundaryOf(b) == Cardinality({k \in Places : BucketOf(data[At(k)], Call.depth) < b})

----------------------------------------------------------------------------

Init ==
    /\ input \in Inputs
    /\ sortInput \in BOOLEAN
    /\ data = input
    /\ scratch = [k \in DOMAIN input |-> << >>]
    /\ calls = << >>
    /\ offsets = [b \in Buckets |-> 0]
    /\ i = 0 /\ j = 0 /\ key = << >>
    /\ pc = "build"

\* build sorts if that is asked for and there is something to sort.
Build ==
    /\ pc = "build"
    /\ IF sortInput /\ Len(data) > 1
       THEN calls' = <<[first |-> 0, size |-> Len(data), depth |-> 0]>> /\ pc' = "call"
       ELSE calls' = calls /\ pc' = "unique"
    /\ UNCHANGED <<input, sortInput, data, scratch, offsets, i, j, key>>

\* A small partition is sorted by insertion.
CallSmall ==
    /\ pc = "call" /\ calls # << >>
    /\ Call.size <= Threshold
    /\ i' = 1
    /\ pc' = "insert"
    /\ UNCHANGED <<input, sortInput, data, scratch, calls, offsets, j, key>>

NextKey ==
    /\ pc = "insert" /\ i < Call.size
    /\ key' = data[At(i)]
    /\ j' = i
    /\ pc' = "shift"
    /\ UNCHANGED <<input, sortInput, data, scratch, calls, offsets, i>>

Suffix(w) == SubSeq(w, Call.depth + 1, Len(w))
InPlace == ~(j > 0 /\ Precedes(Suffix(key), Suffix(data[At(j - 1)])))

Shift ==
    /\ pc = "shift" /\ ~InPlace
    /\ data' = [data EXCEPT ![At(j)] = data[At(j - 1)]]
    /\ j' = j - 1
    /\ UNCHANGED <<input, sortInput, scratch, calls, offsets, i, key, pc>>

PlaceKey ==
    /\ pc = "shift" /\ InPlace
    /\ data' = [data EXCEPT ![At(j)] = key]
    /\ i' = i + 1
    /\ pc' = "insert"
    /\ UNCHANGED <<input, sortInput, scratch, calls, offsets, j, key>>

InsertionReturn ==
    /\ pc = "insert" /\ i >= Call.size
    /\ calls' = OtherCalls
    /\ pc' = "call"
    /\ UNCHANGED <<input, sortInput, data, scratch, offsets, i, j, key>>

\* A larger one: the words are counted, which gives the offsets of the buckets.
CallLarge ==
    /\ pc = "call" /\ calls # << >>
    /\ Call.size > Threshold
    /\ offsets' = [b \in Buckets |-> BoundaryOf(b)]
    /\ i' = 0
    /\ pc' = "distribute"
    /\ UNCHANGED <<input, sortInput, data, scratch, calls, j, key>>

TakenPlace(b) == [offsets EXCEPT ![b] = @ + 1]

Distribute ==
    /\ pc = "distribute" /\ i < Call.size
    /\ LET w == data[At(i)]
           b == BucketOf(w, Call.depth)
       IN  /\ scratch' = [scratch EXCEPT ![At(offsets[b])] = w]
           /\ offsets' = TakenPlace(b)
    /\ i' = i + 1
    /\ UNCHANGED <<input, sortInput, data, calls, j, key, pc>>

\* The calls for the buckets of more than one word, but for the words that end
\* here, the first bucket's last.
CallFor(b) == [first |-> Call.first + BoundaryOf(b), size |-> CountOf(b), depth |-> Call.depth + 1]
SortedFurtherLarge == {b \in Buckets \ {0} : CountOf(b) > Threshold}
SortedFurther == {b \in Buckets \ {0} : CountOf(b) > 1}
CallsBelow == [k \in 1..Cardinality(SortedFurther) |->
    CallFor(CHOOSE b \in SortedFurther : Cardinality({d \in SortedFurther : d >= b}) = k)]

CopyBack ==
    /\ pc = "distribute" /\ i >= Call.size
    /\ data' = [p \in DOMAIN data |-> IF p \in At(0)..At(Call.size - 1) THEN scratch[p] ELSE data[p]]
    /\ calls' = OtherCalls \o CallsBelow
    /\ pc' = "call"
    /\ UNCHANGED <<input, sortInput, scratch, offsets, i, j, key>>

SortReturn ==
    /\ pc = "call" /\ calls = << >>
    /\ pc' = "unique"
    /\ UNCHANGED <<input, sortInput, data, scratch, calls, offsets, i, j, key>>

\* std::unique removes the words that are equal to the one before them.
Unique ==
    /\ pc = "unique"
    /\ data' = FoldLeft(LAMBDA kept, w : IF kept # << >> /\ Last(kept) = w THEN kept
                                         ELSE Append(kept, w), << >>, data)
    /\ pc' = "sorted"
    /\ UNCHANGED <<input, sortInput, scratch, calls, offsets, i, j, key>>

Sort == CallSmall \/ NextKey \/ Shift \/ PlaceKey \/ InsertionReturn
            \/ CallLarge \/ Distribute \/ CopyBack \/ SortReturn
Next == Build \/ Sort \/ Unique

\* One thread's work, which waits for nothing.
Spec == Init /\ [][Next]_vars /\ WF_vars(Next)

----------------------------------------------------------------------------
(* Properties.                                                             *)

\* The places of a call.
PlacesOf(call) == (call.first + 1)..(call.first + call.size)

\* data, with the key that insertion holds put where there is a hole.
Held == IF pc = "shift" THEN [data EXCEPT ![At(j)] = key] ELSE data

\* Partitions lie in the array, and no word of one is shorter than its depth,
\* where the code would read behind the end of the word.
PartitionsInBounds ==
    /\ {i, j} \subseteq 0..Len(input)
    /\ offsets \in [Buckets -> 0..Len(input)]
    /\ \A call \in ToSet(calls) :
          /\ PlacesOf(call) \subseteq DOMAIN data
          /\ \A p \in PlacesOf(call) : Len(Held[p]) >= call.depth

\* While radix_sort runs, two words are in their final order unless one call
\* to be made has both; and the words of a call agree on its first depth labels.
Settled ==
    pc \in {"call", "insert", "shift", "distribute"} =>
        /\ \A p, q \in DOMAIN data :
              p < q /\ (\A call \in ToSet(calls) : ~({p, q} \subseteq PlacesOf(call)))
                  => ~Precedes(Held[q], Held[p])
        /\ \A call \in ToSet(calls) : \A p, q \in PlacesOf(call) :
              AgreeUpTo(Held[p], Held[q], call.depth)

\* The words never decrease: equal neighbours are allowed.
NeverDecreasing(ws) == \A k \in 1..(Len(ws) - 1) : ~Precedes(ws[k + 1], ws[k])
==============================================================================
