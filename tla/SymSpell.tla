-------------------------------- MODULE SymSpell --------------------------------
(***************************************************************************)
(* SymSpell (bench/symspell/symspell.hpp), with its MemoryStore: what the  *)
(* benchmarks compare the index with.  A term is filed under every word    *)
(* that a few deletions make of its prefix; a lookup makes the same        *)
(* deletions in its input, nearest first, and verifies the terms it meets. *)
(* Words are sequences of labels; hashes of two words may be equal.        *)
(***************************************************************************)
EXTENDS Integers, SequencesExt, TLC

CONSTANTS
    Lookups,           \* what is asked of it: records of type Lookup
    PrefixLength,      \* prefixLength_
    SuggestionPrefix,  \* 7: the prefix that deleteInSuggestionPrefix looks at
    Hash(_),           \* getStringHash
    CountMax           \* INT64_MAX

ASSUME SymSpellAssumption == PrefixLength \in Nat /\ SuggestionPrefix \in Nat /\ CountMax \in Nat

VARIABLES
    call,        \* the entries made, the parameters of the object and of its lookup: constant
    created,     \* how many of the entries have been made
    words,       \* words_: the frequency of every term
    below,       \* belowThresholdWords_
    deletes,     \* deletes_: the terms filed under a hash
    longest,     \* maxDictionaryWordLength_
    phase,       \* where the lookup is: "none", "next", "terms" or "returned"
    limit,       \* maxEditDistance2
    candidates, candidate, terms,             \* candidates; the one taken; its terms not yet tried
    consideredDeletes, consideredSuggestions,
    suggestions

index == <<created, words, below, deletes, longest>>
search == <<phase, limit, candidates, candidate, terms, consideredDeletes,
            consideredSuggestions, suggestions>>
vars == <<call, index, search>>

\* entries: <<term, count>>; distance: what lookup is called with, -1 for all.
Verbosities == {"Top", "Closest", "All"}
Input == call.input
Suggestion(term, distance, frequency) ==
    [term |-> term, distance |-> distance, frequency |-> frequency]

Least(S) == CHOOSE x \in S : \A y \in S : x <= y
Upto(n) == [k \in 1..n |-> k]
Apart(a, b) == IF a > b THEN a - b ELSE b - a
Prefix(w, n) == SubSeq(w, 1, Least({Len(w), n}))

\* The words that one deletion makes.
Shorter(w) == {RemoveAt(w, i) : i \in DOMAIN w}

----------------------------------------------------------------------------
(* Distances.                                                              *)

\* A row of the distance table from the one above it; extra[j] are further
\* ways to the entry j.
RowAfter(row, s1, s2, i, extra) ==
    FoldLeft(LAMBDA r, j : Append(r, Least(
                 {row[j + 1] + 1, r[j] + 1, row[j] + (IF s1[i] = s2[j] THEN 0 ELSE 1)} \cup extra[j])),
             <<i>>, Upto(Len(s2)))
FirstRow(s2) == [j \in 1..(Len(s2) + 1) |-> j - 1]

\* Where two labels of s1 are two of s2 swapped.
CrossesAt(s1, s2, i, j) == i > 1 /\ j > 1 /\ s1[i] = s2[j - 1] /\ s1[i - 1] = s2[j]
\* The swap is taken from the end of the row above, not from two rows above.
Swapped(row, s1, s2, i, j) == IF CrossesAt(s1, s2, i, j) THEN {Last(row) + 1} ELSE {}
Rows(s1, s2) ==
    FoldLeft(LAMBDA rows, i : Append(rows, LET row == Last(rows) IN
                 RowAfter(row, s1, s2, i, [j \in DOMAIN s2 |-> Swapped(row, s1, s2, i, j)])),
             <<FirstRow(s2)>>, Upto(Len(s1)))

\* damerauLevenshteinDistance: given up when a whole row is above max.
Distance(s1, s2, max) ==
    IF Apart(Len(s1), Len(s2)) > max THEN max + 1
    ELSE LET rows == Rows(s1, s2)
         IN  IF \E i \in 2..Len(rows) : Least(ToSet(rows[i])) > max THEN max + 1
             ELSE Least({Last(Last(rows)), max + 1})

\* The distance that the benchmark counts the words of a brute-force search by.
Levenshtein(a, b) ==
    Last(FoldLeft(LAMBDA row, i : RowAfter(row, a, b, i, [j \in DOMAIN b |-> {}]), FirstRow(b), Upto(Len(a))))

----------------------------------------------------------------------------
(* The index.                                                              *)

PlainAdd(lhs, rhs) == IF rhs <= 0 THEN lhs ELSE lhs + rhs
SaturatingAdd(lhs, rhs) ==
    IF rhs <= 0 THEN lhs ELSE IF lhs >= CountMax - rhs THEN CountMax ELSE lhs + rhs

\* editsPrefix: the prefix and what up to maxEdit deletions make of it.
EditsOnce(key) == {Prefix(key, PrefixLength)} \cup Shorter(Prefix(key, PrefixLength))
EditsPrefix(key) ==
    LET D[k \in 0..call.maxEdit] ==
            IF k = 0 THEN {Prefix(key, PrefixLength)} ELSE UNION {Shorter(w) : w \in D[k - 1]}
    IN  UNION {D[k] : k \in 0..call.maxEdit}
        \cup (IF Len(key) <= call.maxEdit THEN {<< >>} ELSE {})

\* A term is filed once for every such word, also if their hashes are equal.
GetTerms(hash) == IF hash \in DOMAIN deletes THEN deletes[hash] ELSE << >>
Filed(key) ==
    LET edits == EditsPrefix(key)
        Copies(h) == [k \in 1..Cardinality({w \in edits : Hash(w) = h}) |-> key]
    IN  [h \in {Hash(w) : w \in edits} |-> GetTerms(h) \o Copies(h)] @@ deletes

NewTerm(key, count) ==
    /\ words' = (key :> count) @@ words
    /\ longest' = IF Len(key) > longest THEN Len(key) ELSE longest
    /\ deletes' = Filed(key)

\* createDictionaryEntry: a term becomes one when its counts reach the threshold.
CreateEntry ==
    /\ phase = "none" /\ created < Len(call.entries)
    /\ created' = created + 1
    /\ UNCHANGED <<call, search>>
    /\ LET key   == call.entries[created + 1][1]
           count == call.entries[created + 1][2]
           sum   == SaturatingAdd(below[key], count)
       IN  CASE count <= 0 -> UNCHANGED <<words, below, deletes, longest>>
             [] count > 0 /\ key \in DOMAIN below ->
                  IF sum >= call.threshold
                  THEN below' = [k \in DOMAIN below \ {key} |-> below[k]] /\ NewTerm(key, sum)
                  ELSE below' = [below EXCEPT ![key] = sum] /\ UNCHANGED <<words, deletes, longest>>
             [] count > 0 /\ key \notin DOMAIN below /\ key \in DOMAIN words ->
                  /\ words' = [words EXCEPT ![key] = SaturatingAdd(@, count)]
                  /\ UNCHANGED <<below, deletes, longest>>
             [] count > 0 /\ key \notin DOMAIN below \cup DOMAIN words ->
                  IF count < call.threshold
                  THEN below' = (key :> count) @@ below /\ UNCHANGED <<words, deletes, longest>>
                  ELSE NewTerm(key, count) /\ UNCHANGED below

----------------------------------------------------------------------------
(* lookup.                                                                 *)

Init ==
    /\ call \in Lookups
    /\ created = 0
    /\ words = << >> /\ below = << >> /\ deletes = << >> /\ longest = 0
    /\ phase = "none" /\ limit = 0
    /\ candidates = << >> /\ candidate = << >> /\ terms = << >>
    /\ consideredDeletes = {} /\ consideredSuggestions = {}
    /\ suggestions = << >>

MaxDistance ==
    IF call.distance < 0 \/ call.distance > call.maxEdit THEN call.maxEdit ELSE call.distance
TooLong == longest > 0 /\ Len(Input) - MaxDistance > longest

\* An input that is a term itself is the whole answer, unless All are wanted.
Start ==
    /\ phase = "none" /\ created = Len(call.entries)
    /\ suggestions' = IF Input \in DOMAIN words /\ ~TooLong
                      THEN <<Suggestion(Input, 0, words[Input])>> ELSE << >>
    /\ phase' = IF TooLong \/ (Input \in DOMAIN words /\ call.verbosity # "All") \/ MaxDistance = 0
                THEN "returned" ELSE "next"
    /\ limit' = MaxDistance
    /\ candidates' = <<Prefix(Input, PrefixLength)>>
    /\ consideredSuggestions' = {Input}
    /\ UNCHANGED <<call, index, candidate, terms, consideredDeletes>>

LengthDiff(c) == Len(Prefix(Input, PrefixLength)) - Len(c)
ExhaustedSoon(c) == LengthDiff(c) >= limit
Exhausted(c) == LengthDiff(c) > limit

\* The next candidate.  They get shorter: for the nearest terms only, the first
\* one that is too short ends the search.
TakeCandidate ==
    /\ phase = "next" /\ candidates # << >>
    /\ LET c == Head(candidates)
       IN  /\ ~(Exhausted(c) /\ call.verbosity # "All")
           /\ candidate' = c
           /\ candidates' = Tail(candidates)
           /\ IF Exhausted(c) THEN UNCHANGED <<phase, terms>>
              ELSE phase' = "terms" /\ terms' = GetTerms(Hash(c))
    /\ UNCHANGED <<call, index, limit, consideredDeletes, consideredSuggestions, suggestions>>

\* deleteInSuggestionPrefix: the labels of the candidate occur in the prefix
\* of the term, in order; one place may do for two labels.
InSuggestionPrefix(c, term) ==
    LET n == Least({Len(term), SuggestionPrefix})
        From(j, label) == Least({n + 1} \cup {k \in j..n : term[k] = label})
    IN  c = << >> \/ FoldLeft(From, 1, c) <= n

\* Whether a term that is filed under the candidate may be near enough.
Promising(term) ==
    LET prefix == Least({Len(term), PrefixLength})
    IN  /\ term # Input
        /\ Apart(Len(term), Len(Input)) <= limit
        /\ Len(term) >= Len(candidate)
        /\ Len(term) = Len(candidate) => term = candidate
        /\ prefix > Len(Prefix(Input, PrefixLength)) => prefix - Len(candidate) <= limit
        /\ InSuggestionPrefix(candidate, term)
New(term) == term \notin consideredSuggestions

\* What a term that is near enough does to the suggestions; the first limit is
\* the distance asked for, later ones the distance of the best.
TakeMore(s) == suggestions' = Append(suggestions, s) /\ UNCHANGED limit
TakeBest(s) == suggestions' = <<s>> /\ limit' = s.distance
BetterByDistance(s) == suggestions = << >> \/ s.distance < limit
Better(s) ==
    \/ suggestions = << >> \/ s.distance < limit
    \/ s.distance = limit /\ s.frequency > suggestions[1].frequency
Take(s) ==
    CASE call.verbosity = "All" -> TakeMore(s)
      [] call.verbosity = "Closest" -> IF s.distance < limit THEN TakeBest(s) ELSE TakeMore(s)
      [] call.verbosity = "Top" -> IF Better(s) THEN TakeBest(s) ELSE UNCHANGED <<suggestions, limit>>

TryTermAgain ==
    /\ phase = "terms" /\ terms # << >>
    /\ terms' = Tail(terms)
    /\ LET term == Head(terms)
           distance == Distance(Input, term, limit)
       IN  IF Promising(term) /\ distance <= limit
           THEN Take(Suggestion(term, distance, words[term]))
           ELSE UNCHANGED <<suggestions, limit>>
    /\ UNCHANGED <<call, index, phase, candidates, candidate, consideredDeletes, consideredSuggestions>>
TryTerm ==
    /\ phase = "terms" /\ terms # << >>
    /\ terms' = Tail(terms)
    /\ LET term == Head(terms)
           distance == Distance(Input, term, limit)
       IN  IF Promising(term) /\ New(term)
           THEN /\ consideredSuggestions' = consideredSuggestions \cup {term}
                /\ IF distance <= limit THEN Take(Suggestion(term, distance, words[term]))
                   ELSE UNCHANGED <<suggestions, limit>>
           ELSE UNCHANGED <<consideredSuggestions, suggestions, limit>>
    /\ UNCHANGED <<call, index, phase, candidates, candidate, consideredDeletes>>

\* The candidates with one label less, in the order of its place.
Shortened == [i \in DOMAIN candidate |-> RemoveAt(candidate, i)]
DeleteMore ==
    /\ phase = "terms" /\ terms = << >>
    /\ phase' = "next"
    /\ IF /\ LengthDiff(candidate) < call.maxEdit /\ Len(candidate) <= PrefixLength
          /\ ~(call.verbosity # "All" /\ ExhaustedSoon(candidate))
       THEN LET fresh == FoldLeft(LAMBDA s, w : IF w \in ToSet(s) \cup consideredDeletes THEN s
                                                ELSE Append(s, w), << >>, Shortened)
            IN  /\ candidates' = candidates \o fresh
                /\ consideredDeletes' = consideredDeletes \cup ToSet(fresh)
       ELSE UNCHANGED <<candidates, consideredDeletes>>
    /\ UNCHANGED <<call, index, limit, candidate, terms, consideredSuggestions, suggestions>>

\* The nearest first, among them the most frequent; equals come in any order.
Precedes(s, t) == s.distance < t.distance \/ (s.distance = t.distance /\ s.frequency >= t.frequency)
Orders(s) == {[k \in DOMAIN s |-> s[p[k]]] : p \in Permutations(DOMAIN s)}
SortedSuggestions ==
    IF call.verbosity = "All" \/ suggestions = << >> THEN {suggestions}
    ELSE {LET nearest == {k \in DOMAIN s : s[k].distance = s[1].distance}
          IN  IF call.verbosity = "Closest" THEN SubSeq(s, 1, Cardinality(nearest)) ELSE s :
             s \in {o \in Orders(suggestions) : \A k \in 2..Len(o) : Precedes(o[k - 1], o[k])}}
Return ==
    /\ phase = "next"
    /\ candidates # << >> => call.verbosity # "All" /\ Exhausted(Head(candidates))
    /\ phase' = "returned"
    /\ suggestions' \in SortedSuggestions
    /\ UNCHANGED <<call, index, limit, candidates, candidate, terms, consideredDeletes,
                   consideredSuggestions>>

Next == CreateEntry \/ Start \/ TakeCandidate \/ TryTerm \/ DeleteMore \/ Return

Spec == Init /\ [][Next]_vars

----------------------------------------------------------------------------
(* Properties.                                                             *)

Entered(key) == {k \in 1..created : call.entries[k][1] = key /\ call.entries[k][2] > 0}
CountOf(key) ==
    LET all == FoldLeft(LAMBDA n, k : IF k \in Entered(key) THEN n + call.entries[k][2] ELSE n,
                        0, Upto(created))
    IN  IF all < CountMax THEN all ELSE CountMax

\* Types; and the counts of every word that was entered are added up, in the
\* index from the threshold on and beside it before, and nowhere twice.
TypeOK ==
    /\ phase \in {"none", "next", "terms", "returned"}
    /\ DOMAIN words \cap DOMAIN below = {}
    /\ DOMAIN words \cup DOMAIN below =
          {call.entries[k][1] : k \in {l \in 1..created : call.entries[l][2] > 0}}
    /\ \A key \in DOMAIN words : words[key] = CountOf(key) /\ words[key] >= call.threshold
    /\ \A key \in DOMAIN below : below[key] = CountOf(key) /\ below[key] < call.threshold
    /\ limit \in 0..call.maxEdit

Returned == phase = "returned"
Suggested == {suggestions[k].term : k \in DOMAIN suggestions}

\* A lookup for All finds every term that the brute-force search finds, though
\* it sees only terms that it meets by deletions in a prefix of both; and with
\* a distance that is not greater.
FindsAll ==
    Returned /\ call.verbosity = "All" =>
        \A term \in DOMAIN words : Levenshtein(Input, term) <= MaxDistance =>
            \E k \in DOMAIN suggestions :
                suggestions[k].term = term /\ suggestions[k].distance <= Levenshtein(Input, term)

\* Every suggestion is a term, there once and with its frequency, and where no
\* two neighbours of the input are two of the term swapped, with its distance.
Crosses(s1, s2) == \E i \in DOMAIN s1, j \in DOMAIN s2 : CrossesAt(s1, s2, i, j)
SuggestionsSound ==
    /\ Cardinality(Suggested) = Len(suggestions)
    /\ \A k \in DOMAIN suggestions :
          LET s == suggestions[k]
          IN  /\ s.term \in DOMAIN words /\ s.frequency = words[s.term]
              /\ s.distance <= MaxDistance
              /\ ~Crosses(Input, s.term) => s.distance = Levenshtein(Input, s.term)

\* The search for the nearest stops early and lowers its limit as it goes, yet
\* none is missed: Closest are all terms of the least distance, the most
\* frequent first, and Top is one of them that is as frequent as any.
DistanceTo(term) == IF term = Input THEN 0 ELSE Distance(Input, term, MaxDistance)
Nearest ==
    {t \in DOMAIN words : /\ DistanceTo(t) <= MaxDistance
                          /\ \A u \in DOMAIN words : DistanceTo(t) <= DistanceTo(u)}
NearestFound ==
    Returned /\ call.verbosity # "All" =>
        /\ call.verbosity = "Closest" => Suggested = Nearest
        /\ call.verbosity = "Top" => Suggested \subseteq Nearest /\ (Nearest # {} => Suggested # {})
        /\ suggestions # << >> => \A t \in Nearest : words[t] <= suggestions[1].frequency
==============================================================================
