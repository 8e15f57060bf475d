----------------------------- MODULE MCFuzzySearch -----------------------------
(***************************************************************************)
(* FuzzySearch over the three automata, compared with the reference        *)
(* distances.                                                              *)
(***************************************************************************)
EXTENDS FuzzySearch, LevenshteinNFA, DamerauNFA, EditDistance

CONSTANTS Labels, MaxLength

\* The last query is longer than MaxQuery.
Queries == {<< >>, <<1>>, <<2, 2>>, <<1, 2>>, <<1, 1, 2>>, <<2, 1, 2, 1>>}
LongQuery == <<1, 1, 2, 1, 1>>
Distances == 0..2

\* The automata as tables over the texts of the labels, that TLC computes once:
\* it evaluates a combined function at all arguments.
\* An entry of the column within the maximum is what can_match looks for, and what
\* the marking of the DFAs comes to: see PruningIsExact in DfaConstruction.
StartOf(A) ==
    CASE A.kind = "LevenshteinNFA" -> StartState(A.query)
      [] A.kind = "LevenshteinDFA" -> StartColumn(A.query, A.max + 1)
      [] A.kind = "DamerauNFA" -> StartPair(A.query, A.max + 1)
FollowOf(A, s, c) ==
    CASE A.kind = "LevenshteinNFA" -> NextState(A.query, s, c)
      [] A.kind = "LevenshteinDFA" -> NextColumn(A.query, A.max + 1, s, c)
      [] A.kind = "DamerauNFA" -> NextPair(A.query, A.max + 1, s, c)
ColumnOf(A, s) ==
    CASE A.kind = "LevenshteinNFA" -> Column(A.query, s)
      [] A.kind = "LevenshteinDFA" -> s
      [] A.kind = "DamerauNFA" -> s.curr
HopefulIn(A, s) ==
    IF A.kind = "LevenshteinNFA" THEN CanMatch(A.query, s, A.max)
    ELSE \E i \in 0..Len(A.query) : ColumnOf(A, s)[i] <= A.max

Automata == [kind : {"LevenshteinNFA", "LevenshteinDFA", "DamerauNFA"},
             query : Queries \cup {LongQuery}, max : Distances]
Texts == BoundedSeq(Labels, MaxLength)
StateAfter(A, text) == FoldLeft(LAMBDA s, c : FollowOf(A, s, c), StartOf(A), text)
Tabulated(f) == f @@ << >>
StatesOf == Tabulated([A \in Automata |-> {StateAfter(A, text) : text \in Texts}])
Table == Tabulated([A \in Automata |->
            Tabulated([s \in StatesOf[A] |-> Tabulated([c \in Labels |-> FollowOf(A, s, c)])])])
Hopeful == Tabulated([A \in Automata |-> {s \in StatesOf[A] : HopefulIn(A, s)}])
Final == Tabulated([A \in Automata |->
            Tabulated([s \in StatesOf[A] |-> ColumnOf(A, s)[Len(A.query)]])])

AutoStart(A) == StartOf(A)
AutoAdvance(A, s, c) == Table[A][s][c]
AutoMayMatch(A, s) == s \in Hopeful[A]
AutoDistOf(A, s) == Final[A][s]

Near == WithinTable(Queries, Labels, MaxLength)
Aligned == {<<u, AlignmentOf(u, v), v>> : u \in Queries, v \in Texts}
ReferenceDistance(name, u, v) ==
    IF name = "Levenshtein" THEN DistanceIn(Near, u, v) ELSE DistanceIn(Aligned, u, v)

\* Indexes: none, the empty word alone, shared suffixes, words that are
\* prefixes of others, and a word longer than MaxDepth.
Dicts == {
    {},
    {<< >>},
    {<< >>, <<1>>, <<1, 2>>, <<2>>, <<2, 2>>},
    {<<1>>, <<1, 1>>, <<1, 1, 2>>, <<1, 1, 2, 2>>, <<1, 2, 1>>, <<2, 1, 2>>},
    {<<1, 1, 1>>, <<1, 2, 1>>, <<1, 2, 2>>, <<2, 1, 1>>, <<2, 2, 1>>, <<2, 2, 2>>}}

Buffers == {<<1, 3>>, <<2, 6>>, <<4, 12>>, <<2, 3>>, <<4, 1>>}
Default == {<<"Levenshtein", "BitParallel">>}
Others == {<<"Levenshtein", "DFA">>, <<"DamerauLevenshtein", "BitParallel">>,
           <<"DamerauLevenshtein", "DFA">>}

SearchesFor(dicts, queries, options, buffers, overloads) ==
    {[dict |-> d, query |-> q, max |-> m, metric |-> o[1], algorithm |-> o[2],
      cap |-> b[1], room |-> b[2], all |-> a] :
        d \in dicts, q \in queries, m \in Distances, o \in options,
        b \in buffers, a \in overloads}

\* The default options with all buffers, the others with one.
ManySearches ==
    SearchesFor(Dicts, Queries, Default, Buffers, BOOLEAN)
        \cup SearchesFor(Dicts, Queries, Others, {<<2, 6>>}, BOOLEAN)
        \cup SearchesFor(Dicts, {LongQuery}, Default \cup Others, {<<2, 6>>}, BOOLEAN)

\* The buffers of the overload that returns everything: 65536 bytes for 8192
\* words, eight bytes a word where a word may have 255; scaled to one of three.
ScaledSearches ==
    SearchesFor({d \in Dicts : \A w \in d : Len(w) \in 1..3}, Queries, Default, {<<4, 4>>}, {TRUE})
==============================================================================
