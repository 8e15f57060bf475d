------------------------------ MODULE CommandLine ------------------------------
(***************************************************************************)
(* The command line (src/cli/main.cpp): main takes its arguments to one of *)
(* two commands.  build reads the word list (WordList) and builds it.      *)
(* query reads its options one after the other, searches the index with    *)
(* them, into buffers for Cap results and for Room bytes of their words,   *)
(* sorts and prints.  What matches is a parameter: words are numbers in    *)
(* lexicographic order, and DistanceTo gives the distance of the query to  *)
(* each by each metric, which is at most 255.                              *)
(***************************************************************************)
EXTENDS Integers, FiniteSets, SequencesExt

CONSTANTS
    Commands,          \* argv[1] and what follows it, with the file it names
    BufferSize,        \* 4096: see WordList
    Number(_),         \* what atoi() makes of an argument
    UnsignedMod,       \* 2^32
    Cap, Room,         \* 8192 results, 65536 bytes
    LengthOf,          \* LengthOf[word]
    TooLong,           \* the queries of more than 64 bytes
    DistanceTo         \* DistanceTo[metric][word]

ASSUME CommandAssumption ==
    /\ BufferSize \in Nat /\ BufferSize > 1
    /\ UnsignedMod \in Nat \ {0} /\ Cap \in Nat \ {0} /\ Room \in Nat

VARIABLES
    args,      \* argv[1], argv[2], ...: constant
    file, at, words,             \* build: see WordList
    i,                           \* query: the argument to be looked at
    distance, metric, algorithm,
    printed,                     \* the results that are printed, in their order
    pc,        \* where main is
    exit       \* what it returns, "none" as long as it runs

vars == <<args, file, at, words, i, distance, metric, algorithm, printed, pc, exit>>
list == <<file, at, words>>
options == <<distance, metric, algorithm>>

List == INSTANCE WordList

----------------------------------------------------------------------------

Init ==
    /\ \E c \in Commands : args = c.args /\ file = c.file
    /\ List!Init
    /\ i = 4
    /\ distance = 1 /\ metric = "levenshtein" /\ algorithm = "bit-parallel"
    /\ printed = << >>
    /\ pc = "main" /\ exit = "none"

Returns(code) == pc' = "returned" /\ exit' = code

\* main: build takes two arguments, query two and its options.
Accepted ==
    /\ args # << >>
    /\ \/ args[1] = "build" /\ Len(args) = 3
       \/ args[1] = "query" /\ Len(args) >= 3
Dispatch ==
    /\ pc = "main"
    /\ IF Accepted THEN pc' = args[1] /\ exit' = exit ELSE Returns("1")
    /\ UNCHANGED <<args, list, i, options, printed>>

LoadLine ==
    /\ pc = "build"
    /\ List!ReadLine
    /\ UNCHANGED <<args, i, options, printed, pc, exit>>

\* An empty list is an error, and so is a failure of build().
BuildUnchecked ==
    /\ pc = "build" /\ List!Loaded
    /\ \E code \in {"0", "1"} : Returns(code)
    /\ UNCHANGED <<args, list, i, options, printed>>
Build ==
    /\ pc = "build" /\ List!Loaded
    /\ \/ Returns("1")
       \/ words # << >> /\ Returns("0")
    /\ UNCHANGED <<args, list, i, options, printed>>

\* An option counts if there is an argument behind it.
Reading == pc = "query" /\ i <= Len(args)
Named(option) == args[i] = option /\ i < Len(args)
Value == args[i + 1]

\* atoi() gives an int, which becomes an unsigned one; more than 3 is warned of.
Unsigned(argument) == Number(argument) % UnsignedMod
TakeDistance ==
    /\ Reading /\ Named("--distance")
    /\ distance' = Unsigned(Value)
    /\ i' = i + 2
    /\ UNCHANGED <<args, list, metric, algorithm, printed, pc, exit>>

\* A value that is not known ends the command; that of the default changes
\* nothing, not even what an option before it has set.
TakeMetric ==
    /\ Reading /\ Named("--metric")
    /\ metric' = IF Value = "damerau" THEN "damerau" ELSE metric
    /\ IF Value \in {"damerau", "levenshtein"} THEN UNCHANGED <<pc, exit>> ELSE Returns("1")
    /\ i' = i + 2
    /\ UNCHANGED <<args, list, distance, algorithm, printed>>

TakeAlgorithm ==
    /\ Reading /\ Named("--algorithm")
    /\ algorithm' = IF Value = "dfa" THEN "dfa" ELSE algorithm
    /\ IF Value \in {"dfa", "bit-parallel"} THEN UNCHANGED <<pc, exit>> ELSE Returns("1")
    /\ i' = i + 2
    /\ UNCHANGED <<args, list, distance, metric, printed>>

\* Everything else is passed over.
Options == {"--distance", "--metric", "--algorithm"}
IgnoreSkipping ==
    /\ Reading /\ \A o \in Options : ~Named(o)
    /\ i' = i + 2
    /\ UNCHANGED <<args, list, options, printed, pc, exit>>
Ignore ==
    /\ Reading /\ \A o \in Options : ~Named(o)
    /\ i' = i + 1
    /\ UNCHANGED <<args, list, options, printed, pc, exit>>

\* The words that match; a query that is too long is not searched for.
Matches ==
    IF args[3] \in TooLong THEN {}
    ELSE {w \in DOMAIN LengthOf : DistanceTo[metric][w] <= distance}

\* Levenshtein with the bit-parallel automaton is the one search without a DFA.
\* A DFA cuts distances off at distance + 1, unsigned: behind the greatest
\* distance this is 0, and so is what it reports of every word.
UsesDfa == metric = "damerau" \/ algorithm = "dfa"
ClampWraps == UsesDfa /\ (distance + 1) % UnsignedMod = 0
Reported(w) == [word |-> w, distance |-> IF ClampWraps THEN 0 ELSE DistanceTo[metric][w]]

\* collect() comes by the matches in their order, and leaves out one that one of
\* the buffers has no room for; a shorter one behind it may still fit.
KeepBelow(found, w) ==
    IF Len(found.words) < Cap /\ found.used + LengthOf[w] < Room
    THEN [words |-> Append(found.words, w), used |-> found.used + LengthOf[w]]
    ELSE found
Keep(found, w) ==
    IF Len(found.words) < Cap /\ found.used + LengthOf[w] <= Room
    THEN [words |-> Append(found.words, w), used |-> found.used + LengthOf[w]]
    ELSE found
Found == ToSet(FoldLeft(Keep, [words |-> << >>, used |-> 0], SetToSortSeq(Matches, <)).words)

\* The results are sorted by distance, and by word for the same distance.
Before(a, b) == a.distance < b.distance \/ (a.distance = b.distance /\ a.word < b.word)
Query ==
    /\ pc = "query" /\ i > Len(args)
    /\ printed' = SetToSortSeq({Reported(w) : w \in Found}, Before)
    /\ Returns("0")
    /\ UNCHANGED <<args, list, i, options>>

\* The index cannot be opened.
OpenFails ==
    /\ pc = "query" /\ i > Len(args)
    /\ Returns("1")
    /\ UNCHANGED <<args, list, i, options, printed>>

Next ==
    \/ Dispatch
    \/ LoadLine \/ Build
    \/ TakeDistance \/ TakeMetric \/ TakeAlgorithm \/ Ignore \/ Query \/ OpenFails

Spec == Init /\ [][Next]_vars

----------------------------------------------------------------------------
(* Properties.                                                             *)

\* Types; and success is never reported for a list without words, nor for
\* arguments that main does not accept.
TypeOK ==
    /\ i \in 4..(Len(args) + 4)
    /\ distance \in 0..(UnsignedMod - 1)
    /\ metric \in {"levenshtein", "damerau"} /\ algorithm \in {"bit-parallel", "dfa"}
    /\ pc \in {"main", "build", "query", "returned"} /\ (pc = "returned" <=> exit # "none")
    /\ exit = "0" => Accepted /\ (args[1] = "build" => words # << >>)

\* The words that are built are the lines of the list, as far as these fit in
\* the buffer of fgets; and none spans two lines, whatever the file holds.
WordsAreLines == List!ShortLinesAreWords /\ List!WordsWithinLines

\* The places of an option of query that has a value; and its last value.
PlacesOf(o) == {k \in 4..(Len(args) - 1) : args[k] = o}
Default(o) == CASE o = "--distance" -> 1
                [] o = "--metric" -> "levenshtein"
                [] o = "--algorithm" -> "bit-parallel"
Given(o) ==
    IF PlacesOf(o) = {} THEN Default(o)
    ELSE LET value == args[1 + CHOOSE k \in PlacesOf(o) : \A l \in PlacesOf(o) : l <= k]
         IN  IF o = "--distance" THEN Number(value) % UnsignedMod ELSE value
Taken(o) == CASE o = "--distance" -> distance
              [] o = "--metric" -> metric
              [] o = "--algorithm" -> algorithm

\* No option is taken for the value of another.
Apart == \A k \in 4..(Len(args) - 1) : args[k] \in Options => args[k + 1] \notin Options

\* The search is made with the options that are given once, in whatever order
\* and between whatever other arguments they stand, and with the defaults of
\* the others: also if the last argument is an option without a value.
OptionsTaken ==
    exit = "0" /\ args[1] = "query" /\ Apart =>
        \A o \in Options : Cardinality(PlacesOf(o)) <= 1 => Taken(o) = Given(o)

\* What is printed are matches, each once and in the order of the distances that
\* are printed: the nearest first, unless a DFA searches with the greatest
\* distance of all, which prints every word with the distance 0.  A match is left
\* out only if the printed words before it, by the alphabet and however far they
\* are, fill the results, or leave too few bytes for it.
PrintedWords == {result.word : result \in ToSet(printed)}
Bytes(ws) == MapThenSumSet(LAMBDA w : LengthOf[w], ws)
PrintsMatches ==
    exit = "0" /\ args[1] = "query" =>
        /\ PrintedWords \subseteq Matches
        /\ Len(printed) <= Cap /\ Bytes(PrintedWords) <= Room
        /\ \A k \in 1..(Len(printed) - 1) : Before(printed[k], printed[k + 1])
        /\ \A result \in ToSet(printed) :
              \/ result.distance = DistanceTo[metric][result.word]
              \/ distance = UnsignedMod - 1 /\ UsesDfa /\ result.distance = 0
        /\ \A w \in Matches \ PrintedWords :
              LET before == {v \in PrintedWords : v < w}
              IN  Cardinality(before) = Cap \/ Bytes(before) + LengthOf[w] > Room
==============================================================================
