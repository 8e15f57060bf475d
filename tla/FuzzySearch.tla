------------------------------ MODULE FuzzySearch ------------------------------
(***************************************************************************)
(* The fuzzy search of Fst (src/fuzzyfst.cpp) and the iterator under it    *)
(* (src/fuzzy_search.cpp): a depth-first walk of the index and a distance  *)
(* automaton in lockstep, that fills a result buffer and a word buffer,    *)
(* returns, and is resumed.  The iterators of the other two automata       *)
(* (src/levenshtein_dfa_search.cpp, src/damerau_search.cpp) have the same  *)
(* code; the options of a search select the automaton, and what the three  *)
(* automata compute is a parameter here.                                   *)
(*                                                                         *)
(* The index is the minimal automaton that FstBuilder makes: a node is its *)
(* right language, the set of words that lead from it to a final node.     *)
(***************************************************************************)
EXTENDS Lexicographic, Integers, FiniteSets, SequencesExt

CONSTANTS
    Start(_),          \* the start state of an automaton
    Advance(_, _, _),  \* the state after a state and a label
    MayMatch(_, _),    \* whether a state can lead to a match
    DistOf(_, _),      \* the distance of a state
    Distance(_, _, _), \* by metric: the distance of a query and a word
    Searches,    \* the searches made: see Search
    MaxQuery,    \* 64 in the code: the longest query that is searched
    MaxDepth     \* 255 in the code: the child of a node deeper is not visited

VARIABLES
    search,      \* the index, the arguments and the buffer sizes: constant
    stack,       \* stack_: frames of a node, an automaton state and a position
    path,        \* path_buf_
    words,       \* word_buf_, as far as it has been written
    used,        \* word_buf_used_
    results,     \* result_buf_, as far as it has been written
    count,       \* the results of this collect()
    total,       \* in Fst::fuzzy_search: the results of all collect()s
    done,        \* done_
    pc,          \* where the search is
    delivered    \* what the caller of fuzzy_search reads in the end

vars == <<search, stack, path, words, used, results, count, total, done, pc, delivered>>

\* dict: the words of the index; query, max, metric, algorithm: the arguments;
\* cap, room: the sizes of the result and word buffers; all: the overload that
\* loops until everything is found and copies each batch, or the one that fills
\* the caller's buffers.
Byte == 0..255
Search == [dict : SUBSET Seq(Byte), query : Seq(Nat), max : Nat,
           metric : {"Levenshtein", "DamerauLevenshtein"}, algorithm : {"BitParallel", "DFA"},
           cap : Nat \ {0}, room : Nat, all : BOOLEAN]

\* The automaton that the options select: there is no bit-parallel one for the
\* Damerau-Levenshtein metric, and its DFA is taken.
KindOf(metric, algorithm) ==
    IF metric = "DamerauLevenshtein" THEN "DamerauNFA"
    ELSE IF algorithm = "DFA" THEN "LevenshteinDFA" ELSE "LevenshteinNFA"
AutomatonOf(s) ==
    [kind |-> KindOf(s.metric, s.algorithm), query |-> s.query, max |-> s.max]
Automaton == AutomatonOf(search)

\* The state of an automaton behind a text.
StateBehind(A, text) ==
    LET state[k \in 0..Len(text)] ==
            IF k = 0 THEN Start(A) ELSE Advance(A, state[k - 1], text[k])
    IN  state[Len(text)]

\* What DfaConstruction shows of the three automata: the distance of a state is
\* that of its text, up to the maximum, and a state behind which a match is left
\* may match.  Nothing is asked about longer words than a search goes down.
ASSUME SearchesAssumption == Searches \subseteq Search
ASSUME AutomataAssumption ==
    \A s \in Searches : Len(s.query) <= MaxQuery =>
        LET A == AutomatonOf(s)
            Matching(w) == Distance(s.metric, s.query, w) <= s.max
        IN  \A w \in {v \in s.dict : Len(v) <= MaxDepth} :
               /\ DistOf(A, StateBehind(A, w)) <= s.max <=> Matching(w)
               /\ Matching(w) =>
                     /\ DistOf(A, StateBehind(A, w)) = Distance(s.metric, s.query, w)
                     /\ \A k \in 1..Len(w) : MayMatch(A, StateBehind(A, SubSeq(w, 1, k)))
ASSUME BoundsAssumption == MaxDepth \in Nat \ {0} /\ MaxQuery \in Nat

----------------------------------------------------------------------------
(* read_node: what the index says of a node.                               *)

IsFinal(node) == << >> \in node
LabelsOf(node) ==
    LET labels == {Head(w) : w \in node \ {<< >>}}
    IN  CHOOSE s \in [1..Cardinality(labels) -> labels] : \A i, j \in DOMAIN s : i < j => s[i] < s[j]
ChildOf(node, c) == {Tail(w) : w \in {v \in node : v # << >> /\ Head(v) = c}}

Frame(node, state, depth) == [node |-> node, state |-> state, depth |-> depth, next |-> 0]

----------------------------------------------------------------------------
(* The buffers.                                                            *)

\* buf with word written over it, from position at on.
Written(buf, at, word) ==
    [i \in 1..(IF Len(buf) > at + Len(word) THEN Len(buf) ELSE at + Len(word)) |->
        IF i \in (at + 1)..(at + Len(word)) THEN word[i - at] ELSE buf[i]]

\* The word a result points to, as the word buffer is now.
Read(r) == [word |-> SubSeq(words, r.from + 1, r.from + r.len), dist |-> r.dist]

\* A result is kept if both buffers have room: otherwise it is dropped.
HasRoomUnchecked(len) == count < search.cap
HasRoom(len) == count < search.cap /\ used + len <= search.room

\* The child is pushed if it has transitions and is not too deep.
Descends(node, depth) == LabelsOf(node) # << >> /\ depth + 1 < MaxDepth

----------------------------------------------------------------------------

Init ==
    /\ search \in Searches
    /\ stack = <<Frame(search.dict, Start(Automaton), 0)>>
    /\ path = << >>
    /\ words = << >>
    /\ used = 0
    /\ results = << >>
    /\ count = 0
    /\ total = 0
    /\ done = FALSE
    /\ pc = "caller"
    /\ delivered = << >>

\* A query that is too long is not searched.
Refuse ==
    /\ pc = "caller"
    /\ Len(search.query) > MaxQuery
    /\ pc' = "returned"
    /\ UNCHANGED <<search, stack, path, words, used, results, count, total, done, delivered>>

\* fuzzy_search calls collect() until the walk is done or, in the overload
\* with the caller's buffers, the result buffer is full.
WantsMore == Len(search.query) <= MaxQuery /\ ~done /\ (search.all \/ total < search.cap)

\* collect() starts a batch: it overwrites the buffers from the beginning.
Collect ==
    /\ pc = "caller"
    /\ WantsMore
    /\ count' = 0
    /\ used' = 0
    /\ pc' = "collect"
    /\ UNCHANGED <<search, stack, path, words, results, total, done, delivered>>

Top == stack[Len(stack)]
Running == pc = "collect" /\ stack # << >> /\ count < search.cap
Exhausted == Top.next >= Len(LabelsOf(Top.node))

\* All transitions of the top node are done.
PopFrame ==
    /\ Running
    /\ Exhausted
    /\ stack' = SubSeq(stack, 1, Len(stack) - 1)
    /\ UNCHANGED <<search, path, words, used, results, count, total, done, pc, delivered>>

\* The next transition of the top node: its label, its target, and the state
\* of the automaton behind it.
Label == LabelsOf(Top.node)[Top.next + 1]
Target == ChildOf(Top.node, Label)
NewState == Advance(Automaton, Top.state, Label)
NewDist == DistOf(Automaton, NewState)
Advanced == [stack EXCEPT ![Len(stack)].next = @ + 1]

\* Nothing below the transition can match.
Prune ==
    /\ Running
    /\ ~Exhausted
    /\ ~MayMatch(Automaton, NewState)
    /\ stack' = Advanced
    /\ UNCHANGED <<search, path, words, used, results, count, total, done, pc, delivered>>

\* The word spelled by the path and the transition is a result.
EmitsBelow == IsFinal(Target) /\ NewDist < search.max
Emits == IsFinal(Target) /\ NewDist <= search.max

\* The path with the label of the transition at the top's depth; what is left
\* of a deeper path behind it is never read, and left out.
NewPathStale == Append(path, Label)
NewPath == Append(SubSeq(path, 1, Top.depth), Label)

\* The transition is taken: its word is emitted if it matches and the buffers
\* have room, and its target is pushed.
Take ==
    /\ Running
    /\ ~Exhausted
    /\ MayMatch(Automaton, NewState)
    /\ path' = NewPath
    /\ IF Emits /\ HasRoom(Top.depth + 1)
       THEN /\ words' = Written(words, used, NewPath)
            /\ used' = used + Top.depth + 1
            /\ results' = Written(results, count,
                   <<[from |-> used, len |-> Top.depth + 1, dist |-> NewDist]>>)
            /\ count' = count + 1
       ELSE UNCHANGED <<words, used, results, count>>
    /\ stack' = IF Descends(Target, Top.depth)
                THEN Append(Advanced, Frame(Target, NewState, Top.depth + 1))
                ELSE Advanced
    /\ UNCHANGED <<search, total, done, pc, delivered>>

\* collect() returns: the walk is over, or the result buffer is full.  The
\* overload that wants everything copies the words of the batch.
CollectReturnNotDone ==
    /\ pc = "collect"
    /\ stack = << >> \/ count >= search.cap
    /\ done' = FALSE
    /\ total' = total + count
    /\ delivered' = IF search.all
                    THEN delivered \o [i \in 1..count |-> Read(results[i])]
                    ELSE delivered
    /\ pc' = "caller"
    /\ UNCHANGED <<search, stack, path, words, used, results, count>>
CollectReturn ==
    /\ pc = "collect"
    /\ stack = << >> \/ count >= search.cap
    /\ done' = (stack = << >>)
    /\ total' = total + count
    /\ delivered' = IF search.all
                    THEN delivered \o [i \in 1..count |-> Read(results[i])]
                    ELSE delivered
    /\ pc' = "caller"
    /\ UNCHANGED <<search, stack, path, words, used, results, count>>

\* fuzzy_search returns: the caller's buffers, or the copies.
Return ==
    /\ pc = "caller"
    /\ Len(search.query) <= MaxQuery
    /\ ~WantsMore
    /\ pc' = "returned"
    /\ delivered' = IF search.all THEN delivered
                    ELSE [i \in 1..total |-> Read(results[i])]
    /\ UNCHANGED <<search, stack, path, words, used, results, count, total, done>>

Next == Refuse \/ Collect \/ PopFrame \/ Prune \/ Take \/ CollectReturn \/ Return

\* A search is one thread's and waits for nothing: it keeps running.
Spec == Init /\ [][Next]_vars /\ WF_vars(Next)

----------------------------------------------------------------------------
(* Properties.                                                             *)

\* Types, and the bounds of the arrays of the iterator.
TypeOK ==
    /\ Len(stack) <= MaxDepth /\ Len(path) <= MaxDepth
    /\ path \in Seq(Nat) /\ words \in Seq(Nat)
    /\ {used, count, total} \subseteq Nat
    /\ done \in BOOLEAN
    /\ pc \in {"caller", "collect", "returned"}
    /\ \A i \in DOMAIN stack : stack[i].next \in 0..Len(LabelsOf(stack[i].node))

\* The frames of the stack are a path of the index from its root, and
\* path_buf_ spells it: a label that an abandoned branch left there is
\* overwritten before a deeper frame reads it.
StackSpellsPath ==
    stack # << >> =>
        /\ stack[1].node = search.dict
        /\ \A i \in DOMAIN stack : stack[i].depth = i - 1
        /\ \A i \in 2..Len(stack) :
              LET above == stack[i - 1]
                  label == LabelsOf(above.node)[above.next]
              IN  /\ path[i - 1] = label
                  /\ stack[i].node = ChildOf(above.node, label)
                  /\ stack[i].state = Advance(Automaton, above.state, label)

\* The batch lies in the buffers: the words of its results fill the word
\* buffer from its start, one behind the other, and never beyond its end.
BatchFits ==
    /\ count <= search.cap /\ used <= search.room
    /\ \A i \in 1..count :
          results[i].from + results[i].len =
              IF i = count THEN used ELSE results[i + 1].from
    /\ count > 0 => results[1].from = 0

\* The iterator's own state, in and between the calls of collect().
IteratorSound == TypeOK /\ StackSpellsPath /\ BatchFits

DistanceOf(w) == Distance(search.metric, search.query, w)

\* The words that the walk can reach and that match, in the order of the walk.
Matches == {w \in search.dict : /\ w # << >> /\ Len(w) <= MaxDepth
                                /\ DistanceOf(w) <= search.max}
Result(w) == [word |-> w, dist |-> DistanceOf(w)]

\* What the search has found so far, over all its batches.
Batch == [i \in 1..count |-> Read(results[i])]
Found == CASE pc = "collect" -> delivered \o Batch
           [] pc = "caller" -> IF search.all THEN delivered ELSE Batch
           [] pc = "returned" -> delivered

\* The words found are matches, with their distances, each found once and in
\* lexicographic order, however the buffers cut the walk into batches.
FoundAreMatches ==
    /\ \A i \in DOMAIN Found : Found[i].word \in Matches /\ Found[i] = Result(Found[i].word)
    /\ \A i \in 1..(Len(Found) - 1) : Precedes(Found[i].word, Found[i + 1].word)

\* No match is lost, to pruning or between two batches, when the word buffer
\* has room for as many words as the result buffer: the search returns all of
\* them, or as many of the first ones as the caller's buffer holds.
Ample == search.room >= search.cap * MaxDepth
Delivered == {delivered[i].word : i \in DOMAIN delivered}
NoneLost ==
    pc = "returned" /\ Ample /\ Len(search.query) <= MaxQuery =>
        \A w \in Matches \ Delivered :
            /\ ~search.all
            /\ Len(delivered) = search.cap
            /\ \A found \in Delivered : Precedes(found, w)

\* A search ends.
SearchEnds == <>(pc = "returned")

\* What include/fuzzyfst/fuzzyfst.h promises: "find all words within
\* max_distance edits of query".  The code leaves out the empty word, and
\* drops the words that its word buffer has no room for.
FindsAll ==
    pc = "returned" /\ search.all /\ Len(search.query) <= MaxQuery =>
        Delivered = {w \in search.dict : DistanceOf(w) <= search.max}
==============================================================================
