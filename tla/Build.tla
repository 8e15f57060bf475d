--------------------------------- MODULE Build ---------------------------------
(***************************************************************************)
(* build (src/fuzzyfst.cpp) as a whole: the words it is called with go     *)
(* through RadixSort, one after the other into FstBuilder, and the nodes   *)
(* of the builder through FstWriter into the bytes of the index, which are *)
(* read as FstReader does.  The three components run one after the other,  *)
(* each with the variables of its own module: the builder's and its        *)
(* operators are extended, so that what is proved of it applies here, the  *)
(* other two are instances.  What is added is the loop that calls them,    *)
(* with its two ways out.  What can go wrong with the file is in IndexFile.*)
(***************************************************************************)
EXTENDS FstReader, FstBuilder

CONSTANTS
    Inputs,       \* the lists of words that build is called with
    Threshold     \* as in RadixSort

ASSUME InputsAssumption == Inputs \subseteq Seq(Words)
ASSUME ThresholdAssumption == Threshold \in Nat \ {0}

VARIABLES
    input, sortInput,                                       \* RadixSort
    words, scratch, calls, buckets, sortI, sortJ, key, sortPc,
    stk, visited, order, offsets, writePos, data, written, header, writerPhase, \* FstWriter
    added,        \* the loop variable of build: how many words it has added
    outcome       \* what build returns

sorting == <<input, sortInput, words, scratch, calls, buckets, sortI, sortJ, key, sortPc>>
writing == <<stk, visited, order, offsets, writePos, written, header, writerPhase, data>>
buildVars == <<sorting, vars, writing, added, outcome>>

\* What build hands to the writer: builder.root() and builder.node_pool().
Handed == [root |-> 1,
           nodes |-> [n \in DOMAIN pool |-> [final |-> pool[n].final, transitions |-> pool[n].trans]]]
Unbuilt == [root |-> 1, nodes |-> <<[final |-> FALSE, transitions |-> << >>]>>]

Sorter == INSTANCE RadixSort WITH data <- words, offsets <- buckets, i <- sortI, j <- sortJ, pc <- sortPc
Writer == INSTANCE FstWriter WITH pool <- Handed, Pools <- {Unbuilt}, phase <- writerPhase

----------------------------------------------------------------------------

BuildInit ==
    /\ Sorter!Init /\ Init /\ Writer!Init
    /\ added = 0
    /\ outcome = "none"

Sort ==
    /\ Sorter!Next
    /\ UNCHANGED <<vars, writing, added, outcome>>

\* The next word that std::unique has left is added; the loop goes on as long
\* as add() returns no error.
AddNext ==
    /\ sortPc = "sorted" /\ outcome = "none" /\ result # "InputNotSorted"
    /\ added < Len(words)
    /\ AddStart(words[added + 1]) \/ AddRejected(words[added + 1])
    /\ added' = added + 1
    /\ UNCHANGED <<sorting, writing, outcome>>

BuilderStep ==
    /\ Step
    /\ UNCHANGED <<sorting, writing, added, outcome>>

\* The error of add() is build's.
Refuse ==
    /\ result = "InputNotSorted" /\ outcome = "none"
    /\ outcome' = "InputNotSorted"
    /\ UNCHANGED <<sorting, vars, writing, added>>

FinishUnchecked ==
    /\ sortPc = "sorted"
    /\ added = Len(words) \/ result = "InputNotSorted"
    /\ FinishStart
    /\ UNCHANGED <<sorting, writing, added, outcome>>
Finish ==
    /\ sortPc = "sorted" /\ result # "InputNotSorted"
    /\ added = Len(words)
    /\ FinishStart
    /\ UNCHANGED <<sorting, writing, added, outcome>>

Write ==
    /\ finished
    /\ UNCHANGED <<sorting, vars, added, outcome>>
    /\ Writer!Next

\* The bytes are in the file.
Return ==
    /\ writerPhase = "returned" /\ outcome = "none"
    /\ outcome' = "ok"
    /\ UNCHANGED <<sorting, vars, writing, added>>

BuildNext == Sort \/ AddNext \/ BuilderStep \/ Refuse \/ Finish \/ Write \/ Return

\* One thread's work, which waits for nothing.
BuildSpec == BuildInit /\ [][BuildNext]_buildVars /\ WF_buildVars(BuildNext)

----------------------------------------------------------------------------
(* Properties.                                                             *)

BuildTypeOK ==
    /\ added \in 0..Len(words)
    /\ outcome \in {"none", "ok", "InputNotSorted"}
    /\ TypeOK /\ Writer!TypeOK

\* Types; the partitions of the sort lie in the array, and no word is read
\* behind its end; and what the calls of the sort that are still to be made
\* leave alone is in its place.
Settled == BuildTypeOK /\ Sorter!PartitionsInBounds /\ Sorter!Settled

\* Whatever nodes the builder has redirected, left behind and shared, the writer
\* places every node of the automaton once, behind its children.
ChildrenFirst == Writer!ChildrenFirst

\* The nodes of the index that can be read from its root.  Their targets lie
\* before them, so that one pass from the root downwards meets them all.
TargetsOf(at) == LET node == ReadNode(data, at)
                 IN  {TargetAt(data, node, t) : t \in 1..node.count}
IndexNodes ==
    LET From[k \in 0..(MaxLength + 1)] ==
            IF k = 0 THEN {header.root} ELSE UNION {TargetsOf(at) : at \in From[k - 1]}
    IN  UNION {From[k] : k \in 0..(MaxLength + 1)}

\* The words that are accepted from each of them.
LanguageAt ==
    LET nodes == IndexNodes
        L[at \in nodes] ==
            LET node == ReadNode(data, at)
            IN  (IF node.final THEN {<< >>} ELSE {}) \cup
                UNION {{<<LabelAt(data, node, t)>> \o w :
                           w \in L[TargetAt(data, node, t)]} : t \in 1..node.count}
    IN  L

\* The order that fuzzyfst.h:60-61 asks of words that are not to be sorted.
StrictlyIncreasing(ws) == \A k \in 1..(Len(ws) - 1) : Precedes(ws[k], ws[k + 1])

\* build never refuses words that it was asked to sort or that are in strict
\* order, and never accepts words that decrease somewhere and were not to be
\* sorted.  Equal neighbours are neither: the header has them refused, the code
\* drops them, and nothing is said of them here but that what is accepted is
\* indexed.  An index has the words that build was called with, each of them and
\* no other, whatever the order, the duplicates, the prefixes and the sharing: as
\* the searches read it, and as contains() does.
IndexedOrRefused ==
    /\ outcome = "InputNotSorted" => ~sortInput /\ ~StrictlyIncreasing(input)
    /\ outcome = "ok" =>
          /\ sortInput \/ Sorter!NeverDecreasing(input)
          /\ LanguageAt[header.root] = ToSet(input)
          /\ \A w \in BoundedSeq(Labels, MaxLength) :
                ContainsKey(data, header.root, w) <=> w \in ToSet(input)

\* No two nodes of the index accept the same words: the searches may take a
\* node for the set of the words behind it, as FuzzySearch does.
NodesAreLanguages ==
    outcome = "ok" =>
        LET L == LanguageAt
        IN  /\ \A m, n \in DOMAIN L : L[m] = L[n] => m = n
            /\ header.nodes = Cardinality(DOMAIN L)

\* build returns.
BuildReturns == <>(outcome # "none")
==============================================================================
