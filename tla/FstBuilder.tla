------------------------------ MODULE FstBuilder ------------------------------
(***************************************************************************)
(* FstBuilder (src/trie_builder.cpp): Daciuk's incremental construction of *)
(* the minimal acyclic automaton of a sorted list of words.                *)
(*                                                                         *)
(* The caller calls add(word) any number of times and finish() once.  Each *)
(* loop iteration of the two calls is an action, and pc says where the     *)
(* call is.  The node pool only grows: node n is pool[n], and its id in    *)
(* the code is n - 1.  A node is its final flag and its transition array;  *)
(* the StateMap is the set of the ids it holds (StateMap.tla has its hash  *)
(* table), and find_or_insert a look-up by structure in that set.          *)
(***************************************************************************)
EXTENDS Lexicographic, Integers, FiniteSets, SequencesExt

CONSTANTS
    Labels,     \* the bytes words are made of
    Words,      \* the words a caller may pass to add()
    MaxLength,  \* the length of the longest of them
    CountMod    \* num_transitions is a uint8_t: 256 in the code

ASSUME LabelsAssumption == Labels \subseteq Nat
ASSUME WordsAssumption == Words \subseteq {w \in Seq(Labels) : Len(w) <= MaxLength}
ASSUME MaxLengthAssumption == MaxLength \in Nat
ASSUME CountModAssumption == CountMod \in Nat \ {0}

VARIABLES
    pool,        \* node_pool_
    path,        \* temp_path_, the nodes spelling the word being added
    registered,  \* the canonical node ids held by state_map_
    prev,        \* prev_word_
    finished,    \* finished_
    pc,          \* the loop the current call is in, "idle" between calls
    word,        \* the argument of the current add()
    downTo,      \* the argument of the current minimize()
    result       \* the result of the last call of add() or finish()

vars == <<pool, path, registered, prev, finished, pc, word, downTo, result>>

RootId == 1
EmptyNode == [final |-> FALSE, trans |-> << >>]

Transition == [label : Labels, child : Nat]
Node == [final : BOOLEAN, trans : Seq(Transition)]

----------------------------------------------------------------------------
(* The language of the automaton under construction.                       *)

\* The runs of k steps from node n: the labels read and the node reached.
Runs(n, k) ==
    LET R[i \in 0..k] ==
            IF i = 0 THEN {<< << >>, n>>}
            ELSE LET shorter == R[i - 1]
                 IN  UNION {{<<Append(r[1], t.label), t.child>> : t \in Range(pool[r[2]].trans)} :
                               r \in shorter}
    IN  R[k]

\* All runs that can spell an input, and the ones of one label more.
AllRuns(n) == UNION {Runs(n, k) : k \in 0..(MaxLength + 1)}

\* The words node n accepts.
RightLanguage(n) == {r[1] : r \in {q \in AllRuns(n) : pool[q[2]].final}}

Language == RightLanguage(RootId)

----------------------------------------------------------------------------
(* Helpers of the actions.                                                 *)

Top == path[Len(path)]

\* alloc_node: the id of a new node is its index in the pool.
NewIdAfterPush == Len(pool) + 2
NewId == Len(pool) + 1

\* The registered nodes that nodes_equal finds equal to n: the code returns
\* the one it meets first, and RegistryIsASet says there is at most one.
EquivalentNonFinal(n) == {m \in registered : pool[m] = pool[n] /\ ~pool[m].final}
Equivalent(n) == {m \in registered : pool[m] = pool[n]}

\* add_child: the new transition array is the old one with a transition
\* appended; its length is stored in a uint8_t, and wraps.
WithOnlyTransition(node, c, child) ==
    [node EXCEPT !.trans = <<[label |-> c, child |-> child]>>]

WithTransition(node, c, child) ==
    LET trans == Append(node.trans, [label |-> c, child |-> child])
    IN  [node EXCEPT !.trans = IF Len(trans) % CountMod = 0 THEN << >> ELSE trans]

\* minimize: the last transition of the node leads to child.  With no
\* transition left after a wrap (where a debug build stops at an assert) the
\* code writes in front of the array: into the padding of the node that was
\* allocated just before it, unless the array begins a block of the arena.
RedirectedFirst(node, child) ==
    IF node.trans = << >> THEN node ELSE [node EXCEPT !.trans[1].child = child]

Redirected(node, child) ==
    IF node.trans = << >> THEN node
    ELSE [node EXCEPT !.trans[Len(node.trans)].child = child]

----------------------------------------------------------------------------

Init ==
    /\ pool = <<EmptyNode>>
    /\ path = <<RootId>>
    /\ registered = {}
    /\ prev = << >>
    /\ finished = FALSE
    /\ pc = "idle"
    /\ word = << >>
    /\ downTo = 0
    /\ result = "none"

\* The run-time check of add(): note that it is skipped when prev_word_ is
\* empty, which it also is after the empty word.
InOrderUnchecked(w) == TRUE
InOrder(w) == prev = << >> \/ Precedes(prev, w)

\* add(w) refuses a word that is not after the previous one.
AddRejected(w) ==
    /\ pc = "idle"
    /\ ~finished
    /\ ~InOrder(w)
    /\ result' = "InputNotSorted"
    /\ UNCHANGED <<pool, path, registered, prev, finished, pc, word, downTo>>

\* add(w) starts: it finds the common prefix with the previous word and calls
\* minimize() on what is below.
AddStart(w) ==
    /\ pc = "idle"
    /\ ~finished
    /\ InOrder(w)
    /\ \E k \in 0..Len(w) : IsCommonPrefix(w, prev, k) /\ downTo' = k
    /\ word' = w
    /\ pc' = "minimize"
    /\ UNCHANGED <<pool, path, registered, prev, finished, result>>

\* finish() starts: it calls minimize(0).
FinishStartAboveLeaf ==
    /\ pc = "idle"
    /\ ~finished
    /\ downTo' = 1
    /\ pc' = "freeze"
    /\ UNCHANGED <<pool, path, registered, prev, finished, word, result>>

FinishStart ==
    /\ pc = "idle"
    /\ ~finished
    /\ downTo' = 0
    /\ pc' = "freeze"
    /\ UNCHANGED <<pool, path, registered, prev, finished, word, result>>

\* One iteration of minimize(): the deepest node of the path is looked up in
\* the state map, and either joins it or is replaced in its parent.  The code
\* trims the path once, after the loop; nothing reads the tail before that.
MinimizeStep ==
    /\ pc \in {"minimize", "freeze"}
    /\ Len(path) > downTo + 1
    /\ \/ /\ Equivalent(Top) = {}
          /\ registered' = registered \cup {Top}
          /\ UNCHANGED pool
       \/ \E m \in Equivalent(Top) :
              /\ pool' = [pool EXCEPT ![path[Len(path) - 1]] = Redirected(@, m)]
              /\ UNCHANGED registered
    /\ path' = SubSeq(path, 1, Len(path) - 1)
    /\ UNCHANGED <<prev, finished, pc, word, downTo, result>>

\* minimize() returns to add().
MinimizeReturn ==
    /\ pc = "minimize"
    /\ Len(path) = downTo + 1
    /\ pc' = "extend"
    /\ UNCHANGED <<pool, path, registered, prev, finished, word, downTo, result>>

\* One iteration of the loop of add() that extends the path.
ExtendStep ==
    /\ pc = "extend"
    /\ Len(path) <= Len(word)
    /\ pool' = Append([pool EXCEPT ![Top] = WithTransition(@, word[Len(path)], NewId)],
                      EmptyNode)
    /\ path' = Append(path, NewId)
    /\ UNCHANGED <<registered, prev, finished, pc, word, downTo, result>>

\* add() marks the last node final, keeps the word and returns.
AddReturn ==
    /\ pc = "extend"
    /\ Len(path) > Len(word)
    /\ pool' = [pool EXCEPT ![Top].final = TRUE]
    /\ prev' = word
    /\ pc' = "idle"
    /\ result' = "ok"
    /\ UNCHANGED <<path, registered, finished, word, downTo>>

\* finish() registers the root, whatever the state map answers, and returns.
FinishReturnOpen ==
    /\ pc = "freeze"
    /\ Len(path) = downTo + 1
    /\ registered' = IF Equivalent(RootId) = {} THEN registered \cup {RootId} ELSE registered
    /\ pc' = "idle"
    /\ result' = "ok"
    /\ UNCHANGED <<pool, path, prev, finished, word, downTo>>

FinishReturn ==
    /\ pc = "freeze"
    /\ Len(path) = downTo + 1
    /\ registered' = IF Equivalent(RootId) = {} THEN registered \cup {RootId} ELSE registered
    /\ finished' = TRUE
    /\ pc' = "idle"
    /\ result' = "ok"
    /\ UNCHANGED <<pool, path, prev, word, downTo>>

\* The call under way takes a step.
Step ==
    \/ MinimizeStep
    \/ MinimizeReturn
    \/ ExtendStep
    \/ AddReturn
    \/ FinishReturn

Next ==
    \/ \E w \in Words : AddRejected(w) \/ AddStart(w)
    \/ FinishStart
    \/ Step

\* A call that has started runs to its end: it is one thread's, and no loop
\* of it waits for anything.  Nobody has to call.
Spec == Init /\ [][Next]_vars /\ WF_vars(Step)

----------------------------------------------------------------------------
(* Properties.                                                             *)

TypeOK ==
    /\ pool \in Seq(Node)
    /\ path \in Seq(1..Len(pool)) /\ path # << >>
    /\ registered \subseteq 1..Len(pool)
    /\ prev \in Seq(Labels)
    /\ word \in Seq(Labels)
    /\ finished \in BOOLEAN
    /\ pc \in {"idle", "minimize", "freeze", "extend"}
    /\ downTo \in Nat
    /\ result \in {"none", "ok", "InputNotSorted"}

\* No two nodes of the state map are structurally equal, however many nodes
\* were redirected, extended and marked final since they were registered:
\* find_or_insert never has two answers to choose from.
RegistryIsASet ==
    \A m, n \in registered : pool[m] = pool[n] => m = n

\* Once the state map hands a node out as canonical, no later redirection,
\* extension or final mark of add() and minimize() touches it, nor does it
\* leave the map: the parents that share it saw its last state.
RegisteredFrozen ==
    [][\A n \in registered : n \in registered' /\ pool'[n] = pool[n]]_vars

\* The precondition of StateMap::find_or_insert: the node looked up next, and
\* every node in the map, has only children that are canonical already.
ChildrenCanonical ==
    \A n \in registered \cup {Top} : \A j \in DOMAIN pool[n].trans :
        pool[n].trans[j].child \in registered

\* add_child only ever appends, and relies on the order of the words for the
\* transitions of every node to be in strictly increasing label order.
LabelsSorted ==
    \A n \in DOMAIN pool : \A i, j \in DOMAIN pool[n].trans :
        i < j => pool[n].trans[i].label < pool[n].trans[j].label

\* What ties temp_path_ to the automaton between any two steps, and makes the
\* properties above inductive.  The path leads from the root to ever younger
\* nodes, none of which is canonical before finish() returns:
PathOpen ==
    /\ path[1] = RootId
    /\ \A i, j \in DOMAIN path : i < j => path[i] < path[j]
    /\ finished => pc = "idle"
    /\ pc = "freeze" => downTo = 0
    /\ ~finished => \A i \in DOMAIN path : path[i] \notin registered

\* only the last transition of a node on it may lead to a node that is not
\* canonical, namely to the next one:
PathLinked ==
    \A i \in DOMAIN path : LET trans == pool[path[i]].trans IN
        \A j \in DOMAIN trans :
            \/ trans[j].child \in registered
            \/ i < Len(path) /\ j = Len(trans) /\ trans[j].child = path[i + 1]

\* and no transition of its i-th node has a label above the i-th label of the
\* word it spells, nor, where the next child goes, one as high as that label.
PathOrdered ==
    /\ pc = "minimize" => InOrder(word) /\ IsCommonPrefix(word, prev, downTo)
    /\ \A i \in DOMAIN path : \A j \in DOMAIN pool[path[i]].trans :
           LET c == pool[path[i]].trans[j].label IN
           IF pc = "extend" THEN /\ i <= Len(word)
                                 /\ c <= word[i]
                                 /\ i = Len(path) => c < word[i]
                            ELSE i <= Len(prev) /\ c <= prev[i]

PathInv == PathOpen /\ PathLinked /\ PathOrdered

\* The words accepted from the root change only when add() succeeds, and then
\* by that word: every intermediate state of minimize() and of the extension
\* of the path accepts exactly the words added so far.
Dict == INSTANCE Dictionary WITH dict <- Language, last <- prev, closed <- finished
ImplementsDictionary == Dict!Spec

\* What build() promises of its output: a word once added is accepted.  It
\* fails when a node gets CountMod children.
KeepsItsWords ==
    [][Language \subseteq Language']_vars
==============================================================================
