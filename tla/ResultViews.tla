------------------------------ MODULE ResultViews ------------------------------
(***************************************************************************)
(* What the caller of Fst holds (src/fuzzyfst.cpp): handles with a pointer *)
(* to an Impl, which are moved and destroyed, and the results of the two   *)
(* fuzzy_search overloads that return a vector.  Their words are views     *)
(* into a std::string, word_backing, of which there is one for each of the *)
(* two overloads and each thread.  Threads search at the same time; Python *)
(* callers (python/bindings.cpp) copy the words when a search returns.     *)
(* What a search finds is in FuzzySearch, here it is a list of words.  A   *)
(* query of more than 64 characters returns before it touches anything.    *)
(***************************************************************************)
EXTENDS Naturals, SequencesExt

CONSTANTS
    Threads, Handles,
    Found,        \* what searches find: sequences of words, words of nonzero bytes
    Small,        \* the characters that fit in an empty std::string
    MaxImpls, MaxCalls   \* bounds: Impls made, and calls of all threads

ASSUME ViewsAssumption == {Small, MaxImpls, MaxCalls} \subseteq Nat
ASSUME FoundAssumption == Found \subseteq Seq(Seq(Nat))

VARIABLES
    impl,      \* impl_ of each handle, 0 for nullptr
    live,      \* the Impls that are not deleted
    made,      \* how many Impls there were
    running,   \* the threads that have not ended
    call,      \* the search each thread is in
    string,    \* word_backing[thread, overload]: its buffer and its size
    memory,    \* the buffers it has had: their bytes, and whether they are freed
    calls,     \* how often it has been cleared
    held,      \* the views that callers were given
    copies     \* the words that the last Python call of a thread has made

vars == <<impl, live, made, running, call, string, memory, calls, held, copies>>
handles == <<impl, live, made>>

\* The overloads with a word_backing.  The one with SearchOptions forwards
\* to the other for the default metric and algorithm: such a call is one of
\* the other here.
Overloads == {"distance", "options"}

Idle == [pc |-> "idle"]

\* A thread's word_backing.
BackingShared(t, o) == <<CHOOSE u \in Threads : TRUE, o>>
Backing(t, o) == <<t, o>>

Fresh(n) == [text |-> [i \in 1..(n + 1) |-> 0], freed |-> FALSE]
CapacityOf(buffer) == Len(buffer.text) - 1

----------------------------------------------------------------------------

Init ==
    /\ impl = [h \in Handles |-> 0]
    /\ live = {} /\ made = 0
    /\ running = Threads
    /\ call = [t \in Threads |-> Idle]
    /\ string = [s \in Threads \X Overloads |-> [buffer |-> 1, size |-> 0]]
    /\ memory = [s \in Threads \X Overloads |-> <<Fresh(Small)>>]
    /\ calls = [s \in Threads \X Overloads |-> 0]
    /\ held = {}
    /\ copies = [t \in Threads |-> << >>]

\* Handles: their owner does not move or destroy one that a search uses.
Unused(h) == \A t \in Threads : ~(call[t].pc = "gather" /\ call[t].handle = h)

Open(h) ==
    /\ impl[h] = 0 /\ made < MaxImpls
    /\ made' = made + 1
    /\ live' = live \cup {made'}
    /\ impl' = [impl EXCEPT ![h] = made']
    /\ UNCHANGED <<running, call, string, memory, calls, held, copies>>

\* Move assignment deletes what it replaces; move construction has nothing to.
MovedKeeping(h, g) == [impl EXCEPT ![h] = impl[g]]
Moved(h, g) == [impl EXCEPT ![h] = impl[g], ![g] = 0]
Move(h, g) ==
    /\ h # g /\ Unused(h) /\ Unused(g)
    /\ live' = live \ {impl[h]}
    /\ impl' = Moved(h, g)
    /\ UNCHANGED <<made, running, call, string, memory, calls, held, copies>>

Destroy(h) ==
    /\ Unused(h)
    /\ live' = live \ {impl[h]}
    /\ impl' = [impl EXCEPT ![h] = 0]
    /\ UNCHANGED <<made, running, call, string, memory, calls, held, copies>>

\* A search starts: word_backing.clear() ends the text at its beginning.
Start(t, h, o, python) ==
    LET s == Backing(t, o) IN
    /\ t \in running /\ call[t].pc = "idle"
    /\ impl[h] # 0
    /\ FoldFunction(+, 0, calls) < MaxCalls
    /\ \E found \in Found :
          call' = [call EXCEPT ![t] = [pc |-> "gather", handle |-> h, impl |-> impl[h], overload |-> o,
                                       python |-> python, left |-> found, offsets |-> << >>]]
    /\ calls' = [calls EXCEPT ![s] = @ + 1]
    /\ string' = [string EXCEPT ![s].size = 0]
    /\ memory' = [memory EXCEPT ![s][string[s].buffer].text[1] = 0]
    /\ UNCHANGED <<handles, running, held, copies>>

\* word_backing.append(word): in place, or in a buffer of twice the capacity.
Overwritten(text, at, w) ==
    [i \in DOMAIN text |-> IF i \in (at + 1)..(at + Len(w)) THEN w[i - at]
                           ELSE IF i = at + Len(w) + 1 THEN 0 ELSE text[i]]
Grown(capacity, needed) == IF needed > 2 * capacity THEN needed ELSE 2 * capacity
Appended(s, w) ==
    LET size == string[s].size
        old == memory[s][string[s].buffer]
        bigger == Fresh(Grown(CapacityOf(old), size + Len(w)))
    IN  IF size + Len(w) <= CapacityOf(old)
        THEN [memory[s] EXCEPT ![string[s].buffer].text = Overwritten(@, size, w)]
        ELSE Append([memory[s] EXCEPT ![string[s].buffer].freed = TRUE],
                    [bigger EXCEPT !.text = Overwritten(Overwritten(@, 0, SubSeq(old.text, 1, size)), size, w)])

Gather(t) ==
    /\ call[t].pc = "gather" /\ call[t].left # << >>
    /\ LET s == Backing(t, call[t].overload)
           w == Head(call[t].left)
       IN  /\ memory' = [memory EXCEPT ![s] = Appended(s, w)]
           /\ string' = [string EXCEPT ![s] = [buffer |-> Len(memory'[s]), size |-> @.size + Len(w)]]
           /\ call' = [call EXCEPT ![t].left = Tail(@),
                          ![t].offsets = Append(@, [at |-> string[s].size, buffer |-> string[s].buffer,
                                                    word |-> w])]
    /\ UNCHANGED <<handles, running, calls, held, copies>>

\* The offsets become views of the buffer that the string ends up with.
BufferWhenAppended(t, k) == call[t].offsets[k].buffer
BufferOf(t, k) == string[Backing(t, call[t].overload)].buffer
ViewsOf(t) ==
    LET s == Backing(t, call[t].overload)
    IN  [k \in DOMAIN call[t].offsets |->
            [string |-> s, number |-> calls[s], buffer |-> BufferOf(t, k),
             at |-> call[t].offsets[k].at, word |-> call[t].offsets[k].word]]
Return(t) ==
    /\ call[t].pc = "gather" /\ call[t].left = << >>
    /\ held' = held \cup ToSet(ViewsOf(t))
    /\ call' = [call EXCEPT ![t] = IF @.python THEN [pc |-> "copy", views |-> ViewsOf(t)] ELSE Idle]
    /\ copies' = IF call[t].python THEN [copies EXCEPT ![t] = << >>] ELSE copies
    /\ UNCHANGED <<handles, running, string, memory, calls>>

\* The bytes that are read through a view.
Read(v) ==
    LET buffer == memory[v.string][v.buffer]
    IN  IF buffer.freed THEN << >> ELSE SubSeq(buffer.text, v.at + 1, v.at + Len(v.word))

\* The binding makes a Python string of each word before it returns.
Copy(t) ==
    /\ call[t].pc = "copy"
    /\ IF call[t].views = << >> THEN call' = [call EXCEPT ![t] = Idle] /\ UNCHANGED copies
       ELSE LET v == Head(call[t].views)
            IN  /\ copies' = [copies EXCEPT ![t] = Append(@, <<v.word, Read(v)>>)]
                /\ call' = [call EXCEPT ![t].views = Tail(@)]
    /\ UNCHANGED <<handles, running, string, memory, calls, held>>

\* A thread's strings are destroyed when it ends.
End(t) ==
    /\ t \in running /\ call[t].pc = "idle"
    /\ running' = running \ {t}
    /\ memory' = [s \in DOMAIN memory |->
                     IF s[1] # t THEN memory[s]
                     ELSE [k \in DOMAIN memory[s] |-> [memory[s][k] EXCEPT !.freed = TRUE]]]
    /\ UNCHANGED <<handles, call, string, calls, held, copies>>

Next ==
    \/ \E h \in Handles : Open(h) \/ Destroy(h)
    \/ \E h, g \in Handles : Move(h, g)
    \/ \E t \in Threads :
          \/ \E h \in Handles, o \in Overloads, python \in BOOLEAN : Start(t, h, o, python)
          \/ Gather(t) \/ Return(t) \/ Copy(t) \/ End(t)

Spec == Init /\ [][Next]_vars

----------------------------------------------------------------------------
(* Properties.                                                             *)

\* The string is in its last buffer, in bounds, and the others are freed.
TypeOK ==
    /\ \A s \in DOMAIN string :
          LET buffers == memory[s] IN
          /\ string[s].buffer = Len(buffers)
          /\ string[s].size <= CapacityOf(Last(buffers))
          /\ \A k \in 1..(Len(buffers) - 1) : buffers[k].freed
          /\ Last(buffers).freed <=> s[1] \notin running
    /\ live \subseteq 1..made

\* However handles are moved and destroyed, every Impl has one handle until it
\* is deleted, once; and no search under way loses its Impl.
ImplsOwned ==
    /\ live = {impl[h] : h \in Handles} \ {0}
    /\ \A h, g \in Handles : impl[h] = impl[g] /\ h # g => impl[h] = 0
    /\ \A t \in Threads : call[t].pc = "gather" => call[t].impl \in live

\* A result reads as the word that was found until the thread that searched
\* ends or calls the same overload again: whatever is found in between by
\* other threads or the other overload, and even when the Fst is destroyed.
ViewsIntact ==
    /\ TypeOK
    /\ \A v \in held : v.string[1] \in running /\ v.number = calls[v.string] => Read(v) = v.word

\* What Python gets are the words that were found.
CopiesIntact == \A t \in Threads : \A k \in DOMAIN copies[t] : copies[t][k][1] = copies[t][k][2]
==============================================================================
