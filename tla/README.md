# A TLA+ development for fuzzyfst

fuzzyfst builds, from a list of words, an index file that holds a minimal acyclic automaton, and
answers two questions with it: is this word in the index, and which words of the index are within
an edit distance of this one. This directory has TLA+ modules for its parts and for the way they
work together, TLC configurations that check them, and proofs about eight of them, of which one is
`build` from the list of words to the index that is read. All source paths are
relative to the root of the repository (`src/` is its C++ directory, so `src/trie_builder.cpp` below
is that file; `PROJECT.json` writes it with the directory of the checkout in front).

To check a run: `tlc -config <cfg> <module>` with the pairs of the tables below. To check the
proofs: `tlapm FstBuilder_proofs.tla`, and so on for the other modules named
`..._proofs`; the longest, `Build_proofs`, takes about 20 minutes, the others take up to eight.

## 1. Inventory

| Component | Source | State | Operations | Talks to |
|---|---|---|---|---|
| Trie builder | `trie_builder.cpp`, `trie_node.h` | node pool, path of the last word, previous word, `finished_` | `add`, `finish` (inside: `minimize`, `add_child`, `alloc_node`) | arena (memory), state map (canonical nodes) |
| State map | `state_map.cpp` | open-addressing table of (hash, node id, psl), size | `find_or_insert`, `grow` | reads nodes of the pool |
| Arena | `arena.cpp` | list of malloc'd blocks | `alloc`, `reset`, move, destroy | malloc |
| Writer | `fst_writer.cpp` | walk stack, order, offsets, buffer | `fst_serialize` | reads the pool |
| Reader | `fst_reader.cpp`, `fst_decode.h` | mapping or buffer, base pointer | `open`, `from_bytes`, `contains`, `read_node`, moves | the file |
| Levenshtein automaton | `levenshtein_nfa.cpp` | two bit vectors and a distance per state | `init`, `start_state`, `step`, `can_match`, `is_match` | - |
| Levenshtein DFA, Damerau DFA | `levenshtein_dfa.cpp`, `damerau_nfa.cpp` | numbered columns, table, reachability | `init`, look-ups | - |
| Search iterators | `fuzzy_search.cpp` and two copies for the DFAs | stack of frames, path, word and result buffers | `collect`, `done` | reader, automaton |
| Public API | `fuzzyfst.cpp` | a reader behind a pointer; thread-local result words | `build`, `Fst::open`, `contains`, `fuzzy_search` | everything |
| Radix sort | `radix_sort.cpp` | arrays | `radix_sort` | called by `build` |
| Hyyro automaton | `hyyro_nfa.cpp`, `hyyro_search.cpp` | as the Levenshtein automaton, and one vector more | as there; the API does not use it | - |
| Command line | `cli/main.cpp` | word list, options, results | `build`, `query` | API |
| Python bindings | `python/bindings.cpp` | - | copy arguments and results | API |
| Benchmarks, SymSpell | `bench/` | SymSpell: terms, their counts, terms by the hash of a deletion | `createDictionaryEntry`, `lookup` | API |

Nothing in the library starts a thread or waits. What is hard in it is the *order of calls and
steps inside one thread*: a structure that is shared (a canonical node, a buffer, a block of
memory) is changed in many small steps, and is right only because of an invariant that ties
several structures together and is written nowhere. `contains` and `fuzzy_search` may be called
from many threads, but on data that no one writes; the exceptions are the file itself (a rebuild of
the path a reader has open) and the thread-local words of a result.

What makes each component correct:

- *Builder*: after every call the automaton accepts exactly the words added, and a node that the state
  map has handed out never changes again. All of this rests on the words
  being sorted, and on the path and the state map never sharing a node.
- *State map*: it answers as a set searched by structure does, though entries are displaced while
  the search for another one is under way, and though the table is rebuilt under other masks.
- *Arena*: memory handed out is in a block that is not freed, shared with nobody, and aligned.
- *Writer and reader*: every node is written once, behind its children, and what is read is what
  was written, also where a count needs its second byte.
- *build as a whole*: for every list of words, in any order and with duplicates, the index has exactly
  these words and is minimal; a list is refused only if it is not to be sorted and not in strict order.
- *Automata*: they compute the edit distance, exactly as far as the maximum matters, and prune a
  text only when no continuation of it can match.
- *Search*: what is returned are matches, once each, in order; nothing is lost by pruning, or
  between two batches; the buffers are never overrun.
- *Radix sort*: no byte behind the end of a word is read, and the depth of its recursion is that of a word.
- *Index file*: a reader opens a whole index or none, whatever a crash or a full disk left of one;
  every mapping and buffer has one owner; and a reader reads within the file until it is rebuilt.
- *Handles and results*: an `Fst` has one owner; the words of a result stay readable for as long as
  the code, and not the comment, says.
- *Command line*: the words are the lines, the options are taken in any order, and of the matches that the buffers hold the nearest come first.
- *SymSpell*: it finds what the brute-force search finds, which the benchmark takes for granted.

`PROJECT.json` lists the hazards, each at its line and with the properties that would notice it.

## 2. The modules

| Module | Models | Notes |
|---|---|---|
| `Lexicographic` | the order of words and the common prefix in `add` | no recursion, so the proofs can use it |
| `Dictionary` | *abstract*: a set of words that grows in increasing order until it is closed | refined by `FstBuilder` |
| `FstBuilder` | `FstBuilder`: one action per loop iteration of `add`, `minimize`, `finish` | the state map is the set `registered` |
| `Registry` | *abstract*: a set of nodes searched by structure | what `FstBuilder` assumes; refined by `StateMap` |
| `StateMap` | `find_or_insert` and `grow`: one action per slot probed | the hash function is chosen by TLC |
| `Arena` | `alloc`, `reset`, moves, destructor of several arenas | addresses are remainders and offsets |
| `RadixSort` | `radix_sort`, then `std::unique` in `build` | recursion is a stack of calls |
| `FstReader` | `read_node`, `contains` | operators on the cells of an index |
| `FstWriter` | `fst_serialize`: walk, layout, writing | |
| `Build` | `build`: `RadixSort`, `FstBuilder` and `FstWriter` one after the other, and `FstReader` on the result | the composition |
| `EditDistance` | *reference*: least number of single edits | not translated from code |
| `LevenshteinNFA` | the bit-parallel automaton | bit vectors are naturals below `2^Width` |
| `LevenshteinDFA`, `DamerauNFA` | the states of the two DFAs and the step between them | |
| `DfaConstruction` | how both `init`s number, link and mark states | `metric` says whose `init` runs |
| `FuzzySearch` | `collect`, and the four overloads of `fuzzy_search` around it | the automaton is a parameter |
| `ResultViews` | `Fst` handles, the strings behind the results of the vector overloads, the copies of Python | threads |
| `IndexFile` | the end of `build`, `FstReader::open`, moves and destructor | chunks of a file are named after the build that wrote them |
| `WordList`, `CommandLine` | `load_words`; `main` with `build` and `query` | |
| `SymSpell` | `SymSpell` with its `MemoryStore`, and the brute-force distance of the benchmark | |
| `FstBuilder_proofs`, `Build_proofs`, `StateMap_proofs`, `Arena_proofs`, `DfaConstruction_proofs`, `FuzzySearch_proofs`, `IndexFile_proofs`, `ResultViews_proofs` | theorems | section 4 |
| `MC...` | instances for TLC | |

How they correspond to the code:

- A variable stands for the member or local named in its comment; an action for the lines that
  `PROJECT.json` maps it to. `pc` (or `phase`) says in which loop a call is.
- `FstBuilder`: node `n` is `pool[n]`, its id in the code is `n - 1`. Composition with the state
  map is by abstraction: `FstBuilder` uses a set searched by structure, and `StateMap` is shown to
  implement such a set (`ImplementsRegistry`). `find_or_insert` may only be called for a node whose
  children are canonical, else structural equality would not mean equal languages; that is
  `ChildrenCanonical`.
- `Build` has the variables of its three components and calls their actions. It extends `FstBuilder`, so that
  what is proved of the builder holds of the one in it, and takes the other two as instances (`Sorter`,
  `Writer`); its own specification is `BuildSpec`. The words that `RadixSort` leaves
  are added to `FstBuilder` one by one, until one is refused; after `finish` the pool and the root go
  to `FstWriter` as `fst_serialize` gets them (`Handed`); the bytes are read back as `FstReader` reads
  them, both by walking the nodes and by `ContainsKey`. So the writer is checked on the pools that
  the builder makes, garbage of earlier redirections included, and the builder on the order that the sort
  makes. That no two nodes of the index have the same words (`NodesAreLanguages`) is what allows
  `FuzzySearch` to take a node for its right language, the set of words that lead from it to a final
  node.
- The three iterators (`fuzzy_search.cpp`, `levenshtein_dfa_search.cpp`,
  `damerau_search.cpp`) are the same code over three automata; the options of a search select one, as
  in `fuzzyfst.cpp:171-268`. `MCFuzzySearch` has all three as tables. The DFAs' look-ups are there by
  the columns they stand for; that the constructed table computes those, and that its marking is a
  matter of the column, is what `DistancesExact` and `PruningIsExact` of `DfaConstruction` say, and
  the theorems about them. `AutomataAssumption` of `FuzzySearch` is the same seen from the search, and all that
  the proofs about the search know of an automaton; `TablesServeSearch` of `DfaConstruction_proofs` states it of
  the tables.
- `IndexFile` has the file and the memory, `FstReader` the decoding of its bytes. The process that
  builds and the one that reads are two; each step of `open` that looks at the file is an action, so
  a build may come between the length, the mapping and the header. `since` of a reader is no member: it says how many builds
  had opened the file when its length was taken. A page that is behind the end of
  the file by the time it is read kills the reader (`ReaderKilled`).
- `FstWriter` and `FstReader` share one layout: *cells* instead of bytes. The first cell of a node
  is its byte with flag and count, then possibly the count's second byte, then two cells for each
  transition (label: one byte, offset: four bytes).
- `ResultViews` has the two thread-local strings of `fuzzyfst.cpp` (one for each overload that returns
  a vector) with their buffers and bytes: appending in place or in a buffer of twice the size,
  clearing, and the views that are made when all words are there. What a search finds is a list of
  words, chosen by TLC; `FuzzySearch` says which.
- `CommandLine` has what matches by distance, not by automaton: the walk is in the order of the words, which is what
  `FuzzySearch` shows of it. It has both buffers of `query`, 8192 results (`Cap`) and 65536 bytes for their
  words (`Room`), and fills them match by match (`Keep`), so that a long match may be dropped and a shorter one behind it
  kept; the distances it prints are those that the algorithm reports, which for a DFA with the greatest distance are
  all 0 (`ClampWraps`).
- `SymSpell` states a lookup one candidate and one term at a time, as the two loops of `lookup` do.

Some operators have a neighbour that differs from them by one plausible slip (`NewId` and
`NewIdAfterPush`, `Stripped` and `StrippedOnce`). They are the mutants of `PROJECT.json`: with the slip
in place of the original, TLC finds the property they are listed with violated, so every property
is one that the code could break. Nothing else uses them.

## 3. The runs

Passing runs:

| Run | Module, cfg | Instance | Shows |
|---|---|---|---|
| builder | `MCFstBuilder` | two labels, every sequence of `add`s of words of 0, 2 or 3 labels, in any order, then `finish` | the automaton accepts exactly the words added at every step (`ImplementsDictionary`), canonical nodes are frozen and unique, refused words change nothing |
| state_map | `MCStateMap` | five nodes, two of them equal, all hash functions into three values, table sizes 1, 2, 4, 8 | refinement of `Registry`; entries stay findable after every displacement; the table always has an empty slot; every call returns |
| build | `MCBuild` | every list of up to four of seven words and every list of five different ones, with and without `sort_input` | the index is read as exactly the words and is minimal; no list in strict order or to be sorted is refused, no other one that decreases is taken; build returns |
| dfa | `MCDfaConstruction` | both metrics, queries to length 3 over two labels and a third label no query has, distances 0-2, one above the byte and the greatest one, all texts to length 4 | both DFAs compute the distance of their metric and prune exactly, for every numbering of the states; the bit-parallel automaton is exact in every entry of its column |
| search | `MCFuzzySearch` | five indexes, six queries and one that is too long, distances 0-2, four combinations of options, five buffer sizes, both kinds of overload | results are the matches, in order, once, resumed at any place |
| arena | `MCArena` | two arenas, two blocks, sizes 1 and 3, alignments 1 and 4, blocks of 4 bytes | ownership of blocks, disjoint and aligned allocations |
| index_file | `MCIndexFile` | two readers, three builds of 2, 3 and 1 chunks over nothing or a foreign file, three mappings or buffers | whole indexes are opened, torn ones refused; a reader is safe until the next build opens the file, whatever the last one still writes; ownership of mappings and buffers |
| result_views | `MCResultViews` | two threads, two handles, three searches through either overload, from C++ or Python | results stay readable until the thread calls the same overload again or ends, and handles own what they point to |
| command_line | `MCCommandLine` | every file of up to six bytes, among them line ends and zeros, through a buffer of four; every list of up to five arguments behind a query on six words, and a query that is too long | words are lines, options count wherever they stand, a match is left out only for want of room, results are sorted by the distance that is reported |
| symspell | `MCSymSpell` | all pairs of words of up to five labels; three entries of four terms around every input of three labels | `All` finds what brute force finds, `Closest` and `Top` the nearest |

Runs that TLC is expected to refute, each for a statement of a comment that the code does not keep:

| Run | Statement | What happens |
|---|---|---|
| builder_wrap | build makes an FST of a list of words (`fuzzyfst.h:58`) | the child that makes a node's count wrap (the 256th) empties its transitions; the words are lost, and `finish` succeeds |
| search_drops | find all words within the distance (`fuzzyfst.h:100`) | the overload that returns a vector drops matches when 65536 bytes do not hold the up to 8192 words of a batch, and does not say so |

### Bounds, and why they suffice

- `CountMod` is 4 for 256 in the builder run, which no node reaches with two labels, and in the
  build run with three; the wrap run
  takes 2, which both children of the root reach. What the code does depends only on whether the
  count wraps. The words of the builder run are those of 0, 2 and 3 labels: prefixes of each other, shared suffixes of
  both lengths, and redirections at two depths. The words of one label would lengthen
  the run and add no kind of step.
- `StateMap` starts with capacity 1, so that it grows three times within four insertions; three hash
  values that are equal, neighbours or wrap around under each mask give every collision pattern of
  four entries. `psl` has 16 bits in the code, far beyond any probe length here.
- `Build`: `Threshold` is 2 for 32, so that lists of three words and more are distributed and smaller
  partitions sorted by insertion, at depths 0 to 2; three labels make four buckets; equal words, words
  that end at the depth of their partition, and two large buckets side by side (for which the lists of
  five are there) all occur. `Escape` is 2 for 63, so that counts below, at and above it occur. The
  seven words share prefixes and suffixes, and one of them is empty.
- `Width` is 3 for 64: queries to that length reach the highest bit of the word, where the shift in
  `start_state` has its special case. In the search run it is 4.
- `ByteMax` 4 and `WordSize` 8 stand for 255 and 2^32 in the clamp of the DFAs. `max_distance` 7 is
  the greatest value of such a word: the sum wraps to 0 and the clamp with it, and every text matches,
  as it should; the distances are then 0, see section 6. `max_distance` 5 is above `ByteMax`, so that the
  clamp is `ByteMax` itself; no text is longer than `ByteMax`, as no search goes down more than 255 labels.
- `MaxDepth` is 3 for 255, and one index has a word longer than that: the search does not go there.
  Words of more than 255 bytes are in an index but never found by a search; `Matches` leaves them
  out, and names the bound.
- `MaxQuery` is 4 for 64: one query is longer.
- Buffers of the search: a result buffer of 1, 2 or 4 places, a word buffer that fits them exactly, one that is
  too small, and one that holds a single byte. `NoneLost` is claimed for ample word buffers only.
- `MaxBlocks` bounds the calls of malloc. Two blocks make a block that is not the last, moves
  between two arenas, and a block taken into an arena that had one. The proofs have no such bound.
- `MaxMemory` and `Sizes` bound mappings and builds in `IndexFile`: a file that grows, one that
  shrinks under a mapping, and two readers that move into each other. The proofs have no such bound.
- `ResultViews`: an empty string has room for two characters, so that a result of three makes it
  move; `MaxCalls` 3 lets a thread search again through the same overload and the other one, while the other
  thread searches; `MaxImpls` 2 lets a handle be opened again.
- `CommandLine`: `BufferSize` 4 lets a line of three bytes fill the buffer without its end and a file
  of six have a line that is longer; `UnsignedMod` 16 stands for 2^32, where a negative distance
  goes; `Cap` 3 is less than the five words that are near. `Room` 10 is just what the three words within distance 1 take; when all
  six match, one of six bytes is dropped between shorter ones that are kept. Five arguments are two options with their values and one that is
  cut short, or has something in between.
- `SymSpell`: `PrefixLength` 4 and words of five labels, so that both words may be longer than their
  prefix; deletions of up to 2; hashes that are equal for different words; a threshold that
  counts reach at once, later or never; `CountMax` 3 for 2^63 - 1.

### Fairness

Every call is one thread's, no loop of it waits for anything, and the scheduler of an operating
system lets it go on: `WF_vars` of the steps of a call under way. Nobody has to *call*: in
`FstBuilder`, starting `add` or `finish` has no fairness, and in `Build`, which is a call, every step has.
`CallsReturn`, `InitEnds`, `SearchEnds` and `BuildReturns`
are what that fairness gives, and they need that the loops do not go round in circles: probing ends
because the table has an empty slot, the worklist because columns are clamped, the search because
an index is acyclic and every step moves a frame on, the sort because the depth grows, the walk of
the writer because a node that was visited leaves the stack. The arena, the
index file, the handles and results, the command line and SymSpell have no fairness: what is
checked of them is safety.
`CHECK_DEADLOCK FALSE` is in the configurations of those components that stop: a build ends with
`finish`, a search returns, a command exits.

## 4. The proofs

Each holds for all values of the constants, under the assumptions that the module names:

| Module | Theorem | States |
|---|---|---|
| `FstBuilder_proofs` | `TypeCorrect` | the types of all variables |
| | `PathCorrect` | `PathInv`: what ties the path to the automaton between any two steps |
| | `RegistryCorrect` | no two nodes of the state map are equal in structure |
| | `FrozenCorrect` | a node in the state map never changes and never leaves it (an action property) |
| | `ChildrenCorrect` | at every call of `find_or_insert` all children of the node are canonical |
| | `LabelsCorrect` | transitions are in strictly increasing label order, though they are only appended |
| | `DictionaryImplemented` | the builder implements `Dictionary`: what is accepted changes only when `add` returns, by its word |
| | `WordsKept` | no word is lost unless a count of transitions wraps |
| | `MinimalCorrect` | different nodes of the state map accept different sets of words |
| `StateMap_proofs` | `TableCorrect` | the table is in order, complete and free of doubles at every probe, through growth too |
| | `RegistryImplemented` | the table implements `Registry`, a set searched by structure |
| `DfaConstruction_proofs` | `AutomatonInvariant`, `ExpansionIsSound` | states are numbered once, and none that was found is left without its edges |
| | `DistancesAreExact` | the tables of both metrics compute the distance, as far as the clamp, and accept what is within the maximum |
| | `PruningExact` | the marked states are those from which a continuation can match |
| | `TablesServeSearch` | a search may rely on the tables: they accept the matches, with their distances, and prune no prefix of one |
| `FuzzySearch_proofs` | `SearchInvariant`, `IteratorIsSound` | no array is overrun; path, stack and buffers stay consistent through every batch |
| | `MatchesFound` | what was found are matches, once each, in order, with their distances |
| | `NoMatchLost` | none is lost to pruning or between batches, when the word buffer is ample |
| `Build_proofs` | `SettledCorrect` | the sort works within the array and reads no word behind its end; what the remaining calls leave alone is in its place |
| | `OrderCorrect` | the writer places the nodes that the root reaches, each once, behind its children |
| | `RefusesDecreasing` | exactly the lists are refused that decrease and may not be sorted: what the code does, where the header asks for strict order (section 6) |
| | `IndexCorrect` | the index that is returned has exactly the words of the list, as a search reads it and as `contains` does; lists in strict order are never refused |
| | `NodesCorrect` | no two nodes of the index have the same words, and the header counts them |
| `Arena_proofs` | `TypeCorrect`, `OwnersCorrect` | no block is filled beyond its capacity; each is in the list of one arena, once, until it is freed |
| | `AllocationsCorrect` | allocations lie in blocks that are not freed, are aligned, and share no byte |
| `IndexFile_proofs` | `MemoryCorrect` | every mapping and buffer has one reader, and every reader its bytes |
| | `TornCorrect` | a file that does not change meanwhile is opened exactly if it has a whole index (an action property) |
| | `UndisturbedCorrect` | until a build opens the file again, no reader reads behind its end, and an open one has a whole index |
| `ResultViews_proofs` | `OwnersCorrect` | every `Impl` has one handle until it is deleted, and no search loses its own |
| | `ViewsCorrect` | a result is readable until its thread calls the same overload again or ends |
| | `CopiesCorrect` | Python gets what was found, though the copies are made behind the search |

*The builder.* The theorems rest on the assumptions of `FstBuilder` (labels are naturals, words are finite sequences of
them, the counter's modulus is positive) and on nothing about order: that callers pass words in any
order is part of the specification. All but the last three hold with a counter that wraps, too.

None of these is inductive. That canonical nodes are frozen needs that every step
writes only to nodes that are *not* canonical, and steps write to the last or last but one node of
the path. So `PathOpen`: the path holds ever younger nodes, none registered before `finish` returns
(the one that `minimize` registers leaves the path in the same step). That a node looked up has
canonical children needs `PathLinked`: a node of the path has canonical children only, but for the
last transition, which leads to the next node of the path. When the deepest node is done, its parent's last
transition leads to a canonical node, whichever way the look-up went. That the labels are sorted
needs `PathOrdered`: along the path no label is above the word's there, and where the next child
goes, below it; when a word passes `InOrder`, its first label behind the common prefix is greater
than the previous word's there (`Lexicographic`), which is where the order of the input turns into
the order of the transitions. `RegistryIsASet` then needs only the freeze: a node enters the map
when nothing equal is in it, and nothing in it changes.

*The builder's language.* `DictionaryImplemented`, `WordsKept` and `MinimalCorrect` have the hypothesis
`CountSuffices`: there are fewer labels than the counter counts, so words leave out at least one byte value. It
is needed: with all 256 a count wraps and a word is lost, which is what the run builder_wrap shows. By
`LabelsCorrect` a node has at most as many transitions as there are labels, and the count fits (`CountFits`).
`Runs`, a recursion, is unrolled first: a word is accepted if there is a *way* that spells it, a sequence of nodes from the
root (`LanguageAccepted`). `BuildInv` adds that the path spells the word (`PathSpells`) and that
nodes off the path have canonical children only (`OffPathLinked`). So a way follows the path until it leaves it, and
never comes back: the nodes of the path are met at their own place of a way, or not at all (`MeetsPath`).
With that, each kind of write is one lemma. A new transition at the end of the path leads to an empty node, and
no word ends there (`ExtendLanguage`); a final mark adds the word that the path spells and no other
(`ReturnLanguage`); a redirection replaces one node of a way by an equal one (`RedirectLanguage`). `LanguageStep` has
them together, and the simulation of `Dictionary` step by step follows.

`MinimalCorrect` says for the canonical nodes what `NodesAreLanguages` says of the bytes: equal words, equal node. It
speaks of all words, not only those of the length that `RightLanguage` looks at. Nodes are registered
behind their children, so they can be ranked (`Ranked`), and every node but an empty root leads to a word (`NodesUseful`).
Of two different nodes with the same words take one of the least rank: their transitions have the same
labels, and lead to children with the same words, which are the same by rank; then the nodes are equal
in structure, against `RegistryIsASet`.

*build.* For every list of words, every threshold between the two sorts, and every width of the counts. The hypothesis
`CountSuffices` is only in `IndexCorrect` and `NodesCorrect`, where the builder's theorems have it; the run build
meets it, with three labels and a modulus of four. The invariant `IndexInv` has the
parts below and `BuilderInv`, what the builder's proofs give; a step of `build` is a step of one stage, and the others keep theirs.

- *The sort* (`SortInv`). Each call on the stack has a stretch of the array of its own (`CallsApart`). Two places that no
  call holds together are in order already (`OrderedBut`), and the words in the stretch of a call agree up to
  its depth (`AgreeIn`), so no label behind the end of a word is read. The insertion sort holds a key out
  of the array, and the distribution a stretch in the scratch array half written, so these are said of the array with
  the key put back (`Held`). The counting is shown to fill every place once: the place of the k-th word is
  the number of words in lower buckets and of earlier ones in its own (`TargetsFill`), and earlier buckets
  hold smaller words (`BucketsCompare`). `Kept` says that no word is lost; `LeftOf` follows `std::unique` place by place.
- *The walk* (`WalkInv`). A node that has been visited is in the order, once, or its processed frame waits on the stack
  (`VisitedInv`). Its children have been visited, or wait above it (`ChildrenInv`); so when the frame is on top again, each child is in the
  order or is itself waiting below. The second cannot be: what is above a processed frame is below its node in
  the automaton, by every ranking of the nodes with children below parents (`AboveInv`), and the builder's invariant gives one. Every set of nodes that has the
  root and is closed under children has all that is visited (`ReachedInv`), so the nodes placed are those that the root reaches, and no more.
- *The layout* (`LayoutInv`). Cells of a node begin behind those of the nodes before it, and what was written for a node stays
  (`Holds`), because later ones write behind it. The cells are a fold over the transitions; a fold of the community modules is shown
  to be what it computes place by place (`RunExists`, `FoldExists`).
- *The loop* (`LoopInv`). Before the word that is refused the words do not decrease, and that one is less than its
  predecessor. Lists that decrease before `unique` are those that do behind it, since it drops equal neighbours only
  (`Deduplicated`): so the lists refused are exactly those (`RefusedDecreases`, `TakenAscends`), which `RefusesDecreasing` has
  without the words of the automaton. `IndexedOrRefused` claims less of the refusals: a list in strict order decreases
  nowhere (`StrictNeverDecreases`), and whether equal neighbours should be refused it leaves open.
- *The words* (`DictInv`). What the automaton accepts are the words taken so far, and this without a bound on their length: the
  builder's proofs give it for each of its steps (`AcceptedStep`, `MinimalStep`).

Then nothing more happens: an index that is returned is read. `read_node` gives at the offset of a node its flag,
labels and the offsets of its children (`ReadsNode`), whether the count is in the first byte or the second. `LanguageAt` unfolds the nodes
level by level. All nodes are met within as many levels as the longest word has labels, because each level lies on the way to a word
(`Deep`, `IndexNodesAre`); and the words of a node are those that begin with a label of a transition and go on with
one of its child (`HeadAndTail`), so they are the same in the bytes and in the pool (`LanguagesAre`, along the order of
the nodes). The loop of `contains` follows the same words (`ContainsWords`). For `NodesCorrect` the canonical nodes differ by
the builder's theorem; the root is registered by `finish` without being looked up, and so could equal one of
them: it does not, since a word behind it would be longer than the longest (`RootApart`).

*The state map.* For every table size, hash function and assignment of shapes. An entry is findable if every
slot between its home and its own is taken by an entry at least as far from home, of another shape
(`Findable`): then a probe that meets an empty slot or an entry closer to its home may stop. While an entry is
displaced, `MapInv` says the same of the entry in hand and the part of the way it has behind it (`Underway`); while the
table grows, it says which entries of the old one are copied (`Growing`). `Load` keeps a slot empty (`Room`), and
`LookupEnds` says that a look-up of a shape that is in the table stops at its entry. `Placed`, `Passed` and
`Displaced` are the three things that can happen at a slot, and every action is one of them. The abstract set
is what the table and the entry in hand hold together; it changes at the step that answers.

*The DFAs.* `DistanceAssumption` is all that is known of a distance: the recurrence over the last labels of the two
words, with or without the swap. It is the textbook definition, and TLC evaluates it in the dfa run on
`EditDistance`, which is defined independently, by single edits. A column is defined by recursion
in the model, so it is shown first to exist and to be unique (`RecursionExists`, `NextExists`, `NextUnique`). Then
`StepRepresents`: if a state has the column of a text (cut off at the clamp, and for Damerau the one before with
the last label), its successor has that of the text with one label more. Cutting off commutes with the recurrence
(`CutOff`). `ClampDecides` says what the clamp loses: nothing within the maximum, the wrap to 0
included. Texts are followed by the least prefix that would go wrong. For the marking, some entry of a column within the
maximum is just what lets a continuation match: the rest of the query gets there (`HopeForward`), and
without one, no later column has one (`HopeBack`); `AllHopefulMarked` says that the backward loop has
reached all of these when it stops. `AutomatonInv` ties the tables to the columns: edges lead to the
column that follows, for each label that was tried, and through their representative for the labels that the query
does not have.

*The search.* For every index over bytes, every query, distance, option and buffer, and every automaton that does what
`AutomataAssumption` says. `TablesServeSearch` derives that for the constructed tables from `DistancesAreExact` and from
the marking: a text that lies near a prefix of the query has only prefixes that do (`NearPrefixes`). It holds for every
maximum but the greatest, for which the distances are 0 (section 6). For the bit-parallel automaton,
`BitColumnsExact` of the dfa run says so. `SearchInv` has four parts. `WalkInv`: the frames of the stack are the prefixes of the path, each with the right
language of its node, the state behind its prefix and a place in its labels. `BufferInv`: the results of the batch
fill the word buffer one behind the other. `FoundInv`: what was found, in this batch and before, are the matches among
the words *passed*, in order; a word is passed if it comes before the prefix of the top frame, is it, or goes on from
it with a label that was taken. `CallInv` says when a batch or a search may end. `WalkPop`, `WalkAdvance` and
`WalkPush` say which words the three moves pass, and a subtree that is pruned holds no match by the assumption about
its state.

*The arena.* The arithmetic comes first: rounding up goes up by less than the alignment
(`AlignUpBounds`), so that an allocation starts behind what is used (`OffsetBounds`) and a new block,
which is made larger than what is asked for by the alignment, has room for it wherever malloc puts it
(`NewBlock`). `Owned` states ownership block by block, and is inductive with the types: a
block that is malloc'd is new because the heap has only numbers of earlier ones. An allocation is apart
from those before it because it starts behind all of them in its block, which needs that a block is in no
other list; and what a reset, a move or a destructor leaves usable is in other blocks, for the same reason.

*The index file.* `FileInv` says that the file is a prefix of what the last build writes,
`MemoryInv` what a reader has at each step of its open and that no two have the same. One lemma for
each kind of change (memory that stays, is made, is given up, changes hands) carries it through
the actions. `TornCorrect` then needs that the length a reader compares with is that of the file it
saw, and that the header names a length that the prefix only has if it is whole. For
`UndisturbedCorrect` the file may change: as long as no build opens it, it only grows, and stays whole once it is
(`FileGrows`). `SinceInv` carries this along every reader: a length that was taken from this build's file is
within it, and a header that was found to fit it has found the whole index. A build that opens the file leaves every reader with an
older `since`.

*Handles and results.* `OwnerInv` adds to `ImplsOwned` that an `Impl` is newer than all before it, and that a
search keeps its handle, which its owner neither moves nor destroys meanwhile. `ViewInv` is about the two strings of
each thread: the buffer a string has now is its last one and not freed (`BuffersKept`); while words are gathered, the text at
each offset is the word, in that last buffer, wherever the string has moved (`Gathered`); a view of the last call of
its overload reads its word (`ViewKept`), and so does one that Python has yet to copy (`Copying`). `AppendedMemory`
has both ways of appending, in place and in a larger buffer.

TLC checks the properties on the runs as well.

Model-checked only:

- `BitColumnsExact`: the automaton reaches the bit operations of a module that no theorem may use.
- the command line and SymSpell, which nothing else rests on. Section 5 says what could be proved of them.
- all liveness properties: `CallsReturn`, `InitEnds`, `SearchEnds`, `BuildReturns`. The prover does not
  reason about fairness.

Where a proof needs induction along a word, a path or a rank, it takes a least counterexample (`Least`): the
theorems of induction in the library are out of its reach, the order of the naturals is not.

## 5. Plan

Every component is modelled but for what section 7 names. From the list of words to the results of a search there are
theorems about each stage: the sort, the builder, its state map, the writer and the reader, the DFAs, the search, and the
memory they use. What is left is proofs:

1. `CommandLine`: `OptionsTaken` and `WordsAreLines`, from what the loops have read so far.
2. `SymSpell`: `SuggestionsSound`, from what the tables hold of each word; `FindsAll` needs that the deletions
   of two words meet, which is an induction over words.
3. The bit operations of `BitColumnsExact`, once the column is stated without them.

The first two modules reach no RECURSIVE operator; `LevenshteinNFA` uses bit operations and is
out of reach as it is.

In modelling, one statement about a rebuild under a reader is open: which bytes a mapped reader sees after a
build has opened the file again. The code promises nothing there, and `UndisturbedWhole` ends where that begins.

## 6. Observations without a run

About the API:

- `Fst` is "immutable after construction" (`fuzzyfst.h:71`), but what it has mapped is the file, which
  a `build` to the same path truncates and rewrites in place (`fuzzyfst.cpp:57`): `IndexFile` has both, a
  reader that is killed and one that reads other bytes than it validated. `UndisturbedWhole` says how long a reader is
  safe from both: until `fopen`.
- `fclose` at the end of `build` is not looked at (`fuzzyfst.cpp:59`): when the last of the index does not fit on the
  disk, `build` reports success over a short file. `TornRefused` says that nobody opens it.
- The words of a result of the convenience overloads point "into a heap-allocated string"
  (`fuzzyfst.h:25`), and the overload "heap-allocates results" (`fuzzyfst.h:111`); no comment says that the string is the
  thread's own and the next call clears it (`fuzzyfst.cpp:133`). `ViewsIntact` says how long results may be read.
- The empty word can be in an index, and `contains` finds it, but no search returns it: only targets of
  transitions are tested for a match (`fuzzy_search.cpp:35-44` starts with the root), though
  `fuzzyfst.h:100` says all words.
- For the greatest `max_distance` the clamp of both DFAs wraps to 0 (`levenshtein_dfa.cpp:41`): all texts match,
  as they should, but with distance 0, where the bit-parallel automaton gives the real one. The
  two "return identical result sets" according to `test_four_modes.cpp:5`.
- `fuzzyfst.h:86` says that a debug assert fires for `max_distance > 3`; no such assert is in the
  library.
- `build` removes equal neighbours before the builder sees them (`fuzzyfst.cpp:39`), so `sort_input = false` accepts a
  list that repeats a word side by side, though `fuzzyfst.h:60-61` promises `InputNotSorted` for words that are not in
  strict order (and `add` by itself refuses them, `trie_builder.h:28` and `test_fst_builder.cpp:133`). A repeated word
  further on is refused. `IndexedOrRefused` asserts neither the one nor the other of equal neighbours; `RefusesDecreasing`
  states what the code does.
- `fuzzyfst.h:59` speaks of words in a buffer separated by newlines; `build` takes a span of views.

About the components:

- The Damerau DFA computes the *restricted* distance (no edit inside a swapped pair), so `ca` and
  `abc` are 3 apart where the unrestricted distance is 2. The documentation says only that
  "transpositions count as one edit", which both do. `MCDfaConstruction` compares with the restricted one.
- The Hyyro automaton shifts its swap vector the other way from its comment (`hyyro_nfa.cpp:76-86`): it
  takes `ab` and `ba` for two edits, where `test_hyyro_nfa.cpp:84` asserts one, and its distance goes below 0, and wraps, for
  `aa` and `aaa`. The source calls it not yet correct and nothing uses it, so no module has it.
- `add` takes the empty word again right after itself, though `trie_builder.h:28` says that a word
  `<= prev_word_` is refused: the check is skipped while `prev_word_` is empty. The automaton does not
  change (`FstBuilder` models it: `InOrder`).
- `reset` of the arena is to "reuse all memory blocks" (`arena.h:58`), but `alloc` looks only at the last
  one (`arena.cpp:65`): the others stay empty and new ones are added.
- `hash_cache` of a node is cleared in two places and never read.

About the command line and the benchmarks:

- A line of 4096 bytes or more becomes several words (`main.cpp:46`), though the list is
  "newline-delimited" (`main.cpp:25`). `WordsAreLines` says what they are.
- `--metric levenshtein` is accepted and does nothing (`main.cpp:190`): after `--metric damerau` the
  metric stays damerau.
- The maximum of `--distance` is 3 according to `main.cpp:29`; greater ones are warned of and searched, and
  a negative one becomes one near 2^32 (`main.cpp:183`).
- Of more matches than the buffers hold, the first by the alphabet are printed, not the nearest, and fewer long ones
  than short ones (`PrintsMatches`): 65536 bytes (`main.cpp:112`) do not hold 8192 words of more than eight bytes each.
- With `--distance -1` and a DFA every distance is printed as 0, and the order is that of the alphabet
  (`levenshtein_dfa.cpp:41`, `damerau_nfa.cpp:50`).
- The swap in SymSpell's distance is taken from the end of the row above (`symspell.hpp:408`), not
  from two rows above: so that swapping the last two letters costs two edits. `README.md:141` explains the
  fewer results of SymSpell at distance 4 by transpositions counted as one edit, which would make them
  more. The models show another reason: for distance 4 the benchmark sets a prefix of 8
  (`bench_comparison.cpp:186`), while `symspell.hpp:365` looks for a candidate's labels in the first 7 of a
  term, and passes over terms that have one of them behind. `FindsAll` holds where the two are the same, as in the run.

## 7. Not modelled

- Python bindings: the conversion of arguments and errors, which keeps no state. How the words of a result are copied is in
  `ResultViews`.
- Benchmarks: measuring, memory statistics and printing; test code and build files likewise. Stores of SymSpell
  other than `MemoryStore` do not exist in the repository.
- The Hyyro automaton (`hyyro_nfa.cpp`) and its iterator (`hyyro_search.cpp`): nothing makes one, `fuzzy_search` takes the
  Damerau DFA instead, and their tests are commented out (`CMakeLists.txt:59-60`). The iterator is the code of the
  other iterators once more.
- Failure of malloc (the arena aborts), and files of 4 GiB, where offsets of 32 bits wrap.
- `flags`, `version` and the reserved bytes of the header: written, never read.
- The hash functions of the state map and of SymSpell: any function of the shape is explored for the first, one with
  many collisions for the second.
- Opening a file on Windows (`fst_reader.cpp:64-110`), and the byte order of the header.
