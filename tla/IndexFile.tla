------------------------------- MODULE IndexFile -------------------------------
(***************************************************************************)
(* The index file between the process that builds it (the end of build,    *)
(* src/fuzzyfst.cpp) and one that reads it (FstReader in                   *)
(* src/fst_reader.cpp): the file is truncated and rewritten in place, in   *)
(* chunks that the C library buffers; build may be killed at any time; a   *)
(* reader takes the length of the file, maps it and validates the header.  *)
(* And the memory of the readers, which moves hand from one to another.    *)
(*                                                                         *)
(* A file is a sequence of chunks, of which the first one has the header.  *)
(* A chunk is named after the build that wrote it, 0 for a foreign file.   *)
(* A missing file is refused as an empty one is, and is the same here.     *)
(***************************************************************************)
EXTENDS Naturals, Sequences, FiniteSets

CONSTANTS
    Readers,      \* FstReader objects
    Sizes,        \* Sizes[b]: the chunks of the index that build b writes
    MaxMemory     \* bound: mappings and buffers made

ASSUME IndexFileAssumption == Sizes \in Seq(Nat \ {0}) /\ MaxMemory \in Nat

VARIABLES
    file,         \* the contents of the file
    builder,      \* where build is
    builds,       \* how many builds have opened the file
    result,       \* what the last build returned
    readers,      \* the readers
    maps,         \* mappings made and not unmapped
    buffers,      \* buffers of vectors allocated and not freed
    allocated     \* how many mappings and buffers have been made

fileVars == <<file, builder, builds, result>>
readerVars == <<readers, maps, buffers, allocated>>
vars == <<file, builder, builds, result, readers, maps, buffers, allocated>>

Builds == DOMAIN Sizes
Image(b) == [k \in 1..Sizes[b] |-> b]
Foreign == <<0, 0>>
PrefixOf(s, n) == SubSeq(s, 1, n)

\* What a reader has; 0 is nullptr, or a vector without a buffer.  seen and since
\* are no members: the file, and the builds that had opened it, when its length
\* was taken.
Phases == {"none", "sized", "mapped", "made"}
Reader == [phase : Phases, base : Nat, total : Nat, owns : BOOLEAN, buffer : Nat,
           seen : Seq(Nat), since : Nat]
NoReader == [phase |-> "none", base |-> 0, total |-> 0, owns |-> FALSE, buffer |-> 0,
             seen |-> << >>, since |-> 0]
Blank == [NoReader EXCEPT !.phase = "made"]   \* moved from

----------------------------------------------------------------------------

Init ==
    /\ file \in {<< >>, Foreign}
    /\ builder = "idle" /\ builds = 0 /\ result = "none"
    /\ readers = [r \in Readers |-> NoReader]
    /\ maps = {} /\ buffers = {} /\ allocated = 0

\* build refuses its words, or cannot open the file: the file stays.
BuildFails ==
    /\ builder = "idle"
    /\ result' = "failed"
    /\ UNCHANGED <<file, builder, builds, readerVars>>

\* fopen(path, "wb") empties the file.
Truncated == << >>
BuildOpen ==
    /\ builder = "idle"
    /\ builds < Len(Sizes)
    /\ builds' = builds + 1
    /\ file' = Truncated
    /\ builder' = "write" /\ result' = "none"
    /\ UNCHANGED readerVars

\* fwrite passes a chunk on to the file, or keeps the rest in its buffer, or
\* finds that the file cannot grow.
BuildWrite ==
    /\ builder = "write"
    /\ Len(file) < Sizes[builds]
    /\ file' = Append(file, builds)
    /\ UNCHANGED <<builder, builds, result, readerVars>>

FwriteReturns ==
    /\ builder = "write"
    /\ builder' \in {"written"} \cup (IF Len(file) < Sizes[builds] THEN {"short"} ELSE {})
    /\ UNCHANGED <<file, builds, result, readerVars>>

\* fclose writes what is buffered, as much as it can; what it returns is not
\* looked at.
BuildClose ==
    /\ builder \in {"written", "short"}
    /\ IF builder = "written"
       THEN \E n \in Len(file)..Sizes[builds] : file' = PrefixOf(Image(builds), n)
       ELSE file' = file
    /\ result' = IF builder = "written" THEN "ok" ELSE "failed"
    /\ builder' = "idle"
    /\ UNCHANGED <<builds, readerVars>>

\* The process is killed: what the C library has buffered is lost.
BuildCrash ==
    /\ builder # "idle"
    /\ builder' = "idle"
    /\ UNCHANGED <<file, builds, result, readerVars>>

----------------------------------------------------------------------------
(* Readers.                                                                *)

Fresh == allocated + 1
Set(r, reader) == readers' = [readers EXCEPT ![r] = reader]

\* open: the file is not missing or empty; its length is taken.
OpenSize(r) ==
    /\ readers[r].phase = "none"
    /\ file # << >>
    /\ Set(r, [NoReader EXCEPT !.phase = "sized", !.total = Len(file), !.seen = file, !.since = builds])
    /\ UNCHANGED <<fileVars, maps, buffers, allocated>>

OpenMap(r) ==
    /\ readers[r].phase = "sized"
    /\ allocated < MaxMemory
    /\ Set(r, [readers[r] EXCEPT !.phase = "mapped", !.base = Fresh])
    /\ maps' = maps \cup {Fresh}
    /\ allocated' = Fresh
    /\ UNCHANGED <<fileVars, buffers>>

\* mmap fails.
OpenMapFails(r) ==
    /\ readers[r].phase = "sized"
    /\ Set(r, NoReader)
    /\ UNCHANGED <<fileVars, maps, buffers, allocated>>

\* validate_header, of the bytes as they are now: a header that is one, and an
\* index that is not longer than the file or buffer.
HasHeaderOnly(bytes, total) == Head(bytes) # 0
HasHeaderUncounted(bytes, total) == Head(bytes) # 0 /\ Sizes[Head(bytes)] <= total + 1
HasHeader(bytes, total) == Head(bytes) # 0 /\ Sizes[Head(bytes)] <= total

Validate(r) ==
    /\ readers[r].phase = "mapped"
    /\ file # << >>
    /\ IF HasHeader(file, readers[r].total)
       THEN /\ Set(r, [readers[r] EXCEPT !.phase = "made", !.seen = << >>])
            /\ UNCHANGED maps
       ELSE /\ Set(r, NoReader)
            /\ maps' = maps \ {readers[r].base}
    /\ UNCHANGED <<fileVars, buffers, allocated>>

\* The process touches a mapped page that is no longer in the file: it is
\* killed, and its memory goes.
Reads(r) == IF readers[r].phase = "mapped" THEN 1 ELSE readers[r].total
ReaderKilled(r) ==
    /\ readers[r].base \in maps
    /\ Len(file) < Reads(r)
    /\ readers' = [s \in Readers |-> NoReader]
    /\ maps' = {} /\ buffers' = {}
    /\ UNCHANGED <<fileVars, allocated>>

\* from_bytes, of all or some of an index in a vector: the reader gets its buffer.
FromBytes(r) ==
    /\ readers[r].phase = "none"
    /\ allocated < MaxMemory
    /\ allocated' = Fresh
    /\ \E b \in Builds : \E n \in 1..Sizes[b] :
          IF HasHeader(PrefixOf(Image(b), n), n)
          THEN /\ Set(r, [Blank EXCEPT !.base = Fresh, !.total = n, !.owns = TRUE, !.buffer = Fresh])
               /\ buffers' = buffers \cup {Fresh}
          ELSE UNCHANGED <<readers, buffers>>
    /\ UNCHANGED <<fileVars, maps>>

\* cleanup: what it leaves mapped.
MapsWithout(reader) ==
    IF reader.base # 0 /\ ~reader.owns THEN maps \ {reader.base} ELSE maps

\* What a move takes from other, and what it leaves of it.
TakenFrom(other) ==
    [other EXCEPT !.base = IF other.owns THEN other.buffer ELSE @]
LeftKeepsBase(other) == [other EXCEPT !.owns = FALSE, !.buffer = 0]
Left(other) == Blank

\* FstReader(FstReader&&).
MoveConstruct(r, other) ==
    /\ readers[r].phase = "none" /\ readers[other].phase = "made"
    /\ readers' = [readers EXCEPT ![r] = TakenFrom(readers[other]), ![other] = Left(readers[other])]
    /\ UNCHANGED <<fileVars, maps, buffers, allocated>>

\* operator=(FstReader&&): what the reader had is unmapped, or its vector's
\* buffer replaced.
MoveAssign(r, other) ==
    /\ r # other
    /\ readers[r].phase = "made" /\ readers[other].phase = "made"
    /\ maps' = MapsWithout(readers[r])
    /\ buffers' = buffers \ {readers[r].buffer}
    /\ readers' = [readers EXCEPT ![r] = TakenFrom(readers[other]), ![other] = Left(readers[other])]
    /\ UNCHANGED <<fileVars, allocated>>

\* The destructor.
Destroy(r) ==
    /\ readers[r].phase = "made"
    /\ maps' = MapsWithout(readers[r])
    /\ buffers' = buffers \ {readers[r].buffer}
    /\ Set(r, NoReader)
    /\ UNCHANGED <<fileVars, allocated>>

Build == BuildFails \/ BuildOpen \/ BuildWrite \/ FwriteReturns \/ BuildClose \/ BuildCrash
Open(r) == OpenSize(r) \/ OpenMap(r) \/ OpenMapFails(r) \/ Validate(r) \/ ReaderKilled(r) \/ FromBytes(r)
Move(r, other) == MoveConstruct(r, other) \/ MoveAssign(r, other)
Next == Build \/ \E r \in Readers : Open(r) \/ Destroy(r) \/ \E other \in Readers : Move(r, other)

Spec == Init /\ [][Next]_vars

----------------------------------------------------------------------------
(* Properties.                                                             *)

\* Types; and the file is never a mixture: it is the foreign one, or a prefix
\* of what the last build writes.
TypeOK ==
    /\ \/ builds = 0 /\ file \in {<< >>, Foreign}
       \/ builds > 0 /\ \E n \in 0..Sizes[builds] : file = PrefixOf(Image(builds), n)
    /\ builder \in {"idle", "write", "written", "short"}
    /\ builds \in 0..Len(Sizes)
    /\ result \in {"none", "ok", "failed"}
    /\ readers \in [Readers -> Reader]
    /\ maps \cup buffers \subseteq 1..allocated /\ maps \cap buffers = {}
    /\ allocated \in 0..MaxMemory

IsWhole(contents) == contents # Foreign /\ Len(contents) = Sizes[Head(contents)]

\* A file that does not change while it is opened is opened exactly if it has
\* a whole index: what a crash or a full disk leaves of one is refused.
TornRefused ==
    [][\A r \in Readers :
          Validate(r) /\ file = readers[r].seen
              => (readers'[r].phase = "made" <=> IsWhole(file))]_vars

\* As long as no build has opened the file after its length was taken, whatever
\* build still writes, a search reads no byte that is not there, and what open
\* has returned is a reader of a whole index.
UndisturbedWhole ==
    \A r \in Readers : readers[r].base \in maps /\ readers[r].since = builds =>
        /\ Reads(r) <= Len(file)
        /\ readers[r].phase = "made" => IsWhole(file)

\* Every mapping and buffer is one reader's, and every reader's bytes are there:
\* nothing leaks, is unmapped twice, or read after it is gone.
HasBase(r, m) == readers[r].base = m
MemoryOwned ==
    /\ TypeOK
    /\ \A r \in Readers : readers[r].base # 0 =>
          IF readers[r].owns
          THEN readers[r].base = readers[r].buffer /\ readers[r].buffer \in buffers
          ELSE readers[r].base \in maps
    /\ \A m \in maps : Cardinality({r \in Readers : HasBase(r, m)}) = 1
    /\ \A m \in buffers : Cardinality({r \in Readers : readers[r].buffer = m}) = 1
==============================================================================
