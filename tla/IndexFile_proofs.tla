---------------------------- MODULE IndexFile_proofs ----------------------------
(***************************************************************************)
(* Proofs about IndexFile, for any number of readers and builds, and any   *)
(* sizes of the indexes.                                                   *)
(***************************************************************************)
EXTENDS IndexFile, FiniteSetTheorems, TLAPS

----------------------------------------------------------------------------
(* The file.                                                               *)

\* What is in the file is a prefix of one image; a build under way has opened it.
FileInv ==
    /\ \/ builds = 0 /\ file \in {<< >>, Foreign}
       \/ builds > 0 /\ \E n \in 0..Sizes[builds] : file = PrefixOf(Image(builds), n)
    /\ builder \in {"idle", "write", "written", "short"}
    /\ builds \in 0..Len(Sizes)
    /\ result \in {"none", "ok", "failed"}
    /\ builder # "idle" => builds > 0

\* Prefixes of an image, which has nothing but the number of its build.
LEMMA PrefixFacts ==
    ASSUME NEW b \in Builds, NEW n \in 0..Sizes[b]
    PROVE  LET p == PrefixOf(Image(b), n)
           IN  /\ p \in Seq(Nat) /\ Len(p) = n
               /\ n > 0 => p # << >> /\ Head(p) = b
               /\ n < Sizes[b] => Append(p, b) = PrefixOf(Image(b), n + 1)
<1>1. Sizes[b] \in Nat \ {0} /\ b \in Nat
  BY IndexFileAssumption DEF Builds
<1>2. Image(b) \in Seq(Nat) /\ Len(Image(b)) = Sizes[b] /\ \A k \in 1..Sizes[b] : Image(b)[k] = b
  BY <1>1 DEF Image
<1>3. ASSUME NEW k \in 0..Sizes[b]
      PROVE  /\ PrefixOf(Image(b), k) \in Seq(Nat) /\ Len(PrefixOf(Image(b), k)) = k
             /\ \A i \in 1..k : PrefixOf(Image(b), k)[i] = b
  BY <1>1, <1>2 DEF PrefixOf
<1>4. n > 0 => PrefixOf(Image(b), n) # << >> /\ Head(PrefixOf(Image(b), n)) = b
  BY <1>1, <1>3
<1>5. ASSUME n < Sizes[b] PROVE Append(PrefixOf(Image(b), n), b) = PrefixOf(Image(b), n + 1)
  <2> DEFINE p == PrefixOf(Image(b), n)
             q == PrefixOf(Image(b), n + 1)
  <2>1. n + 1 \in 0..Sizes[b] /\ n \in Nat
    BY <1>1, <1>5
  <2>2. p \in Seq(Nat) /\ Len(p) = n /\ \A i \in 1..n : p[i] = b
    BY <1>3
  <2>3. q \in Seq(Nat) /\ Len(q) = n + 1 /\ \A i \in 1..(n + 1) : q[i] = b
    BY <1>3, <2>1
  <2> HIDE DEF p, q
  <2>4. Append(p, b) \in Seq(Nat) /\ Len(Append(p, b)) = n + 1 /\ \A i \in 1..(n + 1) : Append(p, b)[i] = b
    BY <1>1, <2>1, <2>2
  <2> QED
    BY <2>3, <2>4 DEF p, q
<1> QED
  BY <1>3, <1>4, <1>5

LEMMA FileInit == Init => FileInv
<1> SUFFICES ASSUME Init PROVE FileInv
  OBVIOUS
<1>1. Len(Sizes) \in Nat
  BY IndexFileAssumption
<1> QED
  BY <1>1 DEF Init, FileInv

LEMMA FileStep == FileInv /\ [Next]_vars => FileInv'
<1> SUFFICES ASSUME FileInv, [Next]_vars PROVE FileInv'
  OBVIOUS
<1> USE DEF FileInv
<1>0. Len(Sizes) \in Nat /\ \A b \in Builds : Sizes[b] \in Nat \ {0}
  BY IndexFileAssumption DEF Builds
<1>1. CASE UNCHANGED fileVars
  BY <1>1 DEF fileVars
<1>2. CASE BuildFails
  BY <1>2 DEF BuildFails
<1>3. CASE BuildOpen
  <2>1. builds' = builds + 1 /\ builds' \in 1..Len(Sizes) /\ file' = << >> /\ builder' = "write" /\ result' = "none"
    BY <1>0, <1>3 DEF BuildOpen, Truncated
  <2>2. builds' \in Builds /\ 0 \in 0..Sizes[builds']
    BY <1>0, <2>1 DEF Builds
  <2>3. PrefixOf(Image(builds'), 0) = << >>
    BY <2>2, PrefixFacts
  <2> QED
    BY <1>0, <2>1, <2>2, <2>3
<1>4. CASE BuildWrite
  <2>1. Len(file) < Sizes[builds] /\ file' = Append(file, builds) /\ builds > 0 /\ UNCHANGED <<builder, builds, result>>
    BY <1>4 DEF BuildWrite
  <2>2. builds \in Builds
    BY <1>0, <2>1 DEF Builds
  <2>3. PICK n \in 0..Sizes[builds] : file = PrefixOf(Image(builds), n)
    BY <2>1
  <2>4. Len(file) = n
    BY <2>2, <2>3, PrefixFacts
  <2>5. file' = PrefixOf(Image(builds), n + 1) /\ n + 1 \in 0..Sizes[builds]
    BY <1>0, <2>1, <2>2, <2>3, <2>4, PrefixFacts
  <2> QED
    BY <2>1, <2>5
<1>5. CASE FwriteReturns
  BY <1>5 DEF FwriteReturns
<1>6. CASE BuildClose
  <2>1. builds > 0 /\ builder' = "idle" /\ UNCHANGED builds /\ result' \in {"ok", "failed"}
    BY <1>6 DEF BuildClose
  <2>2. builds \in Builds
    BY <1>0, <2>1 DEF Builds
  <2>3. PICK n \in 0..Sizes[builds] : file = PrefixOf(Image(builds), n)
    BY <2>1
  <2>4. Len(file) = n
    BY <2>2, <2>3, PrefixFacts
  <2>5. \E k \in 0..Sizes[builds] : file' = PrefixOf(Image(builds), k)
    <3>1. CASE builder = "written"
      <4>1. PICK k \in n..Sizes[builds] : file' = PrefixOf(Image(builds), k)
        BY <1>6, <2>4, <3>1 DEF BuildClose
      <4>2. k \in 0..Sizes[builds]
        BY <1>0, <2>2
      <4> QED
        BY <4>1, <4>2
    <3>2. CASE builder # "written"
      BY <1>6, <2>3, <3>2 DEF BuildClose
    <3> QED
      BY <3>1, <3>2
  <2> QED
    BY <2>1, <2>5
<1>7. CASE BuildCrash
  BY <1>7 DEF BuildCrash
<1>8. ASSUME NEW r \in Readers, Open(r) \/ Destroy(r) \/ \E other \in Readers : Move(r, other)
      PROVE  UNCHANGED fileVars
  BY <1>8 DEF Open, OpenSize, OpenMap, OpenMapFails, Validate, ReaderKilled, FromBytes, Destroy, Move,
              MoveConstruct, MoveAssign
<1>9. UNCHANGED vars => UNCHANGED fileVars
  BY DEF vars, fileVars
<1> QED
  BY <1>1, <1>2, <1>3, <1>4, <1>5, <1>6, <1>7, <1>8, <1>9 DEF Next, Build

\* The contents of the file are numbers; empty, foreign, or the beginning of what
\* the last build writes.
LEMMA FileShape ==
    ASSUME FileInv
    PROVE  /\ file \in Seq(Nat)
           /\ file = << >> \/ file = Foreign \/ (/\ Head(file) = builds /\ builds \in Builds /\ builds # 0
                                               /\ file # << >> /\ Len(file) <= Sizes[builds])
<1>1. Len(Sizes) \in Nat /\ \A b \in Builds : Sizes[b] \in Nat \ {0}
  BY IndexFileAssumption DEF Builds
<1>2. CASE builds = 0
  <2>1. file \in {<< >>, Foreign}
    BY <1>2 DEF FileInv
  <2>2. << >> \in Seq(Nat) /\ Foreign \in Seq(Nat)
    BY DEF Foreign
  <2> QED
    BY <2>1, <2>2
<1>3. CASE builds > 0
  <2>1. builds \in Builds
    BY <1>1, <1>3 DEF FileInv, Builds
  <2>2. PICK n \in 0..Sizes[builds] : file = PrefixOf(Image(builds), n)
    BY <1>3 DEF FileInv
  <2>3. file \in Seq(Nat) /\ Len(file) = n /\ (n > 0 => file # << >> /\ Head(file) = builds)
    BY <2>1, <2>2, PrefixFacts
  <2> QED
    BY <1>1, <1>3, <2>1, <2>3
<1> QED
  BY <1>1, <1>2, <1>3 DEF FileInv

----------------------------------------------------------------------------
(* The readers and their memory.                                           *)

\* What a reader has, by where its open is: a mapping of M or a buffer of B.
Keeps(x, M, B) ==
    /\ x.owns => x.base = x.buffer /\ x.buffer \in B
    /\ ~x.owns => x.buffer = 0 /\ (x.base # 0 => x.base \in M)
    /\ x.phase \in {"none", "sized"} => x.base = 0 /\ ~x.owns
    /\ x.phase = "mapped" => x.base # 0 /\ ~x.owns
    /\ x.phase \in {"sized", "mapped"} => x.total = Len(x.seen)

\* The inductive form of MemoryOwned: every piece of memory is younger than none
\* that was made, is one reader's, and no two readers have the same.
MemoryInv ==
    /\ readers \in [Readers -> Reader]
    /\ allocated \in Nat
    /\ maps \subseteq 1..allocated /\ buffers \subseteq 1..allocated
    /\ maps \cap buffers = {}
    /\ \A r \in Readers : Keeps(readers[r], maps, buffers)
    /\ \A r, s \in Readers : r # s /\ readers[r].base = readers[s].base => readers[r].base = 0
    /\ \A m \in maps \cup buffers : \E r \in Readers : readers[r].base = m

LEMMA Blanks ==
    /\ NoReader \in Reader /\ Blank \in Reader
    /\ \A M, B : Keeps(NoReader, M, B) /\ Keeps(Blank, M, B)
    /\ NoReader.base = 0 /\ Blank.base = 0
<1>1. /\ NoReader \in Reader /\ NoReader.base = 0 /\ ~NoReader.owns /\ NoReader.buffer = 0
      /\ NoReader.phase = "none"
  BY DEF NoReader, Reader, Phases
<1>2. "made" \in Phases
  BY DEF Phases
<1>3. /\ Blank \in Reader /\ Blank.base = 0 /\ ~Blank.owns /\ Blank.buffer = 0
      /\ Blank.phase = "made"
  BY <1>1, <1>2 DEF Blank, Reader
<1> QED
  BY <1>1, <1>3 DEF Keeps

LEMMA MemoryInit == Init => MemoryInv
<1> SUFFICES ASSUME Init PROVE MemoryInv
  OBVIOUS
<1>1. readers = [r \in Readers |-> NoReader] /\ maps = {} /\ buffers = {} /\ allocated = 0
  BY DEF Init
<1> QED
  BY <1>1, Blanks DEF MemoryInv

\* A reader changes, and has what it had.
LEMMA SameMemory ==
    ASSUME MemoryInv, NEW r \in Readers, NEW x \in Reader,
           readers' = [readers EXCEPT ![r] = x],
           UNCHANGED <<maps, buffers, allocated>>,
           Keeps(x, maps, buffers), x.base = readers[r].base
    PROVE  MemoryInv'
<1>1. /\ readers' \in [Readers -> Reader]
      /\ \A s \in Readers : readers'[s] = IF s = r THEN x ELSE readers[s]
  BY DEF MemoryInv
<1>2. \A s \in Readers : readers'[s].base = readers[s].base
  BY <1>1
<1>3. \A s \in Readers : Keeps(readers'[s], maps', buffers')
  BY <1>1 DEF MemoryInv, Keeps
<1> QED
  BY <1>1, <1>2, <1>3 DEF MemoryInv

\* A reader that had nothing gets memory that is made for it.
LEMMA NewMemory ==
    ASSUME MemoryInv, NEW r \in Readers, NEW x \in Reader,
           readers' = [readers EXCEPT ![r] = x],
           readers[r].base = 0,
           allocated' = Fresh, x.base = Fresh,
           \/ maps' = maps \cup {Fresh} /\ UNCHANGED buffers
           \/ buffers' = buffers \cup {Fresh} /\ UNCHANGED maps,
           Keeps(x, maps', buffers')
    PROVE  MemoryInv'
<1>0. allocated \in Nat /\ allocated' \in Nat /\ Fresh \in Nat /\ Fresh # 0 /\ Fresh = allocated'
  BY DEF MemoryInv, Fresh
<1>1. /\ readers' \in [Readers -> Reader]
      /\ \A s \in Readers : readers'[s] = IF s = r THEN x ELSE readers[s]
  BY DEF MemoryInv
<1>2. Fresh \notin maps /\ Fresh \notin buffers
  BY <1>0 DEF MemoryInv, Fresh
<1>3. 1..allocated \subseteq 1..allocated' /\ Fresh \in 1..allocated'
  BY <1>0 DEF Fresh
<1>4. \A s \in Readers : readers[s].base # Fresh
  BY <1>0, <1>2 DEF MemoryInv, Keeps
<1>5. maps' \subseteq 1..allocated' /\ buffers' \subseteq 1..allocated' /\ maps' \cap buffers' = {}
  BY <1>2, <1>3 DEF MemoryInv
<1>6. \A s \in Readers : Keeps(readers'[s], maps', buffers')
  BY <1>1 DEF MemoryInv, Keeps
<1>7. \A s, t \in Readers : s # t /\ readers'[s].base = readers'[t].base => readers'[s].base = 0
  BY <1>1, <1>4 DEF MemoryInv
<1>8. \A m \in maps' \cup buffers' : \E s \in Readers : readers'[s].base = m
  <2>1. ASSUME NEW m \in maps \cup buffers PROVE \E s \in Readers : readers'[s].base = m
    <3>1. PICK s \in Readers : readers[s].base = m
      BY DEF MemoryInv
    <3>2. m # 0
      BY <1>0 DEF MemoryInv
    <3> QED
      BY <1>1, <3>1, <3>2
  <2> QED
    BY <1>1, <2>1
<1> QED
  BY <1>0, <1>1, <1>5, <1>6, <1>7, <1>8 DEF MemoryInv

\* What cleanup and the destructor of the vector take back is what the reader has.
LEMMA Released ==
    ASSUME MemoryInv, NEW r \in Readers
    PROVE  /\ MapsWithout(readers[r]) = maps \ {readers[r].base}
           /\ buffers \ {readers[r].buffer} = buffers \ {readers[r].base}
<1>1. Keeps(readers[r], maps, buffers) /\ 0 \notin maps /\ 0 \notin buffers /\ maps \cap buffers = {}
  BY DEF MemoryInv
<1>2. CASE readers[r].owns
  BY <1>1, <1>2 DEF Keeps, MapsWithout
<1>3. CASE ~readers[r].owns
  BY <1>1, <1>3 DEF Keeps, MapsWithout
<1> QED
  BY <1>2, <1>3

\* A reader that is given up does not share what it had, so the others keep theirs.
LEMMA OthersKeep ==
    ASSUME MemoryInv, NEW r \in Readers,
           maps' = maps \ {readers[r].base}, buffers' = buffers \ {readers[r].base}
    PROVE  /\ \A s \in Readers : s # r => Keeps(readers[s], maps', buffers')
           /\ \A m \in maps' \cup buffers' : \E s \in Readers : s # r /\ readers[s].base = m
<1>1. ASSUME NEW s \in Readers, s # r PROVE Keeps(readers[s], maps', buffers')
  <2>1. Keeps(readers[s], maps, buffers) /\ (readers[s].base = readers[r].base => readers[s].base = 0)
    BY <1>1 DEF MemoryInv
  <2>2. 0 \notin buffers
    BY DEF MemoryInv
  <2> QED
    BY <2>1, <2>2 DEF Keeps
<1>2. ASSUME NEW m \in maps' \cup buffers' PROVE \E s \in Readers : s # r /\ readers[s].base = m
  BY <1>2 DEF MemoryInv
<1> QED
  BY <1>1, <1>2

\* A reader gives up what it has.
LEMMA LostMemory ==
    ASSUME MemoryInv, NEW r \in Readers, NEW x \in {NoReader, Blank},
           readers' = [readers EXCEPT ![r] = x],
           maps' = maps \ {readers[r].base}, buffers' = buffers \ {readers[r].base},
           UNCHANGED allocated
    PROVE  MemoryInv'
<1>1. x \in Reader /\ x.base = 0 /\ Keeps(x, maps', buffers')
  BY Blanks
<1>2. /\ readers' \in [Readers -> Reader]
      /\ \A s \in Readers : readers'[s] = IF s = r THEN x ELSE readers[s]
  BY <1>1 DEF MemoryInv
<1>3. \A s \in Readers : Keeps(readers'[s], maps', buffers')
  BY <1>1, <1>2, OthersKeep
<1>4. \A m \in maps' \cup buffers' : \E s \in Readers : readers'[s].base = m
  BY <1>2, OthersKeep
<1>5. \A s, t \in Readers : s # t /\ readers'[s].base = readers'[t].base => readers'[s].base = 0
  BY <1>1, <1>2 DEF MemoryInv
<1>6. allocated' \in Nat /\ maps' \subseteq 1..allocated' /\ buffers' \subseteq 1..allocated' /\ maps' \cap buffers' = {}
  BY DEF MemoryInv
<1> QED
  BY <1>2, <1>3, <1>4, <1>5, <1>6 DEF MemoryInv

\* A reader gives up what it has for what another one has.
LEMMA MovedMemory ==
    ASSUME MemoryInv, NEW r \in Readers, NEW other \in Readers, r # other,
           readers' = [readers EXCEPT ![r] = TakenFrom(readers[other]), ![other] = Blank],
           maps' = maps \ {readers[r].base}, buffers' = buffers \ {readers[r].base},
           UNCHANGED allocated
    PROVE  MemoryInv'
<1>1. TakenFrom(readers[other]) = readers[other]
  <2>1. readers[other] \in Reader /\ Keeps(readers[other], maps, buffers)
    BY DEF MemoryInv
  <2> QED
    BY <2>1 DEF TakenFrom, Keeps, Reader
<1>2. Blank \in Reader /\ Blank.base = 0 /\ Keeps(Blank, maps', buffers')
  BY Blanks
<1>3. /\ readers' \in [Readers -> Reader]
      /\ \A s \in Readers : readers'[s] = IF s = other THEN Blank ELSE IF s = r THEN readers[other] ELSE readers[s]
  BY <1>1, <1>2 DEF MemoryInv
<1>4. ASSUME NEW s \in Readers PROVE Keeps(readers'[s], maps', buffers')
  <2>1. CASE s = other
    <3>1. readers'[s] = Blank
      BY <1>3, <2>1
    <3> QED
      BY <1>2, <3>1
  <2>2. CASE s # other /\ s = r
    <3>1. readers'[s] = readers[other]
      BY <1>3, <2>2
    <3>2. Keeps(readers[other], maps', buffers')
      BY OthersKeep
    <3> QED
      BY <3>1, <3>2
  <2>3. CASE s # other /\ s # r
    BY <1>3, <2>3, OthersKeep
  <2> QED
    BY <2>1, <2>2, <2>3
<1>5. ASSUME NEW m \in maps' \cup buffers' PROVE \E s \in Readers : readers'[s].base = m
  <2>1. PICK s \in Readers : s # r /\ readers[s].base = m
    BY OthersKeep
  <2>2. CASE s = other
    BY <1>3, <2>1, <2>2
  <2>3. CASE s # other
    BY <1>3, <2>1, <2>3
  <2> QED
    BY <2>2, <2>3
<1>6. \A s, t \in Readers : s # t /\ readers'[s].base = readers'[t].base => readers'[s].base = 0
  BY <1>2, <1>3 DEF MemoryInv
<1>7. allocated' \in Nat /\ maps' \subseteq 1..allocated' /\ buffers' \subseteq 1..allocated' /\ maps' \cap buffers' = {}
  BY DEF MemoryInv
<1> QED
  BY <1>3, <1>4, <1>5, <1>6, <1>7 DEF MemoryInv

LEMMA MemoryStep == FileInv /\ MemoryInv /\ [Next]_vars => MemoryInv'
<1> SUFFICES ASSUME FileInv, MemoryInv, [Next]_vars PROVE MemoryInv'
  OBVIOUS
<1>1. ASSUME UNCHANGED readerVars PROVE MemoryInv'
  BY <1>1 DEF readerVars, MemoryInv
<1>2. CASE UNCHANGED vars
  BY <1>1, <1>2 DEF vars, readerVars
<1>3. CASE Build
  BY <1>1, <1>3 DEF Build, BuildFails, BuildOpen, BuildWrite, FwriteReturns, BuildClose, BuildCrash
<1>4. ASSUME NEW r \in Readers PROVE readers[r] \in Reader /\ Keeps(readers[r], maps, buffers)
  BY DEF MemoryInv
<1>5. ASSUME NEW r \in Readers, OpenSize(r) PROVE MemoryInv'
  <2> DEFINE x == [NoReader EXCEPT !.phase = "sized", !.total = Len(file), !.seen = file, !.since = builds]
  <2>1. file \in Seq(Nat)
    BY FileShape
  <2>2. x \in Reader /\ x.base = 0 /\ Keeps(x, maps, buffers)
    <3>0. builds \in Nat
      BY IndexFileAssumption DEF FileInv
    <3>1. NoReader \in Reader /\ NoReader.base = 0 /\ ~NoReader.owns /\ NoReader.buffer = 0
      BY Blanks DEF NoReader
    <3>2. "sized" \in Phases /\ Len(file) \in Nat
      BY <2>1 DEF Phases
    <3>3. /\ x \in Reader /\ x.base = 0 /\ ~x.owns /\ x.buffer = 0
          /\ x.phase = "sized" /\ x.total = Len(file) /\ x.seen = file
      BY <2>1, <3>0, <3>1, <3>2 DEF Reader
    <3> HIDE DEF x
    <3> QED
      BY <3>3 DEF Keeps
  <2>3. readers[r].base = 0
    BY <1>4, <1>5 DEF OpenSize, Keeps
  <2>4. readers' = [readers EXCEPT ![r] = x] /\ UNCHANGED <<maps, buffers, allocated>>
    BY <1>5 DEF OpenSize, Set
  <2> HIDE DEF x
  <2> QED
    BY <2>2, <2>3, <2>4, SameMemory
<1>6. ASSUME NEW r \in Readers, OpenMap(r) PROVE MemoryInv'
  <2> DEFINE x == [readers[r] EXCEPT !.phase = "mapped", !.base = Fresh]
  <2>1. /\ readers[r].phase = "sized" /\ readers' = [readers EXCEPT ![r] = x]
        /\ maps' = maps \cup {Fresh} /\ allocated' = Fresh /\ UNCHANGED buffers
    BY <1>6 DEF OpenMap, Set
  <2>2. readers[r].base = 0 /\ Fresh \in Nat /\ Fresh # 0
    BY <1>4, <2>1 DEF Keeps, MemoryInv, Fresh
  <2>3. x \in Reader /\ x.base = Fresh /\ Keeps(x, maps', buffers')
    BY <1>4, <2>1, <2>2 DEF Reader, Phases, Keeps
  <2> HIDE DEF x
  <2> QED
    BY <2>1, <2>2, <2>3, NewMemory
<1>7. ASSUME NEW r \in Readers, OpenMapFails(r) PROVE MemoryInv'
  <2>1. readers' = [readers EXCEPT ![r] = NoReader] /\ readers[r].base = 0 /\ UNCHANGED <<maps, buffers, allocated>>
    BY <1>4, <1>7 DEF OpenMapFails, Set, Keeps
  <2> QED
    BY <2>1, Blanks, SameMemory
<1>8. ASSUME NEW r \in Readers, Validate(r) PROVE MemoryInv'
  <2>1. readers[r].phase = "mapped" /\ UNCHANGED <<buffers, allocated>>
    BY <1>8 DEF Validate
  <2>2. CASE HasHeader(file, readers[r].total)
    <3> DEFINE x == [readers[r] EXCEPT !.phase = "made", !.seen = << >>]
    <3>1. readers' = [readers EXCEPT ![r] = x] /\ UNCHANGED <<maps, buffers, allocated>>
      BY <1>8, <2>1, <2>2 DEF Validate, Set
    <3>2. "made" \in Phases /\ << >> \in Seq(Nat) /\ readers[r] \in Reader
      BY <1>4 DEF Phases
    <3>3. x \in Reader /\ x.base = readers[r].base /\ x.owns = readers[r].owns
          /\ x.buffer = readers[r].buffer /\ x.phase = "made"
      BY <3>2 DEF Reader
    <3>4. Keeps(x, maps, buffers)
      BY <1>4, <2>1, <3>3 DEF Keeps
    <3> HIDE DEF x
    <3> QED
      BY <3>1, <3>3, <3>4, SameMemory
  <2>3. CASE ~HasHeader(file, readers[r].total)
    <3>1. readers' = [readers EXCEPT ![r] = NoReader] /\ maps' = maps \ {readers[r].base}
      BY <1>8, <2>3 DEF Validate, Set
    <3>2. ~readers[r].owns /\ readers[r].base \in maps
      BY <1>4, <2>1 DEF Keeps
    <3>3. buffers' = buffers \ {readers[r].base}
      BY <2>1, <3>2 DEF MemoryInv
    <3> QED
      BY <2>1, <3>1, <3>3, LostMemory
  <2> QED
    BY <2>2, <2>3
<1>9. ASSUME NEW r \in Readers, ReaderKilled(r) PROVE MemoryInv'
  <2>1. /\ readers' = [s \in Readers |-> NoReader] /\ maps' = {} /\ buffers' = {} /\ UNCHANGED allocated
    BY <1>9 DEF ReaderKilled
  <2> QED
    BY <2>1, Blanks DEF MemoryInv
<1>10. ASSUME NEW r \in Readers, FromBytes(r) PROVE MemoryInv'
  <2>1. readers[r].phase = "none" /\ allocated' = Fresh /\ UNCHANGED maps
    BY <1>10 DEF FromBytes
  <2>2. readers[r].base = 0 /\ Fresh \in Nat /\ Fresh # 0 /\ Fresh = allocated + 1 /\ allocated \in Nat
    BY <1>4, <2>1 DEF Keeps, MemoryInv, Fresh
  <2>3. PICK b \in Builds : \E n \in 1..Sizes[b] :
            IF HasHeader(PrefixOf(Image(b), n), n)
            THEN /\ Set(r, [Blank EXCEPT !.base = Fresh, !.total = n, !.owns = TRUE, !.buffer = Fresh])
                 /\ buffers' = buffers \cup {Fresh}
            ELSE UNCHANGED <<readers, buffers>>
    BY <1>10 DEF FromBytes
  <2>4. PICK n \in 1..Sizes[b] :
            IF HasHeader(PrefixOf(Image(b), n), n)
            THEN /\ Set(r, [Blank EXCEPT !.base = Fresh, !.total = n, !.owns = TRUE, !.buffer = Fresh])
                 /\ buffers' = buffers \cup {Fresh}
            ELSE UNCHANGED <<readers, buffers>>
    BY <2>3
  <2>5. CASE UNCHANGED <<readers, buffers>>
    <3>1. 1..allocated \subseteq 1..allocated' /\ allocated' \in Nat
      BY <2>1, <2>2
    <3> QED
      BY <2>1, <2>5, <3>1 DEF MemoryInv
  <2>6. CASE Set(r, [Blank EXCEPT !.base = Fresh, !.total = n, !.owns = TRUE, !.buffer = Fresh])
             /\ buffers' = buffers \cup {Fresh}
    <3> DEFINE x == [Blank EXCEPT !.base = Fresh, !.total = n, !.owns = TRUE, !.buffer = Fresh]
    <3>1. n \in Nat
      BY IndexFileAssumption DEF Builds
    <3>2. Blank \in Reader /\ Blank.phase = "made"
      BY Blanks DEF Blank, NoReader
    <3>3. x \in Reader /\ x.base = Fresh /\ x.owns /\ x.buffer = Fresh /\ x.phase = "made"
      BY <2>2, <3>1, <3>2 DEF Reader
    <3>4. readers' = [readers EXCEPT ![r] = x]
      BY <2>6 DEF Set
    <3> HIDE DEF x
    <3>5. Keeps(x, maps', buffers')
      BY <2>6, <3>3 DEF Keeps
    <3> QED
      BY <2>1, <2>2, <2>6, <3>3, <3>4, <3>5, NewMemory
  <2> QED
    BY <2>4, <2>5, <2>6
<1>11. ASSUME NEW r \in Readers, Destroy(r) PROVE MemoryInv'
  <2>1. /\ readers' = [readers EXCEPT ![r] = NoReader]
        /\ maps' = MapsWithout(readers[r]) /\ buffers' = buffers \ {readers[r].buffer} /\ UNCHANGED allocated
    BY <1>11 DEF Destroy, Set
  <2> QED
    BY <2>1, Released, LostMemory
<1>12. ASSUME NEW r \in Readers, NEW other \in Readers, MoveConstruct(r, other) PROVE MemoryInv'
  <2>1. /\ readers[r].phase = "none" /\ readers[other].phase = "made"
        /\ readers' = [readers EXCEPT ![r] = TakenFrom(readers[other]), ![other] = Blank]
        /\ UNCHANGED <<maps, buffers, allocated>>
    BY <1>12 DEF MoveConstruct, Left
  <2>2. readers[r].base = 0
    BY <1>4, <2>1 DEF Keeps
  <2>3. maps' = maps \ {readers[r].base} /\ buffers' = buffers \ {readers[r].base}
    BY <2>1, <2>2 DEF MemoryInv
  <2> QED
    BY <2>1, <2>3, MovedMemory
<1>13. ASSUME NEW r \in Readers, NEW other \in Readers, MoveAssign(r, other) PROVE MemoryInv'
  <2>1. /\ r # other
        /\ readers' = [readers EXCEPT ![r] = TakenFrom(readers[other]), ![other] = Blank]
        /\ maps' = MapsWithout(readers[r]) /\ buffers' = buffers \ {readers[r].buffer} /\ UNCHANGED allocated
    BY <1>13 DEF MoveAssign, Left
  <2> QED
    BY <2>1, Released, MovedMemory
<1> QED
  BY <1>2, <1>3, <1>5, <1>6, <1>7, <1>8, <1>9, <1>10, <1>11, <1>12, <1>13 DEF Next, Open, Move

----------------------------------------------------------------------------
(* What a reader maps, as long as no build opens the file again.           *)

\* As long as no build opens the file, it only grows, and is whole for good.
LEMMA FileGrows ==
    ASSUME FileInv, FileInv', [Next]_vars
    PROVE  \/ builds' = builds + 1 /\ UNCHANGED readers
           \/ /\ builds' = builds /\ Len(file) \in Nat /\ Len(file') \in Nat /\ Len(file) <= Len(file')
              /\ file # << >> /\ IsWhole(file) => file' # << >> /\ IsWhole(file')
<1>0. Len(Sizes) \in Nat /\ \A b \in Builds : Sizes[b] \in Nat \ {0}
  BY IndexFileAssumption DEF Builds
<1>1. file \in Seq(Nat)
  BY FileShape
<1>2. CASE UNCHANGED <<file, builds>>
  BY <1>1, <1>2 DEF IsWhole
<1>3. CASE BuildOpen
  BY <1>3 DEF BuildOpen, readerVars
<1>4. CASE builds > 0 /\ UNCHANGED builds /\ Len(file) <= Len(file')
  <2>1. builds \in Builds /\ builds # 0 /\ Sizes[builds] \in Nat \ {0}
    BY <1>0, <1>4 DEF FileInv, Builds
  <2>2. PICK n \in 0..Sizes[builds] : file = PrefixOf(Image(builds), n)
    BY <1>4 DEF FileInv
  <2>3. PICK k \in 0..Sizes[builds] : file' = PrefixOf(Image(builds), k)
    BY <1>4 DEF FileInv
  <2>4. Len(file) = n /\ (n > 0 => file # << >> /\ Head(file) = builds)
    BY <2>1, <2>2, PrefixFacts
  <2>5. Len(file') = k /\ (k > 0 => file' # << >> /\ Head(file') = builds)
    BY <2>1, <2>3, PrefixFacts
  <2>6. ASSUME file # << >>, IsWhole(file) PROVE file' # << >> /\ IsWhole(file')
    <3>1. n > 0
      BY <1>1, <2>4, <2>6
    <3>2. n = Sizes[builds]
      BY <2>4, <2>6, <3>1 DEF IsWhole
    <3>3. k = Sizes[builds] /\ k > 0
      BY <1>4, <2>1, <2>4, <2>5, <3>2
    <3>4. Head(Foreign) = 0
      BY DEF Foreign
    <3> QED
      BY <2>1, <2>5, <3>3, <3>4 DEF IsWhole
  <2> QED
    BY <1>4, <2>1, <2>4, <2>5, <2>6
<1>5. CASE BuildWrite
  <2>1. builds > 0 /\ UNCHANGED builds /\ file' = Append(file, builds)
    BY <1>5 DEF BuildWrite, FileInv
  <2>2. Len(file) <= Len(file')
    BY <1>1, <2>1
  <2> QED
    BY <1>4, <2>1, <2>2
<1>6. CASE BuildClose
  <2>1. builds > 0 /\ UNCHANGED builds
    BY <1>6 DEF BuildClose, FileInv
  <2>2. CASE builder = "written"
    <3>1. PICK k \in Len(file)..Sizes[builds] : file' = PrefixOf(Image(builds), k)
      BY <1>6, <2>2 DEF BuildClose
    <3>2. builds \in Builds /\ k \in 0..Sizes[builds] /\ Len(file) <= k
      BY <1>0, <1>1, <2>1, <3>1 DEF FileInv, Builds
    <3>3. Len(file') = k
      BY <3>1, <3>2, PrefixFacts
    <3> QED
      BY <1>4, <2>1, <3>2, <3>3
  <2>3. CASE builder # "written"
    BY <1>2, <1>6, <2>1, <2>3 DEF BuildClose
  <2> QED
    BY <2>2, <2>3
<1>7. ASSUME NEW r \in Readers, Open(r) \/ Destroy(r) \/ \E other \in Readers : Move(r, other)
      PROVE  UNCHANGED <<file, builds>>
  BY <1>7 DEF Open, OpenSize, OpenMap, OpenMapFails, Validate, ReaderKilled, FromBytes, Destroy, Move,
              MoveConstruct, MoveAssign, fileVars
<1>8. BuildFails \/ FwriteReturns \/ BuildCrash \/ UNCHANGED vars => UNCHANGED <<file, builds>>
  BY DEF BuildFails, FwriteReturns, BuildCrash, vars
<1> QED
  BY <1>2, <1>3, <1>5, <1>6, <1>7, <1>8 DEF Next, Build

\* A reader of the file, from its length on: as long as the file is the one it
\* took the length of, this is within the file, and an open reader's is whole.
OfFile(x) == x.phase \in {"sized", "mapped"} \/ (x.base # 0 /\ ~x.owns)
Fits(x, number, contents) ==
    /\ x.since <= number
    /\ OfFile(x) =>
          /\ 0 < x.total
          /\ x.since = number =>
                /\ x.total <= Len(contents)
                /\ x.phase = "made" => contents # << >> /\ IsWhole(contents)
SinceInv == \A r \in Readers : Fits(readers[r], builds, file)

LEMMA BlanksFit == ASSUME FileInv PROVE Fits(NoReader, builds, file) /\ Fits(Blank, builds, file)
<1>1. builds \in Nat
  BY IndexFileAssumption DEF FileInv
<1>2. NoReader.since = 0 /\ NoReader.phase = "none" /\ NoReader.base = 0
  BY DEF NoReader
<1>3. Blank.since = 0 /\ Blank.phase = "made" /\ Blank.base = 0
  BY DEF Blank, NoReader
<1> QED
  BY <1>1, <1>2, <1>3 DEF Fits, OfFile

LEMMA SinceStep == FileInv /\ FileInv' /\ MemoryInv /\ SinceInv /\ [Next]_vars => SinceInv'
<1> SUFFICES ASSUME FileInv, FileInv', MemoryInv, SinceInv, [Next]_vars, NEW t \in Readers
             PROVE  Fits(readers'[t], builds', file')
  BY DEF SinceInv
<1>0. builds \in Nat /\ builds' \in Nat
  BY IndexFileAssumption DEF FileInv
<1>1. /\ Fits(NoReader, builds, file) /\ Fits(Blank, builds, file)
      /\ \A r \in Readers : Fits(readers[r], builds, file) /\ readers[r] \in Reader /\ Keeps(readers[r], maps, buffers)
  BY BlanksFit DEF SinceInv, MemoryInv
<1>2. ASSUME UNCHANGED readers PROVE Fits(readers'[t], builds', file')
  <2>1. readers[t].since \in Nat /\ readers[t].total \in Nat
    BY <1>1 DEF Reader
  <2>2. CASE builds' = builds + 1
    BY <1>0, <1>1, <1>2, <2>1, <2>2 DEF Fits
  <2>3. CASE /\ builds' = builds /\ Len(file) \in Nat /\ Len(file') \in Nat /\ Len(file) <= Len(file')
             /\ file # << >> /\ IsWhole(file) => file' # << >> /\ IsWhole(file')
    BY <1>0, <1>1, <1>2, <2>1, <2>3 DEF Fits
  <2> QED
    BY <2>2, <2>3, FileGrows
<1>3. ASSUME UNCHANGED fileVars, Fits(readers'[t], builds, file) PROVE Fits(readers'[t], builds', file')
  BY <1>3 DEF fileVars, Fits, IsWhole
<1>4. ASSUME NEW r \in Readers, NEW x \in Reader, Fits(x, builds, file), readers' = [readers EXCEPT ![r] = x]
      PROVE  Fits(readers'[t], builds, file)
  BY <1>1, <1>4 DEF MemoryInv
<1>5. ASSUME NEW r \in Readers, OpenSize(r) PROVE Fits(readers'[t], builds', file')
  <2> DEFINE x == [NoReader EXCEPT !.phase = "sized", !.total = Len(file), !.seen = file, !.since = builds]
  <2>1. file \in Seq(Nat) /\ file # << >>
    BY <1>5, FileShape DEF OpenSize
  <2>2. Len(file) \in Nat /\ 0 < Len(file)
    BY <2>1
  <2>3. x.phase = "sized" /\ x.total = Len(file) /\ x.since = builds
    BY DEF NoReader
  <2>4. x \in Reader
    BY <1>0, <2>1, <2>2 DEF NoReader, Reader, Phases
  <2>5. readers' = [readers EXCEPT ![r] = x] /\ UNCHANGED fileVars
    BY <1>5 DEF OpenSize, Set
  <2> HIDE DEF x
  <2>6. Fits(x, builds, file)
    BY <1>0, <2>2, <2>3 DEF Fits
  <2> QED
    BY <1>3, <1>4, <2>4, <2>5, <2>6
<1>6. ASSUME NEW r \in Readers, OpenMap(r) PROVE Fits(readers'[t], builds', file')
  <2> DEFINE x == [readers[r] EXCEPT !.phase = "mapped", !.base = Fresh]
  <2>1. readers[r].phase = "sized" /\ readers' = [readers EXCEPT ![r] = x] /\ UNCHANGED fileVars
    BY <1>6 DEF OpenMap, Set
  <2>2. x \in Reader
    <3>1. readers[r] \in Reader /\ "mapped" \in Phases /\ Fresh \in Nat
      BY <1>1 DEF Phases, Fresh, MemoryInv
    <3> QED
      BY <3>1 DEF Reader
  <2>3. x.phase = "mapped" /\ x.total = readers[r].total /\ x.since = readers[r].since
    BY <1>1 DEF Reader
  <2> HIDE DEF x
  <2>4. Fits(x, builds, file)
    BY <1>1, <2>1, <2>3 DEF Fits, OfFile
  <2> QED
    BY <1>3, <1>4, <2>1, <2>2, <2>4
<1>7. ASSUME NEW r \in Readers, readers' = [readers EXCEPT ![r] = NoReader], UNCHANGED fileVars
      PROVE  Fits(readers'[t], builds', file')
  BY <1>1, <1>3, <1>4, <1>7, Blanks
<1>8. ASSUME NEW r \in Readers, Validate(r) PROVE Fits(readers'[t], builds', file')
  <2>1. readers[r].phase = "mapped" /\ file # << >> /\ UNCHANGED fileVars
    BY <1>8 DEF Validate
  <2>2. CASE HasHeader(file, readers[r].total)
    <3> DEFINE x == [readers[r] EXCEPT !.phase = "made", !.seen = << >>]
    <3>1. readers' = [readers EXCEPT ![r] = x]
      BY <1>8, <2>2 DEF Validate, Set
    <3>2. "made" \in Phases /\ << >> \in Seq(Nat) /\ readers[r] \in Reader
      BY <1>1 DEF Phases
    <3>3. x \in Reader /\ x.phase = "made" /\ x.total = readers[r].total /\ x.since = readers[r].since
      BY <3>2 DEF Reader
    <3> HIDE DEF x
    <3>4. file # Foreign
      BY <2>2 DEF HasHeader, Foreign
    <3>5. /\ Head(file) = builds /\ builds \in Builds /\ Len(file) <= Sizes[builds] /\ file \in Seq(Nat)
          /\ Sizes[builds] \in Nat /\ Len(file) \in Nat
      BY <2>1, <3>4, FileShape, IndexFileAssumption DEF Builds
    <3>6. 0 < readers[r].total /\ (readers[r].since = builds => readers[r].total <= Len(file))
      BY <1>1, <2>1 DEF Fits, OfFile
    <3>7. Sizes[builds] <= readers[r].total /\ readers[r].total \in Nat
      BY <2>2, <3>2, <3>5 DEF HasHeader, Reader
    <3>8. readers[r].since = builds => IsWhole(file)
      BY <3>4, <3>5, <3>6, <3>7 DEF IsWhole
    <3>9. Fits(x, builds, file)
      BY <1>1, <2>1, <3>3, <3>6, <3>8 DEF Fits
    <3> QED
      BY <1>3, <1>4, <2>1, <3>1, <3>3, <3>9
  <2>3. CASE ~HasHeader(file, readers[r].total)
    BY <1>7, <1>8, <2>1, <2>3 DEF Validate, Set
  <2> QED
    BY <2>2, <2>3
<1>9. ASSUME NEW r \in Readers, ReaderKilled(r) PROVE Fits(readers'[t], builds', file')
  BY <1>1, <1>3, <1>9 DEF ReaderKilled
<1>10. ASSUME NEW r \in Readers, FromBytes(r) PROVE Fits(readers'[t], builds', file')
  <2>1. UNCHANGED fileVars
    BY <1>10 DEF FromBytes
  <2>2. PICK n \in Nat : \/ UNCHANGED readers
                        \/ readers' = [readers EXCEPT ![r] =
                              [Blank EXCEPT !.base = Fresh, !.total = n, !.owns = TRUE, !.buffer = Fresh]]
    <3>1. PICK b \in Builds : \E n \in 1..Sizes[b] :
              \/ UNCHANGED readers
              \/ readers' = [readers EXCEPT ![r] =
                    [Blank EXCEPT !.base = Fresh, !.total = n, !.owns = TRUE, !.buffer = Fresh]]
      BY <1>10 DEF FromBytes, Set
    <3>2. 1..Sizes[b] \subseteq Nat
      BY IndexFileAssumption DEF Builds
    <3> QED
      BY <3>1, <3>2
  <2> DEFINE x == [Blank EXCEPT !.base = Fresh, !.total = n, !.owns = TRUE, !.buffer = Fresh]
  <2>3. CASE UNCHANGED readers
    BY <1>1, <1>3, <2>1, <2>3
  <2>4. CASE readers' = [readers EXCEPT ![r] = x]
    <3>1. Blank \in Reader /\ Blank.phase = "made" /\ Blank.since = 0
      BY Blanks DEF Blank, NoReader
    <3>2. Fresh \in Nat
      BY DEF Fresh, MemoryInv
    <3>3. x \in Reader /\ x.phase = "made" /\ x.owns /\ x.since = 0
      BY <3>1, <3>2 DEF Reader
    <3> HIDE DEF x
    <3>4. Fits(x, builds, file)
      BY <1>0, <3>3 DEF Fits, OfFile
    <3> QED
      BY <1>3, <1>4, <2>1, <2>4, <3>3, <3>4
  <2> QED
    BY <2>2, <2>3, <2>4
<1>11. ASSUME NEW r \in Readers, Destroy(r) PROVE Fits(readers'[t], builds', file')
  BY <1>7, <1>11 DEF Destroy, Set
<1>12. ASSUME NEW r \in Readers, NEW other \in Readers, Move(r, other) PROVE Fits(readers'[t], builds', file')
  <2>1. /\ readers' = [readers EXCEPT ![r] = TakenFrom(readers[other]), ![other] = Blank]
        /\ UNCHANGED fileVars
    BY <1>12 DEF Move, MoveConstruct, MoveAssign, Left
  <2>2. TakenFrom(readers[other]) = readers[other]
    BY <1>1 DEF TakenFrom, Keeps, Reader
  <2>3. readers'[t] \in {readers[other], Blank, readers[t]}
    BY <2>1, <2>2 DEF MemoryInv
  <2> QED
    BY <1>1, <1>3, <2>1, <2>3
<1>13. CASE Build
  BY <1>2, <1>13 DEF Build, BuildFails, BuildOpen, BuildWrite, FwriteReturns, BuildClose, BuildCrash, readerVars
<1>14. CASE UNCHANGED vars
  BY <1>2, <1>14 DEF vars
<1>15. ASSUME NEW r \in Readers, OpenMapFails(r) PROVE Fits(readers'[t], builds', file')
  BY <1>7, <1>15 DEF OpenMapFails, Set
<1> QED
  BY <1>5, <1>6, <1>8, <1>9, <1>10, <1>11, <1>12, <1>13, <1>14, <1>15 DEF Next, Open

----------------------------------------------------------------------------
(* The theorems.                                                           *)

LEMMA BoundStep == allocated \in 0..MaxMemory /\ [Next]_vars => (allocated \in 0..MaxMemory)'
<1> SUFFICES ASSUME allocated \in 0..MaxMemory, [Next]_vars PROVE (allocated \in 0..MaxMemory)'
  OBVIOUS
<1>1. UNCHANGED allocated \/ (allocated < MaxMemory /\ allocated' = allocated + 1)
  BY DEF Next, Build, BuildFails, BuildOpen, BuildWrite, FwriteReturns, BuildClose, BuildCrash, readerVars,
         Open, OpenSize, OpenMap, OpenMapFails, Validate, ReaderKilled, FromBytes, Destroy, Move, MoveConstruct,
         MoveAssign, Fresh, vars
<1>2. MaxMemory \in Nat
  BY IndexFileAssumption
<1> QED
  BY <1>1, <1>2

Inv == FileInv /\ MemoryInv /\ SinceInv /\ allocated \in 0..MaxMemory

LEMMA InvHolds == Spec => []Inv
<1>1. Init => Inv
  <2>1. Init => allocated \in 0..MaxMemory
    BY IndexFileAssumption DEF Init
  <2>2. Init => SinceInv
    BY FileInit, BlanksFit DEF Init, SinceInv
  <2> QED
    BY <2>1, <2>2, FileInit, MemoryInit DEF Inv
<1>2. Inv /\ [Next]_vars => Inv'
  BY FileStep, MemoryStep, SinceStep, BoundStep DEF Inv
<1> QED
  BY <1>1, <1>2, PTL DEF Spec

\* Through builds, crashes, opens that fail at any step and moves between any
\* number of readers, every mapping and every buffer is one reader's, and every
\* reader's bytes are there.
THEOREM MemoryCorrect == Spec => []MemoryOwned
<1>1. Inv => MemoryOwned
  <2> SUFFICES ASSUME Inv PROVE MemoryOwned
    OBVIOUS
  <2>1. TypeOK
    BY DEF Inv, FileInv, MemoryInv, TypeOK
  <2>2. \A r \in Readers : readers[r] \in Reader /\ Keeps(readers[r], maps, buffers)
    BY DEF Inv, MemoryInv
  <2>3. 0 \notin maps /\ 0 \notin buffers /\ maps \cap buffers = {}
    BY DEF Inv, MemoryInv
  <2>4. \A r \in Readers : readers[r].base # 0 =>
           IF readers[r].owns THEN readers[r].base = readers[r].buffer /\ readers[r].buffer \in buffers
           ELSE readers[r].base \in maps
    BY <2>2 DEF Keeps
  <2>5. ASSUME NEW m \in maps \cup buffers
        PROVE  \E r \in Readers : \A s \in Readers : readers[s].base = m <=> s = r
    BY <2>3 DEF Inv, MemoryInv
  <2>6. ASSUME NEW m \in maps PROVE Cardinality({r \in Readers : HasBase(r, m)}) = 1
    <3>1. PICK r \in Readers : \A s \in Readers : readers[s].base = m <=> s = r
      BY <2>5
    <3>2. {s \in Readers : HasBase(s, m)} = {r}
      BY <3>1 DEF HasBase
    <3> QED
      BY <3>2, FS_Singleton
  <2>7. ASSUME NEW m \in buffers PROVE Cardinality({r \in Readers : readers[r].buffer = m}) = 1
    <3>1. PICK r \in Readers : \A s \in Readers : readers[s].base = m <=> s = r
      BY <2>5
    <3>2. \A s \in Readers : readers[s].buffer = m <=> readers[s].base = m
      BY <2>2, <2>3 DEF Keeps
    <3>3. {s \in Readers : readers[s].buffer = m} = {r}
      BY <3>1, <3>2
    <3> QED
      BY <3>3, FS_Singleton
  <2> QED
    BY <2>1, <2>4, <2>6, <2>7 DEF MemoryOwned
<1> QED
  BY <1>1, InvHolds, PTL

\* However the steps of build and of the readers follow each other: until another
\* build opens the file, no reader reads a byte that is not there, and one that is
\* open has a whole index, though the file may have grown since its length was
\* taken.
THEOREM UndisturbedCorrect == Spec => []UndisturbedWhole
<1>1. Inv => UndisturbedWhole
  <2> SUFFICES ASSUME Inv, NEW r \in Readers, readers[r].base \in maps, readers[r].since = builds
               PROVE  /\ Reads(r) <= Len(file)
                      /\ readers[r].phase = "made" => IsWhole(file)
    BY DEF UndisturbedWhole
  <2>1. readers[r] \in Reader /\ Keeps(readers[r], maps, buffers) /\ Fits(readers[r], builds, file)
    BY DEF Inv, MemoryInv, SinceInv
  <2>2. 0 \notin maps /\ maps \cap buffers = {}
    BY DEF Inv, MemoryInv
  <2>3. OfFile(readers[r])
    BY <2>1, <2>2 DEF Keeps, OfFile
  <2>4. Len(file) \in Nat /\ readers[r].total \in Nat
    BY <2>1, FileShape DEF Inv, Reader
  <2> QED
    BY <2>1, <2>3, <2>4 DEF Fits, Reads
<1> QED
  BY <1>1, InvHolds, PTL

\* A file that is the same when it is validated as when its length was taken is
\* opened if it has all of an index, and refused if a crash or a full disk has
\* left less, or another program wrote it: whatever the sizes of the indexes that
\* were in the file before.
THEOREM TornCorrect == Spec => TornRefused
<1> DEFINE Exact == \A r \in Readers :
              Validate(r) /\ file = readers[r].seen => (readers'[r].phase = "made" <=> IsWhole(file))
<1>1. Inv /\ [Next]_vars => [Exact]_vars
  <2> SUFFICES ASSUME Inv, NEW r \in Readers, Validate(r), file = readers[r].seen
               PROVE  readers'[r].phase = "made" <=> IsWhole(file)
    OBVIOUS
  <2>1. readers[r] \in Reader /\ readers \in [Readers -> Reader] /\ readers[r].total = Len(file) /\ file # << >>
    BY DEF Inv, MemoryInv, Keeps, Validate
  <2>2. readers'[r].phase = "made" <=> HasHeader(file, Len(file))
    <3>1. CASE HasHeader(file, Len(file))
      BY <2>1, <3>1 DEF Validate, Set, Reader
    <3>2. CASE ~HasHeader(file, Len(file))
      BY <2>1, <3>2 DEF Validate, Set, NoReader
    <3> QED
      BY <3>1, <3>2
  <2>3. CASE file = Foreign
    BY <2>2, <2>3 DEF HasHeader, IsWhole, Foreign
  <2>4. CASE file # Foreign
    <3>1. Head(file) = builds /\ builds \in Builds /\ builds # 0 /\ Len(file) <= Sizes[builds] /\ file \in Seq(Nat)
      BY <2>1, <2>4, FileShape DEF Inv
    <3>2. Sizes[builds] \in Nat /\ Len(file) \in Nat
      BY <3>1, IndexFileAssumption DEF Builds
    <3> QED
      BY <2>2, <2>4, <3>1, <3>2 DEF HasHeader, IsWhole
  <2> QED
    BY <2>3, <2>4
<1> QED
  BY <1>1, InvHolds, PTL DEF Spec, TornRefused
==============================================================================
