-------------------------------- MODULE WordList --------------------------------
(***************************************************************************)
(* load_words (src/cli/main.cpp): a word list is read with fgets, a line   *)
(* or as much of it as the buffer holds at a time.  The benchmarks read    *)
(* their files by the same loop.  A file that cannot be opened gives no    *)
(* words, as an empty one does, and counts as empty here.                  *)
(***************************************************************************)
EXTENDS Integers, SequencesExt

CONSTANT BufferSize    \* 4096

VARIABLES
    file,    \* the bytes of the file, which its reader is given: constant
    at,      \* how many of them have been read
    words

NUL == 0
NL == 10
CR == 13

----------------------------------------------------------------------------

Init ==
    /\ at = 0
    /\ words = << >>

\* fgets: up to the end of the line, of the file or of the buffer.
Ends(n) == n = BufferSize - 1 \/ file[at + n] = NL \/ at + n = Len(file)
ChunkLength == CHOOSE n \in 1..(Len(file) - at) : Ends(n) /\ \A k \in 1..(n - 1) : ~Ends(k)
Chunk == SubSeq(file, at + 1, at + ChunkLength)

\* What is left of a chunk: strlen() stops at a zero byte, and the ends of the
\* line are cut off.
UpToNul(chunk) ==
    IF NUL \in ToSet(chunk) THEN SubSeq(chunk, 1, SelectInSeq(chunk, LAMBDA b : b = NUL) - 1)
    ELSE chunk
StrippedOnce(line) ==
    IF line # << >> /\ Last(line) \in {NL, CR} THEN Front(line) ELSE line
Stripped(line) ==
    LET kept == SelectLastInSeq(line, LAMBDA b : b \notin {NL, CR})
    IN  SubSeq(line, 1, kept)

\* One iteration of the loop: empty lines are left out.
ReadLine ==
    /\ at < Len(file)
    /\ at' = at + ChunkLength
    /\ LET word == Stripped(UpToNul(Chunk))
       IN  words' = IF word = << >> THEN words ELSE Append(words, word)
    /\ UNCHANGED file

Loaded == at = Len(file)

----------------------------------------------------------------------------
(* Properties.                                                             *)

\* The lines of the file without their ends, and those that are not empty.
Lines == LET split == FoldLeft(LAMBDA s, b : IF b = NL THEN Append(s, << >>)
                                             ELSE Append(Front(s), Append(Last(s), b)),
                               << << >> >>, file)
         IN  [k \in DOMAIN split |-> Stripped(split[k])]
WordsOfLines == SelectSeq(Lines, LAMBDA line : line # << >>)

\* Without zero bytes, and with no line longer than the buffer, the words are
\* the lines that are not empty: also if a line fills the buffer and only its
\* end is left for the next call, and if the last line has no end.
ShortLinesAreWords ==
    Loaded /\ NUL \notin ToSet(file) /\ (\A k \in DOMAIN Lines : Len(Lines[k]) < BufferSize)
        => words = WordsOfLines

\* Whatever the file holds, a word is a piece of one of its lines, not longer
\* than the buffer, without a zero and without the end of the line.
WordsWithinLines ==
    \A k \in DOMAIN words :
        /\ Len(words[k]) \in 1..(BufferSize - 1)
        /\ {NL, NUL} \cap ToSet(words[k]) = {}
        /\ Last(words[k]) # CR
        /\ \E l \in DOMAIN Lines : words[k] \in SubSeqs(Lines[l])
==============================================================================
