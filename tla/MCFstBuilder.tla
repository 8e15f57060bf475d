----------------------------- MODULE MCFstBuilder -----------------------------
(* Instances of FstBuilder for TLC.                                        *)
EXTENDS FstBuilder

\* The words of at most n labels, but the ones of one label: prefixes of each
\* other, common suffixes to share, and the empty word.
Without1(n) == {w \in BoundedSeq(Labels, n) : Len(w) # 1}
WordsUpTo3 == Without1(3)

\* All words of at most one label: enough to give the root every child.
WordsUpTo1 == BoundedSeq(Labels, 1)
==============================================================================
