--------------------------- MODULE MCDfaConstruction ---------------------------
(***************************************************************************)
(* DfaConstruction, and LevenshteinNFA, compared with the distances that   *)
(* they are to compute, and with each other, on every text of at most      *)
(* MaxLength labels.                                                       *)
(***************************************************************************)
EXTENDS DfaConstruction, EditDistance

CONSTANTS QueryLength, MaxLength, Width

\* Queries over all labels but the greatest, which stands for all labels that
\* no query contains.
ShortQueries == BoundedSeq({c \in Labels : \E d \in Labels : c < d}, QueryLength)
AllTexts == BoundedSeq(Labels, MaxLength)

Near == WithinTable(ShortQueries, Labels, MaxLength)
Aligned == {<<u, AlignmentOf(u, v), v>> : u \in ShortQueries, v \in AllTexts}
ReferenceDistance(name, u, v) ==
    IF name = "Levenshtein" THEN DistanceIn(Near, u, v) ELSE DistanceIn(Aligned, u, v)

\* The bit-parallel automaton on the same queries and texts.
Bits == INSTANCE LevenshteinNFA
BitsAfter(text) == FoldLeft(LAMBDA s, c : Bits!NextState(query, s, c), Bits!StartState(query), text)

\* The bit vectors encode the whole column of the distance table, also when the
\* query is as wide as the machine word: the distance of the text to every
\* prefix of the query.
BitColumnsExact ==
    phase = "ready" /\ metric = "Levenshtein" => \A text \in Texts :
        LET D == Bits!Column(query, BitsAfter(text))
        IN  \A i \in 0..Len(query) : D[i] = Distance(metric, SubSeq(query, 1, i), text)
==============================================================================
