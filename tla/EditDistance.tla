----------------------------- MODULE EditDistance -----------------------------
(***************************************************************************)
(* The references that the automata are checked against: the distance of   *)
(* two words is the least number of single edits (delete, insert or        *)
(* replace a label) that lead from one to the other.  Nothing here is      *)
(* translated from code.  A shortest chain of edits need not pass through  *)
(* words longer than both ends, so the words of at most n labels suffice   *)
(* for two of them, which are at most n edits apart.                       *)
(***************************************************************************)
EXTENDS Naturals, SequencesExt

Deletions(w) == {RemoveAt(w, i) : i \in 1..Len(w)}
Insertions(w, labels) == {InsertAt(w, i, c) : i \in 1..(Len(w) + 1), c \in labels}
Replacements(w, labels) == {[w EXCEPT ![i] = c] : i \in 1..Len(w), c \in labels}

OneEdit(w, labels) == Deletions(w) \cup Insertions(w, labels) \cup Replacements(w, labels)

\* The words of at most n labels that k edits lead to from u.
Ball(u, k, labels, n) ==
    LET B[i \in 0..k] ==
            IF i = 0 THEN {u}
            ELSE LET smaller == B[i - 1]
                     edited == UNION {OneEdit(w, labels) : w \in smaller}
                 IN  smaller \cup {w \in edited : Len(w) <= n}
    IN  B[k]

\* The triples <<u, k, v>> of two words at most k edits apart, u from sources.
\* (A set, so that TLC computes it once when it is a constant.)
WithinTable(sources, labels, n) ==
    UNION {{<<u, k, v>> : v \in Ball(u, k, labels, n)} : u \in sources, k \in 0..n}

DistanceIn(table, u, v) ==
    CHOOSE k \in 0..(Len(u) + Len(v)) : <<u, k, v>> \in table /\ <<u, k - 1, v>> \notin table

\* The restricted distance: the cheapest way to read two words from their
\* starts, with one edit for a deletion, an insertion, a replacement or a swap
\* of two neighbours, none of which is edited again.
AlignmentOf(u, v) ==
    LET A[i \in 1..(Len(u) + 1), j \in 1..(Len(v) + 1)] ==
            IF i > Len(u) \/ j > Len(v) THEN (Len(u) + 1 - i) + (Len(v) + 1 - j)
            ELSE LET swap == i < Len(u) /\ j < Len(v) /\ u[i] = v[j + 1] /\ u[i + 1] = v[j]
                     ways == {1 + A[i + 1, j], 1 + A[i, j + 1],
                              (IF u[i] = v[j] THEN 0 ELSE 1) + A[i + 1, j + 1]}
                             \cup (IF swap THEN {1 + A[i + 2, j + 2]} ELSE {})
                 IN  CHOOSE d \in ways : \A e \in ways : d <= e
    IN  A[1, 1]
==============================================================================
