---------------------------- MODULE Lexicographic ----------------------------
(***************************************************************************)
(* The order on words that the build path relies on: std::string_view's    *)
(* operator<=, and the longest common prefix computed by FstBuilder::add.  *)
(* A word is a sequence of labels, a label is an unsigned byte: a natural. *)
(* Neither definition is recursive, so that proofs can use them.           *)
(***************************************************************************)
EXTENDS Naturals, Sequences

\* u and v agree on their first k labels.
AgreeUpTo(u, v, k) ==
    /\ k <= Len(u)
    /\ k <= Len(v)
    /\ \A j \in 1..k : u[j] = v[j]

\* k is the length of the longest common prefix of u and v.
IsCommonPrefix(u, v, k) ==
    /\ AgreeUpTo(u, v, k)
    /\ k < Len(u) /\ k < Len(v) => u[k + 1] # v[k + 1]

\* u precedes v: at the first difference u ends, or has the smaller label.
Precedes(u, v) ==
    \E k \in 0..Len(u) :
        /\ AgreeUpTo(u, v, k)
        /\ k < Len(v)
        /\ k < Len(u) => u[k + 1] < v[k + 1]
==============================================================================
