------------------------------- MODULE MCSymSpell -------------------------------
(***************************************************************************)
(* SymSpell on words over two labels: every pair of one term and one input *)
(* of at most MaxLength labels, where all terms are asked for; and three   *)
(* entries of a few terms, of equal and different counts, around every     *)
(* input of three labels, where the nearest are.  The hash of a word is    *)
(* its length and its first label: many are equal.                         *)
(***************************************************************************)
EXTENDS SymSpell

CONSTANT MaxLength

Labels == {1, 2}
ShortHash(w) == IF w = << >> THEN 0 ELSE 2 * Len(w) + Head(w)

AllWords == BoundedSeq(Labels, MaxLength)
ForAll ==
    {[entries |-> <<<<term, 1>>>>, threshold |-> 1, maxEdit |-> 2, input |-> input,
      verbosity |-> "All", distance |-> d] : term \in AllWords, input \in AllWords, d \in {-1, 1}}

FewWords == {<<1>>, <<1, 2>>, <<2, 1, 2>>, <<1, 1, 2, 2, 2>>}
Counts == {<<1, 1, 1>>, <<1, 2, 1>>, <<2, 1, 0>>}
ForNearest ==
    {[entries |-> [k \in 1..3 |-> <<ts[k], counts[k]>>], threshold |-> threshold, maxEdit |-> 2,
      input |-> input, verbosity |-> v, distance |-> 2] :
        ts \in [1..3 -> FewWords], counts \in Counts, threshold \in {1, 2},
        input \in BoundedSeq(Labels, 3), v \in {"Top", "Closest"}}

AllLookups == ForAll \cup ForNearest
==============================================================================
