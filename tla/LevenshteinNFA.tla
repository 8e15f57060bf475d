---------------------------- MODULE LevenshteinNFA ----------------------------
(***************************************************************************)
(* LevenshteinNFA (src/levenshtein_nfa.cpp): Myers' bit-parallel edit      *)
(* distance.  A state is the difference vectors Pv and Mv of the column of *)
(* the distance table, and its last entry dist.  Words of the machine are  *)
(* Width bits wide (64 in the code); bit vectors are naturals below        *)
(* 2^Width, and a query has at most Width labels.                          *)
(***************************************************************************)
EXTENDS Naturals, Sequences, Bitwise

CONSTANT Width

ASSUME WidthAssumption == Width \in Nat \ {0}

Modulus == 2^Width
Complement(v) == Modulus - 1 - v
ShiftLeft(v) == (2 * v) % Modulus
Bit(v, i) == (v \div 2^i) % 2 = 1

\* 1 << n is undefined for n = Width in C++: x86 shifts by n % 64.  The code
\* tests for that width before it shifts.
LowBitsNarrow(n) == 2^(n % Width) - 1
LowBits(n) == IF n = Width THEN Modulus - 1 ELSE 2^n - 1

\* char_mask[c]: bit i is set when label c is at position i of the query.
CharMask(query, c) ==
    LET M[i \in 0..Len(query)] ==
            IF i = 0 THEN 0 ELSE M[i - 1] + (IF query[i] = c THEN 2^(i - 1) ELSE 0)
    IN  M[Len(query)]

\* start_state: D[i] = i, every difference is +1.
StartState(query) ==
    [Pv |-> LowBits(Len(query)), Mv |-> 0, dist |-> Len(query)]

\* The vertical carry: Ph gets its lowest bit set, since D[0] grows by one.
CarryIn(Ph) == ShiftLeft(Ph) | 1

\* step: the state after one more label c of the text.
NextState(query, s, c) ==
    IF query = << >> THEN [s EXCEPT !.dist = @ + 1]
    ELSE LET m  == Len(query)
             Eq == CharMask(query, c)
             Xv == Eq | s.Mv
             Xh == ((((Eq & s.Pv) + s.Pv) % Modulus) ^^ s.Pv) | Eq
             Ph == s.Mv | Complement(Xh | s.Pv)
             Mh == s.Pv & Xh
             up == CarryIn(Ph)
         IN  [Pv   |-> (ShiftLeft(Mh) | Complement(Xv | up)) & LowBits(m),
              Mv   |-> (up & Xv) & LowBits(m),
              dist |-> s.dist + (IF Bit(Ph, m - 1) THEN 1 ELSE 0)
                              - (IF Bit(Mh, m - 1) THEN 1 ELSE 0)]

\* The column of the distance table a state stands for, read from its last
\* entry backwards; can_match looks for one entry that is small enough.
Column(query, s) ==
    LET m == Len(query)
        D[i \in 0..m] ==
            IF i = m THEN s.dist
            ELSE D[i + 1] - (IF Bit(s.Pv, i) THEN 1 ELSE 0) + (IF Bit(s.Mv, i) THEN 1 ELSE 0)
    IN  D

CanMatch(query, s, max) ==
    LET D == Column(query, s) IN \E i \in 0..Len(query) : D[i] <= max
==============================================================================
