--------------------------- MODULE FstBuilder_proofs ---------------------------
(***************************************************************************)
(* Proofs about FstBuilder, for every set of labels and words and every    *)
(* width of the transition counter.                                        *)
(***************************************************************************)
EXTENDS FstBuilder, SequenceTheorems, FiniteSetTheorems, FunctionTheorems,
        WellFoundedInduction, TLAPS

\* A set of naturals has a least element: what the inductions below rest on.
LEMMA Least ==
    ASSUME NEW T \in SUBSET Nat, T # {}
    PROVE  \E x \in T : \A y \in T : x <= y
<1> DEFINE R == OpToRel(<, Nat)
<1>1. IsWellFoundedOn(R, Nat)
  BY NatLessThanWellFounded
<1>2. \A x, y \in Nat : x < y => <<x, y>> \in R
  BY DEF OpToRel
<1> HIDE DEF R
<1>3. \E x \in T : \A y \in T : ~(<<y, x>> \in R)
  BY <1>1, WFMin
<1>4. \A x, y \in Nat : ~(y < x) => x <= y
  OBVIOUS
<1> QED
  BY <1>2, <1>3, <1>4


----------------------------------------------------------------------------
(* What the two updates of a node do to it.                                *)

\* minimize() changes the last child of a node and nothing else.
LEMMA RedirectedNode ==
    ASSUME NEW node \in Node, NEW m \in Nat
    PROVE  LET new == Redirected(node, m)
           IN  /\ new \in Node
               /\ new.final = node.final
               /\ Len(new.trans) = Len(node.trans)
               /\ \A j \in 1..Len(node.trans) :
                      /\ new.trans[j].label = node.trans[j].label
                      /\ new.trans[j].child =
                             IF j = Len(node.trans) THEN m ELSE node.trans[j].child
<1> DEFINE t == node.trans
           k == Len(t)
           new == Redirected(node, m)
<1>1. t \in Seq(Transition) /\ node.final \in BOOLEAN
  BY DEF Node
<1>2. CASE t = << >>
  BY <1>1, <1>2 DEF Redirected
<1>3. CASE t # << >>
  <2>1. k \in 1..Len(t) /\ t[k] \in Transition
    BY <1>1, <1>3
  <2> DEFINE last == [t[k] EXCEPT !.child = m]
  <2>2. last \in Transition /\ last.label = t[k].label /\ last.child = m
    BY <2>1 DEF Transition
  <2>3. new = [node EXCEPT !.trans = [t EXCEPT ![k] = last]]
    BY <1>3 DEF Redirected
  <2> HIDE DEF last
  <2> DEFINE u == [t EXCEPT ![k] = last]
  <2>4. u \in Seq(Transition) /\ Len(u) = Len(t)
    BY <1>1, <2>1, <2>2
  <2>5. \A j \in 1..Len(t) : u[j] = IF j = k THEN last ELSE t[j]
    BY <1>1, <2>1
  <2> HIDE DEF u
  <2>6. new \in Node /\ new.final = node.final /\ new.trans = u
    BY <2>3, <2>4, <1>1 DEF Node, u
  <2> QED
    BY <2>2, <2>4, <2>5, <2>6
<1> QED
  BY <1>2, <1>3

\* add_child() appends a transition, or empties the array when the counter wraps.
LEMMA WithTransitionNode ==
    ASSUME NEW node \in Node, NEW c \in Labels, NEW child \in Nat
    PROVE  LET new == WithTransition(node, c, child)
           IN  /\ new \in Node
               /\ new.final = node.final
               /\ \/ new.trans = << >>
                  \/ new.trans = Append(node.trans, [label |-> c, child |-> child])
<1> DEFINE t == Append(node.trans, [label |-> c, child |-> child])
           wraps == Len(t) % CountMod = 0
<1>1. node.trans \in Seq(Transition) /\ node.final \in BOOLEAN
  BY DEF Node
<1>2. [label |-> c, child |-> child] \in Transition
  BY DEF Transition
<1>3. t \in Seq(Transition)
  BY <1>1, <1>2
<1>4. WithTransition(node, c, child) = [node EXCEPT !.trans = IF wraps THEN << >> ELSE t]
  BY DEF WithTransition
<1> HIDE DEF wraps, t
<1>5. CASE wraps
  <2>1. WithTransition(node, c, child) = [node EXCEPT !.trans = << >>]
    BY <1>4, <1>5
  <2>2. << >> \in Seq(Transition)
    OBVIOUS
  <2> QED
    BY <1>1, <2>1, <2>2 DEF Node
<1>6. CASE ~wraps
  <2>1. WithTransition(node, c, child) = [node EXCEPT !.trans = t]
    BY <1>4, <1>6
  <2> QED
    BY <1>1, <1>3, <2>1 DEF Node, t
<1> QED
  BY <1>5, <1>6

----------------------------------------------------------------------------
(* The path is a stack.                                                    *)

LEMMA Shortened ==
    ASSUME NEW S, NEW p \in Seq(S), Len(p) > 1
    PROVE  LET q == SubSeq(p, 1, Len(p) - 1)
           IN  /\ q \in Seq(S)
               /\ q # << >>
               /\ Len(q) = Len(p) - 1
               /\ \A i \in 1..(Len(p) - 1) : q[i] = p[i]
<1>1. /\ Len(p) \in Nat
      /\ \A i \in 1..(Len(p) - 1) : p[i] \in S
  OBVIOUS
<1> DEFINE q == SubSeq(p, 1, Len(p) - 1)
<1>2. /\ q \in Seq(S)
      /\ Len(q) = Len(p) - 1
      /\ \A i \in 1..(Len(p) - 1) : q[i] = p[1 + i - 1]
  BY <1>1, SubSeqProperties, 1 \in Int, Len(p) - 1 \in Int
<1> HIDE DEF q
<1>3. q # << >>
  BY <1>1, <1>2
<1> QED
  BY <1>1, <1>2, <1>3 DEF q

LEMMA Extended ==
    ASSUME NEW n \in Nat, NEW p \in Seq(1..n)
    PROVE  LET q == Append(p, n + 1)
           IN  /\ q \in Seq(1..(n + 1))
               /\ q # << >>
               /\ Len(q) = Len(p) + 1
               /\ q[Len(p) + 1] = n + 1
               /\ \A i \in 1..Len(p) : q[i] = p[i]
<1>1. p \in Seq(1..(n + 1))
  BY SeqMonotonic, 1..n \subseteq 1..(n + 1)
<1>2. n + 1 \in 1..(n + 1)
  OBVIOUS
<1> QED
  BY <1>1, <1>2, AppendProperties

\* Positions on the path with one more node.
LEMMA Position ==
    ASSUME NEW n \in Nat, NEW i \in 1..(n + 1)
    PROVE  /\ i \in 1..n \/ i = n + 1
           /\ i < n \/ i = n \/ i = n + 1
OBVIOUS

\* Positions on the path without its deepest node.
LEMMA PositionAbove ==
    ASSUME NEW n \in Nat, NEW i \in 1..(n - 1)
    PROVE  i < n - 1 \/ i = n - 1
OBVIOUS

----------------------------------------------------------------------------
(* Types.                                                                  *)

LEMMA TypeInit == Init => TypeOK
<1> SUFFICES ASSUME Init PROVE TypeOK
  OBVIOUS
<1>1. EmptyNode \in Node
  BY DEF EmptyNode, Node
<1>2. pool \in Seq(Node) /\ Len(pool) = 1
  BY <1>1 DEF Init
<1>3. path \in Seq(1..Len(pool)) /\ path # << >>
  BY <1>2 DEF Init, RootId
<1> QED
  BY <1>2, <1>3, EmptySeq DEF Init, TypeOK

LEMMA TypeStep == TypeOK /\ [Next]_vars => TypeOK'
<1> SUFFICES ASSUME TypeOK, [Next]_vars PROVE TypeOK'
  OBVIOUS
<1> USE DEF TypeOK
<1>0. /\ Len(path) \in Nat \ {0}
      /\ Top \in 1..Len(pool)
      /\ pool[Top] \in Node
  BY DEF Top
<1>1. ASSUME NEW w \in Words, AddRejected(w) PROVE TypeOK'
  BY <1>1 DEF AddRejected
<1>2. ASSUME NEW w \in Words, AddStart(w) PROVE TypeOK'
  BY <1>2, WordsAssumption DEF AddStart
<1>3. CASE FinishStart
  BY <1>3 DEF FinishStart
<1>4. CASE MinimizeStep
  <2> DEFINE parent == path[Len(path) - 1]
  <2>1. Len(path) > downTo + 1 /\ Len(path) - 1 \in 1..Len(path) /\ parent \in 1..Len(pool)
    BY <1>0, <1>4 DEF MinimizeStep
  <2>2. pool' \in Seq(Node) /\ Len(pool') = Len(pool)
    <3>1. ASSUME NEW m \in Equivalent(Top),
                 pool' = [pool EXCEPT ![parent] = Redirected(@, m)]
          PROVE  pool' \in Seq(Node) /\ Len(pool') = Len(pool)
      <4>1. Redirected(pool[parent], m) \in Node
        <5>1. m \in Nat /\ pool[parent] \in Node
          BY <2>1 DEF Equivalent
        <5> QED
          BY <5>1, RedirectedNode
      <4> QED
        BY <3>1, <2>1, <4>1
    <3> QED
      BY <1>4, <3>1 DEF MinimizeStep
  <2>3. path' \in Seq(1..Len(pool)) /\ path' # << >>
    <3>1. path' = SubSeq(path, 1, Len(path) - 1) /\ Len(path) > 1
      BY <1>0, <1>4 DEF MinimizeStep
    <3> QED
      BY <3>1, Shortened
  <2>4. registered' \subseteq 1..Len(pool)
    BY <1>0, <1>4 DEF MinimizeStep
  <2> QED
    BY <1>4, <2>2, <2>3, <2>4 DEF MinimizeStep
<1>5. CASE MinimizeReturn
  BY <1>5 DEF MinimizeReturn
<1>6. CASE ExtendStep
  <2> DEFINE new == WithTransition(pool[Top], word[Len(path)], NewId)
  <2>1. new \in Node
    <3>1. word[Len(path)] \in Labels /\ NewId \in Nat
      BY <1>0, <1>6 DEF ExtendStep, NewId
    <3> QED
      BY <1>0, <3>1, WithTransitionNode
  <2> HIDE DEF new
  <2>2. [pool EXCEPT ![Top] = new] \in Seq(Node) /\ Len([pool EXCEPT ![Top] = new]) = Len(pool)
    BY <1>0, <2>1
  <2>3. EmptyNode \in Node
    BY DEF EmptyNode, Node
  <2>4. pool' = Append([pool EXCEPT ![Top] = new], EmptyNode)
    BY <1>6 DEF ExtendStep, new
  <2>5. pool' \in Seq(Node) /\ Len(pool') = Len(pool) + 1
    BY <2>2, <2>3, <2>4
  <2>6. path' \in Seq(1..Len(pool')) /\ path' # << >>
    <3>1. path' = Append(path, Len(pool) + 1)
      BY <1>6 DEF ExtendStep, NewId
    <3> QED
      BY <3>1, <2>5, Extended, LenProperties
  <2> QED
    BY <1>6, <2>5, <2>6 DEF ExtendStep
<1>7. CASE AddReturn
  <2>1. [pool[Top] EXCEPT !.final = TRUE] \in Node
    BY <1>0 DEF Node
  <2>2. pool' \in Seq(Node) /\ Len(pool') = Len(pool)
    BY <1>0, <1>7, <2>1 DEF AddReturn
  <2> QED
    BY <1>7, <2>2 DEF AddReturn
<1>8. CASE FinishReturn
  BY <1>8 DEF FinishReturn, RootId
<1>9. CASE UNCHANGED vars
  BY <1>9 DEF vars
<1> QED
  BY <1>1, <1>2, <1>3, <1>4, <1>5, <1>6, <1>7, <1>8, <1>9 DEF Next, Step

\* Node ids, node contents, the path and the arguments keep their types
\* through every step of add(), minimize() and finish().
THEOREM TypeCorrect == Spec => []TypeOK
  BY TypeInit, TypeStep, PTL DEF Spec

----------------------------------------------------------------------------
(* What the actions that write to the pool do to it, node by node.         *)

Parent == path[Len(path) - 1]

\* An iteration of minimize() registers the top of the path or redirects the
\* last transition of its parent to a registered node.
LEMMA MinimizeEffect ==
    ASSUME TypeOK, MinimizeStep
    PROVE  /\ Len(path) \in Nat /\ Len(path) > 1
           /\ Len(path') = Len(path) - 1
           /\ \A i \in 1..(Len(path) - 1) : path'[i] = path[i]
           /\ Len(pool') = Len(pool)
           /\ \/ /\ registered' = registered \cup {Top}
                 /\ pool' = pool
                 /\ \A m \in registered : pool[m] # pool[Top]
              \/ /\ registered' = registered
                 /\ \A n \in 1..Len(pool) : n # Parent => pool'[n] = pool[n]
                 /\ Len(pool'[Parent].trans) = Len(pool[Parent].trans)
                 /\ \A j \in 1..Len(pool[Parent].trans) :
                        /\ pool'[Parent].trans[j].label = pool[Parent].trans[j].label
                        /\ \/ pool'[Parent].trans[j].child \in registered
                           \/ /\ j # Len(pool[Parent].trans)
                              /\ pool'[Parent].trans[j].child = pool[Parent].trans[j].child
<1>1. /\ Len(path) \in Nat /\ Len(path) > 1
      /\ Parent \in 1..Len(pool)
      /\ pool[Parent] \in Node
  BY DEF TypeOK, MinimizeStep, Parent
<1>2. path' = SubSeq(path, 1, Len(path) - 1) /\ path \in Seq(1..Len(pool))
  BY DEF MinimizeStep, TypeOK
<1>3. /\ Len(path') = Len(path) - 1
      /\ \A i \in 1..(Len(path) - 1) : path'[i] = path[i]
  BY <1>1, <1>2, Shortened
<1>4. CASE Equivalent(Top) = {} /\ registered' = registered \cup {Top} /\ UNCHANGED pool
  <2>1. \A m \in registered : pool[m] # pool[Top]
    BY <1>4 DEF Equivalent
  <2> QED
    BY <1>1, <1>3, <1>4, <2>1
<1>5. ASSUME NEW m \in Equivalent(Top), UNCHANGED registered,
             pool' = [pool EXCEPT ![Parent] = Redirected(@, m)]
      PROVE  /\ Len(pool') = Len(pool)
             /\ \A n \in 1..Len(pool) : n # Parent => pool'[n] = pool[n]
             /\ Len(pool'[Parent].trans) = Len(pool[Parent].trans)
             /\ \A j \in 1..Len(pool[Parent].trans) :
                    /\ pool'[Parent].trans[j].label = pool[Parent].trans[j].label
                    /\ \/ pool'[Parent].trans[j].child \in registered
                       \/ /\ j # Len(pool[Parent].trans)
                          /\ pool'[Parent].trans[j].child = pool[Parent].trans[j].child
  <2>1. m \in registered /\ m \in Nat
    BY DEF Equivalent, TypeOK
  <2> DEFINE new == Redirected(pool[Parent], m)
  <2>2. /\ new \in Node
        /\ Len(new.trans) = Len(pool[Parent].trans)
        /\ \A j \in 1..Len(pool[Parent].trans) :
               /\ new.trans[j].label = pool[Parent].trans[j].label
               /\ new.trans[j].child =
                      IF j = Len(pool[Parent].trans) THEN m ELSE pool[Parent].trans[j].child
    BY <1>1, <2>1, RedirectedNode
  <2> HIDE DEF new
  <2>3. pool' = [pool EXCEPT ![Parent] = new]
    BY <1>5 DEF new
  <2>4. /\ Len(pool') = Len(pool)
        /\ \A n \in 1..Len(pool) : pool'[n] = IF n = Parent THEN new ELSE pool[n]
    BY <1>1, <2>2, <2>3, ExceptSeq DEF TypeOK
  <2> QED
    BY <1>1, <2>1, <2>2, <2>4
<1> QED
  BY <1>1, <1>3, <1>4, <1>5 DEF MinimizeStep, Parent

\* An iteration of the extension loop of add() gives the top of the path a
\* transition to a new node, and pushes that node.
LEMMA ExtendEffect ==
    ASSUME TypeOK, ExtendStep
    PROVE  /\ Len(path) \in Nat \ {0} /\ Len(pool) \in Nat
           /\ Len(path') = Len(path) + 1
           /\ path'[Len(path) + 1] = Len(pool) + 1
           /\ \A i \in 1..Len(path) : path'[i] = path[i]
           /\ Len(pool') = Len(pool) + 1
           /\ pool'[Len(pool) + 1] = EmptyNode
           /\ \A n \in 1..Len(pool) : n # Top => pool'[n] = pool[n]
           /\ Top \in 1..Len(pool)
           /\ pool[Top].trans \in Seq(Transition)
           /\ \/ pool'[Top].trans = << >>
              \/ pool'[Top].trans =
                     Append(pool[Top].trans, [label |-> word[Len(path)], child |-> Len(pool) + 1])
           /\ [label |-> word[Len(path)], child |-> Len(pool) + 1] \in Transition
<1>1. /\ Len(path) \in Nat \ {0} /\ Len(pool) \in Nat
      /\ Top \in 1..Len(pool)
      /\ pool[Top] \in Node
      /\ word[Len(path)] \in Labels
  BY DEF TypeOK, ExtendStep, Top
<1>2. path' = Append(path, Len(pool) + 1) /\ path \in Seq(1..Len(pool))
  BY DEF ExtendStep, TypeOK, NewId
<1>3. /\ Len(path') = Len(path) + 1
      /\ path'[Len(path) + 1] = Len(pool) + 1
      /\ \A i \in 1..Len(path) : path'[i] = path[i]
  BY <1>1, <1>2, Extended
<1> DEFINE new == WithTransition(pool[Top], word[Len(path)], Len(pool) + 1)
<1>4. /\ new \in Node
      /\ \/ new.trans = << >>
         \/ new.trans =
                Append(pool[Top].trans, [label |-> word[Len(path)], child |-> Len(pool) + 1])
  BY <1>1, WithTransitionNode
<1> HIDE DEF new
<1> DEFINE mid == [pool EXCEPT ![Top] = new]
<1>5. /\ mid \in Seq(Node)
      /\ Len(mid) = Len(pool)
      /\ \A n \in 1..Len(pool) : mid[n] = IF n = Top THEN new ELSE pool[n]
  BY <1>1, <1>4, ExceptSeq DEF TypeOK
<1> HIDE DEF mid
<1>6. pool' = Append(mid, EmptyNode) /\ EmptyNode \in Node
  <2>1. pool' = Append(mid, EmptyNode)
    BY DEF ExtendStep, mid, new, NewId
  <2> QED
    BY <2>1 DEF EmptyNode, Node
<1>7. /\ Len(pool') = Len(pool) + 1
      /\ pool'[Len(pool) + 1] = EmptyNode
      /\ \A n \in 1..Len(pool) : pool'[n] = IF n = Top THEN new ELSE pool[n]
  BY <1>1, <1>5, <1>6, AppendProperties
<1>8. /\ pool[Top].trans \in Seq(Transition)
      /\ [label |-> word[Len(path)], child |-> Len(pool) + 1] \in Transition
  BY <1>1, LabelsAssumption DEF Node, Transition
<1> QED
  BY <1>1, <1>3, <1>4, <1>7, <1>8

\* The end of add() changes the final flag of the top of the path.
LEMMA ReturnEffect ==
    ASSUME TypeOK, AddReturn
    PROVE  /\ Len(pool') = Len(pool)
           /\ \A n \in 1..Len(pool) : n # Top => pool'[n] = pool[n]
           /\ \A n \in 1..Len(pool) : pool'[n].trans = pool[n].trans
<1>1. Top \in 1..Len(pool) /\ pool[Top] \in Node
  BY DEF TypeOK, Top
<1> DEFINE new == [pool[Top] EXCEPT !.final = TRUE]
<1>2. new \in Node /\ new.trans = pool[Top].trans
  BY <1>1 DEF Node
<1>3. pool' = [pool EXCEPT ![Top] = new]
  BY DEF AddReturn
<1> HIDE DEF new
<1>4. /\ Len(pool') = Len(pool)
      /\ \A n \in 1..Len(pool) : pool'[n] = IF n = Top THEN new ELSE pool[n]
  BY <1>1, <1>2, <1>3, ExceptSeq DEF TypeOK
<1> QED
  BY <1>2, <1>4

----------------------------------------------------------------------------
(* The state map: canonical nodes are frozen and pairwise different.       *)

\* The nodes of the path, its top and the top's parent among them.
LEMMA PathNodes ==
    ASSUME TypeOK
    PROVE  /\ Len(pool) \in Nat
           /\ Len(path) \in Nat \ {0}
           /\ DOMAIN path = 1..Len(path)
           /\ DOMAIN pool = 1..Len(pool)
           /\ \A i \in 1..Len(path) : path[i] \in 1..Len(pool)
           /\ \A n \in 1..Len(pool) :
                  /\ pool[n].trans \in Seq(Transition)
                  /\ DOMAIN pool[n].trans = 1..Len(pool[n].trans)
                  /\ Len(pool[n].trans) \in Nat
           /\ Top = path[Len(path)]
<1>1. \A n \in 1..Len(pool) : pool[n] \in Node
  BY DEF TypeOK
<1> QED
  BY <1>1 DEF TypeOK, Top, Node

LEMMA PathOpenInit == Init => PathOpen
  BY DEF Init, PathOpen, RootId

LEMMA PathOpenStep ==
    ASSUME TypeOK, PathOpen, [Next]_vars
    PROVE  PathOpen'
<1> USE PathNodes
<1>0. TypeOK'
  BY TypeStep
<1>1. ASSUME NEW w \in Words, AddRejected(w) PROVE PathOpen'
  BY <1>1 DEF AddRejected, PathOpen
<1>2. ASSUME NEW w \in Words, AddStart(w) PROVE PathOpen'
  BY <1>2 DEF AddStart, PathOpen
<1>3. CASE FinishStart
  BY <1>3 DEF FinishStart, PathOpen
<1>4. CASE MinimizeStep
  <2>1. /\ DOMAIN path' = 1..(Len(path) - 1)
        /\ \A i \in DOMAIN path' : path'[i] = path[i] /\ path[i] # Top
        /\ 1 \in DOMAIN path'
        /\ registered' \subseteq registered \cup {Top}
    <3>1. /\ DOMAIN path' = 1..(Len(path) - 1)
          /\ \A i \in 1..(Len(path) - 1) : path'[i] = path[i]
          /\ Len(path) > 1
          /\ registered' \subseteq registered \cup {Top}
      <4>1. Len(path) > 1 /\ Len(path') = Len(path) - 1
        BY <1>4, MinimizeEffect
      <4>2. DOMAIN path' = 1..Len(path')
        BY <1>0 DEF TypeOK
      <4>3. registered' \subseteq registered \cup {Top}
        BY <1>4 DEF MinimizeStep
      <4> QED
        BY <1>4, <4>1, <4>2, <4>3, MinimizeEffect
    <3>2. \A i \in 1..(Len(path) - 1) : path[i] < path[Len(path)]
      BY DEF PathOpen
    <3> QED
      BY <3>1, <3>2
  <2>2. finished' = finished /\ pc' = pc /\ downTo' = downTo
    BY <1>4 DEF MinimizeStep
  <2>3. ~finished' => \A i \in DOMAIN path' : path'[i] \notin registered'
    BY <2>1, <2>2 DEF PathOpen
  <2>4. \A i, j \in DOMAIN path' : i < j => path'[i] < path'[j]
    BY <2>1 DEF PathOpen
  <2> QED
    BY <2>1, <2>2, <2>3, <2>4 DEF PathOpen
<1>5. CASE MinimizeReturn
  BY <1>5 DEF MinimizeReturn, PathOpen
<1>6. CASE ExtendStep
  <2>1. /\ DOMAIN path' = 1..(Len(path) + 1)
        /\ path'[Len(path) + 1] = Len(pool) + 1
        /\ \A i \in 1..Len(path) : path'[i] = path[i]
    BY <1>0, <1>6, ExtendEffect DEF TypeOK
  <2>2. /\ path'[1] = RootId
        /\ \A i, j \in DOMAIN path' : i < j => path'[i] < path'[j]
    <3>1. \A i \in 1..Len(path) : path[i] < Len(pool) + 1
      OBVIOUS
    <3>2. Len(path) \in Nat \ {0}
      OBVIOUS
    <3>3. \A i, j \in 1..Len(path) : i < j => path[i] < path[j]
      BY DEF PathOpen
    <3>4. \A i, j \in 1..(Len(path) + 1) : i < j => path'[i] < path'[j]
      <4> SUFFICES ASSUME NEW i \in 1..(Len(path) + 1), NEW j \in 1..(Len(path) + 1), i < j
                   PROVE  path'[i] < path'[j]
        OBVIOUS
      <4>1. i \in 1..Len(path) /\ path'[i] = path[i]
        BY <2>1, <3>2
      <4>2. CASE j = Len(path) + 1
        BY <2>1, <3>1, <4>1, <4>2
      <4>3. CASE j \in 1..Len(path)
        BY <2>1, <3>3, <4>1, <4>3
      <4> QED
        BY <3>2, <4>2, <4>3, Position
    <3> QED
      BY <2>1, <3>2, <3>4 DEF PathOpen
  <2>3. registered' = registered /\ finished' = finished /\ pc' = pc /\ pc # "freeze"
    BY <1>6 DEF ExtendStep
  <2>4. Len(pool) + 1 \notin registered
    BY DEF TypeOK
  <2>5. ~finished' => \A i \in DOMAIN path' : path'[i] \notin registered'
    BY <2>1, <2>3, <2>4 DEF PathOpen
  <2> QED
    BY <2>2, <2>3, <2>5 DEF PathOpen
<1>7. CASE AddReturn
  BY <1>7 DEF AddReturn, PathOpen
<1>8. CASE FinishReturn
  BY <1>8 DEF FinishReturn, PathOpen
<1>9. CASE UNCHANGED vars
  BY <1>9 DEF vars, PathOpen
<1> QED
  BY <1>1, <1>2, <1>3, <1>4, <1>5, <1>6, <1>7, <1>8, <1>9 DEF Next, Step

\* No step changes a registered node, or removes one.
LEMMA FrozenStep ==
    ASSUME TypeOK, PathOpen, [Next]_vars
    PROVE  \A n \in registered : n \in registered' /\ pool'[n] = pool[n]
<1> USE PathNodes
<1>1. registered \subseteq 1..Len(pool)
  BY DEF TypeOK
<1>2. pc # "idle" => \A i \in 1..Len(path) : path[i] \notin registered
  BY DEF PathOpen
<1>3. CASE MinimizeStep
  <2>1. Parent \notin registered
    BY <1>2, <1>3, MinimizeEffect DEF MinimizeStep, Parent
  <2> QED
    BY <1>1, <1>3, <2>1, MinimizeEffect
<1>4. CASE ExtendStep
  <2>1. Top \notin registered /\ registered' = registered
    BY <1>2, <1>4 DEF ExtendStep
  <2> QED
    BY <1>1, <1>4, <2>1, ExtendEffect
<1>5. CASE AddReturn
  <2>1. Top \notin registered /\ registered' = registered
    BY <1>2, <1>5 DEF AddReturn
  <2> QED
    BY <1>1, <1>5, <2>1, ReturnEffect
<1>6. CASE FinishReturn
  BY <1>6 DEF FinishReturn
<1>7. ASSUME UNCHANGED <<pool, registered>>
      PROVE  \A n \in registered : n \in registered' /\ pool'[n] = pool[n]
  BY <1>7
<1> QED
  BY <1>3, <1>4, <1>5, <1>6, <1>7
     DEF Next, Step, AddRejected, AddStart, FinishStart, MinimizeReturn, vars

LEMMA RegistryStep ==
    ASSUME TypeOK, PathOpen, RegistryIsASet, [Next]_vars
    PROVE  RegistryIsASet'
<1>1. \A n \in registered : n \in registered' /\ pool'[n] = pool[n]
  BY FrozenStep
<1>2. CASE registered' = registered
  BY <1>1, <1>2 DEF RegistryIsASet
<1>3. ASSUME NEW k, registered' = registered \cup {k}, pool' = pool,
             \A m \in registered : pool[m] # pool[k]
      PROVE  RegistryIsASet'
  BY <1>3 DEF RegistryIsASet
<1>4. CASE MinimizeStep
  BY <1>2, <1>3, <1>4, MinimizeEffect
<1>5. CASE FinishReturn
  <2>1. CASE Equivalent(RootId) = {}
    BY <1>3, <1>5, <2>1 DEF FinishReturn, Equivalent
  <2>2. CASE Equivalent(RootId) # {}
    BY <1>2, <1>5, <2>2 DEF FinishReturn
  <2> QED
    BY <2>1, <2>2
<1> QED
  BY <1>2, <1>4, <1>5
     DEF Next, Step, AddRejected, AddStart, FinishStart, MinimizeReturn, ExtendStep, AddReturn, vars

\* The state map never holds two structurally equal nodes, so that
\* find_or_insert has at most one canonical node to answer with.
THEOREM RegistryCorrect == Spec => []RegistryIsASet
<1> DEFINE Inv == TypeOK /\ PathOpen /\ RegistryIsASet
<1>1. Init => Inv
  BY TypeInit, PathOpenInit DEF Init, RegistryIsASet
<1>2. Inv /\ [Next]_vars => Inv'
  BY TypeStep, PathOpenStep, RegistryStep
<1>3. Inv => RegistryIsASet
  OBVIOUS
<1> QED
  BY <1>1, <1>2, <1>3, PTL DEF Spec

\* Nothing that add(), minimize() and finish() do reaches a node that has been
\* handed out as canonical.
THEOREM FrozenCorrect == Spec => RegisteredFrozen
<1> DEFINE Inv == TypeOK /\ PathOpen
           Frozen == \A n \in registered : n \in registered' /\ pool'[n] = pool[n]
<1>1. Init => Inv
  BY TypeInit, PathOpenInit
<1>2. Inv /\ [Next]_vars => Inv'
  BY TypeStep, PathOpenStep
<1>3. Inv /\ [Next]_vars => [Frozen]_vars
  BY FrozenStep
<1> QED
  BY <1>1, <1>2, <1>3, PTL DEF Spec, RegisteredFrozen

----------------------------------------------------------------------------
(* Nodes are registered bottom-up: children before parents.                *)

RegisteredLinked ==
    \A n \in registered : \A j \in DOMAIN pool[n].trans : pool[n].trans[j].child \in registered

LEMMA LinkedInit == Init => PathLinked /\ RegisteredLinked
  BY DEF Init, PathLinked, RegisteredLinked, RootId, EmptyNode

\* The top of the path has canonical children only.
LEMMA TopLinked ==
    ASSUME TypeOK, PathLinked
    PROVE  \A j \in DOMAIN pool[Top].trans : pool[Top].trans[j].child \in registered
  BY PathNodes DEF PathLinked

LEMMA RegisteredLinkedStep ==
    ASSUME TypeOK, PathOpen, PathLinked, RegisteredLinked, [Next]_vars
    PROVE  RegisteredLinked'
<1>1. \A n \in registered : n \in registered' /\ pool'[n] = pool[n]
  BY FrozenStep
<1>2. CASE registered' = registered
  BY <1>1, <1>2 DEF RegisteredLinked
<1>3. ASSUME registered' = registered \cup {Top}, pool' = pool
      PROVE  RegisteredLinked'
  BY <1>3, TopLinked DEF RegisteredLinked
<1>4. CASE MinimizeStep
  BY <1>2, <1>3, <1>4, MinimizeEffect
<1>5. CASE FinishReturn
  <2>1. Top = RootId
    BY <1>5, PathNodes DEF FinishReturn, PathOpen
  <2>2. CASE Equivalent(RootId) = {}
    BY <1>3, <1>5, <2>1, <2>2 DEF FinishReturn
  <2>3. CASE Equivalent(RootId) # {}
    BY <1>2, <1>5, <2>3 DEF FinishReturn
  <2> QED
    BY <2>2, <2>3
<1> QED
  BY <1>2, <1>4, <1>5
     DEF Next, Step, AddRejected, AddStart, FinishStart, MinimizeReturn, ExtendStep, AddReturn, vars

LEMMA PathLinkedStep ==
    ASSUME TypeOK, PathOpen, PathLinked, [Next]_vars
    PROVE  PathLinked'
<1> USE PathNodes
<1>0. TypeOK' /\ DOMAIN path' = 1..Len(path')
  <2>1. TypeOK'
    BY TypeStep
  <2> QED
    BY <2>1 DEF TypeOK
<1>a. /\ Len(path) \in Nat \ {0}
      /\ \A k, l \in 1..Len(path) : k < l => path[k] < path[l] /\ path[k] # path[l]
  BY DEF PathOpen
<1>1. \A n \in registered : n \in registered'
  BY FrozenStep
<1> DEFINE Linked(i) ==
        \A j \in DOMAIN pool[path[i]].trans :
            \/ pool[path[i]].trans[j].child \in registered
            \/ /\ i < Len(path)
               /\ j = Len(pool[path[i]].trans)
               /\ pool[path[i]].trans[j].child = path[i + 1]
           Linked2(i) ==
        \A j \in DOMAIN pool'[path'[i]].trans :
            \/ pool'[path'[i]].trans[j].child \in registered'
            \/ /\ i < Len(path')
               /\ j = Len(pool'[path'[i]].trans)
               /\ pool'[path'[i]].trans[j].child = path'[i + 1]
<1>2. \A i \in 1..Len(path) : Linked(i)
  BY DEF PathLinked
<1>3. SUFFICES \A i \in 1..Len(path') : Linked2(i)
  BY <1>0 DEF PathLinked
<1>4. ASSUME path' = path, \A n \in 1..Len(pool) : pool'[n].trans = pool[n].trans
      PROVE  \A i \in 1..Len(path') : Linked2(i)
  BY <1>1, <1>2, <1>4
<1>5. CASE MinimizeStep
  <2>1. /\ Len(path) > 1
        /\ Len(path') = Len(path) - 1
        /\ \A i \in 1..(Len(path) - 1) : path'[i] = path[i]
    BY <1>5, MinimizeEffect
  <2> SUFFICES ASSUME NEW i \in 1..(Len(path) - 1) PROVE Linked2(i)
    BY <2>1
  <2>2. path'[i] = path[i] /\ i \in 1..Len(path) /\ path[i] \in 1..Len(pool)
    BY <2>1
  <2>3. CASE i < Len(path) - 1
    <3>1. path'[i + 1] = path[i + 1]
      <4>1. i + 1 \in 1..(Len(path) - 1)
        BY <1>a, <2>3
      <4> QED
        BY <2>1, <4>1
    <3>2. path[i] # Parent
      <4>1. Len(path) - 1 \in 1..Len(path) /\ i \in 1..Len(path)
        BY <1>a, <2>1
      <4> QED
        BY <1>a, <2>3, <4>1 DEF Parent
    <3>3. pool'[path[i]] = pool[path[i]]
      BY <1>5, <2>2, <3>2, MinimizeEffect
    <3> QED
      BY <1>1, <1>2, <2>1, <2>2, <2>3, <3>1, <3>3
  <2>4. CASE i = Len(path) - 1
    <3>1. path[i] = Parent /\ path[i + 1] = Top
      BY <2>4 DEF Parent
    <3>2. CASE pool' = pool /\ registered' = registered \cup {Top}
      BY <1>2, <2>2, <3>1, <3>2
    <3>3. CASE /\ Len(pool'[Parent].trans) = Len(pool[Parent].trans)
               /\ \A j \in 1..Len(pool[Parent].trans) :
                      \/ pool'[Parent].trans[j].child \in registered
                      \/ /\ j # Len(pool[Parent].trans)
                         /\ pool'[Parent].trans[j].child = pool[Parent].trans[j].child
      <4>1. DOMAIN pool'[Parent].trans = 1..Len(pool[Parent].trans)
        <5>1. Parent \in 1..Len(pool')
          BY <1>5, <2>2, <3>1, MinimizeEffect
        <5>2. pool'[Parent] \in Node
          BY <1>0, <5>1 DEF TypeOK
        <5> QED
          BY <3>3, <5>2 DEF Node
      <4> QED
        BY <1>1, <1>2, <2>2, <3>1, <3>3, <4>1
    <3> QED
      BY <1>5, <3>2, <3>3, MinimizeEffect
  <2>5. i < Len(path) - 1 \/ i = Len(path) - 1
    BY <1>a, PositionAbove
  <2> QED
    BY <2>3, <2>4, <2>5
<1>6. CASE ExtendStep
  <2>1. /\ Len(path') = Len(path) + 1
        /\ path'[Len(path) + 1] = Len(pool) + 1
        /\ \A i \in 1..Len(path) : path'[i] = path[i]
    BY <1>6, ExtendEffect
  <2> SUFFICES ASSUME NEW i \in 1..(Len(path) + 1) PROVE Linked2(i)
    BY <2>1
  <2>2. CASE i < Len(path)
    <3>1. path'[i] = path[i] /\ path'[i + 1] = path[i + 1] /\ path[i] # Top
      <4>1. i \in 1..Len(path) /\ i + 1 \in 1..Len(path) /\ Len(path) \in 1..Len(path)
        BY <1>a, <2>2
      <4> QED
        BY <1>a, <2>1, <2>2, <4>1
    <3>2. pool'[path[i]] = pool[path[i]]
      BY <1>6, <2>2, <3>1, ExtendEffect
    <3> QED
      BY <1>1, <1>2, <2>1, <2>2, <3>1, <3>2
  <2>3. CASE i = Len(path)
    <3>1. path'[i] = Top /\ path'[i + 1] = Len(pool) + 1 /\ i < Len(path')
      BY <2>1, <2>3
    <3> DEFINE t == pool[Top].trans
               e == [label |-> word[Len(path)], child |-> Len(pool) + 1]
               u == pool'[Top].trans
    <3>2. t \in Seq(Transition) /\ e \in Transition /\ (u = << >> \/ u = Append(t, e))
      BY <1>6, ExtendEffect
    <3>3. \A j \in 1..Len(t) : t[j].child \in registered
      BY <3>2, TopLinked
    <3>4. e.child = Len(pool) + 1
      OBVIOUS
    <3> HIDE DEF t, e, u
    <3>5. \A j \in DOMAIN u : u[j].child \in registered' \/ (j = Len(u) /\ u[j].child = Len(pool) + 1)
      <4>1. CASE u = << >>
        BY <4>1
      <4>2. CASE u = Append(t, e)
        BY <1>1, <3>2, <3>3, <3>4, <4>2, AppendProperties, LenProperties
      <4> QED
        BY <3>2, <4>1, <4>2
    <3> QED
      BY <3>1, <3>5 DEF u
  <2>4. CASE i = Len(path) + 1
    BY <1>6, <2>1, <2>4, ExtendEffect DEF EmptyNode
  <2>5. i < Len(path) \/ i = Len(path) \/ i = Len(path) + 1
    BY <1>a, Position
  <2> QED
    BY <2>2, <2>3, <2>4, <2>5
<1>7. CASE AddReturn
  BY <1>4, <1>7, ReturnEffect DEF AddReturn
<1> QED
  BY <1>4, <1>5, <1>6, <1>7
     DEF Next, Step, AddRejected, AddStart, FinishStart, MinimizeReturn, FinishReturn, vars

\* Every child of a canonical node, and of the node looked up next, is
\* canonical: the precondition find_or_insert documents.
THEOREM ChildrenCorrect == Spec => []ChildrenCanonical
<1> DEFINE Inv == TypeOK /\ PathOpen /\ PathLinked /\ RegisteredLinked
<1>1. Init => Inv
  BY TypeInit, PathOpenInit, LinkedInit
<1>2. Inv /\ [Next]_vars => Inv'
  BY TypeStep, PathOpenStep, PathLinkedStep, RegisteredLinkedStep
<1>3. Inv => ChildrenCanonical
  BY TopLinked DEF RegisteredLinked, ChildrenCanonical
<1> QED
  BY <1>1, <1>2, <1>3, PTL DEF Spec

----------------------------------------------------------------------------
(* Labels: each new transition goes behind the ones its node has.          *)

\* After the common prefix, a later word has labels left, the first of them
\* above the label the earlier word has there.
LEMMA NextLabelAbove ==
    ASSUME NEW u \in Seq(Nat), NEW w \in Seq(Nat), NEW k \in Nat,
           IsCommonPrefix(w, u, k), Precedes(u, w)
    PROVE  /\ k < Len(w)
           /\ k < Len(u) => u[k + 1] < w[k + 1]
<1>1. PICK d \in 0..Len(u) :
          /\ \A j \in 1..d : u[j] = w[j]
          /\ d < Len(w)
          /\ d < Len(u) => u[d + 1] < w[d + 1]
  BY DEF Precedes, AgreeUpTo
<1>2. /\ k <= Len(w) /\ k <= Len(u)
      /\ \A j \in 1..k : w[j] = u[j]
      /\ k < Len(w) /\ k < Len(u) => w[k + 1] # u[k + 1]
  BY DEF IsCommonPrefix, AgreeUpTo
<1>3. Len(u) \in Nat /\ Len(w) \in Nat
  OBVIOUS
<1>4. ~(d < k)
  <2> SUFFICES ASSUME d < k PROVE FALSE
    OBVIOUS
  <2>1. d + 1 \in 1..k /\ d + 1 \in 1..Len(u)
    BY <1>2, <1>3
  <2>2. u[d + 1] < w[d + 1] /\ w[d + 1] = u[d + 1] /\ u[d + 1] \in Nat
    BY <1>1, <1>2, <1>3, <2>1
  <2> QED
    BY <2>2
<1>5. ~(k < d)
  <2> SUFFICES ASSUME k < d PROVE FALSE
    OBVIOUS
  <2>1. k + 1 \in 1..d /\ k < Len(w) /\ k < Len(u)
    BY <1>1, <1>3
  <2> QED
    BY <1>1, <1>2, <2>1
<1>6. d = k
  BY <1>4, <1>5
<1> QED
  BY <1>1, <1>6

LEMMA LabelsKept ==
    ASSUME TypeOK, MinimizeStep
    PROVE  \A n \in 1..Len(pool) :
               /\ DOMAIN pool'[n].trans = DOMAIN pool[n].trans
               /\ \A j \in DOMAIN pool[n].trans : pool'[n].trans[j].label = pool[n].trans[j].label
<1> SUFFICES ASSUME NEW n \in 1..Len(pool)
             PROVE  /\ DOMAIN pool'[n].trans = DOMAIN pool[n].trans
                    /\ \A j \in DOMAIN pool[n].trans :
                           pool'[n].trans[j].label = pool[n].trans[j].label
  OBVIOUS
<1>1. DOMAIN pool[n].trans = 1..Len(pool[n].trans)
  BY PathNodes
<1>2. DOMAIN pool'[n].trans = 1..Len(pool'[n].trans)
  <2>1. TypeOK'
    BY TypeStep DEF Next, Step
  <2>2. n \in 1..Len(pool')
    BY MinimizeEffect
  <2>3. pool'[n] \in Node
    BY <2>1, <2>2 DEF TypeOK
  <2> QED
    BY <2>3 DEF Node
<1>3. CASE n = Parent
  BY <1>1, <1>2, <1>3, MinimizeEffect
<1>4. CASE n # Parent
  BY <1>4, MinimizeEffect
<1> QED
  BY <1>3, <1>4

\* The i-th node of the path, in minimize() and between calls, and in the loop
\* that extends the path.
Below(i) ==
    \A j \in DOMAIN pool[path[i]].trans :
        i <= Len(prev) /\ pool[path[i]].trans[j].label <= prev[i]

BelowWord(i) ==
    \A j \in DOMAIN pool[path[i]].trans :
        /\ i <= Len(word)
        /\ pool[path[i]].trans[j].label <= word[i]
        /\ i = Len(path) => pool[path[i]].trans[j].label < word[i]

InCommon == pc = "minimize" => InOrder(word) /\ IsCommonPrefix(word, prev, downTo)

LEMMA PathOrderedParts ==
    PathOrdered <=> /\ InCommon
                    /\ pc # "extend" => \A i \in DOMAIN path : Below(i)
                    /\ pc = "extend" => \A i \in DOMAIN path : BelowWord(i)
  BY DEF PathOrdered, Below, BelowWord, InCommon

LEMMA PathOrderedInit == Init => PathOrdered
  BY DEF Init, PathOrdered, RootId, EmptyNode

\* When minimize() returns to add(), every label on the path is at most the
\* label of the new word at its depth, and smaller at the path's end.
LEMMA ReturnOrdered ==
    ASSUME TypeOK, PathOrdered, MinimizeReturn
    PROVE  \A i \in 1..Len(path) : BelowWord(i)
<1> SUFFICES ASSUME NEW i \in 1..Len(path), NEW j \in DOMAIN pool[path[i]].trans
             PROVE  /\ i <= Len(word)
                    /\ pool[path[i]].trans[j].label <= word[i]
                    /\ i = Len(path) => pool[path[i]].trans[j].label < word[i]
  BY DEF BelowWord
<1> DEFINE c == pool[path[i]].trans[j].label
<1>1. /\ InOrder(word) /\ IsCommonPrefix(word, prev, downTo)
      /\ i <= Len(prev) /\ c <= prev[i]
      /\ Len(path) = downTo + 1
  <2>1. pc = "minimize" /\ Len(path) = downTo + 1
    BY DEF MinimizeReturn
  <2>2. Below(i) /\ InCommon
    BY <2>1, PathNodes, PathOrderedParts
  <2> QED
    BY <2>1, <2>2 DEF Below, InCommon
<1>2. /\ prev \in Seq(Nat) /\ word \in Seq(Nat) /\ downTo \in Nat
      /\ Len(prev) \in Nat /\ Len(word) \in Nat
      /\ c \in Nat
  <2>1. prev \in Seq(Nat) /\ word \in Seq(Nat)
    BY LabelsAssumption, SeqMonotonic DEF TypeOK
  <2>2. c \in Nat
    <3>1. pool[path[i]].trans \in Seq(Transition) /\ j \in 1..Len(pool[path[i]].trans)
      BY PathNodes
    <3>2. pool[path[i]].trans[j] \in Transition
      BY <3>1
    <3> QED
      BY <3>2, LabelsAssumption DEF Transition
  <2> QED
    BY <2>1, <2>2 DEF TypeOK
<1> HIDE DEF c
<1>3. prev # << >>
  BY <1>1, <1>2
<1>4. Precedes(prev, word)
  BY <1>1, <1>3 DEF InOrder
<1>5. /\ downTo < Len(word)
      /\ downTo < Len(prev) => prev[downTo + 1] < word[downTo + 1]
  BY <1>1, <1>2, <1>4, NextLabelAbove
<1>6. i \in 1..Len(prev) /\ i \in 1..Len(word) /\ prev[i] \in Nat /\ word[i] \in Nat
  <2>1. i \in 1..Len(prev) /\ i \in 1..Len(word)
    BY <1>1, <1>2, <1>5
  <2> QED
    BY <1>2, <2>1
<1>7. CASE i <= downTo
  <2>1. word[i] = prev[i]
    BY <1>1, <1>7 DEF IsCommonPrefix, AgreeUpTo
  <2>2. i # Len(path)
    BY <1>1, <1>2, <1>7
  <2> QED
    BY <1>1, <1>6, <2>1, <2>2 DEF c
<1>8. CASE i = downTo + 1
  <2>1. prev[i] < word[i]
    BY <1>2, <1>5, <1>6, <1>8
  <2>2. c <= prev[i]
    BY <1>1
  <2>3. c < word[i]
    BY <1>2, <1>6, <2>1, <2>2
  <2> QED
    BY <1>2, <1>6, <2>3 DEF c
<1>9. i <= downTo \/ i = downTo + 1
  BY <1>1, <1>2
<1> QED
  BY <1>7, <1>8, <1>9

LEMMA PathOrderedStep ==
    ASSUME TypeOK, PathOpen, PathOrdered, [Next]_vars
    PROVE  PathOrdered'
<1>0. TypeOK' /\ DOMAIN path' = 1..Len(path') /\ DOMAIN path = 1..Len(path)
  <2>1. TypeOK'
    BY TypeStep
  <2> QED
    BY <2>1 DEF TypeOK
<1>1. /\ InCommon
      /\ pc # "extend" => \A i \in 1..Len(path) : Below(i)
      /\ pc = "extend" => \A i \in 1..Len(path) : BelowWord(i)
  BY <1>0, PathOrderedParts
<1>2. SUFFICES /\ InCommon'
               /\ pc' # "extend" => \A i \in 1..Len(path') : Below(i)'
               /\ pc' = "extend" => \A i \in 1..Len(path') : BelowWord(i)'
  BY <1>0 DEF PathOrdered, Below, BelowWord, InCommon
<1>3. ASSUME UNCHANGED <<pool, path, prev>>, InCommon', pc # "extend", pc' # "extend"
      PROVE  /\ InCommon'
             /\ pc' # "extend" => \A i \in 1..Len(path') : Below(i)'
             /\ pc' = "extend" => \A i \in 1..Len(path') : BelowWord(i)'
  BY <1>1, <1>3 DEF Below
<1>4. ASSUME UNCHANGED <<pool, path, prev, pc, word, downTo>>
      PROVE  /\ InCommon'
             /\ pc' # "extend" => \A i \in 1..Len(path') : Below(i)'
             /\ pc' = "extend" => \A i \in 1..Len(path') : BelowWord(i)'
  BY <1>1, <1>4 DEF Below, BelowWord, InCommon, InOrder
<1>5. ASSUME NEW w \in Words, AddStart(w)
      PROVE  /\ InCommon' /\ UNCHANGED <<pool, path, prev>>
             /\ pc # "extend" /\ pc' # "extend"
  BY <1>5 DEF AddStart, InCommon, InOrder
<1>6. ASSUME FinishStart \/ FinishReturn
      PROVE  /\ InCommon' /\ UNCHANGED <<pool, path, prev>>
             /\ pc # "extend" /\ pc' # "extend"
  BY <1>6 DEF FinishStart, FinishReturn, InCommon
<1>7. CASE MinimizeStep
  <2>1. /\ InCommon' /\ prev' = prev /\ pc # "extend" /\ pc' # "extend"
    BY <1>1, <1>7 DEF MinimizeStep, InCommon, InOrder
  <2> SUFFICES ASSUME NEW i \in 1..Len(path') PROVE Below(i)'
    BY <2>1
  <2>2. i \in 1..Len(path) /\ path'[i] = path[i] /\ path[i] \in 1..Len(pool)
    BY <1>7, MinimizeEffect, PathNodes
  <2>3. Below(i)
    BY <1>1, <2>1, <2>2
  <2> QED
    BY <1>7, <2>1, <2>2, <2>3, LabelsKept DEF Below
<1>8. CASE MinimizeReturn
  <2>1. UNCHANGED <<pool, path, word>> /\ pc' = "extend"
    BY <1>8 DEF MinimizeReturn
  <2>2. \A i \in 1..Len(path) : BelowWord(i)
    BY <1>8, ReturnOrdered
  <2> QED
    BY <2>1, <2>2 DEF BelowWord, InCommon
<1>9. CASE ExtendStep
  <2>1. InCommon' /\ pc = "extend" /\ pc' = "extend" /\ word' = word /\ Len(path) <= Len(word)
    BY <1>9 DEF ExtendStep, InCommon
  <2>2. /\ Len(path) \in Nat \ {0}
        /\ Len(path') = Len(path) + 1
        /\ path'[Len(path) + 1] = Len(pool) + 1
        /\ \A i \in 1..Len(path) : path'[i] = path[i]
        /\ word[Len(path)] \in Nat
    <3>1. word[Len(path)] \in Labels
      BY <2>1, PathNodes DEF TypeOK
    <3> QED
      BY <1>9, <3>1, ExtendEffect, LabelsAssumption
  <2> SUFFICES ASSUME NEW i \in 1..(Len(path) + 1) PROVE BelowWord(i)'
    BY <2>1, <2>2
  <2>3. CASE i < Len(path)
    <3>1. i \in 1..Len(path) /\ path'[i] = path[i] /\ i # Len(path')
      BY <2>2, <2>3
    <3>2. path[i] # Top /\ path[i] \in 1..Len(pool)
      <4>1. path[i] < path[Len(path)]
        <5>1. \A k, l \in 1..Len(path) : k < l => path[k] < path[l]
          BY <1>0 DEF PathOpen
        <5>2. Len(path) \in 1..Len(path)
          BY <2>2
        <5> QED
          BY <2>3, <3>1, <5>1, <5>2
      <4> QED
        BY <3>1, <4>1, PathNodes
    <3>3. pool'[path[i]] = pool[path[i]]
      BY <1>9, <3>2, ExtendEffect
    <3>4. BelowWord(i)
      BY <1>1, <2>1, <3>1
    <3> QED
      BY <2>1, <3>1, <3>3, <3>4 DEF BelowWord
  <2>4. CASE i = Len(path)
    <3> DEFINE t == pool[Top].trans
               c == word[Len(path)]
               e == [label |-> c, child |-> Len(pool) + 1]
               u == pool'[Top].trans
    <3>1. t \in Seq(Transition) /\ e \in Transition /\ (u = << >> \/ u = Append(t, e))
      BY <1>9, ExtendEffect
    <3>2. \A j \in 1..Len(t) : t[j].label <= c
      <4>1. BelowWord(Len(path))
        BY <1>1, <2>1, <2>2
      <4> QED
        BY <4>1, PathNodes DEF BelowWord
    <3>3. e.label = c
      OBVIOUS
    <3> HIDE DEF t, e, u
    <3>4. \A j \in DOMAIN u : u[j].label <= c
      <4>1. CASE u = << >>
        BY <4>1
      <4>2. CASE u = Append(t, e)
        BY <2>2, <3>1, <3>2, <3>3, <4>2, AppendProperties, LenProperties
      <4> QED
        BY <3>1, <4>1, <4>2
    <3>5. path'[i] = Top /\ i # Len(path') /\ i <= Len(word)
      BY <2>1, <2>2, <2>4, PathNodes
    <3> QED
      BY <2>1, <2>4, <3>4, <3>5 DEF BelowWord, u
  <2>5. CASE i = Len(path) + 1
    <3>1. pool'[path'[i]].trans = << >>
      BY <1>9, <2>2, <2>5, ExtendEffect DEF EmptyNode
    <3> QED
      BY <3>1 DEF BelowWord
  <2> QED
    BY <2>2, <2>3, <2>4, <2>5, Position
<1>10. CASE AddReturn
  <2>1. /\ InCommon' /\ path' = path /\ prev' = word
        /\ pc = "extend" /\ pc' = "idle"
    BY <1>10 DEF AddReturn, InCommon
  <2> SUFFICES ASSUME NEW i \in 1..Len(path) PROVE Below(i)'
    BY <2>1
  <2>2. BelowWord(i) /\ path[i] \in 1..Len(pool)
    BY <1>1, <2>1, PathNodes
  <2>3. pool'[path[i]].trans = pool[path[i]].trans
    BY <1>10, <2>2, ReturnEffect
  <2> QED
    BY <2>1, <2>2, <2>3 DEF Below, BelowWord
<1> QED
  BY <1>3, <1>4, <1>5, <1>6, <1>7, <1>8, <1>9, <1>10 DEF Next, Step, AddRejected, vars

LEMMA LabelsStep ==
    ASSUME TypeOK, PathOrdered, LabelsSorted, [Next]_vars
    PROVE  LabelsSorted'
<1>0. TypeOK'
  BY TypeStep
<1>1. ASSUME Len(pool') = Len(pool),
             \A n \in 1..Len(pool) :
                 /\ DOMAIN pool'[n].trans = DOMAIN pool[n].trans
                 /\ \A j \in DOMAIN pool[n].trans : pool'[n].trans[j].label = pool[n].trans[j].label
      PROVE  LabelsSorted'
  <2>1. DOMAIN pool' = 1..Len(pool) /\ DOMAIN pool = 1..Len(pool)
    BY <1>0, <1>1 DEF TypeOK
  <2> QED
    BY <1>1, <2>1 DEF LabelsSorted
<1>2. CASE MinimizeStep
  BY <1>1, <1>2, LabelsKept, MinimizeEffect
<1>3. CASE AddReturn
  BY <1>1, <1>3, ReturnEffect
<1>4. CASE ExtendStep
  <2> DEFINE t == pool[Top].trans
             c == word[Len(path)]
             e == [label |-> c, child |-> Len(pool) + 1]
             u == pool'[Top].trans
             Sorted(s) == \A i, j \in DOMAIN s : i < j => s[i].label < s[j].label
  <2>1. t \in Seq(Transition) /\ e \in Transition /\ (u = << >> \/ u = Append(t, e))
    BY <1>4, ExtendEffect
  <2>2. \A j \in 1..Len(t) : t[j].label < c
    BY <1>4, PathNodes DEF PathOrdered, ExtendStep
  <2>3. e.label = c /\ Sorted(t)
    BY PathNodes DEF LabelsSorted
  <2> HIDE DEF t, e, u
  <2>4. Sorted(u)
    <3>1. CASE u = << >>
      BY <3>1
    <3>2. CASE u = Append(t, e)
      <4>1. /\ Len(t) \in Nat /\ DOMAIN t = 1..Len(t)
            /\ DOMAIN u = 1..(Len(t) + 1)
            /\ u[Len(t) + 1] = e
            /\ \A j \in 1..Len(t) : u[j] = t[j]
        BY <2>1, <3>2, AppendProperties, LenProperties
      <4> SUFFICES ASSUME NEW i \in 1..(Len(t) + 1), NEW j \in 1..(Len(t) + 1), i < j
                   PROVE  u[i].label < u[j].label
        BY <4>1
      <4>2. i \in 1..Len(t)
        BY <4>1
      <4>3. CASE j = Len(t) + 1
        BY <2>2, <2>3, <4>1, <4>2, <4>3
      <4>4. CASE j \in 1..Len(t)
        BY <2>3, <4>1, <4>2, <4>4
      <4> QED
        BY <4>1, <4>3, <4>4, Position
    <3> QED
      BY <2>1, <3>1, <3>2
  <2>5. /\ DOMAIN pool' = 1..(Len(pool) + 1)
        /\ Len(pool) \in Nat
        /\ pool'[Len(pool) + 1].trans = << >>
        /\ \A n \in 1..Len(pool) : n # Top => pool'[n] = pool[n]
        /\ \A n \in 1..Len(pool) : Sorted(pool[n].trans)
    <3>1. DOMAIN pool' = 1..Len(pool')
      BY <1>0 DEF TypeOK
    <3>2. \A n \in 1..Len(pool) : Sorted(pool[n].trans)
      BY PathNodes DEF LabelsSorted
    <3>3. pool'[Len(pool) + 1].trans = << >>
      BY <1>4, ExtendEffect DEF EmptyNode
    <3> QED
      BY <1>4, <3>1, <3>2, <3>3, ExtendEffect
  <2> SUFFICES ASSUME NEW n \in 1..(Len(pool) + 1) PROVE Sorted(pool'[n].trans)
    BY <2>5 DEF LabelsSorted
  <2>6. CASE n = Len(pool) + 1
    BY <2>5, <2>6
  <2>7. CASE n = Top
    BY <2>4, <2>7 DEF u
  <2>8. CASE n \in 1..Len(pool) /\ n # Top
    BY <2>5, <2>8
  <2> QED
    BY <2>5, <2>6, <2>7, <2>8, Position
<1>5. CASE UNCHANGED pool
  BY <1>5 DEF LabelsSorted
<1> QED
  BY <1>2, <1>3, <1>4, <1>5
     DEF Next, Step, AddRejected, AddStart, FinishStart, MinimizeReturn, FinishReturn, vars

\* The invariant of the path: what relates temp_path_, the previous word and
\* the state map between any two steps.
THEOREM PathCorrect == Spec => []PathInv
<1> DEFINE Inv == TypeOK /\ PathInv
<1>1. Init => Inv
  BY TypeInit, PathOpenInit, LinkedInit, PathOrderedInit DEF PathInv
<1>2. Inv /\ [Next]_vars => Inv'
  BY TypeStep, PathOpenStep, PathLinkedStep, PathOrderedStep DEF PathInv
<1>3. Inv => PathInv
  OBVIOUS
<1> QED
  BY <1>1, <1>2, <1>3, PTL DEF Spec

\* The order check of add() is all that add_child, which only appends, needs to
\* keep the transitions of every node in strictly increasing label order.
THEOREM LabelsCorrect == Spec => []LabelsSorted
<1> DEFINE Inv == TypeOK /\ PathInv /\ LabelsSorted
<1>1. Init => Inv
  BY TypeInit, PathOpenInit, LinkedInit, PathOrderedInit
     DEF PathInv, Init, LabelsSorted, EmptyNode
<1>2. Inv /\ [Next]_vars => Inv'
  BY TypeStep, PathOpenStep, PathLinkedStep, PathOrderedStep, LabelsStep DEF PathInv
<1>3. Inv => LabelsSorted
  OBVIOUS
<1> QED
  BY <1>1, <1>2, <1>3, PTL DEF Spec

----------------------------------------------------------------------------
(* Runs as ways through the pool: the recursion of Runs, unrolled.         *)

Children(P, n) == {P[n].trans[j].child : j \in 1..Len(P[n].trans)}

Leads(P, n, c, m) == \E j \in 1..Len(P[n].trans) : P[n].trans[j].label = c /\ P[n].trans[j].child = m

\* p are the nodes on a way from node n that spells u.
IsWay(P, n, u, p) ==
    /\ u \in Seq(Labels)
    /\ p \in Seq(1..Len(P))
    /\ Len(p) = Len(u) + 1
    /\ p[1] = n
    /\ \A i \in 1..Len(u) : Leads(P, p[i], u[i], p[i + 1])

IsPool(P) ==
    /\ P \in Seq(Node)
    /\ \A n \in 1..Len(P) : Children(P, n) \subseteq 1..Len(P)

\* m is reached from n with the k labels of u.
Reaches(P, n, k, u, m) == \E p : IsWay(P, n, u, p) /\ Len(u) = k /\ p[k + 1] = m

Reached(P, n, k) == {r \in Seq(Labels) \X (1..Len(P)) : Reaches(P, n, k, r[1], r[2])}

LEMMA PoolNodes ==
    ASSUME NEW P, IsPool(P), NEW n \in 1..Len(P)
    PROVE  /\ Len(P) \in Nat
           /\ P[n] \in Node
           /\ P[n].trans \in Seq(Transition)
           /\ Len(P[n].trans) \in Nat
           /\ P[n].final \in BOOLEAN
           /\ \A j \in 1..Len(P[n].trans) :
                  /\ P[n].trans[j] \in Transition
                  /\ P[n].trans[j].label \in Labels
                  /\ P[n].trans[j].child \in 1..Len(P)
<1>1. P[n] \in Node /\ Len(P) \in Nat
  BY DEF IsPool
<1>2. P[n].trans \in Seq(Transition) /\ P[n].final \in BOOLEAN
  BY <1>1 DEF Node
<1>3. \A j \in 1..Len(P[n].trans) : P[n].trans[j] \in Transition
  BY <1>2
<1> QED
  BY <1>1, <1>2, <1>3 DEF Transition, IsPool, Children

\* A way of no label, and one of a label more.
LEMMA ReachedAtOnce ==
    ASSUME NEW P, IsPool(P), NEW n \in 1..Len(P)
    PROVE  Reached(P, n, 0) = {<< << >>, n>>}
<1>1. ASSUME NEW r \in Reached(P, n, 0)
      PROVE  r = << << >>, n>>
  <2>1. PICK p : IsWay(P, n, r[1], p) /\ Len(r[1]) = 0 /\ p[1] = r[2]
    BY DEF Reached, Reaches
  <2>2. r \in Seq(Labels) \X (1..Len(P))
    BY DEF Reached
  <2>3. r[1] \in Seq(Labels) /\ r = <<r[1], r[2]>>
    BY <2>2
  <2>4. r[1] = << >>
    BY <2>1, <2>3
  <2> QED
    BY <2>1, <2>3, <2>4 DEF IsWay
<1>2. << << >>, n>> \in Reached(P, n, 0)
  <2>1. <<n>> \in Seq(1..Len(P)) /\ << >> \in Seq(Labels) /\ Len(<<n>>) = 1 /\ Len(<< >>) = 0
    OBVIOUS
  <2>2. IsWay(P, n, << >>, <<n>>)
    BY <2>1 DEF IsWay
  <2>3. Reaches(P, n, 0, << >>, n)
    BY <2>1, <2>2 DEF Reaches
  <2> QED
    BY <2>1, <2>3 DEF Reached
<1> QED
  BY <1>1, <1>2

LEMMA WayExtended ==
    ASSUME NEW P, IsPool(P), NEW n \in 1..Len(P), NEW k \in Nat, NEW u, NEW m \in 1..Len(P),
           Reaches(P, n, k, u, m), NEW c \in Labels, NEW l \in 1..Len(P), Leads(P, m, c, l)
    PROVE  Reaches(P, n, k + 1, Append(u, c), l)
<1>1. PICK p : IsWay(P, n, u, p) /\ Len(u) = k /\ p[k + 1] = m
  BY DEF Reaches
<1> DEFINE v == Append(u, c)
           q == Append(p, l)
<1>2. /\ u \in Seq(Labels) /\ p \in Seq(1..Len(P)) /\ Len(p) = k + 1 /\ p[1] = n
      /\ \A i \in 1..k : Leads(P, p[i], u[i], p[i + 1])
  BY <1>1 DEF IsWay
<1>3. /\ v \in Seq(Labels) /\ Len(v) = k + 1 /\ v[k + 1] = c /\ \A i \in 1..k : v[i] = u[i]
      /\ q \in Seq(1..Len(P)) /\ Len(q) = k + 2 /\ q[k + 2] = l /\ \A i \in 1..(k + 1) : q[i] = p[i]
  BY <1>1, <1>2
<1> HIDE DEF v, q
<1>4. ASSUME NEW i \in 1..(k + 1) PROVE Leads(P, q[i], v[i], q[i + 1])
  <2>1. CASE i = k + 1
    BY <1>1, <1>3, <2>1
  <2>2. CASE i # k + 1
    <3>1. i \in 1..k /\ i + 1 \in 1..(k + 1) /\ i \in 1..(k + 1)
      BY <2>2
    <3> QED
      BY <1>2, <1>3, <3>1
  <2> QED
    BY <2>1, <2>2
<1>5. 1 \in 1..(k + 1)
  OBVIOUS
<1>6. IsWay(P, n, v, q)
  BY <1>2, <1>3, <1>4, <1>5 DEF IsWay
<1> QED
  BY <1>3, <1>6 DEF Reaches, v

ReachesByLast(P, n, k, v, l) ==
    \E u \in Seq(Labels), c \in Labels, m \in 1..Len(P) :
        Reaches(P, n, k, u, m) /\ Leads(P, m, c, l) /\ v = Append(u, c)

LEMMA WayShortened ==
    ASSUME NEW P, IsPool(P), NEW n \in 1..Len(P), NEW k \in Nat, NEW v, NEW l,
           Reaches(P, n, k + 1, v, l)
    PROVE  ReachesByLast(P, n, k, v, l)
<1>1. PICK q : IsWay(P, n, v, q) /\ Len(v) = k + 1 /\ q[k + 2] = l
  BY DEF Reaches
<1>2. /\ v \in Seq(Labels) /\ q \in Seq(1..Len(P)) /\ Len(q) = k + 2 /\ q[1] = n
      /\ \A i \in 1..(k + 1) : Leads(P, q[i], v[i], q[i + 1])
  BY <1>1 DEF IsWay
<1> DEFINE u == SubSeq(v, 1, k)
           p == SubSeq(q, 1, k + 1)
<1>3. /\ u \in Seq(Labels) /\ Len(u) = k /\ \A i \in 1..k : u[i] = v[i]
  BY <1>1, <1>2
<1>4. /\ p \in Seq(1..Len(P)) /\ Len(p) = k + 1 /\ \A i \in 1..(k + 1) : p[i] = q[i]
  BY <1>1, <1>2
<1>5. v[k + 1] \in Labels /\ q[k + 1] \in 1..Len(P)
  BY <1>1, <1>2
<1>6. v = Append(u, v[k + 1])
  BY <1>1, <1>2
<1> HIDE DEF u, p
<1>7. Reaches(P, n, k, u, q[k + 1])
  <2>1. \A i \in 1..k : i \in 1..(k + 1) /\ i + 1 \in 1..(k + 1)
    OBVIOUS
  <2>2. k + 1 \in 1..(k + 1) /\ 1 \in 1..(k + 1)
    OBVIOUS
  <2> QED
    BY <1>2, <1>3, <1>4, <2>1, <2>2 DEF Reaches, IsWay
<1>8. Leads(P, q[k + 1], v[k + 1], l)
  BY <1>1, <1>2
<1> QED
  BY <1>3, <1>5, <1>6, <1>7, <1>8 DEF ReachesByLast

\* Runs of one label more.
Longer(P, r) == {<<Append(r[1], t.label), t.child>> : t \in Range(P[r[2]].trans)}

LEMMA ReachedFurther ==
    ASSUME NEW P, IsPool(P), NEW n \in 1..Len(P), NEW k \in Nat
    PROVE  Reached(P, n, k + 1) =
               UNION {Longer(P, r) : r \in Reached(P, n, k)}
<1> DEFINE S == UNION {Longer(P, r) : r \in Reached(P, n, k)}
<1> HIDE DEF S
<1>1. ASSUME NEW s \in Reached(P, n, k + 1) PROVE s \in S
  <2>1. PICK v \in Seq(Labels), l \in 1..Len(P) : s = <<v, l>> /\ Reaches(P, n, k + 1, v, l)
    BY DEF Reached
  <2>2. PICK u \in Seq(Labels), c \in Labels, m \in 1..Len(P) :
            Reaches(P, n, k, u, m) /\ Leads(P, m, c, l) /\ v = Append(u, c)
    <3>1. ReachesByLast(P, n, k, v, l)
      BY <2>1, WayShortened
    <3> QED
      BY <3>1 DEF ReachesByLast
  <2>3. PICK j \in 1..Len(P[m].trans) : P[m].trans[j].label = c /\ P[m].trans[j].child = l
    BY <2>2 DEF Leads
  <2>4. <<u, m>> \in Reached(P, n, k)
    BY <2>2 DEF Reached
  <2>5. P[m].trans[j] \in Range(P[m].trans)
    BY PoolNodes DEF Range
  <2>6. s = <<Append(u, P[m].trans[j].label), P[m].trans[j].child>>
    BY <2>1, <2>2, <2>3
  <2>7. s \in Longer(P, <<u, m>>)
    BY <2>5, <2>6 DEF Longer
  <2> QED
    BY <2>4, <2>7 DEF S
<1>2. ASSUME NEW s \in S PROVE s \in Reached(P, n, k + 1)
  <2>1. PICK r \in Reached(P, n, k) : s \in Longer(P, r)
    BY DEF S
  <2>2. PICK u \in Seq(Labels), m \in 1..Len(P) : r = <<u, m>> /\ Reaches(P, n, k, u, m)
    BY DEF Reached
  <2>3. PICK t \in Range(P[m].trans) : s = <<Append(u, t.label), t.child>>
    BY <2>1, <2>2 DEF Longer
  <2>4. PICK j \in 1..Len(P[m].trans) : t = P[m].trans[j]
    <3>1. DOMAIN P[m].trans = 1..Len(P[m].trans)
      BY PoolNodes
    <3> QED
      BY <3>1 DEF Range
  <2>5. t.label \in Labels /\ t.child \in 1..Len(P) /\ Leads(P, m, t.label, t.child)
    BY <2>4, PoolNodes DEF Leads
  <2>6. Reaches(P, n, k + 1, Append(u, t.label), t.child)
    BY <2>2, <2>5, WayExtended
  <2>7. Append(u, t.label) \in Seq(Labels)
    BY <2>5
  <2> QED
    BY <2>3, <2>5, <2>6, <2>7 DEF Reached
<1> QED
  BY <1>1, <1>2 DEF S

\* Runs is what the ways reach.
LEMMA RunsReach ==
    ASSUME IsPool(pool), NEW n \in 1..Len(pool), NEW k \in Nat
    PROVE  Runs(n, k) = Reached(pool, n, k)
<1> DEFINE Further(X) == UNION {Longer(pool, r) : r \in X}
           Is(R) == R = [i \in 0..k |-> IF i = 0 THEN {<< << >>, n>>} ELSE Further(R[i - 1])]
           R == CHOOSE R : Is(R)
           f == [i \in 0..k |-> Reached(pool, n, i)]
<1>1. Runs(n, k) = R[k]
  BY DEF Runs, Longer
<1>2. Reached(pool, n, 0) = {<< << >>, n>>}
  BY ReachedAtOnce
<1>3. \A i \in 1..k : Reached(pool, n, i) = Further(Reached(pool, n, i - 1))
  <2> SUFFICES ASSUME NEW i \in 1..k
               PROVE  Reached(pool, n, i) = Further(Reached(pool, n, i - 1))
    OBVIOUS
  <2> DEFINE j == i - 1
  <2>1. j \in Nat /\ i = j + 1
    OBVIOUS
  <2> HIDE DEF j
  <2>2. Reached(pool, n, j + 1) = Further(Reached(pool, n, j))
    BY <2>1, ReachedFurther
  <2> QED
    BY <2>1, <2>2 DEF j
<1> HIDE DEF Further
<1>4. \A i \in 0..k : f[i] = IF i = 0 THEN {<< << >>, n>>} ELSE Further(f[i - 1])
  <2> SUFFICES ASSUME NEW i \in 0..k
               PROVE  f[i] = IF i = 0 THEN {<< << >>, n>>} ELSE Further(f[i - 1])
    OBVIOUS
  <2>1. i # 0 => i \in 1..k /\ i - 1 \in 0..k
    OBVIOUS
  <2> QED
    BY <1>2, <1>3, <2>1
<1>5. Is(f)
  BY <1>4
<1>6. Is(R)
  <2> HIDE DEF Is
  <2> QED
    BY <1>5
<1>7. \A i \in 0..k : R[i] = IF i = 0 THEN {<< << >>, n>>} ELSE Further(R[i - 1])
  BY <1>6
<1> HIDE DEF R, f
<1> DEFINE T == {i \in 0..k : R[i] # f[i]}
<1>8. T = {}
  <2> SUFFICES ASSUME T # {} PROVE FALSE
    OBVIOUS
  <2>1. PICK i \in T : \A j \in T : i <= j
    <3>1. T \in SUBSET Nat
      OBVIOUS
    <3> HIDE DEF T
    <3> QED
      BY <3>1, Least
  <2>2. i \in 0..k /\ R[i] # f[i]
    OBVIOUS
  <2>3. i # 0
    BY <1>4, <1>7, <2>2
  <2>4. i - 1 \in 0..k /\ ~(i <= i - 1)
    BY <2>2, <2>3
  <2>5. R[i - 1] = f[i - 1]
    BY <2>1, <2>4
  <2> QED
    BY <1>4, <1>7, <2>2, <2>3, <2>5
<1>9. R[k] = f[k]
  BY <1>8
<1> QED
  BY <1>1, <1>9 DEF f

\* The words that the pool accepts from the root.
Accepts(P, u) == \E p : IsWay(P, RootId, u, p) /\ P[p[Len(u) + 1]].final

Accepted(P) == {u \in Seq(Labels) : Accepts(P, u)}

AcceptedBy(P) == {u \in Accepted(P) : Len(u) <= MaxLength + 1}

LEMMA LanguageAccepted ==
    IsPool(pool) /\ pool # << >> => Language = AcceptedBy(pool)
<1> SUFFICES ASSUME IsPool(pool), pool # << >> PROVE Language = AcceptedBy(pool)
  OBVIOUS
<1>1. RootId \in 1..Len(pool) /\ MaxLength \in Nat
  BY MaxLengthAssumption DEF IsPool, RootId
<1>2. Language = {r[1] : r \in {q \in AllRuns(RootId) : pool[q[2]].final}}
  BY DEF Language, RightLanguage
<1>3. \A r : r \in AllRuns(RootId) <=> \E k \in 0..(MaxLength + 1) : r \in Reached(pool, RootId, k)
  <2>1. \A k \in 0..(MaxLength + 1) : Runs(RootId, k) = Reached(pool, RootId, k)
    BY <1>1, RunsReach
  <2> QED
    BY <2>1 DEF AllRuns
<1>4. ASSUME NEW u \in Language PROVE u \in AcceptedBy(pool)
  <2>1. PICK r \in AllRuns(RootId) : u = r[1] /\ pool[r[2]].final
    BY <1>2
  <2>2. PICK k \in 0..(MaxLength + 1) : r \in Reached(pool, RootId, k)
    BY <1>3
  <2>3. PICK m \in 1..Len(pool) : r = <<u, m>> /\ u \in Seq(Labels) /\ Reaches(pool, RootId, k, u, m)
    BY <2>1, <2>2 DEF Reached
  <2>4. pool[m].final
    BY <2>1, <2>3
  <2>5. PICK p : IsWay(pool, RootId, u, p) /\ Len(u) = k /\ p[k + 1] = m
    BY <2>3 DEF Reaches
  <2>6. Accepts(pool, u)
    BY <2>4, <2>5 DEF Accepts
  <2> QED
    BY <2>2, <2>3, <2>5, <2>6 DEF AcceptedBy, Accepted
<1>5. ASSUME NEW u \in AcceptedBy(pool) PROVE u \in Language
  <2>1. u \in Seq(Labels) /\ Len(u) \in 0..(MaxLength + 1)
    BY <1>1 DEF AcceptedBy, Accepted
  <2>2. PICK p : IsWay(pool, RootId, u, p) /\ pool[p[Len(u) + 1]].final
    BY DEF AcceptedBy, Accepted, Accepts
  <2> DEFINE m == p[Len(u) + 1]
  <2>3. m \in 1..Len(pool)
    BY <2>1, <2>2 DEF IsWay
  <2>4. Reaches(pool, RootId, Len(u), u, m) /\ pool[m].final
    BY <2>2 DEF Reaches
  <2> HIDE DEF m
  <2>5. <<u, m>> \in Reached(pool, RootId, Len(u))
    BY <2>1, <2>3, <2>4 DEF Reached
  <2>6. <<u, m>> \in AllRuns(RootId)
    BY <1>3, <2>1, <2>5
  <2>7. <<u, m>> \in {q \in AllRuns(RootId) : pool[q[2]].final}
    BY <2>4, <2>6
  <2>8. <<u, m>>[1] = u
    OBVIOUS
  <2> QED
    BY <1>2, <2>7, <2>8
<1> QED
  BY <1>4, <1>5

----------------------------------------------------------------------------
(* The path is the only way to the nodes on it.                            *)

\* Nodes that are not on the path, the ones that minimize() replaced among
\* them, have canonical children only.
OffPathLinked ==
    \A n \in 1..Len(pool) :
        (\A i \in 1..Len(path) : path[i] # n) => Children(pool, n) \subseteq registered

\* The word whose nodes the path holds.
Spelled == IF pc = "extend" THEN word ELSE prev

LastIs(P, n, c, m) ==
    LET k == Len(P[n].trans)
    IN  k > 0 /\ P[n].trans[k].label = c /\ P[n].trans[k].child = m

\* The last transitions of the nodes of the path spell a prefix of that word,
\* and between calls the whole word.
PathSpells ==
    /\ Len(path) <= Len(Spelled) + 1
    /\ pc = "idle" /\ ~finished => Len(path) = Len(prev) + 1
    /\ \A i \in 1..(Len(path) - 1) : LastIs(pool, path[i], Spelled[i], path[i + 1])
    /\ pc \in {"minimize", "extend"} => word \in Words /\ InOrder(word)

\* No node can have so many transitions that its count wraps: in the code,
\* words that leave out one of the 256 bytes.
CountSuffices == IsFiniteSet(Labels) /\ Cardinality(Labels) < CountMod

BuildInv ==
    TypeOK /\ PathInv /\ RegisteredLinked /\ LabelsSorted /\ OffPathLinked /\ PathSpells

LEMMA BuildInvInit == Init => BuildInv
<1> SUFFICES ASSUME Init PROVE BuildInv
  OBVIOUS
<1>1. TypeOK /\ PathInv /\ RegisteredLinked
  BY TypeInit, PathOpenInit, LinkedInit, PathOrderedInit DEF PathInv
<1>2. Len(pool) = 1 /\ pool[1].trans = << >> /\ Len(path) = 1 /\ Len(prev) = 0
  BY DEF Init, EmptyNode
<1>3. LabelsSorted /\ OffPathLinked
  BY <1>1, <1>2, PathNodes DEF LabelsSorted, OffPathLinked, Children
<1>4. pc = "idle"
  BY DEF Init
<1>5. PathSpells
  BY <1>2, <1>4 DEF PathSpells, Spelled
<1> QED
  BY <1>1, <1>3, <1>5 DEF BuildInv

\* A node on the path has canonical children but for the next node on it.
LEMMA ChildOnPath ==
    ASSUME TypeOK, PathOpen, PathLinked, PathSpells, NEW i \in 1..Len(path),
           NEW c \in Labels, NEW m, Leads(pool, path[i], c, m)
    PROVE  m \in registered \/ (i < Len(path) /\ m = path[i + 1] /\ c = Spelled[i])
<1>1. /\ path[i] \in 1..Len(pool) /\ DOMAIN path = 1..Len(path)
      /\ DOMAIN pool[path[i]].trans = 1..Len(pool[path[i]].trans)
      /\ Len(path) \in Nat
  BY PathNodes
<1>2. PICK j \in 1..Len(pool[path[i]].trans) :
          pool[path[i]].trans[j].label = c /\ pool[path[i]].trans[j].child = m
  BY DEF Leads
<1>3. \/ m \in registered
      \/ i < Len(path) /\ j = Len(pool[path[i]].trans) /\ m = path[i + 1]
  BY <1>1, <1>2 DEF PathLinked
<1>4. i < Len(path) => LastIs(pool, path[i], Spelled[i], path[i + 1])
  <2>1. i < Len(path) => i \in 1..(Len(path) - 1)
    BY <1>1
  <2>2. \A k \in 1..(Len(path) - 1) : LastIs(pool, path[k], Spelled[k], path[k + 1])
    BY DEF PathSpells
  <2> QED
    BY <2>1, <2>2
<1> QED
  BY <1>2, <1>3, <1>4 DEF LastIs

LEMMA ChildOfRegistered ==
    ASSUME TypeOK, RegisteredLinked, NEW n \in registered, NEW c, NEW m, Leads(pool, n, c, m)
    PROVE  m \in registered
  BY PathNodes DEF RegisteredLinked, Leads, TypeOK

LEMMA PoolIsPool == BuildInv => IsPool(pool) /\ pool # << >> /\ RootId \in 1..Len(pool)
<1> SUFFICES ASSUME BuildInv PROVE IsPool(pool) /\ pool # << >> /\ RootId \in 1..Len(pool)
  OBVIOUS
<1> USE DEF BuildInv, PathInv
<1>1. pool \in Seq(Node) /\ registered \subseteq 1..Len(pool) /\ Len(pool) \in Nat
  BY DEF TypeOK
<1>2. RootId \in 1..Len(pool)
  BY PathNodes DEF PathOpen
<1>3. ASSUME NEW n \in 1..Len(pool) PROVE Children(pool, n) \subseteq 1..Len(pool)
  <2>1. CASE \A i \in 1..Len(path) : path[i] # n
    BY <1>1, <2>1 DEF OffPathLinked
  <2>2. ASSUME NEW i \in 1..Len(path), path[i] = n
        PROVE  Children(pool, n) \subseteq 1..Len(pool)
    <3> SUFFICES ASSUME NEW j \in 1..Len(pool[n].trans) PROVE pool[n].trans[j].child \in 1..Len(pool)
      BY DEF Children
    <3>1. \/ pool[n].trans[j].child \in registered
          \/ i < Len(path) /\ pool[n].trans[j].child = path[i + 1]
      BY <2>2, PathNodes DEF PathLinked
    <3>2. i < Len(path) => i + 1 \in 1..Len(path)
      BY PathNodes
    <3> QED
      BY <1>1, <3>1, <3>2, PathNodes
  <2> QED
    BY <2>1, <2>2
<1> QED
  BY <1>1, <1>2, <1>3 DEF IsPool

\* The first i nodes of a way are those of the path, and it spells the word there.
Follows(u, p, i) ==
    /\ i <= Len(path)
    /\ \A j \in 1..i : p[j] = path[j]
    /\ \A j \in 1..(i - 1) : u[j] = Spelled[j]

\* A way from the root keeps to the path until it enters the canonical part,
\* which it does not leave.
LEMMA WayFromRoot ==
    ASSUME BuildInv, NEW u, NEW p, IsWay(pool, RootId, u, p), NEW i \in 1..Len(p)
    PROVE  p[i] \in registered \/ Follows(u, p, i)
<1> USE DEF BuildInv, PathInv
<1>1. /\ u \in Seq(Labels) /\ p \in Seq(1..Len(pool)) /\ Len(p) = Len(u) + 1 /\ p[1] = RootId
      /\ \A k \in 1..Len(u) : Leads(pool, p[k], u[k], p[k + 1])
      /\ Len(u) \in Nat /\ Len(p) \in Nat
  BY DEF IsWay
<1> DEFINE Good(k) == p[k] \in registered \/ Follows(u, p, k)
           T == {k \in 1..Len(p) : ~Good(k)}
<1> SUFFICES ASSUME T # {} PROVE FALSE
  OBVIOUS
<1>2. PICK k \in T : \A l \in T : k <= l
  <2>1. T \in SUBSET Nat
    BY <1>1
  <2> HIDE DEF T
  <2> QED
    BY <2>1, Least
<1>3. k \in 1..Len(p) /\ ~Good(k)
  OBVIOUS
<1>4. CASE k = 1
  <2>1. Len(path) \in Nat \ {0} /\ path[1] = RootId
    BY PathNodes DEF PathOpen
  <2>2. Follows(u, p, 1)
    BY <1>1, <2>1 DEF Follows
  <2> QED
    BY <1>3, <1>4, <2>2
<1>5. CASE k # 1
  <2> DEFINE h == k - 1
  <2>1. h \in 1..Len(p) /\ h \in 1..Len(u) /\ k = h + 1 /\ ~(k <= h)
    BY <1>1, <1>3, <1>5
  <2>2. Good(h)
    BY <1>2, <2>1
  <2> HIDE DEF h
  <2>3. Leads(pool, p[h], u[h], p[k]) /\ u[h] \in Labels
    BY <1>1, <2>1
  <2>4. CASE p[h] \in registered
    BY <1>3, <2>3, <2>4, ChildOfRegistered
  <2>5. CASE Follows(u, p, h)
    <3>1. h \in 1..Len(path) /\ p[h] = path[h]
      BY <2>1, <2>5, PathNodes DEF Follows
    <3>2. p[k] \in registered \/ (h < Len(path) /\ p[k] = path[h + 1] /\ u[h] = Spelled[h])
      BY <2>3, <3>1, ChildOnPath
    <3>3. CASE h < Len(path) /\ p[k] = path[k] /\ u[h] = Spelled[h]
      <4>1. k <= Len(path)
        BY <2>1, <3>3, PathNodes
      <4>2. \A j \in 1..k : j = k \/ j \in 1..h
        BY <2>1
      <4>3. \A j \in 1..(k - 1) : j = h \/ j \in 1..(h - 1)
        BY <2>1
      <4>4. Follows(u, p, k)
        BY <2>5, <3>3, <4>1, <4>2, <4>3 DEF Follows
      <4> QED
        BY <1>3, <4>4
    <3> QED
      BY <1>3, <2>1, <3>2, <3>3
  <2> QED
    BY <2>2, <2>4, <2>5
<1> QED
  BY <1>4, <1>5

\* A way meets the k-th node of the path at its k-th step, if at all.
LEMMA MeetsPath ==
    ASSUME BuildInv, ~finished, NEW u, NEW p, IsWay(pool, RootId, u, p), NEW i \in 1..Len(p),
           NEW k \in 1..Len(path), p[i] = path[k]
    PROVE  i = k /\ Follows(u, p, k)
<1> USE DEF BuildInv, PathInv
<1>1. path[k] \notin registered /\ \A l \in 1..Len(path) : l # k => path[l] # path[k]
  <2>1. \A l \in 1..Len(path) : path[l] \in 1..Len(pool)
    BY PathNodes
  <2>2. \A l \in 1..Len(path) : l < k \/ k < l \/ l = k
    OBVIOUS
  <2>3. \A i1, j1 \in 1..Len(path) : i1 < j1 => path[i1] < path[j1]
    BY PathNodes DEF PathOpen
  <2>4. \A l \in 1..Len(path) : l # k => path[l] # path[k]
    BY <2>1, <2>2, <2>3
  <2>5. path[k] \notin registered
    BY PathNodes DEF PathOpen
  <2> QED
    BY <2>4, <2>5
<1>2. Follows(u, p, i)
  BY <1>1, WayFromRoot
<1>3. i \in 1..Len(path) /\ p[i] = path[i]
  <2>1. Len(p) \in Nat /\ Len(path) \in Nat
    BY PathNodes DEF IsWay
  <2> QED
    BY <1>2, <2>1 DEF Follows
<1> QED
  BY <1>1, <1>2, <1>3

----------------------------------------------------------------------------
(* The two parts of the invariant that are new, step by step.              *)

\* A node whose labels are below one more label has fewer transitions than
\* the counter can count.
LEMMA CountFits ==
    ASSUME CountSuffices, TypeOK, LabelsSorted, NEW n \in 1..Len(pool), NEW c \in Labels,
           \A j \in 1..Len(pool[n].trans) : pool[n].trans[j].label < c
    PROVE  Len(pool[n].trans) + 1 < CountMod
<1> DEFINE t == pool[n].trans
           k == Len(t)
           f == [j \in 1..(k + 1) |-> IF j = k + 1 THEN c ELSE t[j].label]
<1>1. t \in Seq(Transition) /\ k \in Nat /\ DOMAIN t = 1..k /\ n \in DOMAIN pool
  BY PathNodes
<1>2. \A j \in 1..k : t[j].label \in Labels /\ t[j].label \in Nat
  <2>1. \A j \in 1..k : t[j] \in Transition
    BY <1>1
  <2> QED
    BY <2>1, LabelsAssumption DEF Transition
<1>3. \A i, j \in 1..k : i < j => t[i].label < t[j].label
  BY <1>1 DEF LabelsSorted
<1>4. \A j \in 1..k : t[j].label < c
  OBVIOUS
<1>5. c \in Nat
  BY LabelsAssumption
<1> HIDE DEF t, k
<1>6. \A j \in 1..(k + 1) : f[j] = IF j = k + 1 THEN c ELSE t[j].label
  OBVIOUS
<1>7. \A j \in 1..(k + 1) : j = k + 1 \/ j \in 1..k
  BY <1>1
<1>8. f \in [1..(k + 1) -> Labels]
  BY <1>2, <1>7
<1> HIDE DEF f
<1>9. \A i, j \in 1..(k + 1) : i < j => f[i] < f[j]
  <2> SUFFICES ASSUME NEW i \in 1..(k + 1), NEW j \in 1..(k + 1), i < j
               PROVE  f[i] < f[j]
    OBVIOUS
  <2>1. i \in 1..k /\ i # k + 1
    BY <1>1, <1>7
  <2> QED
    BY <1>3, <1>4, <1>6, <1>7, <2>1
<1>10. \A i, j \in 1..(k + 1) : f[i] = f[j] => i = j
  <2> SUFFICES ASSUME NEW i \in 1..(k + 1), NEW j \in 1..(k + 1), f[i] = f[j], i # j
               PROVE  FALSE
    OBVIOUS
  <2>1. f[i] \in Nat /\ f[j] \in Nat
    BY <1>8, LabelsAssumption
  <2>2. i < j \/ j < i
    BY <1>1
  <2> QED
    BY <1>9, <2>1, <2>2
<1>11. f \in Injection(1..(k + 1), Labels)
  BY <1>8, <1>10, Fun_IsInj
<1>12. Cardinality(1..(k + 1)) <= Cardinality(Labels)
  BY <1>11, FS_Injection DEF CountSuffices
<1>13. Cardinality(1..(k + 1)) = k + 1
  BY <1>1, FS_Interval
<1>14. Cardinality(Labels) \in Nat
  BY FS_CardinalityType DEF CountSuffices
<1> QED
  BY <1>1, <1>12, <1>13, <1>14, CountModAssumption DEF CountSuffices, k, t

LEMMA CountKept ==
    ASSUME NEW k \in Nat, k + 1 < CountMod
    PROVE  (k + 1) % CountMod # 0
<1>1. CountMod \in Nat /\ k + 1 \in 0..(CountMod - 1)
  BY CountModAssumption
<1> QED
  BY <1>1

\* The transition that add() makes is there.
LEMMA TransitionMade ==
    ASSUME CountSuffices, BuildInv, ExtendStep
    PROVE  /\ pool'[Top].trans =
                  Append(pool[Top].trans, [label |-> word[Len(path)], child |-> Len(pool) + 1])
           /\ pool'[Top].final = pool[Top].final
<1> USE DEF BuildInv, PathInv
<1> DEFINE c == word[Len(path)]
           t == pool[Top].trans
           e == [label |-> c, child |-> Len(pool) + 1]
<1>1. /\ Len(path) \in Nat \ {0} /\ Top \in 1..Len(pool) /\ pool[Top] \in Node
      /\ c \in Labels /\ pc = "extend"
  BY PathNodes DEF TypeOK, ExtendStep
<1>2. \A j \in 1..Len(t) : t[j].label < c
  BY <1>1, PathNodes DEF PathOrdered
<1>3. Len(t) + 1 < CountMod
  BY <1>1, <1>2, CountFits
<1>4. t \in Seq(Transition) /\ Len(t) \in Nat
  BY <1>1 DEF Node
<1>5. (Len(t) + 1) % CountMod # 0
  BY <1>3, <1>4, CountKept
<1>6. Len(Append(t, e)) = Len(t) + 1
  BY <1>4
<1>7. WithTransition(pool[Top], c, Len(pool) + 1) = [pool[Top] EXCEPT !.trans = Append(t, e)]
  BY <1>5, <1>6 DEF WithTransition
<1>8. /\ WithTransition(pool[Top], c, Len(pool) + 1).trans = Append(t, e)
      /\ WithTransition(pool[Top], c, Len(pool) + 1).final = pool[Top].final
  BY <1>1, <1>7 DEF Node
<1> DEFINE new == WithTransition(pool[Top], c, Len(pool) + 1)
           mid == [pool EXCEPT ![Top] = new]
<1>9. new \in Node
  <2>1. Len(pool) + 1 \in Nat
    BY PathNodes
  <2> HIDE DEF c
  <2> QED
    BY <1>1, <2>1, WithTransitionNode
<1> HIDE DEF new, e
<1>10. pool' = Append(mid, EmptyNode)
  BY DEF ExtendStep, NewId, new
<1>11. mid \in Seq(Node) /\ Len(mid) = Len(pool) /\ mid[Top] = new
  BY <1>1, <1>9 DEF TypeOK
<1>12. EmptyNode \in Node
  BY DEF EmptyNode, Node
<1>13. pool'[Top] = new
  BY <1>1, <1>10, <1>11, <1>12
<1> QED
  BY <1>8, <1>13 DEF new, e

LEMMA OffPathStep ==
    ASSUME BuildInv, [Next]_vars
    PROVE  OffPathLinked'
<1> USE DEF BuildInv, PathInv
<1>0. /\ Len(path) \in Nat \ {0}
      /\ \A k, l \in 1..Len(path) : k < l => path[k] # path[l]
      /\ \A k \in 1..Len(path) : path[k] \in 1..Len(pool)
      /\ Len(pool) \in Nat /\ Top = path[Len(path)]
  <2>1. \A k, l \in 1..Len(path) : k < l => path[k] < path[l]
    BY PathNodes DEF PathOpen
  <2> QED
    BY <2>1, PathNodes
<1>1. registered \subseteq registered'
  BY FrozenStep
<1>2. \A n \in 1..Len(pool) : (\A i \in 1..Len(path) : path[i] # n) => Children(pool, n) \subseteq registered
  BY DEF OffPathLinked
<1>3. ASSUME path' = path, Len(pool') = Len(pool), \A n \in 1..Len(pool) : pool'[n].trans = pool[n].trans
      PROVE  OffPathLinked'
  <2>1. \A n \in 1..Len(pool) : Children(pool', n) = Children(pool, n)
    BY <1>3 DEF Children
  <2> QED
    BY <1>1, <1>2, <1>3, <2>1 DEF OffPathLinked
<1>4. CASE MinimizeStep
  <2>1. /\ Len(path) > 1 /\ Len(path') = Len(path) - 1 /\ Len(pool') = Len(pool)
        /\ \A i \in 1..(Len(path) - 1) : path'[i] = path[i]
        /\ \A n \in 1..Len(pool) : n # Parent => pool'[n] = pool[n]
    BY <1>4, MinimizeEffect
  <2>2. Len(path) - 1 \in 1..Len(path) /\ Len(path) \in 1..Len(path) /\ Parent = path[Len(path) - 1]
    BY <1>0, <2>1 DEF Parent
  <2> SUFFICES ASSUME NEW n \in 1..Len(pool), \A i \in 1..(Len(path) - 1) : path[i] # n
               PROVE  Children(pool', n) \subseteq registered'
    BY <2>1 DEF OffPathLinked
  <2>3. n # Parent
    BY <1>0, <2>1, <2>2
  <2>4. pool'[n] = pool[n]
    BY <2>1, <2>3
  <2>5. Children(pool', n) = Children(pool, n)
    BY <2>4 DEF Children
  <2>6. CASE n = Top
    <3>1. Children(pool, Top) \subseteq registered
      BY TopLinked, PathNodes DEF Children
    <3> QED
      BY <1>1, <2>5, <2>6, <3>1
  <2>7. CASE n # Top
    <3>1. \A i \in 1..Len(path) : i = Len(path) \/ i \in 1..(Len(path) - 1)
      BY <1>0
    <3>2. \A i \in 1..Len(path) : path[i] # n
      BY <1>0, <2>7, <3>1
    <3> QED
      BY <1>1, <1>2, <2>5, <3>2
  <2> QED
    BY <2>6, <2>7
<1>5. CASE ExtendStep
  <2>1. /\ Len(path') = Len(path) + 1 /\ path'[Len(path) + 1] = Len(pool) + 1
        /\ \A i \in 1..Len(path) : path'[i] = path[i]
        /\ Len(pool') = Len(pool) + 1
        /\ \A n \in 1..Len(pool) : n # Top => pool'[n] = pool[n]
    BY <1>5, ExtendEffect
  <2> SUFFICES ASSUME NEW n \in 1..(Len(pool) + 1), \A i \in 1..(Len(path) + 1) : path'[i] # n
               PROVE  Children(pool', n) \subseteq registered'
    BY <2>1 DEF OffPathLinked
  <2>2. n # Len(pool) + 1 /\ n # Top /\ \A i \in 1..Len(path) : path[i] # n
    <3>1. Len(path) + 1 \in 1..(Len(path) + 1) /\ Len(path) \in 1..Len(path)
      BY <1>0
    <3>2. \A i \in 1..Len(path) : i \in 1..(Len(path) + 1)
      BY <1>0
    <3> QED
      BY <1>0, <2>1, <3>1, <3>2
  <2>3. n \in 1..Len(pool) /\ pool'[n] = pool[n]
    BY <1>0, <2>1, <2>2
  <2>4. Children(pool', n) = Children(pool, n)
    BY <2>3 DEF Children
  <2> QED
    BY <1>1, <1>2, <2>2, <2>3, <2>4
<1>6. CASE AddReturn
  <2>1. path' = path
    BY <1>6 DEF AddReturn
  <2> QED
    BY <1>3, <1>6, <2>1, ReturnEffect
<1>7. CASE UNCHANGED <<pool, path>>
  BY <1>3, <1>7
<1> QED
  BY <1>4, <1>5, <1>6, <1>7
     DEF Next, Step, AddRejected, AddStart, FinishStart, MinimizeReturn, FinishReturn, vars

\* The path keeps spelling what it should.
LEMMA PathSpellsStep ==
    ASSUME CountSuffices, BuildInv, [Next]_vars
    PROVE  PathSpells'
<1> USE DEF BuildInv, PathInv
<1>0. /\ Len(path) \in Nat \ {0}
      /\ \A k, l \in 1..Len(path) : k < l => path[k] # path[l]
      /\ \A k \in 1..Len(path) : path[k] \in 1..Len(pool)
      /\ Len(pool) \in Nat /\ Top = path[Len(path)]
      /\ Len(word) \in Nat /\ Len(prev) \in Nat
  <2>1. \A k, l \in 1..Len(path) : k < l => path[k] < path[l]
    BY PathNodes DEF PathOpen
  <2>2. Len(word) \in Nat /\ Len(prev) \in Nat
    BY DEF TypeOK
  <2> QED
    BY <2>1, <2>2, PathNodes
<1>1. /\ Len(path) <= Len(Spelled) + 1
      /\ pc = "idle" /\ ~finished => Len(path) = Len(prev) + 1
      /\ \A i \in 1..(Len(path) - 1) : LastIs(pool, path[i], Spelled[i], path[i + 1])
      /\ pc \in {"minimize", "extend"} => word \in Words /\ InOrder(word)
  BY DEF PathSpells
<1>2. CASE UNCHANGED <<pool, path, prev, word, finished, pc>>
  BY <1>1, <1>2 DEF PathSpells, Spelled, InOrder
<1>3. ASSUME NEW w \in Words, AddStart(w)
      PROVE  PathSpells'
  <2>1. /\ pc = "idle" /\ pc' = "minimize" /\ word' = w /\ InOrder(w)
        /\ UNCHANGED <<pool, path, prev, finished>>
    BY <1>3 DEF AddStart
  <2>2. Spelled' = prev /\ Spelled = prev
    BY <2>1 DEF Spelled
  <2> QED
    BY <1>1, <2>1, <2>2 DEF PathSpells, InOrder
<1>4. CASE FinishStart
  <2>1. /\ pc = "idle" /\ pc' = "freeze" /\ UNCHANGED <<pool, path, prev, finished>>
    BY <1>4 DEF FinishStart
  <2>2. Spelled' = prev /\ Spelled = prev
    BY <2>1 DEF Spelled
  <2> QED
    BY <1>1, <2>1, <2>2 DEF PathSpells
<1>5. CASE MinimizeStep
  <2>1. /\ Len(path) > 1 /\ Len(path') = Len(path) - 1
        /\ \A i \in 1..(Len(path) - 1) : path'[i] = path[i]
        /\ \A n \in 1..Len(pool) : n # Parent => pool'[n] = pool[n]
    BY <1>5, MinimizeEffect
  <2>2. /\ pc \in {"minimize", "freeze"} /\ UNCHANGED <<pc, prev, word>>
    BY <1>5 DEF MinimizeStep
  <2>3. Spelled' = Spelled /\ (InOrder(word) => InOrder(word)')
    BY <2>2 DEF Spelled, InOrder
  <2>4. ASSUME NEW i \in 1..(Len(path) - 2)
        PROVE  LastIs(pool', path'[i], Spelled[i], path'[i + 1])
    <3>1. /\ i \in 1..(Len(path) - 1) /\ i + 1 \in 1..(Len(path) - 1) /\ i < Len(path) - 1
          /\ i \in 1..Len(path) /\ Len(path) - 1 \in 1..Len(path)
      BY <1>0, <2>1
    <3>2. path[i] # Parent
      BY <1>0, <3>1 DEF Parent
    <3>3. pool'[path[i]] = pool[path[i]]
      BY <1>0, <2>1, <3>1, <3>2
    <3>4. LastIs(pool, path[i], Spelled[i], path[i + 1])
      BY <1>1, <3>1
    <3> QED
      BY <2>1, <3>1, <3>3, <3>4 DEF LastIs
  <2>5. Len(path') <= Len(Spelled) + 1 /\ Len(path') - 1 = Len(path) - 2
    <3>1. Len(Spelled) \in Nat
      BY <1>0 DEF Spelled
    <3> QED
      BY <1>0, <1>1, <2>1, <3>1
  <2> QED
    BY <1>1, <2>2, <2>3, <2>4, <2>5 DEF PathSpells
<1>6. CASE MinimizeReturn
  <2>1. /\ pc = "minimize" /\ pc' = "extend" /\ Len(path) = downTo + 1
        /\ UNCHANGED <<pool, path, prev, word>>
    BY <1>6 DEF MinimizeReturn
  <2>2. Spelled' = word /\ Spelled = prev
    BY <2>1 DEF Spelled
  <2>3. IsCommonPrefix(word, prev, downTo) /\ downTo \in Nat
    BY <2>1 DEF PathOrdered, TypeOK
  <2>4. downTo <= Len(word) /\ \A i \in 1..downTo : word[i] = prev[i]
    BY <2>3 DEF IsCommonPrefix, AgreeUpTo
  <2>5. Len(path) - 1 = downTo /\ Len(path) <= Len(word) + 1
    BY <1>0, <2>1, <2>3, <2>4
  <2> QED
    BY <1>1, <2>1, <2>2, <2>4, <2>5 DEF PathSpells, InOrder
<1>7. CASE ExtendStep
  <2>1. /\ Len(path') = Len(path) + 1 /\ path'[Len(path) + 1] = Len(pool) + 1
        /\ \A i \in 1..Len(path) : path'[i] = path[i]
        /\ \A n \in 1..Len(pool) : n # Top => pool'[n] = pool[n]
    BY <1>7, ExtendEffect
  <2>2. pc = "extend" /\ UNCHANGED <<pc, prev, word>> /\ Len(path) <= Len(word)
    BY <1>7 DEF ExtendStep
  <2>3. Spelled' = word /\ Spelled = word
    BY <2>2 DEF Spelled
  <2>4. ASSUME NEW i \in 1..Len(path)
        PROVE  LastIs(pool', path'[i], word[i], path'[i + 1])
    <3>1. CASE i = Len(path)
      <4> DEFINE t == pool[Top].trans
                 e == [label |-> word[Len(path)], child |-> Len(pool) + 1]
      <4>1. pool'[Top].trans = Append(t, e)
        BY <1>7, TransitionMade
      <4>2. t \in Seq(Transition) /\ e.label = word[Len(path)] /\ e.child = Len(pool) + 1
        BY <1>7, ExtendEffect
      <4> HIDE DEF t, e
      <4>3. Len(Append(t, e)) = Len(t) + 1 /\ Len(t) \in Nat /\ Append(t, e)[Len(t) + 1] = e
        BY <4>2
      <4>4. path'[i] = Top /\ path'[i + 1] = Len(pool) + 1 /\ word[i] = word[Len(path)]
        BY <1>0, <2>1, <3>1
      <4>5. LastIs(pool', Top, word[Len(path)], Len(pool) + 1)
        BY <4>1, <4>2, <4>3 DEF LastIs
      <4> QED
        BY <4>4, <4>5
    <3>2. CASE i # Len(path)
      <4>1. /\ i \in 1..(Len(path) - 1) /\ i + 1 \in 1..Len(path) /\ i < Len(path)
            /\ Len(path) \in 1..Len(path)
        BY <1>0, <3>2
      <4>2. path[i] # Top
        BY <1>0, <4>1
      <4>3. pool'[path[i]] = pool[path[i]]
        BY <1>0, <2>1, <4>2
      <4>4. LastIs(pool, path[i], word[i], path[i + 1])
        BY <1>1, <2>3, <4>1
      <4> QED
        BY <2>1, <4>1, <4>3, <4>4 DEF LastIs
    <3> QED
      BY <3>1, <3>2
  <2>5. Len(path') <= Len(word) + 1 /\ Len(path') - 1 = Len(path)
    BY <1>0, <2>1, <2>2
  <2> QED
    BY <1>1, <2>2, <2>3, <2>4, <2>5 DEF PathSpells, InOrder
<1>8. CASE AddReturn
  <2>1. /\ pc = "extend" /\ pc' = "idle" /\ Len(path) > Len(word) /\ path' = path /\ prev' = word
    BY <1>8 DEF AddReturn
  <2>2. Spelled' = word /\ Spelled = word
    BY <2>1 DEF Spelled
  <2>3. Len(path) = Len(word) + 1
    BY <1>0, <1>1, <2>1, <2>2
  <2>4. ASSUME NEW i \in 1..(Len(path) - 1)
        PROVE  LastIs(pool', path[i], word[i], path[i + 1])
    <3>1. path[i] \in 1..Len(pool) /\ LastIs(pool, path[i], word[i], path[i + 1])
      BY <1>0, <1>1, <2>2
    <3> QED
      BY <1>8, <3>1, ReturnEffect DEF LastIs
  <2> QED
    BY <2>1, <2>2, <2>3, <2>4 DEF PathSpells
<1>9. CASE FinishReturn
  <2>1. /\ pc = "freeze" /\ pc' = "idle" /\ finished' /\ UNCHANGED <<pool, path, prev>>
    BY <1>9 DEF FinishReturn
  <2>2. Spelled' = prev /\ Spelled = prev
    BY <2>1 DEF Spelled
  <2> QED
    BY <1>1, <2>1, <2>2 DEF PathSpells
<1> QED
  BY <1>2, <1>3, <1>4, <1>5, <1>6, <1>7, <1>8, <1>9 DEF Next, Step, AddRejected, vars

LEMMA BuildInvStep == CountSuffices /\ BuildInv /\ [Next]_vars => BuildInv'
  BY TypeStep, PathOpenStep, PathLinkedStep, PathOrderedStep, RegisteredLinkedStep, LabelsStep,
     OffPathStep, PathSpellsStep DEF BuildInv, PathInv

----------------------------------------------------------------------------
(* What the steps do to the words accepted.                                *)

\* Leads, with its transition appended to, or not.
LEMMA LeadsAppended ==
    ASSUME NEW t \in Seq(Transition), NEW e \in Transition, NEW c, NEW m,
           NEW P, NEW Q, NEW n, P[n].trans = t, Q[n].trans = Append(t, e)
    PROVE  Leads(Q, n, c, m) <=> Leads(P, n, c, m) \/ (e.label = c /\ e.child = m)
<1>1. /\ Len(t) \in Nat /\ Len(Append(t, e)) = Len(t) + 1
      /\ Append(t, e)[Len(t) + 1] = e /\ \A j \in 1..Len(t) : Append(t, e)[j] = t[j]
  OBVIOUS
<1>2. /\ \A j \in 1..(Len(t) + 1) : j = Len(t) + 1 \/ j \in 1..Len(t)
      /\ \A j \in 1..Len(t) : j \in 1..(Len(t) + 1)
      /\ Len(t) + 1 \in 1..(Len(t) + 1)
  BY <1>1
<1>3. Leads(P, n, c, m) <=> \E j \in 1..Len(t) : t[j].label = c /\ t[j].child = m
  BY DEF Leads
<1> DEFINE s == Append(t, e)
<1>4. Leads(Q, n, c, m) <=> \E j \in 1..Len(s) : s[j].label = c /\ s[j].child = m
  BY DEF Leads
<1> HIDE DEF s
<1> QED
  BY <1>1, <1>2, <1>3, <1>4 DEF s

\* A new node that nothing leaves and that is not final accepts nothing.
LEMMA ExtendLanguage ==
    ASSUME CountSuffices, BuildInv, ExtendStep
    PROVE  Accepted(pool') = Accepted(pool)
<1> USE DEF BuildInv, PathInv
<1> DEFINE N == Len(pool) + 1
<1>1. /\ Len(pool) \in Nat /\ Len(pool') = N
      /\ pool'[N].trans = << >> /\ ~pool'[N].final
      /\ \A n \in 1..Len(pool) : n # Top => pool'[n] = pool[n]
      /\ Top \in 1..Len(pool)
  BY ExtendEffect DEF EmptyNode
<1>2. \A n \in 1..Len(pool) : pool'[n].final = pool[n].final
  BY <1>1, TransitionMade
<1> HIDE DEF N
<1>3. ASSUME NEW n \in 1..Len(pool), NEW c, NEW m, m # N
      PROVE  Leads(pool', n, c, m) <=> Leads(pool, n, c, m)
  <2>1. CASE n # Top
    BY <1>1, <2>1 DEF Leads
  <2>2. CASE n = Top
    <3> DEFINE t == pool[Top].trans
               e == [label |-> word[Len(path)], child |-> Len(pool) + 1]
    <3>1. pool'[n].trans = Append(t, e) /\ pool[n].trans = t
      BY <2>2, TransitionMade
    <3>2. t \in Seq(Transition) /\ e \in Transition /\ e.child = N
      BY ExtendEffect DEF N
    <3> HIDE DEF t, e
    <3> QED
      BY <1>3, <3>1, <3>2, LeadsAppended
  <2> QED
    BY <2>1, <2>2
<1>4. ASSUME NEW u \in Seq(Labels), Accepts(pool, u) PROVE Accepts(pool', u)
  <2>1. PICK p : IsWay(pool, RootId, u, p) /\ pool[p[Len(u) + 1]].final
    BY <1>4 DEF Accepts
  <2>2. /\ p \in Seq(1..Len(pool)) /\ Len(p) = Len(u) + 1 /\ p[1] = RootId /\ Len(u) \in Nat
        /\ \A i \in 1..Len(u) : Leads(pool, p[i], u[i], p[i + 1])
    BY <2>1 DEF IsWay
  <2>3. \A i \in 1..(Len(u) + 1) : p[i] \in 1..Len(pool) /\ p[i] # N
    BY <1>1, <2>2 DEF N
  <2>4. ASSUME NEW i \in 1..Len(u) PROVE Leads(pool', p[i], u[i], p[i + 1])
    <3>1. i \in 1..(Len(u) + 1) /\ i + 1 \in 1..(Len(u) + 1)
      BY <2>2
    <3> QED
      BY <1>3, <2>2, <2>3, <3>1
  <2>5. p \in Seq(1..Len(pool'))
    <3>1. 1..Len(pool) \subseteq 1..Len(pool')
      BY <1>1 DEF N
    <3> QED
      BY <2>2, <3>1, SeqMonotonic
  <2>6. IsWay(pool', RootId, u, p)
    BY <2>2, <2>4, <2>5 DEF IsWay
  <2>7. Len(u) + 1 \in 1..(Len(u) + 1)
    BY <2>2
  <2>8. pool'[p[Len(u) + 1]].final
    BY <1>2, <2>1, <2>3, <2>7
  <2> QED
    BY <2>6, <2>8 DEF Accepts
<1>5. ASSUME NEW u \in Seq(Labels), Accepts(pool', u) PROVE Accepts(pool, u)
  <2>1. PICK p : IsWay(pool', RootId, u, p) /\ pool'[p[Len(u) + 1]].final
    BY <1>5 DEF Accepts
  <2>2. /\ p \in Seq(1..N) /\ Len(p) = Len(u) + 1 /\ p[1] = RootId /\ Len(u) \in Nat
        /\ \A i \in 1..Len(u) : Leads(pool', p[i], u[i], p[i + 1])
    BY <1>1, <2>1 DEF IsWay
  <2>3. ASSUME NEW i \in 1..(Len(u) + 1) PROVE p[i] \in 1..Len(pool) /\ p[i] # N
    <3>1. p[i] # N
      <4>1. CASE i = Len(u) + 1
        BY <1>1, <2>1, <4>1
      <4>2. CASE i # Len(u) + 1
        <5>1. Leads(pool', p[i], u[i], p[i + 1])
          BY <2>2, <4>2
        <5>2. ~Leads(pool', N, u[i], p[i + 1])
          BY <1>1 DEF Leads
        <5> QED
          BY <5>1, <5>2
      <4> QED
        BY <4>1, <4>2
    <3>2. p[i] \in 1..N
      <4>1. i \in 1..Len(p)
        BY <2>2
      <4> QED
        BY <2>2, <4>1, ElementOfSeq
    <3> QED
      BY <1>1, <3>1, <3>2 DEF N
  <2>4. ASSUME NEW i \in 1..Len(u) PROVE Leads(pool, p[i], u[i], p[i + 1])
    <3>1. i \in 1..(Len(u) + 1) /\ i + 1 \in 1..(Len(u) + 1)
      BY <2>2
    <3> QED
      BY <1>3, <2>2, <2>3, <3>1
  <2>5. p \in Seq(1..Len(pool))
    BY <2>2, <2>3
  <2>6. IsWay(pool, RootId, u, p)
    BY <2>2, <2>4, <2>5 DEF IsWay
  <2>7. Len(u) + 1 \in 1..(Len(u) + 1)
    BY <2>2
  <2>8. pool[p[Len(u) + 1]].final
    BY <1>2, <2>1, <2>3, <2>7
  <2> QED
    BY <2>6, <2>8 DEF Accepts
<1> QED
  BY <1>4, <1>5 DEF Accepted

\* Marking the end of the path final makes its word accepted, and no other.
LEMMA ReturnLanguage ==
    ASSUME BuildInv, AddReturn
    PROVE  Accepted(pool') = Accepted(pool) \cup {word}
<1> USE DEF BuildInv, PathInv
<1>1. /\ Len(pool') = Len(pool)
      /\ \A n \in 1..Len(pool) : n # Top => pool'[n] = pool[n]
      /\ \A n \in 1..Len(pool) : pool'[n].trans = pool[n].trans
  BY ReturnEffect
<1>2. Top \in 1..Len(pool) /\ pool'[Top].final
  BY PathNodes DEF AddReturn, TypeOK, Node
<1>3. ASSUME NEW n \in 1..Len(pool), NEW c, NEW m
      PROVE  Leads(pool', n, c, m) <=> Leads(pool, n, c, m)
  BY <1>1 DEF Leads
<1>4. ASSUME NEW u, NEW p
      PROVE  IsWay(pool', RootId, u, p) <=> IsWay(pool, RootId, u, p)
  <2>1. ASSUME u \in Seq(Labels), p \in Seq(1..Len(pool)), Len(p) = Len(u) + 1, NEW i \in 1..Len(u)
        PROVE  Leads(pool', p[i], u[i], p[i + 1]) <=> Leads(pool, p[i], u[i], p[i + 1])
    <3>1. p[i] \in 1..Len(pool)
      BY <2>1
    <3> QED
      BY <1>3, <3>1
  <2> QED
    BY <1>1, <2>1 DEF IsWay
<1>5. /\ pc = "extend" /\ ~finished /\ Len(path) = Len(word) + 1 /\ Spelled = word /\ word \in Words
      /\ Len(word) \in Nat
  <2>1. pc = "extend" /\ Len(path) > Len(word)
    BY DEF AddReturn
  <2>2. ~finished /\ Spelled = word /\ Len(path) <= Len(word) + 1 /\ word \in Words
    BY <2>1 DEF PathOpen, PathSpells, Spelled
  <2>3. Len(word) \in Nat /\ Len(path) \in Nat
    BY PathNodes DEF TypeOK
  <2> QED
    BY <2>1, <2>2, <2>3
<1>6. word \in Seq(Labels) /\ Len(word) <= MaxLength + 1
  BY <1>5, WordsAssumption, MaxLengthAssumption
<1>7. Accepts(pool', word)
  <2>1. \A i \in 1..Len(word) : Leads(pool, path[i], word[i], path[i + 1])
    <3> SUFFICES ASSUME NEW i \in 1..Len(word) PROVE Leads(pool, path[i], word[i], path[i + 1])
      OBVIOUS
    <3>1. i \in 1..(Len(path) - 1) /\ path[i] \in 1..Len(pool)
      BY <1>5, PathNodes
    <3>2. LastIs(pool, path[i], word[i], path[i + 1])
      BY <1>5, <3>1 DEF PathSpells
    <3>3. Len(pool[path[i]].trans) \in Nat
      BY <3>1, PathNodes
    <3> QED
      BY <3>2, <3>3 DEF LastIs, Leads
  <2>2. path \in Seq(1..Len(pool)) /\ path[1] = RootId
    BY DEF TypeOK, PathOpen
  <2>3. IsWay(pool, RootId, word, path)
    BY <1>5, <1>6, <2>1, <2>2 DEF IsWay
  <2>4. path[Len(word) + 1] = Top
    BY <1>5, PathNodes
  <2> QED
    BY <1>2, <1>4, <2>3, <2>4 DEF Accepts
<1>8. ASSUME NEW u \in Seq(Labels), Accepts(pool, u) PROVE Accepts(pool', u)
  <2>1. PICK p : IsWay(pool, RootId, u, p) /\ pool[p[Len(u) + 1]].final
    BY <1>8 DEF Accepts
  <2>2. p[Len(u) + 1] \in 1..Len(pool)
    BY <2>1 DEF IsWay
  <2>3. pool'[p[Len(u) + 1]].final
    BY <1>1, <1>2, <2>1, <2>2
  <2> QED
    BY <1>4, <2>1, <2>3 DEF Accepts
<1>9. ASSUME NEW u \in Seq(Labels), Accepts(pool', u) PROVE Accepts(pool, u) \/ u = word
  <2>1. PICK p : IsWay(pool, RootId, u, p) /\ pool'[p[Len(u) + 1]].final
    BY <1>4, <1>9 DEF Accepts
  <2>2. p[Len(u) + 1] \in 1..Len(pool) /\ Len(u) \in Nat /\ Len(p) = Len(u) + 1
    BY <2>1 DEF IsWay
  <2>3. CASE p[Len(u) + 1] # Top
    BY <1>1, <2>1, <2>2, <2>3 DEF Accepts
  <2>4. CASE p[Len(u) + 1] = Top
    <3>1. Len(u) + 1 \in 1..Len(p) /\ Len(path) \in 1..Len(path) /\ Top = path[Len(path)]
      BY <2>2, PathNodes
    <3>2. Len(u) + 1 = Len(path) /\ Follows(u, p, Len(path))
      BY <1>5, <2>1, <2>4, <3>1, MeetsPath
    <3>3. Len(u) = Len(word)
      BY <1>5, <2>2, <3>2
    <3>4. \A j \in 1..Len(u) : u[j] = word[j]
      BY <1>5, <3>2, <3>3 DEF Follows
    <3> QED
      BY <1>6, <3>3, <3>4, SeqEqual
  <2> QED
    BY <2>3, <2>4
<1> QED
  BY <1>6, <1>7, <1>8, <1>9 DEF Accepted

\* Where the last transition of the parent leads after minimize() replaced the
\* top of the path by an equal node m.
LEMMA RedirectEffect ==
    ASSUME BuildInv, MinimizeStep, NEW m \in Equivalent(Top),
           pool' = [pool EXCEPT ![Parent] = Redirected(@, m)]
    PROVE  /\ Len(pool') = Len(pool)
           /\ m \in registered /\ m # Parent /\ m \in 1..Len(pool)
           /\ Top # Parent /\ Parent \in 1..Len(pool) /\ Top \in 1..Len(pool)
           /\ pool[m] = pool[Top]
           /\ \A n \in 1..Len(pool) : pool'[n].final = pool[n].final
           /\ \A n \in 1..Len(pool) : n # Parent => pool'[n] = pool[n]
           /\ \A c, k : Leads(pool, Parent, c, k) =>
                  Leads(pool', Parent, c, IF k = Top THEN m ELSE k)
           /\ \A c, k : Leads(pool', Parent, c, k) =>
                  Leads(pool, Parent, c, k) \/ (k = m /\ Leads(pool, Parent, c, Top))
<1> USE DEF BuildInv, PathInv
<1>1. /\ Len(path) \in Nat /\ Len(path) > 1 /\ pc # "idle" /\ ~finished
      /\ Parent \in 1..Len(pool) /\ Top \in 1..Len(pool) /\ Top = path[Len(path)]
      /\ Len(pool) \in Nat
  <2>1. Len(path) \in Nat /\ Len(path) > 1 /\ pc # "idle"
    BY MinimizeEffect DEF MinimizeStep
  <2>2. Len(path) - 1 \in 1..Len(path) /\ Len(path) \in 1..Len(path)
    BY <2>1
  <2> QED
    BY <2>1, <2>2, PathNodes DEF Parent, PathOpen
<1>2. Parent \notin registered /\ Top \notin registered /\ Top # Parent
  <2>1. Len(path) - 1 \in 1..Len(path) /\ Len(path) \in 1..Len(path) /\ DOMAIN path = 1..Len(path)
    BY <1>1, PathNodes
  <2>2. path[Len(path) - 1] < path[Len(path)]
    BY <1>1, <2>1 DEF PathOpen
  <2> QED
    <3>1. Top \in 1..Len(pool) /\ Top \in Nat /\ Parent \in Nat /\ Parent < Top
      BY <1>1, <2>2 DEF Parent
    <3>2. path[Len(path) - 1] \notin registered /\ path[Len(path)] \notin registered
      BY <1>1, <2>1 DEF PathOpen
    <3> QED
      BY <1>1, <3>1, <3>2 DEF Parent
<1>3. m \in registered /\ m \in 1..Len(pool) /\ pool[m] = pool[Top]
  BY DEF Equivalent, TypeOK
<1> DEFINE t == pool[Parent].trans
           s == pool'[Parent].trans
           last == Len(t)
<1>4. /\ Len(pool') = Len(pool)
      /\ \A n \in 1..Len(pool) : n # Parent => pool'[n] = pool[n]
      /\ pool'[Parent] = Redirected(pool[Parent], m)
  <2>1. pool[Parent] \in Node /\ m \in Nat
    BY <1>1, <1>3 DEF TypeOK
  <2>2. Redirected(pool[Parent], m) \in Node
    BY <2>1, RedirectedNode
  <2> DEFINE new == Redirected(pool[Parent], m)
  <2>3. pool' = [pool EXCEPT ![Parent] = new]
    BY <1>1
  <2> HIDE DEF new
  <2>4. /\ Len(pool') = Len(pool)
        /\ \A n \in 1..Len(pool) : pool'[n] = IF n = Parent THEN new ELSE pool[n]
    BY <1>1, <2>2, <2>3, ExceptSeq DEF TypeOK, new
  <2> QED
    BY <1>1, <2>4 DEF new
<1>5. /\ pool'[Parent].final = pool[Parent].final
      /\ Len(s) = last
      /\ \A j \in 1..last : s[j].label = t[j].label /\ s[j].child = IF j = last THEN m ELSE t[j].child
  <2>1. pool[Parent] \in Node /\ m \in Nat
    BY <1>1, <1>3 DEF TypeOK
  <2> QED
    BY <1>4, <2>1, RedirectedNode
<1>6. last \in Nat /\ last > 0 /\ t[last].child = Top
  <2>1. Len(path) - 1 \in 1..(Len(path) - 1) /\ (Len(path) - 1) + 1 = Len(path)
    BY <1>1
  <2>2. LastIs(pool, path[Len(path) - 1], Spelled[Len(path) - 1], path[(Len(path) - 1) + 1])
    BY <2>1 DEF PathSpells
  <2> QED
    BY <1>1, <2>1, <2>2, PathNodes DEF LastIs, Parent
<1>7. \A j \in 1..last : t[j].child = Top => j = last
  <2>1. \A j \in 1..last : t[j].child \in registered \/ j = last
    <3>1. Len(path) - 1 \in 1..Len(path) /\ DOMAIN path = 1..Len(path) /\ DOMAIN t = 1..last
      BY <1>1, PathNodes
    <3> QED
      BY <3>1 DEF PathLinked, Parent
  <2> QED
    BY <1>2, <2>1
<1> HIDE DEF last
<1>8. \A c, k : Leads(pool, Parent, c, k) <=> \E j \in 1..last : t[j].label = c /\ t[j].child = k
  BY DEF Leads, last
<1>9. \A c, k : Leads(pool', Parent, c, k) <=> \E j \in 1..last : s[j].label = c /\ s[j].child = k
  BY <1>5 DEF Leads
<1> HIDE DEF t, s
<1>10. \A c, k : Leads(pool, Parent, c, k) => Leads(pool', Parent, c, IF k = Top THEN m ELSE k)
  <2> SUFFICES ASSUME NEW c, NEW k, Leads(pool, Parent, c, k)
               PROVE  Leads(pool', Parent, c, IF k = Top THEN m ELSE k)
    OBVIOUS
  <2>1. PICK j \in 1..last : t[j].label = c /\ t[j].child = k
    BY <1>8
  <2>2. j = last <=> k = Top
    BY <1>6, <1>7, <2>1
  <2>3. s[j].label = c /\ s[j].child = IF k = Top THEN m ELSE k
    BY <1>5, <2>1, <2>2
  <2> HIDE DEF last
  <2> QED
    BY <1>9, <2>3
<1>11. \A c, k : Leads(pool', Parent, c, k) =>
                  Leads(pool, Parent, c, k) \/ (k = m /\ Leads(pool, Parent, c, Top))
  BY <1>5, <1>6, <1>8, <1>9
<1>12. \A n \in 1..Len(pool) : pool'[n].final = pool[n].final
  BY <1>4, <1>5
<1> QED
  BY <1>1, <1>2, <1>3, <1>4, <1>10, <1>11, <1>12

\* One node of a way replaced by another.
LEMMA WayReplaced ==
    ASSUME NEW P, NEW Q, NEW r, NEW u, NEW p, IsWay(P, r, u, p), Len(Q) = Len(P), Len(P) \in Nat,
           NEW k \in 1..Len(p), k > 1, NEW m \in 1..Len(P),
           Leads(Q, p[k - 1], u[k - 1], m),
           k <= Len(u) => Leads(Q, m, u[k], p[k + 1]),
           \A i \in 1..Len(u) : i # k /\ i # k - 1 => Leads(Q, p[i], u[i], p[i + 1])
    PROVE  /\ IsWay(Q, r, u, [p EXCEPT ![k] = m])
           /\ [p EXCEPT ![k] = m][Len(u) + 1] = IF k = Len(u) + 1 THEN m ELSE p[Len(u) + 1]
<1> DEFINE q == [p EXCEPT ![k] = m]
<1>1. /\ u \in Seq(Labels) /\ p \in Seq(1..Len(P)) /\ Len(p) = Len(u) + 1 /\ p[1] = r
      /\ Len(u) \in Nat
  BY DEF IsWay
<1>2. /\ q \in Seq(1..Len(P)) /\ Len(q) = Len(p)
      /\ \A i \in 1..Len(p) : q[i] = IF i = k THEN m ELSE p[i]
  BY <1>1, ExceptSeq
<1> HIDE DEF q
<1>3. ASSUME NEW i \in 1..Len(u) PROVE Leads(Q, q[i], u[i], q[i + 1])
  <2>1. i \in 1..Len(p) /\ i + 1 \in 1..Len(p)
    BY <1>1
  <2>2. CASE i = k
    <3>1. i + 1 # k /\ k <= Len(u)
      BY <2>2
    <3> QED
      BY <1>2, <2>1, <2>2, <3>1
  <2>3. CASE i = k - 1
    <3>1. i + 1 = k /\ i # k
      BY <2>3
    <3> QED
      BY <1>2, <2>1, <2>3, <3>1
  <2>4. CASE i # k /\ i # k - 1
    <3>1. i + 1 # k
      BY <2>4
    <3> QED
      BY <1>2, <2>1, <2>4, <3>1
  <2> QED
    BY <2>2, <2>3, <2>4
<1>4. 1 \in 1..Len(p) /\ Len(u) + 1 \in 1..Len(p)
  BY <1>1
<1>5. q[1] = r /\ q[Len(u) + 1] = IF k = Len(u) + 1 THEN m ELSE p[Len(u) + 1]
  BY <1>1, <1>2, <1>4
<1>6. IsWay(Q, r, u, q)
  BY <1>1, <1>2, <1>3, <1>5 DEF IsWay
<1> QED
  BY <1>5, <1>6 DEF q

\* No way meets a node of the path elsewhere, in the next state as well.
MetInPlace ==
    \A u, p : IsWay(pool, RootId, u, p) =>
        \A i \in 1..Len(p) : \A k \in 1..Len(path) : p[i] = path[k] => i = k

LEMMA MeetsAlways == BuildInv /\ ~finished => MetInPlace
  BY MeetsPath DEF MetInPlace

LEMMA MeetsParentNext ==
    ASSUME BuildInv', finished' = FALSE, Len(pool') = Len(pool), NEW u, NEW p,
           IsWay(pool', RootId, u, p), NEW i \in 1..Len(p), NEW k \in 1..Len(path'), p[i] = path'[k]
    PROVE  i = k
<1>1. (BuildInv /\ ~finished => MetInPlace)'
  BY MeetsAlways, PTL
<1> QED
  BY <1>1 DEF MetInPlace

\* A node replaced by an equal one is not missed.
LEMMA RedirectLanguage ==
    ASSUME BuildInv, BuildInv', MinimizeStep
    PROVE  Accepted(pool') = Accepted(pool)
<1> DEFINE H == Len(path) - 1
<1>1. /\ Len(path) \in Nat /\ Len(path) > 1 /\ ~finished /\ finished' = FALSE
      /\ Len(path') = H /\ path'[H] = Parent /\ path[H] = Parent /\ path[Len(path)] = Top
      /\ H \in 1..Len(path) /\ Len(path) \in 1..Len(path) /\ H \in 1..H /\ H + 1 = Len(path)
  <2>1. /\ Len(path) \in Nat /\ Len(path) > 1 /\ pc # "idle"
        /\ Len(path') = H /\ \A i \in 1..H : path'[i] = path[i]
    BY MinimizeEffect DEF MinimizeStep, BuildInv
  <2>2. H \in 1..Len(path) /\ Len(path) \in 1..Len(path) /\ H \in 1..H /\ H + 1 = Len(path)
    BY <2>1
  <2>3. finished = FALSE /\ finished' = finished
    BY <2>1 DEF BuildInv, PathInv, PathOpen, TypeOK, MinimizeStep
  <2> QED
    BY <2>1, <2>2, <2>3, PathNodes DEF Parent, BuildInv
<1> HIDE DEF H
<1>2. CASE pool' = pool
  BY <1>2 DEF Accepted
<1>3. ASSUME NEW m \in Equivalent(Top), pool' = [pool EXCEPT ![Parent] = Redirected(@, m)]
      PROVE  Accepted(pool') = Accepted(pool)
  <2>1. /\ Len(pool') = Len(pool)
        /\ m \in registered /\ m # Parent /\ m \in 1..Len(pool)
        /\ Top # Parent /\ Parent \in 1..Len(pool) /\ Top \in 1..Len(pool)
        /\ pool[m] = pool[Top]
    BY <1>3, RedirectEffect
  <2>2. /\ \A n \in 1..Len(pool) : pool'[n].final = pool[n].final
        /\ \A n \in 1..Len(pool) : n # Parent => pool'[n] = pool[n]
    BY <1>3, RedirectEffect
  <2>3. \A c, k : Leads(pool, Parent, c, k) => Leads(pool', Parent, c, IF k = Top THEN m ELSE k)
    BY <1>3, RedirectEffect
  <2>4. \A c, k : Leads(pool', Parent, c, k) =>
            Leads(pool, Parent, c, k) \/ (k = m /\ Leads(pool, Parent, c, Top))
    BY <1>3, RedirectEffect
  <2>5. \A n \in 1..Len(pool) : n # Parent => \A c, k : Leads(pool', n, c, k) <=> Leads(pool, n, c, k)
    BY <2>2 DEF Leads
  <2>6. \A c, k : Leads(pool, m, c, k) <=> Leads(pool, Top, c, k)
    BY <2>1 DEF Leads
  <2>7. Len(pool) \in Nat
    BY PathNodes DEF BuildInv
  <2>8. ASSUME NEW u \in Seq(Labels), Accepts(pool, u) PROVE Accepts(pool', u)
    <3>1. PICK p : IsWay(pool, RootId, u, p) /\ pool[p[Len(u) + 1]].final
      BY <2>8 DEF Accepts
    <3>2. /\ p \in Seq(1..Len(pool)) /\ Len(p) = Len(u) + 1 /\ Len(u) \in Nat
          /\ \A i \in 1..Len(u) : Leads(pool, p[i], u[i], p[i + 1])
      BY <3>1 DEF IsWay
    <3>3. \A i \in 1..Len(p) : p[i] \in 1..Len(pool)
      BY <3>2
    <3>4. \A i \in 1..Len(u) : i \in 1..Len(p) /\ i + 1 \in 1..Len(p)
      BY <3>2
    <3>5. Len(u) + 1 \in 1..Len(p)
      BY <3>2
    <3>6. ASSUME NEW i \in 1..Len(u), p[i + 1] # Top
          PROVE  Leads(pool', p[i], u[i], p[i + 1])
      <4>1. CASE p[i] = Parent
        BY <2>3, <3>2, <3>6, <4>1
      <4>2. CASE p[i] # Parent
        BY <2>5, <3>2, <3>3, <3>4, <4>2
      <4> QED
        BY <4>1, <4>2
    <3>7. CASE \A i \in 1..Len(p) : p[i] # Top
      <4>1. \A i \in 1..Len(u) : Leads(pool', p[i], u[i], p[i + 1])
        BY <3>4, <3>6, <3>7
      <4>2. IsWay(pool', RootId, u, p)
        BY <2>1, <3>1, <4>1 DEF IsWay
      <4>3. pool'[p[Len(u) + 1]].final
        BY <2>2, <3>1, <3>3, <3>5
      <4> QED
        BY <4>2, <4>3 DEF Accepts
    <3>8. ASSUME NEW k \in 1..Len(p), p[k] = Top PROVE Accepts(pool', u)
      <4>1. k = Len(path) /\ Follows(u, p, Len(path))
        BY <1>1, <3>1, <3>8, MeetsPath
      <4>2. \A i \in 1..Len(p) : p[i] = Top => i = k
        BY <1>1, <3>1, <4>1, MeetsPath
      <4>3. k > 1 /\ k - 1 = H /\ p[H] = Parent
        BY <1>1, <4>1 DEF Follows
      <4>4. H \in 1..Len(u)
        BY <1>1, <3>2, <4>1, <4>3
      <4>5. Leads(pool', p[k - 1], u[k - 1], m)
        BY <1>1, <2>3, <3>2, <3>8, <4>1, <4>3, <4>4
      <4>6. k <= Len(u) => Leads(pool', m, u[k], p[k + 1])
        <5> SUFFICES ASSUME k <= Len(u) PROVE Leads(pool', m, u[k], p[k + 1])
          OBVIOUS
        <5>1. k \in 1..Len(u)
          BY <3>2
        <5>2. Leads(pool, Top, u[k], p[k + 1])
          BY <3>2, <3>8, <5>1
        <5> QED
          BY <2>1, <2>5, <2>6, <5>2
      <4>7. \A i \in 1..Len(u) : i # k /\ i # k - 1 => Leads(pool', p[i], u[i], p[i + 1])
        <5> SUFFICES ASSUME NEW i \in 1..Len(u), i # k - 1 PROVE Leads(pool', p[i], u[i], p[i + 1])
          OBVIOUS
        <5>1. i + 1 # k
          BY <4>3
        <5>2. p[i + 1] # Top
          BY <3>4, <4>2, <5>1
        <5> QED
          BY <3>6, <5>2
      <4> DEFINE q == [p EXCEPT ![k] = m]
      <4>8. /\ IsWay(pool', RootId, u, q)
            /\ q[Len(u) + 1] = IF k = Len(u) + 1 THEN m ELSE p[Len(u) + 1]
        <5>1. k > 1 /\ k \in 1..Len(p) /\ m \in 1..Len(pool) /\ Len(pool') = Len(pool)
          BY <2>1, <4>3
        <5> QED
          BY <2>7, <3>1, <4>5, <4>6, <4>7, <5>1, WayReplaced
      <4> HIDE DEF q
      <4>9. pool'[q[Len(u) + 1]].final
        BY <2>1, <2>2, <3>1, <3>3, <3>5, <3>8, <4>8
      <4> QED
        BY <4>8, <4>9 DEF Accepts
    <3> QED
      BY <3>7, <3>8
  <2>9. ASSUME NEW u \in Seq(Labels), Accepts(pool', u) PROVE Accepts(pool, u)
    <3>1. PICK p : IsWay(pool', RootId, u, p) /\ pool'[p[Len(u) + 1]].final
      BY <2>9 DEF Accepts
    <3>2. /\ p \in Seq(1..Len(pool)) /\ Len(p) = Len(u) + 1 /\ Len(u) \in Nat
          /\ \A i \in 1..Len(u) : Leads(pool', p[i], u[i], p[i + 1])
      BY <2>1, <3>1 DEF IsWay
    <3>3. \A i \in 1..Len(p) : p[i] \in 1..Len(pool)
      BY <3>2
    <3>4. \A i \in 1..Len(u) : i \in 1..Len(p) /\ i + 1 \in 1..Len(p)
      BY <3>2
    <3>5. Len(u) + 1 \in 1..Len(p)
      BY <3>2
    <3>6. \A i \in 1..Len(p) : p[i] = Parent => i = H
      <4> SUFFICES ASSUME NEW i \in 1..Len(p), p[i] = Parent PROVE i = H
        OBVIOUS
      <4>1. H \in 1..Len(path') /\ p[i] = path'[H]
        BY <1>1
      <4> QED
        BY <1>1, <2>1, <3>1, <4>1, MeetsParentNext
    <3>7. ASSUME NEW i \in 1..Len(u), i # H
          PROVE  Leads(pool, p[i], u[i], p[i + 1])
      <4>1. p[i] # Parent /\ p[i] \in 1..Len(pool)
        BY <3>3, <3>4, <3>6, <3>7
      <4> QED
        BY <2>5, <3>2, <4>1
    <3>8. CASE \A i \in 1..Len(u) : Leads(pool, p[i], u[i], p[i + 1])
      <4>1. IsWay(pool, RootId, u, p)
        BY <2>1, <3>1, <3>8 DEF IsWay
      <4>2. pool[p[Len(u) + 1]].final
        BY <2>2, <3>1, <3>3, <3>5
      <4> QED
        BY <4>1, <4>2 DEF Accepts
    <3>9. CASE H \in 1..Len(u) /\ ~Leads(pool, p[H], u[H], p[H + 1])
      <4>1. p[H] = Parent
        BY <2>5, <3>2, <3>3, <3>4, <3>9
      <4>2. p[H + 1] = m /\ Leads(pool, Parent, u[H], Top)
        BY <2>4, <3>2, <3>9, <4>1
      <4> DEFINE k == H + 1
                 q == [p EXCEPT ![k] = Top]
      <4>3. k \in 1..Len(p) /\ k > 1 /\ k - 1 = H /\ p[k] = m
        BY <1>1, <3>4, <3>9, <4>2
      <4> HIDE DEF k
      <4>4. k <= Len(u) => Leads(pool, Top, u[k], p[k + 1])
        <5> SUFFICES ASSUME k <= Len(u) PROVE Leads(pool, Top, u[k], p[k + 1])
          OBVIOUS
        <5>1. k \in 1..Len(u)
          BY <3>2, <4>3
        <5>2. Leads(pool', m, u[k], p[k + 1])
          BY <3>2, <4>3, <5>1
        <5> QED
          BY <2>1, <2>5, <2>6, <5>2
      <4>5. \A i \in 1..Len(u) : i # k /\ i # k - 1 => Leads(pool, p[i], u[i], p[i + 1])
        BY <3>7, <4>3
      <4>6. Leads(pool, p[k - 1], u[k - 1], Top)
        BY <4>1, <4>2, <4>3
      <4>7. Len(pool') \in Nat /\ Top \in 1..Len(pool') /\ Len(pool) = Len(pool')
        BY <2>1, <2>7
      <4>8. /\ IsWay(pool, RootId, u, q)
            /\ q[Len(u) + 1] = IF k = Len(u) + 1 THEN Top ELSE p[Len(u) + 1]
        BY <3>1, <4>3, <4>4, <4>5, <4>6, <4>7, WayReplaced
      <4> HIDE DEF q
      <4>9. pool[q[Len(u) + 1]].final
        BY <2>1, <2>2, <3>1, <3>3, <3>5, <4>3, <4>8
      <4> QED
        BY <4>8, <4>9 DEF Accepts
    <3> QED
      BY <3>7, <3>8, <3>9
  <2> QED
    BY <2>8, <2>9 DEF Accepted
<1> QED
  BY <1>2, <1>3 DEF MinimizeStep, Parent

LEMMA LanguageInit == Init => Language = {}
<1> SUFFICES ASSUME Init PROVE Language = {}
  OBVIOUS
<1>1. IsPool(pool) /\ pool # << >> /\ Language = AcceptedBy(pool)
  BY BuildInvInit, PoolIsPool, LanguageAccepted
<1>2. Len(pool) = 1 /\ ~pool[1].final
  BY DEF Init, EmptyNode
<1>3. ASSUME NEW u \in Seq(Labels), NEW p, IsWay(pool, RootId, u, p), pool[p[Len(u) + 1]].final
      PROVE  FALSE
  <2>1. p[Len(u) + 1] \in 1..1
    BY <1>2, <1>3 DEF IsWay
  <2> QED
    BY <1>2, <1>3, <2>1
<1> QED
  BY <1>1, <1>3 DEF AcceptedBy, Accepted, Accepts

\* What is accepted stays as it is while nodes are looked up, replaced and
\* added, and gains the word when add() returns: of any length, and so of those
\* that Language reads.
LEMMA AcceptedStep ==
    ASSUME CountSuffices, BuildInv, [Next]_vars
    PROVE  /\ AddReturn => Accepted(pool') = Accepted(pool) \cup {word}
           /\ AddReturn \/ Accepted(pool') = Accepted(pool)
<1>1. BuildInv'
  BY BuildInvStep
<1>2. CASE ExtendStep
  BY <1>2, ExtendLanguage DEF ExtendStep, AddReturn
<1>3. CASE MinimizeStep
  BY <1>1, <1>3, RedirectLanguage DEF MinimizeStep, AddReturn
<1>4. CASE AddReturn
  BY <1>4, ReturnLanguage
<1>5. CASE UNCHANGED pool /\ ~AddReturn
  BY <1>5
<1> QED
  BY <1>2, <1>3, <1>4, <1>5
     DEF Next, Step, AddRejected, AddStart, FinishStart, MinimizeReturn, FinishReturn, vars

LEMMA LanguageStep ==
    ASSUME CountSuffices, BuildInv, [Next]_vars
    PROVE  /\ AddReturn => Language' = Language \cup {word}
           /\ AddReturn \/ Language' = Language
<1>1. BuildInv'
  BY BuildInvStep
<1>2. Language = AcceptedBy(pool)
  BY PoolIsPool, LanguageAccepted
<1>3. Language' = AcceptedBy(pool')
  <2>1. (BuildInv => Language = AcceptedBy(pool))'
    BY PoolIsPool, LanguageAccepted, PTL
  <2> QED
    BY <1>1, <2>1
<1>4. CASE AddReturn
  <2>1. word \in Words
    BY <1>4 DEF AddReturn, BuildInv, PathSpells
  <2>2. Len(word) <= MaxLength + 1
    BY <2>1, WordsAssumption, MaxLengthAssumption
  <2>3. Accepted(pool') = Accepted(pool) \cup {word}
    BY <1>4, AcceptedStep
  <2> QED
    BY <1>2, <1>3, <1>4, <2>2, <2>3 DEF AcceptedBy
<1>5. CASE ~AddReturn
  <2>1. Accepted(pool') = Accepted(pool)
    BY <1>5, AcceptedStep
  <2> QED
    BY <1>2, <1>3, <1>5, <2>1 DEF AcceptedBy
<1> QED
  BY <1>4, <1>5

\* The automaton under construction is the abstract dictionary: what it accepts
\* changes only when add() returns, and then by the word added, whatever was
\* redirected, shared and extended on the way; nothing is added out of order,
\* or after finish().  It is so for all words that leave out one byte, so that
\* no count of transitions wraps (with all 256 a word is lost).
THEOREM DictionaryImplemented == CountSuffices => (Spec => ImplementsDictionary)
<1> SUFFICES ASSUME CountSuffices PROVE Spec => ImplementsDictionary
  OBVIOUS
<1>1. Init => Dict!Init
  BY LanguageInit DEF Dict!Init, Init
<1>2. BuildInv /\ [Next]_vars => [Dict!Next]_<<Language, prev, finished>>
  <2> SUFFICES ASSUME BuildInv, [Next]_vars
               PROVE  Dict!Next \/ UNCHANGED <<Language, prev, finished>>
    OBVIOUS
  <2>1. CASE AddReturn
    <3>1. /\ pc = "extend" /\ prev' = word /\ finished' = finished
          /\ Language' = Language \cup {word}
      BY <2>1, LanguageStep DEF AddReturn
    <3>2. ~finished /\ word \in Words /\ InOrder(word)
      BY <3>1 DEF BuildInv, PathInv, PathOpen, PathSpells
    <3>3. prev = << >> \/ Dict!Precedes(prev, word)
      BY <3>2 DEF InOrder, Precedes, AgreeUpTo, Dict!Precedes, Dict!AgreeUpTo
    <3>4. Dict!Insert(word)
      BY <3>1, <3>2, <3>3 DEF Dict!Insert
    <3> QED
      BY <3>2, <3>4 DEF Dict!Next
  <2>2. CASE FinishReturn
    <3>1. Language' = Language
      BY <2>2, LanguageStep DEF FinishReturn, AddReturn
    <3>2. ~finished
      BY <2>2 DEF BuildInv, PathInv, PathOpen, FinishReturn
    <3>3. Dict!Close
      BY <2>2, <3>1, <3>2 DEF Dict!Close, FinishReturn
    <3> QED
      BY <3>3 DEF Dict!Next
  <2>3. CASE ~AddReturn /\ UNCHANGED <<prev, finished>>
    BY <2>3, LanguageStep
  <2> QED
    BY <2>1, <2>2, <2>3
       DEF Next, Step, AddRejected, AddStart, FinishStart, MinimizeStep, MinimizeReturn, ExtendStep, vars
<1>3. Init => BuildInv
  BY BuildInvInit
<1>4. BuildInv /\ [Next]_vars => BuildInv'
  BY BuildInvStep
<1> QED
  BY <1>1, <1>2, <1>3, <1>4, PTL DEF Spec, ImplementsDictionary, Dict!Spec, Dict!dictVars

\* No word is lost while no count wraps: the run that refutes KeepsItsWords
\* needs a node with as many children as the counter counts.
THEOREM WordsKept == CountSuffices => (Spec => KeepsItsWords)
<1> SUFFICES ASSUME CountSuffices PROVE Spec => KeepsItsWords
  OBVIOUS
<1>1. BuildInv /\ [Next]_vars => [Language \subseteq Language']_vars
  BY LanguageStep
<1>2. Init => BuildInv
  BY BuildInvInit
<1>3. BuildInv /\ [Next]_vars => BuildInv'
  BY BuildInvStep
<1> QED
  BY <1>1, <1>2, <1>3, PTL DEF Spec, KeepsItsWords

----------------------------------------------------------------------------
(* The automaton is minimal: no two canonical nodes accept the same words. *)

AcceptsFrom(P, n, u) == \E p : IsWay(P, n, u, p) /\ P[p[Len(u) + 1]].final

SameWords(m, n) == \A u \in Seq(Labels) : AcceptsFrom(pool, m, u) <=> AcceptsFrom(pool, n, u)

\* Something is accepted from the node: it is final or leads on.
Useful(P, n) == P[n].final \/ Len(P[n].trans) > 0

NodesUseful ==
    /\ \A n \in registered : n # RootId => Useful(pool, n)
    /\ \A n \in registered : RootId \notin Children(pool, n)
    /\ pc # "extend" /\ Len(path) > 1 => Useful(pool, Top)

\* Canonical nodes can be ranked, children below their parents: the order in
\* which they were registered does it.
RanksNodes(r, b) ==
    /\ r \in [registered -> Nat]
    /\ \A n \in registered : r[n] < b
    /\ \A n \in registered : \A m \in Children(pool, n) \cap registered : r[m] < r[n]

Ranked == \E b \in Nat : \E r : RanksNodes(r, b)

MinimalInv == BuildInv /\ RegistryIsASet /\ NodesUseful /\ Ranked

LEMMA MinimalInit == Init => MinimalInv
<1> SUFFICES ASSUME Init PROVE MinimalInv
  OBVIOUS
<1>1. registered = {} /\ path = <<RootId>> /\ Len(path) = 1
  BY DEF Init
<1>2. RegistryIsASet /\ NodesUseful
  BY <1>1 DEF RegistryIsASet, NodesUseful
<1>3. RanksNodes([n \in registered |-> 0], 0)
  BY <1>1 DEF RanksNodes
<1>4. Ranked
  BY <1>3 DEF Ranked
<1> QED
  BY <1>2, <1>4, BuildInvInit DEF MinimalInv

\* A step that registers k, whose children are registered, or nothing.
LEMMA RankStep ==
    ASSUME TypeOK, PathInv, RegisteredLinked, Ranked, [Next]_vars
    PROVE  Ranked'
<1> USE DEF PathInv
<1>1. PICK b \in Nat : \E r : RanksNodes(r, b)
  BY DEF Ranked
<1>2. PICK r : RanksNodes(r, b)
  BY <1>1
<1>3. \A n \in registered : n \in registered' /\ pool'[n] = pool[n]
  BY FrozenStep
<1>4. \A n \in registered : Children(pool', n) = Children(pool, n)
  BY <1>3 DEF Children
<1>5. CASE registered' = registered
  <2>1. RanksNodes(r, b)'
    BY <1>2, <1>4, <1>5 DEF RanksNodes
  <2> QED
    BY <2>1 DEF Ranked
<1>6. ASSUME NEW k, k \notin registered, registered' = registered \cup {k}, pool' = pool,
             \A m \in Children(pool, k) : m \in registered
      PROVE  Ranked'
  <2> DEFINE s == [n \in registered \cup {k} |-> IF n = k THEN b ELSE r[n]]
  <2>1. /\ r \in [registered -> Nat]
        /\ \A n \in registered : r[n] \in Nat /\ r[n] < b
        /\ \A n \in registered : \A m \in Children(pool, n) \cap registered : r[m] < r[n]
    BY <1>2 DEF RanksNodes
  <2>2. /\ s \in [registered \cup {k} -> Nat] /\ s[k] = b
        /\ \A n \in registered : s[n] = r[n]
    BY <1>6, <2>1
  <2> HIDE DEF s
  <2>3. \A n \in registered : Children(pool, n) \subseteq registered
    BY PathNodes DEF RegisteredLinked, Children, TypeOK
  <2>4. \A n \in registered \cup {k} : s[n] < b + 1
    BY <2>1, <2>2
  <2>5. \A n \in registered \cup {k} : \A m \in Children(pool, n) : m \in registered /\ s[m] < s[n]
    BY <1>6, <2>1, <2>2, <2>3
  <2>6. \A t, d : t = s /\ d = b + 1 => RanksNodes(t, d)'
    BY <1>6, <2>2, <2>4, <2>5 DEF RanksNodes
  <2>7. b + 1 \in Nat /\ \E d \in Nat : d = b + 1 /\ \E t : t = s
    OBVIOUS
  <2> QED
    BY <2>6, <2>7 DEF Ranked
<1>7. CASE MinimizeStep
  <2>1. \A m \in Children(pool, Top) : m \in registered
    BY TopLinked, PathNodes DEF Children
  <2>2. CASE registered' = registered \cup {Top} /\ pool' = pool
    BY <1>5, <1>6, <2>1, <2>2
  <2> QED
    BY <1>5, <1>7, <2>2, MinimizeEffect
<1>8. CASE FinishReturn
  <2>1. Top = RootId
    BY <1>8, PathNodes DEF FinishReturn, PathOpen
  <2>2. \A m \in Children(pool, RootId) : m \in registered
    BY <2>1, TopLinked, PathNodes DEF Children
  <2>3. pool' = pool /\ (registered' = registered \/ registered' = registered \cup {RootId})
    BY <1>8 DEF FinishReturn
  <2> QED
    BY <1>5, <1>6, <2>2, <2>3
<1> QED
  BY <1>5, <1>7, <1>8
     DEF Next, Step, AddRejected, AddStart, FinishStart, MinimizeReturn, ExtendStep, AddReturn, vars

LEMMA UsefulStep ==
    ASSUME CountSuffices, BuildInv, BuildInv', NodesUseful, [Next]_vars
    PROVE  NodesUseful'
<1> USE DEF BuildInv, PathInv
<1>1. /\ \A n \in registered : n # RootId => Useful(pool, n)
      /\ \A n \in registered : RootId \notin Children(pool, n)
      /\ pc # "extend" /\ Len(path) > 1 => Useful(pool, Top)
  BY DEF NodesUseful
<1>2. \A n \in registered : n \in registered' /\ pool'[n] = pool[n]
  BY FrozenStep
<1>3. \A n \in registered : (Useful(pool', n) <=> Useful(pool, n)) /\ Children(pool', n) = Children(pool, n)
  BY <1>2 DEF Children, Useful
<1>4. ASSUME pc # "idle" PROVE RootId \notin registered
  <2>1. 1 \in DOMAIN path /\ path[1] = RootId /\ ~finished
    BY <1>4, PathNodes DEF PathOpen
  <2> QED
    BY <2>1 DEF PathOpen
<1>5. \A m \in Children(pool, Top) : m \in registered
  BY TopLinked, PathNodes DEF Children
<1>6. CASE MinimizeStep
  <2>1. /\ Len(path) \in Nat /\ Len(path) > 1 /\ Len(path') = Len(path) - 1
        /\ \A i \in 1..(Len(path) - 1) : path'[i] = path[i]
        /\ Len(pool'[Parent].trans) = Len(pool[Parent].trans)
        /\ pc # "extend" /\ pc # "idle"
    BY <1>6, MinimizeEffect DEF MinimizeStep
  <2>2. Len(path) - 1 \in 1..(Len(path) - 1) /\ (Len(path) - 1) + 1 = Len(path)
    BY <2>1
  <2>3. Top' = Parent
    BY <2>1, <2>2, PathNodes DEF Parent, Top
  <2>4. Len(pool[Parent].trans) > 0
    <3>1. LastIs(pool, path[Len(path) - 1], Spelled[Len(path) - 1], path[(Len(path) - 1) + 1])
      BY <2>2 DEF PathSpells
    <3> QED
      BY <3>1 DEF LastIs, Parent
  <2>5. Useful(pool', Top')
    BY <2>1, <2>3, <2>4 DEF Useful
  <2>6. Top # RootId
    <3>1. 1 \in DOMAIN path /\ Len(path) \in DOMAIN path
      BY <2>1, PathNodes
    <3>2. path[1] < path[Len(path)] /\ path[1] = RootId
      BY <2>1, <3>1 DEF PathOpen
    <3> QED
      BY <3>2, PathNodes DEF RootId
  <2>7. CASE registered' = registered \cup {Top} /\ pool' = pool
    <3>1. \A n \in registered' : n # RootId => Useful(pool', n)
      BY <1>1, <2>1, <2>7
    <3>2. \A n \in registered' : RootId \notin Children(pool', n)
      BY <1>1, <1>4, <1>5, <2>1, <2>7
    <3> QED
      BY <2>5, <3>1, <3>2 DEF NodesUseful
  <2>8. CASE registered' = registered
    <3>1. \A n \in registered : n # RootId => Useful(pool', n)
      BY <1>1, <1>3
    <3>2. \A n \in registered : RootId \notin Children(pool', n)
      BY <1>1, <1>3
    <3> QED
      BY <2>5, <2>8, <3>1, <3>2 DEF NodesUseful
  <2> QED
    BY <1>6, <2>7, <2>8, MinimizeEffect
<1>7. ASSUME registered' = registered, pc' = "extend"
      PROVE  NodesUseful'
  <2>1. \A n \in registered : n # RootId => Useful(pool', n)
    BY <1>1, <1>3
  <2>2. \A n \in registered : RootId \notin Children(pool', n)
    BY <1>1, <1>3
  <2> QED
    BY <1>7, <2>1, <2>2 DEF NodesUseful
<1>8. CASE AddReturn
  <2>1. registered' = registered /\ path' = path
    BY <1>8 DEF AddReturn
  <2>2. pool'[Top].final
    BY <1>8, PathNodes DEF AddReturn, TypeOK, Node
  <2>3. Useful(pool', Top')
    BY <2>1, <2>2 DEF Useful, Top
  <2>4. \A n \in registered : n # RootId => Useful(pool', n)
    BY <1>1, <1>3
  <2>5. \A n \in registered : RootId \notin Children(pool', n)
    BY <1>1, <1>3
  <2> QED
    BY <2>1, <2>3, <2>4, <2>5 DEF NodesUseful
<1>9. CASE FinishReturn
  <2>1. /\ pool' = pool /\ path' = path /\ pc = "freeze"
        /\ registered' \subseteq registered \cup {RootId}
    BY <1>9 DEF FinishReturn
  <2>2. Top = RootId
    BY <1>9, PathNodes DEF FinishReturn, PathOpen
  <2>3. RootId \notin Children(pool, RootId)
    BY <1>4, <1>5, <2>1, <2>2
  <2>4. Top' = Top
    BY <2>1 DEF Top
  <2>5. \A n \in registered' : n # RootId => Useful(pool', n)
    BY <1>1, <2>1
  <2>6. \A n \in registered' : RootId \notin Children(pool', n)
    BY <1>1, <2>1, <2>3
  <2>7. Len(path') > 1 => Useful(pool', Top')
    BY <1>1, <2>1, <2>4
  <2> QED
    BY <2>5, <2>6, <2>7 DEF NodesUseful
<1>10. ASSUME UNCHANGED <<registered, pool, path>>, pc # "extend" \/ pc' = "extend"
       PROVE  NodesUseful'
  BY <1>10 DEF NodesUseful, Top
<1> QED
  BY <1>6, <1>7, <1>8, <1>9, <1>10
     DEF Next, Step, AddRejected, AddStart, FinishStart, MinimizeReturn, ExtendStep, vars

\* What a node accepts is what its children accept, behind a label.
LEMMA AcceptsLabel ==
    ASSUME NEW P, IsPool(P), NEW n \in 1..Len(P), NEW c \in Labels, NEW u \in Seq(Labels)
    PROVE  AcceptsFrom(P, n, <<c>> \o u) <=>
               \E m \in 1..Len(P) : Leads(P, n, c, m) /\ AcceptsFrom(P, m, u)
<1> DEFINE v == <<c>> \o u
           k == Len(u)
<1>1. /\ k \in Nat /\ v \in Seq(Labels) /\ Len(v) = k + 1 /\ v[1] = c
      /\ \A i \in 1..k : v[i + 1] = u[i]
  OBVIOUS
<1>2. Len(P) \in Nat
  BY DEF IsPool
<1> HIDE DEF v
<1>3. ASSUME AcceptsFrom(P, n, v)
      PROVE  \E m \in 1..Len(P) : Leads(P, n, c, m) /\ AcceptsFrom(P, m, u)
  <2>1. PICK p : IsWay(P, n, v, p) /\ P[p[Len(v) + 1]].final
    BY <1>3 DEF AcceptsFrom
  <2>2. /\ p \in Seq(1..Len(P)) /\ Len(p) = k + 2 /\ p[1] = n /\ P[p[k + 2]].final
        /\ \A i \in 1..(k + 1) : Leads(P, p[i], v[i], p[i + 1])
    BY <1>1, <2>1 DEF IsWay
  <2> DEFINE q == Tail(p)
  <2>3. /\ q \in Seq(1..Len(P)) /\ Len(q) = k + 1 /\ \A i \in 1..(k + 1) : q[i] = p[i + 1]
    BY <1>1, <2>2
  <2> HIDE DEF q
  <2>4. ASSUME NEW i \in 1..k PROVE Leads(P, q[i], u[i], q[i + 1])
    <3>1. i \in 1..(k + 1) /\ i + 1 \in 1..(k + 1)
      OBVIOUS
    <3>2. Leads(P, p[i + 1], v[i + 1], p[(i + 1) + 1])
      BY <2>2, <3>1
    <3> QED
      BY <1>1, <2>3, <3>1, <3>2
  <2>5. 1 \in 1..(k + 1) /\ k + 1 \in 1..(k + 1) /\ (k + 1) + 1 = k + 2
    BY <1>1
  <2>6. p[2] \in 1..Len(P) /\ q[1] = p[2] /\ q[k + 1] = p[k + 2]
    BY <1>1, <2>2, <2>3, <2>5
  <2> HIDE DEF k
  <2>7. IsWay(P, p[2], u, q)
    BY <2>3, <2>4, <2>6 DEF IsWay, k
  <2>8. AcceptsFrom(P, p[2], u)
    BY <2>2, <2>6, <2>7 DEF AcceptsFrom, k
  <2>9. Leads(P, n, c, p[2])
    BY <1>1, <2>2, <2>5
  <2> QED
    BY <2>6, <2>8, <2>9
<1>4. ASSUME NEW m \in 1..Len(P), Leads(P, n, c, m), AcceptsFrom(P, m, u)
      PROVE  AcceptsFrom(P, n, v)
  <2>1. PICK q : IsWay(P, m, u, q) /\ P[q[k + 1]].final
    BY <1>4 DEF AcceptsFrom
  <2>2. /\ q \in Seq(1..Len(P)) /\ Len(q) = k + 1 /\ q[1] = m
        /\ \A i \in 1..k : Leads(P, q[i], u[i], q[i + 1])
    BY <2>1 DEF IsWay
  <2> DEFINE p == <<n>> \o q
  <2>3. /\ p \in Seq(1..Len(P)) /\ Len(p) = k + 2 /\ p[1] = n /\ \A i \in 1..(k + 1) : p[i + 1] = q[i]
    BY <1>1, <2>2
  <2> HIDE DEF p
  <2>4. ASSUME NEW i \in 1..(k + 1) PROVE Leads(P, p[i], v[i], p[i + 1])
    <3>1. CASE i = 1
      BY <1>1, <1>4, <2>2, <2>3, <3>1
    <3>2. CASE i # 1
      <4> DEFINE j == i - 1
      <4>1. j \in 1..k /\ j \in 1..(k + 1) /\ i = j + 1 /\ i \in 1..(k + 1)
        BY <1>1, <3>2
      <4> HIDE DEF j
      <4>2. Leads(P, q[j], u[j], q[j + 1])
        BY <2>2, <4>1
      <4>3. p[i] = q[j] /\ v[i] = u[j] /\ p[i + 1] = q[j + 1]
        BY <1>1, <2>3, <4>1
      <4> QED
        BY <4>2, <4>3
    <3> QED
      BY <3>1, <3>2
  <2>5. IsWay(P, n, v, p)
    BY <1>1, <2>3, <2>4 DEF IsWay
  <2>6. Len(v) + 1 = k + 2 /\ p[k + 2] = q[k + 1]
    <3>1. k + 1 \in 1..(k + 1) /\ (k + 1) + 1 = k + 2
      BY <1>1
    <3> QED
      BY <1>1, <2>3, <3>1
  <2> QED
    BY <2>1, <2>5, <2>6 DEF AcceptsFrom
<1> QED
  BY <1>3, <1>4 DEF v

LEMMA AcceptsEmpty ==
    ASSUME NEW P, IsPool(P), NEW n \in 1..Len(P)
    PROVE  AcceptsFrom(P, n, << >>) <=> P[n].final
<1>1. ASSUME NEW p, IsWay(P, n, << >>, p) PROVE p[Len(<< >>) + 1] = n
  BY <1>1 DEF IsWay
<1>2. IsWay(P, n, << >>, <<n>>)
  BY DEF IsWay
<1> QED
  BY <1>1, <1>2 DEF AcceptsFrom

\* A node has one child for a label.
LEMMA LeadsOnce ==
    ASSUME TypeOK, LabelsSorted, NEW n \in 1..Len(pool), NEW c, NEW a, NEW b,
           Leads(pool, n, c, a), Leads(pool, n, c, b)
    PROVE  a = b
<1> DEFINE t == pool[n].trans
<1>1. t \in Seq(Transition) /\ DOMAIN t = 1..Len(t) /\ Len(t) \in Nat /\ n \in DOMAIN pool
  BY PathNodes
<1>2. PICK i \in 1..Len(t) : t[i].label = c /\ t[i].child = a
  BY DEF Leads
<1>3. PICK j \in 1..Len(t) : t[j].label = c /\ t[j].child = b
  BY DEF Leads
<1>4. \A k, l \in 1..Len(t) : k < l => t[k].label < t[l].label
  BY <1>1 DEF LabelsSorted
<1>5. t[i] \in Transition
  BY <1>1
<1> HIDE DEF t
<1>6. c \in Nat
  BY <1>2, <1>5, LabelsAssumption DEF Transition
<1>7. ~(i < j) /\ ~(j < i)
  BY <1>2, <1>3, <1>4, <1>6
<1>8. i = j
  BY <1>1, <1>7
<1> QED
  BY <1>2, <1>3, <1>8

\* Two sorted arrays with the same transitions are the same.
LEMMA SameTransitions ==
    ASSUME NEW s \in Seq(Transition), NEW t \in Seq(Transition),
           \A i, j \in 1..Len(s) : i < j => s[i].label < s[j].label,
           \A i, j \in 1..Len(t) : i < j => t[i].label < t[j].label,
           \A i \in 1..Len(s) : \E j \in 1..Len(t) : t[j] = s[i],
           \A i \in 1..Len(t) : \E j \in 1..Len(s) : s[j] = t[i]
    PROVE  s = t
<1> DEFINE a == Len(s)
           b == Len(t)
           S(i) == s[i].label
           T(i) == t[i].label
<1>1. a \in Nat /\ b \in Nat
  OBVIOUS
<1>2. \A i \in 1..a : S(i) \in Nat
  <2> SUFFICES ASSUME NEW i \in 1..a PROVE s[i].label \in Nat
    OBVIOUS
  <2>1. s[i] \in Transition
    OBVIOUS
  <2>2. s[i].label \in Labels
    BY <2>1 DEF Transition
  <2> QED
    BY <2>2, LabelsAssumption
<1>3. \A i \in 1..b : T(i) \in Nat
  <2> SUFFICES ASSUME NEW i \in 1..b PROVE t[i].label \in Nat
    OBVIOUS
  <2>1. t[i] \in Transition
    OBVIOUS
  <2>2. t[i].label \in Labels
    BY <2>1 DEF Transition
  <2> QED
    BY <2>2, LabelsAssumption
<1>4. \A i \in 1..a : \E j \in 1..b : t[j] = s[i] /\ T(j) = S(i)
  OBVIOUS
<1>5. \A i \in 1..b : \E j \in 1..a : s[j] = t[i] /\ S(j) = T(i)
  OBVIOUS
<1>6. /\ \A i, j \in 1..a : i < j => S(i) < S(j)
      /\ \A i, j \in 1..b : i < j => T(i) < T(j)
  OBVIOUS
<1>7. \A i \in 1..a, j \in 1..b : s[i] = t[j] => S(i) = T(j)
  OBVIOUS
<1> HIDE DEF a, b, S, T
<1> DEFINE Same(k) == k <= a /\ k <= b /\ s[k] = t[k]
           D == {k \in 1..a \cup 1..b : ~Same(k)}
<1>8. ASSUME NEW k \in 1..a, \A l \in 1..(k - 1) : Same(l), k <= b => S(k) <= T(k)
      PROVE  Same(k)
  <2>1. PICK j \in 1..b : t[j] = s[k] /\ T(j) = S(k)
    BY <1>4
  <2>2. k \in Nat /\ j \in Nat /\ k >= 1 /\ j >= 1 /\ j <= b /\ S(k) \in Nat /\ T(j) \in Nat
    BY <1>1, <1>2, <1>3
  <2>3. ASSUME j < k PROVE FALSE
    <3>1. j \in 1..(k - 1)
      BY <2>2, <2>3
    <3>2. Same(j)
      BY <1>8, <3>1
    <3>3. j \in 1..a /\ S(j) = T(j)
      BY <1>1, <1>7, <2>2, <3>2
    <3>4. S(j) < S(k)
      BY <1>6, <2>3, <3>3
    <3> QED
      BY <2>1, <2>2, <3>3, <3>4
  <2>4. ASSUME k < j PROVE FALSE
    <3>1. k \in 1..b /\ k <= b
      BY <1>1, <2>2, <2>4
    <3>2. T(k) < T(j) /\ T(k) \in Nat
      BY <1>3, <1>6, <2>4, <3>1
    <3>3. S(k) <= T(k)
      BY <1>8, <3>1
    <3> QED
      BY <2>1, <2>2, <3>2, <3>3
  <2>5. j = k
    BY <2>2, <2>3, <2>4
  <2>6. k <= a /\ k <= b
    BY <1>1, <2>2, <2>5
  <2> QED
    BY <2>1, <2>5, <2>6
<1>9. ASSUME NEW k \in 1..b, \A l \in 1..(k - 1) : Same(l), k <= a => T(k) <= S(k)
      PROVE  Same(k)
  <2>1. PICK j \in 1..a : s[j] = t[k] /\ S(j) = T(k)
    BY <1>5
  <2>2. k \in Nat /\ j \in Nat /\ k >= 1 /\ j >= 1 /\ j <= a /\ T(k) \in Nat /\ S(j) \in Nat
    BY <1>1, <1>2, <1>3
  <2>3. ASSUME j < k PROVE FALSE
    <3>1. j \in 1..(k - 1)
      BY <2>2, <2>3
    <3>2. Same(j)
      BY <1>9, <3>1
    <3>3. j \in 1..b /\ S(j) = T(j)
      BY <1>1, <1>7, <2>2, <3>2
    <3>4. T(j) < T(k)
      BY <1>6, <2>3, <3>3
    <3> QED
      BY <2>1, <2>2, <3>3, <3>4
  <2>4. ASSUME k < j PROVE FALSE
    <3>1. k \in 1..a /\ k <= a
      BY <1>1, <2>2, <2>4
    <3>2. S(k) < S(j) /\ S(k) \in Nat
      BY <1>2, <1>6, <2>4, <3>1
    <3>3. T(k) <= S(k)
      BY <1>9, <3>1
    <3> QED
      BY <2>1, <2>2, <3>2, <3>3
  <2>5. j = k
    BY <2>2, <2>3, <2>4
  <2>6. k <= a /\ k <= b
    BY <1>1, <2>2, <2>5
  <2> QED
    BY <2>1, <2>5, <2>6
<1>10. ASSUME D # {} PROVE FALSE
  <2>1. D \in SUBSET Nat
    BY <1>1
  <2>2. PICK k \in D : \A l \in D : k <= l
    <3> HIDE DEF D
    <3> QED
      BY <1>10, <2>1, Least
  <2>3. k \in 1..a \cup 1..b /\ ~Same(k) /\ k \in Nat /\ k >= 1
    BY <1>1
  <2>4. \A l \in 1..(k - 1) : Same(l)
    <3> SUFFICES ASSUME NEW l \in 1..(k - 1) PROVE Same(l)
      OBVIOUS
    <3>1. l \in 1..a \cup 1..b /\ ~(k <= l)
      BY <1>1, <2>3
    <3>2. l \notin D
      BY <2>2, <3>1
    <3> HIDE DEF Same
    <3> QED
      BY <3>1, <3>2
  <2>5. CASE k \in 1..a /\ (k <= b => S(k) <= T(k))
    <3> HIDE DEF Same, D
    <3> QED
      BY <1>8, <2>3, <2>4, <2>5
  <2>6. CASE k \in 1..b /\ (k <= a => T(k) <= S(k))
    <3> HIDE DEF Same, D
    <3> QED
      BY <1>9, <2>3, <2>4, <2>6
  <2>7. \/ k \in 1..a /\ (k <= b => S(k) <= T(k))
        \/ k \in 1..b /\ (k <= a => T(k) <= S(k))
    <3>1. CASE k <= a /\ k <= b
      <4>1. k \in 1..a /\ k \in 1..b
        BY <1>1, <2>3, <3>1
      <4>2. S(k) \in Nat /\ T(k) \in Nat
        BY <1>2, <1>3, <4>1
      <4> QED
        BY <4>1, <4>2
    <3>2. CASE ~(k <= a /\ k <= b)
      BY <1>1, <2>3, <3>2
    <3> QED
      BY <3>1, <3>2
  <2> QED
    BY <2>5, <2>6, <2>7
<1>11. \A k \in 1..a \cup 1..b : Same(k)
  BY <1>10
<1>12. a = b
  <2>1. a > 0 => a \in 1..a \cup 1..b
    BY <1>1
  <2>2. b > 0 => b \in 1..a \cup 1..b
    BY <1>1
  <2>3. (a > 0 => a <= b) /\ (b > 0 => b <= a)
    BY <1>11, <2>1, <2>2
  <2> QED
    BY <1>1, <2>3
<1>13. \A k \in 1..a : s[k] = t[k]
  BY <1>11
<1> QED
  BY <1>12, <1>13, SeqEqual DEF a, b

\* Every canonical node but an empty root accepts something.
LEMMA AcceptsSomething ==
    ASSUME MinimalInv, NEW n \in registered, Useful(pool, n)
    PROVE  \E u \in Seq(Labels) : AcceptsFrom(pool, n, u)
<1> USE DEF MinimalInv, BuildInv
<1>1. IsPool(pool) /\ registered \subseteq 1..Len(pool)
  BY PoolIsPool DEF TypeOK
<1>2. PICK b \in Nat : \E q : RanksNodes(q, b)
  BY DEF Ranked
<1>3. PICK r : RanksNodes(r, b)
  BY <1>2
<1> DEFINE Bad(m) == Useful(pool, m) /\ ~\E u \in Seq(Labels) : AcceptsFrom(pool, m, u)
           T == {r[m] : m \in {l \in registered : Bad(l)}}
<1> HIDE DEF Bad
<1> SUFFICES ASSUME Bad(n) PROVE FALSE
  BY DEF Bad
<1>4. T \in SUBSET Nat /\ T # {}
  BY <1>3 DEF RanksNodes
<1>5. PICK m \in registered : Bad(m) /\ \A l \in registered : Bad(l) => r[m] <= r[l]
  <2>1. PICK k \in T : \A l \in T : k <= l
    <3> HIDE DEF T
    <3> QED
      BY <1>4, Least
  <2> QED
    BY <2>1
<1>6. Useful(pool, m) /\ m \in 1..Len(pool) /\ ~\E u \in Seq(Labels) : AcceptsFrom(pool, m, u)
  BY <1>1, <1>5 DEF Bad
<1>7. ~pool[m].final
  <2>1. << >> \in Seq(Labels)
    OBVIOUS
  <2> QED
    BY <1>1, <1>6, <2>1, AcceptsEmpty
<1>8. Len(pool[m].trans) > 0 /\ Len(pool[m].trans) \in Nat
  BY <1>1, <1>6, <1>7, PoolNodes DEF Useful
<1> DEFINE c == pool[m].trans[1].label
           a == pool[m].trans[1].child
<1>9. c \in Labels /\ a \in 1..Len(pool) /\ Leads(pool, m, c, a) /\ a \in Children(pool, m)
  BY <1>1, <1>6, <1>8, PoolNodes DEF Leads, Children
<1> HIDE DEF c, a
<1>10. a \in registered /\ a # RootId
  BY <1>6, <1>9, ChildOfRegistered DEF NodesUseful
<1>11. Useful(pool, a)
  BY <1>10 DEF NodesUseful
<1>12. r[a] < r[m] /\ r[a] \in Nat /\ r[m] \in Nat
  BY <1>3, <1>9, <1>10 DEF RanksNodes
<1>13. ~Bad(a)
  BY <1>5, <1>10, <1>12
<1>14. PICK u \in Seq(Labels) : AcceptsFrom(pool, a, u)
  BY <1>11, <1>13 DEF Bad
<1>15. AcceptsFrom(pool, m, <<c>> \o u) /\ <<c>> \o u \in Seq(Labels)
  BY <1>1, <1>6, <1>9, <1>14, AcceptsLabel
<1> QED
  BY <1>6, <1>15

\* Nodes of the same words have transitions for the same labels, to nodes of
\* the same words.
LEMMA SameBelow ==
    ASSUME MinimalInv, NEW m \in registered, NEW n \in registered, SameWords(m, n),
           NEW c, NEW a, Leads(pool, m, c, a)
    PROVE  \E b \in registered : Leads(pool, n, c, b) /\ SameWords(a, b)
<1> USE DEF MinimalInv, BuildInv
<1>1. IsPool(pool) /\ m \in 1..Len(pool) /\ n \in 1..Len(pool)
  BY PoolIsPool DEF TypeOK
<1>2. c \in Labels /\ a \in 1..Len(pool) /\ a \in Children(pool, m)
  BY <1>1, PoolNodes DEF Leads, Children
<1>3. a \in registered /\ a # RootId
  BY <1>2, ChildOfRegistered DEF NodesUseful
<1>4. PICK u \in Seq(Labels) : AcceptsFrom(pool, a, u)
  BY <1>3, AcceptsSomething DEF NodesUseful
<1>5. AcceptsFrom(pool, n, <<c>> \o u)
  <2>1. AcceptsFrom(pool, m, <<c>> \o u) /\ <<c>> \o u \in Seq(Labels)
    BY <1>1, <1>2, <1>4, AcceptsLabel
  <2> QED
    BY <2>1 DEF SameWords
<1>6. PICK b \in 1..Len(pool) : Leads(pool, n, c, b)
  BY <1>1, <1>2, <1>5, AcceptsLabel
<1>7. b \in registered
  BY <1>6, ChildOfRegistered
<1>8. ASSUME NEW x \in Seq(Labels)
      PROVE  AcceptsFrom(pool, a, x) <=> AcceptsFrom(pool, b, x)
  <2>1. <<c>> \o x \in Seq(Labels)
    BY <1>2
  <2>2. AcceptsFrom(pool, m, <<c>> \o x) <=> AcceptsFrom(pool, n, <<c>> \o x)
    BY <2>1 DEF SameWords
  <2>3. AcceptsFrom(pool, m, <<c>> \o x) <=> AcceptsFrom(pool, a, x)
    <3>1. \A k : Leads(pool, m, c, k) => k = a
      BY <1>1, LeadsOnce
    <3> QED
      BY <1>1, <1>2, <3>1, AcceptsLabel
  <2>4. AcceptsFrom(pool, n, <<c>> \o x) <=> AcceptsFrom(pool, b, x)
    <3>1. \A k : Leads(pool, n, c, k) => k = b
      BY <1>1, <1>6, LeadsOnce
    <3> QED
      BY <1>1, <1>2, <1>6, <3>1, AcceptsLabel
  <2> QED
    BY <2>2, <2>3, <2>4
<1> QED
  BY <1>6, <1>7, <1>8 DEF SameWords

LEMMA Distinct ==
    ASSUME MinimalInv, NEW k \in registered, NEW l \in registered, SameWords(k, l)
    PROVE  k = l
<1> USE DEF MinimalInv, BuildInv
<1>1. IsPool(pool) /\ registered \subseteq 1..Len(pool)
  BY PoolIsPool DEF TypeOK
<1>2. PICK b \in Nat : \E q : RanksNodes(q, b)
  BY DEF Ranked
<1>3. PICK r : RanksNodes(r, b)
  BY <1>2
<1>4. \A n \in registered : r[n] \in Nat /\ \A m \in Children(pool, n) \cap registered : r[m] < r[n]
  BY <1>3 DEF RanksNodes
<1> DEFINE Bad(m) == \E n \in registered : m # n /\ SameWords(m, n)
           T == {r[m] : m \in {x \in registered : Bad(x)}}
<1> HIDE DEF Bad
<1> SUFFICES ASSUME Bad(k) PROVE FALSE
  BY DEF Bad
<1>5. PICK m \in registered : Bad(m) /\ \A x \in registered : Bad(x) => r[m] <= r[x]
  <2>1. T \in SUBSET Nat /\ T # {}
    BY <1>4
  <2>2. PICK i \in T : \A j \in T : i <= j
    <3> HIDE DEF T
    <3> QED
      BY <2>1, Least
  <2> QED
    BY <2>2
<1>6. PICK n \in registered : m # n /\ SameWords(m, n)
  BY <1>5 DEF Bad
<1>7. SameWords(n, m)
  BY <1>6 DEF SameWords
<1>8. m \in 1..Len(pool) /\ n \in 1..Len(pool) /\ m \in DOMAIN pool /\ n \in DOMAIN pool
  BY <1>1, PathNodes
<1>9. ASSUME NEW c, NEW a, NEW d, Leads(pool, m, c, a), Leads(pool, n, c, d), SameWords(a, d)
      PROVE  a = d
  <2>1. a \in registered /\ d \in registered
    BY <1>9, ChildOfRegistered
  <2>2. a \in Children(pool, m)
    BY <1>9 DEF Leads, Children
  <2>3. r[a] < r[m] /\ r[a] \in Nat /\ r[m] \in Nat
    BY <1>4, <2>1, <2>2
  <2>4. ~Bad(a)
    BY <1>5, <2>1, <2>3
  <2> QED
    BY <1>9, <2>1, <2>4 DEF Bad
<1>10. \A c, a : Leads(pool, m, c, a) => Leads(pool, n, c, a)
  <2> SUFFICES ASSUME NEW c, NEW a, Leads(pool, m, c, a) PROVE Leads(pool, n, c, a)
    OBVIOUS
  <2>1. PICK d \in registered : Leads(pool, n, c, d) /\ SameWords(a, d)
    BY <1>6, SameBelow
  <2> QED
    BY <1>9, <2>1
<1>11. \A c, a : Leads(pool, n, c, a) => Leads(pool, m, c, a)
  <2> SUFFICES ASSUME NEW c, NEW a, Leads(pool, n, c, a) PROVE Leads(pool, m, c, a)
    OBVIOUS
  <2>1. PICK d \in registered : Leads(pool, m, c, d) /\ SameWords(a, d)
    BY <1>7, SameBelow
  <2>2. SameWords(d, a)
    BY <2>1 DEF SameWords
  <2> QED
    BY <1>9, <2>1, <2>2
<1> DEFINE s == pool[m].trans
           t == pool[n].trans
<1>12. /\ s \in Seq(Transition) /\ t \in Seq(Transition)
       /\ \A i, j \in 1..Len(s) : i < j => s[i].label < s[j].label
       /\ \A i, j \in 1..Len(t) : i < j => t[i].label < t[j].label
       /\ \A i \in 1..Len(s) : s[i] \in Transition
       /\ \A i \in 1..Len(t) : t[i] \in Transition
  BY <1>1, <1>8, PoolNodes, PathNodes DEF LabelsSorted
<1>13. \A i \in 1..Len(s) : \E j \in 1..Len(t) : t[j] = s[i]
  <2> SUFFICES ASSUME NEW i \in 1..Len(s) PROVE \E j \in 1..Len(t) : t[j] = s[i]
    OBVIOUS
  <2>1. Leads(pool, m, s[i].label, s[i].child)
    BY <1>12 DEF Leads
  <2>2. Leads(pool, n, s[i].label, s[i].child)
    BY <2>1, <1>10
  <2>3. PICK j \in 1..Len(t) : t[j].label = s[i].label /\ t[j].child = s[i].child
    BY <1>12, <2>2 DEF Leads
  <2> HIDE DEF s, t
  <2>4. t[j] \in Transition /\ s[i] \in Transition
    BY <1>12
  <2>5. t[j] = s[i]
    BY <2>3, <2>4 DEF Transition
  <2> QED
    BY <2>5
<1>14. \A i \in 1..Len(t) : \E j \in 1..Len(s) : s[j] = t[i]
  <2> SUFFICES ASSUME NEW i \in 1..Len(t) PROVE \E j \in 1..Len(s) : s[j] = t[i]
    OBVIOUS
  <2>1. Leads(pool, n, t[i].label, t[i].child)
    BY <1>12 DEF Leads
  <2>2. Leads(pool, m, t[i].label, t[i].child)
    BY <2>1, <1>11
  <2>3. PICK j \in 1..Len(s) : s[j].label = t[i].label /\ s[j].child = t[i].child
    BY <1>12, <2>2 DEF Leads
  <2> HIDE DEF s, t
  <2>4. s[j] \in Transition /\ t[i] \in Transition
    BY <1>12
  <2>5. s[j] = t[i]
    BY <2>3, <2>4 DEF Transition
  <2> QED
    BY <2>5
<1>15. s = t
  <2> HIDE DEF s, t
  <2> QED
    BY <1>12, <1>13, <1>14, SameTransitions
<1>16. pool[m].final = pool[n].final
  <2>1. << >> \in Seq(Labels)
    OBVIOUS
  <2>2. pool[m].final <=> pool[n].final
    BY <1>1, <1>6, <1>8, <2>1, AcceptsEmpty DEF SameWords
  <2> QED
    BY <1>1, <1>8, <2>2, PoolNodes
<1>17. pool[m] = pool[n]
  <2>1. pool[m] \in Node /\ pool[n] \in Node
    BY <1>1, <1>8, PoolNodes
  <2> QED
    BY <1>15, <1>16, <2>1 DEF Node
<1> QED
  BY <1>6, <1>17 DEF RegistryIsASet

LEMMA MinimalStep == CountSuffices /\ MinimalInv /\ [Next]_vars => MinimalInv'
  BY BuildInvStep, RegistryStep, UsefulStep, RankStep DEF MinimalInv, BuildInv, PathInv

\* The automaton is minimal: different nodes of the state map accept different
\* sets of words, though they are only ever compared by their transitions.
\* What finish() leaves reachable below the root is in the state map.
THEOREM MinimalCorrect ==
    CountSuffices => (Spec => [](\A m, n \in registered : SameWords(m, n) => m = n))
<1> DEFINE Minimal == \A m, n \in registered : SameWords(m, n) => m = n
<1> SUFFICES ASSUME CountSuffices PROVE Spec => []Minimal
  OBVIOUS
<1>1. Init => MinimalInv
  BY MinimalInit
<1>2. MinimalInv /\ [Next]_vars => MinimalInv'
  BY MinimalStep
<1>3. MinimalInv => Minimal
  BY Distinct
<1> QED
  BY <1>1, <1>2, <1>3, PTL DEF Spec

----------------------------------------------------------------------------
(* What Build_proofs takes from here: Precedes is a strict linear order, for *)
(* words of any length; AtMost is a total preorder on them.                  *)

Word == Seq(Nat)

\* Two words agree up to the end of one, or differ at a first place.
LEMMA FirstDifference ==
    ASSUME NEW u \in Word, NEW v \in Word
    PROVE  \E k \in 0..Len(u) : IsCommonPrefix(u, v, k)
<1> USE DEF Word
<1> DEFINE T == {k \in Nat : ~AgreeUpTo(u, v, k + 1)}
<1>1. Len(u) \in T
  BY DEF AgreeUpTo
<1>2. PICK k \in T : \A l \in T : k <= l
  <2>1. T \in SUBSET Nat /\ T # {}
    BY <1>1
  <2> HIDE DEF T
  <2> QED
    BY <2>1, Least
<1>3. k \in Nat /\ k <= Len(u) /\ ~AgreeUpTo(u, v, k + 1)
  BY <1>1, <1>2
<1>4. AgreeUpTo(u, v, k)
  <2>1. CASE k = 0
    BY <2>1 DEF AgreeUpTo
  <2>2. CASE k # 0
    <3>1. k - 1 \in Nat /\ (k - 1) + 1 = k /\ ~(k <= k - 1)
      BY <1>3, <2>2
    <3>2. k - 1 \notin T
      BY <1>2, <3>1
    <3> QED
      BY <3>1, <3>2
  <2> QED
    BY <2>1, <2>2
<1>5. k < Len(u) /\ k < Len(v) => u[k + 1] # v[k + 1]
  BY <1>3, <1>4 DEF AgreeUpTo
<1> QED
  BY <1>3, <1>4, <1>5 DEF IsCommonPrefix

LEMMA PrecedesLinear ==
    ASSUME NEW u \in Word, NEW v \in Word
    PROVE  u = v \/ Precedes(u, v) \/ Precedes(v, u)
<1> USE DEF Word
<1>1. PICK k \in 0..Len(u) : IsCommonPrefix(u, v, k)
  BY FirstDifference
<1>2. k <= Len(v) /\ AgreeUpTo(u, v, k) /\ AgreeUpTo(v, u, k)
  BY <1>1 DEF IsCommonPrefix, AgreeUpTo
<1>3. CASE k = Len(u) /\ k = Len(v)
  <2>1. Len(u) = Len(v) /\ \A i \in 1..Len(u) : u[i] = v[i]
    BY <1>2, <1>3 DEF AgreeUpTo
  <2> QED
    BY <2>1, SeqEqual
<1>4. CASE k < Len(v) /\ (k < Len(u) => u[k + 1] < v[k + 1])
  BY <1>2, <1>4 DEF Precedes
<1>5. CASE k < Len(u) /\ (k < Len(v) => v[k + 1] < u[k + 1])
  BY <1>2, <1>5 DEF Precedes
<1>6. k < Len(u) /\ k < Len(v) => u[k + 1] \in Nat /\ v[k + 1] \in Nat /\ u[k + 1] # v[k + 1]
  BY <1>1 DEF IsCommonPrefix
<1> QED
  BY <1>2, <1>3, <1>4, <1>5, <1>6

LEMMA PrecedesTransitive ==
    ASSUME NEW u \in Word, NEW v \in Word, NEW w \in Word, Precedes(u, v), Precedes(v, w)
    PROVE  Precedes(u, w)
<1> USE DEF Word
<1>1. PICK k \in 0..Len(u) : AgreeUpTo(u, v, k) /\ k < Len(v) /\ (k < Len(u) => u[k + 1] < v[k + 1])
  BY DEF Precedes
<1>2. PICK l \in 0..Len(v) : AgreeUpTo(v, w, l) /\ l < Len(w) /\ (l < Len(v) => v[l + 1] < w[l + 1])
  BY DEF Precedes
<1>3. CASE k < l
  <2>1. AgreeUpTo(u, w, k) /\ k < Len(w) /\ v[k + 1] = w[k + 1]
    BY <1>1, <1>2, <1>3 DEF AgreeUpTo
  <2> QED
    BY <1>1, <2>1 DEF Precedes
<1>4. CASE l < k
  <2>1. AgreeUpTo(u, w, l) /\ l < Len(u) /\ u[l + 1] = v[l + 1] /\ l < Len(v)
    BY <1>1, <1>2, <1>4 DEF AgreeUpTo
  <2> QED
    BY <1>2, <2>1 DEF Precedes
<1>5. CASE k = l
  <2>1. AgreeUpTo(u, w, k) /\ k < Len(w) /\ v[k + 1] < w[k + 1]
    BY <1>1, <1>2, <1>5 DEF AgreeUpTo
  <2>2. k < Len(u) => u[k + 1] < w[k + 1]
    BY <1>1, <1>2, <1>5, <2>1
  <2> QED
    BY <2>1, <2>2 DEF Precedes
<1> QED
  BY <1>3, <1>4, <1>5

LEMMA PrecedesIrreflexive ==
    ASSUME NEW u \in Word
    PROVE  ~Precedes(u, u)
BY DEF Precedes, Word

AtMost(u, v) == ~Precedes(v, u)

LEMMA AtMostTransitive ==
    ASSUME NEW u \in Word, NEW v \in Word, NEW w \in Word, AtMost(u, v), AtMost(v, w)
    PROVE  AtMost(u, w)
<1> SUFFICES ASSUME Precedes(w, u) PROVE FALSE
  BY DEF AtMost
<1>1. CASE v = u
  BY <1>1 DEF AtMost
<1>2. CASE v = w
  BY <1>2 DEF AtMost
<1>3. CASE Precedes(u, v) /\ Precedes(v, w)
  <2>1. Precedes(u, w)
    BY <1>3, PrecedesTransitive
  <2>2. Precedes(u, u)
    BY <2>1, PrecedesTransitive
  <2> QED
    BY <2>2, PrecedesIrreflexive
<1> QED
  BY <1>1, <1>2, <1>3, PrecedesLinear DEF AtMost

LEMMA PrecedesAtMost ==
    ASSUME NEW u \in Word, NEW v \in Word, Precedes(u, v)
    PROVE  AtMost(u, v) /\ u # v
<1>1. ~Precedes(u, u)
  BY PrecedesIrreflexive
<1>2. ~Precedes(v, u)
  BY <1>1, PrecedesTransitive
<1> QED
  BY <1>1, <1>2 DEF AtMost

LEMMA AtMostReflexive ==
    ASSUME NEW u \in Word
    PROVE  AtMost(u, u)
BY PrecedesIrreflexive DEF AtMost

\* Words that agree on their first d labels are compared by what is behind them.
LEMMA SuffixesCompare ==
    ASSUME NEW u \in Word, NEW v \in Word, NEW d \in Nat, AgreeUpTo(u, v, d)
    PROVE  Precedes(SubSeq(u, d + 1, Len(u)), SubSeq(v, d + 1, Len(v))) <=> Precedes(u, v)
<1> USE DEF Word
<1> DEFINE su == SubSeq(u, d + 1, Len(u))
           sv == SubSeq(v, d + 1, Len(v))
<1>1. /\ Len(u) \in Nat /\ Len(v) \in Nat /\ d <= Len(u) /\ d <= Len(v)
      /\ \A k \in 1..d : u[k] = v[k]
  BY DEF AgreeUpTo
<1>2. Len(su) = Len(u) - d /\ Len(sv) = Len(v) - d
  BY <1>1
<1>3. /\ \A k \in 1..(Len(u) - d) : su[k] = u[k + d]
      /\ \A k \in 1..(Len(v) - d) : sv[k] = v[k + d]
  BY <1>1
<1> HIDE DEF su, sv
<1>4. ASSUME Precedes(su, sv) PROVE Precedes(u, v)
  <2>1. PICK k \in 0..Len(su) : AgreeUpTo(su, sv, k) /\ k < Len(sv) /\ (k < Len(su) => su[k + 1] < sv[k + 1])
    BY <1>4 DEF Precedes
  <2>2. k + d \in 0..Len(u) /\ k + d < Len(v) /\ k \in Nat
    BY <1>1, <1>2, <2>1
  <2>3. ASSUME NEW l \in 1..(k + d) PROVE u[l] = v[l]
    <3>1. CASE l <= d
      BY <1>1, <3>1
    <3>2. CASE l > d
      <4>1. l - d \in 1..k /\ l - d \in 1..(Len(u) - d) /\ l - d \in 1..(Len(v) - d) /\ (l - d) + d = l
        BY <1>1, <2>2, <3>2
      <4>2. su[l - d] = sv[l - d]
        BY <2>1, <4>1 DEF AgreeUpTo
      <4> QED
        BY <1>3, <4>1, <4>2
    <3> QED
      BY <1>1, <2>2, <3>1, <3>2
  <2>4. AgreeUpTo(u, v, k + d)
    BY <1>1, <2>2, <2>3 DEF AgreeUpTo
  <2>5. k + d < Len(u) => u[(k + d) + 1] < v[(k + d) + 1]
    <3> SUFFICES ASSUME k + d < Len(u) PROVE u[(k + d) + 1] < v[(k + d) + 1]
      OBVIOUS
    <3>1. k + 1 \in 1..(Len(u) - d) /\ k + 1 \in 1..(Len(v) - d) /\ (k + 1) + d = (k + d) + 1 /\ k < Len(su)
      BY <1>1, <1>2, <2>2
    <3> QED
      BY <1>3, <2>1, <3>1
  <2> QED
    BY <2>2, <2>4, <2>5 DEF Precedes
<1>5. ASSUME Precedes(u, v) PROVE Precedes(su, sv)
  <2>1. PICK k \in 0..Len(u) : AgreeUpTo(u, v, k) /\ k < Len(v) /\ (k < Len(u) => u[k + 1] < v[k + 1])
    BY <1>5 DEF Precedes
  <2>2. k >= d
    <3> SUFFICES ASSUME k < d PROVE FALSE
      BY <1>1
    <3>1. k + 1 \in 1..d /\ u[k + 1] = v[k + 1] /\ k < Len(u) /\ k + 1 \in 1..Len(u)
      BY <1>1
    <3> QED
      BY <2>1, <3>1
  <2>3. PICK e \in Nat : k = e + d
    <3>1. k - d \in Nat /\ k = (k - d) + d
      BY <1>1, <2>2
    <3> QED
      BY <3>1
  <2>4. e \in 0..Len(su) /\ e < Len(sv)
    BY <1>1, <1>2, <2>1, <2>3
  <2>5. ASSUME NEW l \in 1..e PROVE su[l] = sv[l]
    <3>1. l <= e /\ 1 <= l /\ l \in Nat /\ e <= Len(u) - d /\ e < Len(v) - d
      BY <1>1, <1>2, <2>4
    <3>2. l \in 1..(Len(u) - d) /\ l \in 1..(Len(v) - d) /\ l + d \in 1..k
      BY <1>1, <2>3, <3>1
    <3> QED
      BY <1>3, <2>1, <3>2 DEF AgreeUpTo
  <2>6. AgreeUpTo(su, sv, e)
    BY <1>1, <1>2, <2>4, <2>5 DEF AgreeUpTo
  <2>7. e < Len(su) => su[e + 1] < sv[e + 1]
    <3> SUFFICES ASSUME e < Len(su) PROVE su[e + 1] < sv[e + 1]
      OBVIOUS
    <3>1. e + 1 \in 1..(Len(u) - d) /\ e + 1 \in 1..(Len(v) - d) /\ (e + 1) + d = k + 1 /\ k < Len(u)
      BY <1>1, <1>2, <2>3, <2>4
    <3>2. su[e + 1] = u[(e + 1) + d] /\ sv[e + 1] = v[(e + 1) + d]
      BY <1>3, <3>1
    <3> QED
      BY <2>1, <3>1, <3>2
  <2> QED
    BY <2>4, <2>6, <2>7 DEF Precedes
<1> QED
  BY <1>4, <1>5 DEF su, sv

LEMMA AgreeShorter ==
    ASSUME NEW u \in Word, NEW v \in Word, NEW w \in Word, NEW d \in Nat, AgreeUpTo(u, v, d)
    PROVE  /\ AgreeUpTo(v, u, d) /\ AgreeUpTo(u, u, d)
           /\ AgreeUpTo(v, w, d) => AgreeUpTo(u, w, d)
BY DEF AgreeUpTo, Word

----------------------------------------------------------------------------
(* What a fold over a sequence computes, it computes place by place.         *)

\* What is folded over a sequence with the community modules' operators is a
\* function on sets of places; that there is one.
Greatest(s) == CHOOSE x \in s : \A y \in s : x >= y

LEMMA GreatestPlace ==
    ASSUME NEW m \in Nat, NEW s \in SUBSET (1..m), s # {}
    PROVE  Greatest(s) \in s /\ \A y \in s : y <= Greatest(s)
<1> DEFINE T == {k \in Nat : \E x \in s : x + k = m}
<1>1. T \in SUBSET Nat /\ T # {}
  <2>1. PICK x \in s : TRUE
    OBVIOUS
  <2>2. m - x \in Nat /\ x + (m - x) = m
    OBVIOUS
  <2> QED
    BY <2>2
<1> HIDE DEF T
<1>2. PICK k \in T : \A l \in T : k <= l
  BY <1>1, Least
<1>3. PICK x \in s : x + k = m
  BY DEF T
<1>4. ASSUME NEW y \in s PROVE x >= y
  <2>1. m - y \in Nat /\ y + (m - y) = m
    OBVIOUS
  <2>2. k <= m - y
    BY <1>2, <2>1 DEF T
  <2>3. k \in Nat /\ x \in Nat /\ y \in Nat
    BY <1>1
  <2> QED
    BY <1>3, <2>2, <2>3
<1>5. \E z \in s : \A y \in s : z >= y
  BY <1>4
<1>6. Greatest(s) \in s /\ \A y \in s : Greatest(s) >= y
  BY <1>5 DEF Greatest
<1>7. \A y \in s : y \in Nat
  OBVIOUS
<1> QED
  BY <1>6, <1>7

FoldOf(f, A, base, step, n, seq) ==
    /\ f \in [SUBSET (1..n) -> A]
    /\ \A s \in SUBSET (1..n) :
           f[s] = IF s = {} THEN base ELSE step[<<f[s \ {Greatest(s)}], seq[Greatest(s)]>>]

LEMMA FoldExists ==
    ASSUME NEW A, NEW X, NEW base, NEW step, NEW n, NEW seq,
           base \in A, step \in [A \X X -> A], n \in Nat, seq \in [1..n -> X]
    PROVE  \E f : FoldOf(f, A, base, step, n, seq)
<1> DEFINE Folds(m, f) ==
               /\ f \in [SUBSET (1..m) -> A]
               /\ \A s \in SUBSET (1..m) :
                      f[s] = IF s = {} THEN base ELSE step[<<f[s \ {Greatest(s)}], seq[Greatest(s)]>>]
           Bad == {m \in Nat : m <= n /\ ~\E f : Folds(m, f)}
<1>1. Bad = {}
  <2> SUFFICES ASSUME Bad # {} PROVE FALSE
    OBVIOUS
  <2>1. PICK m \in Bad : \A l \in Bad : m <= l
    <3>1. Bad \in SUBSET Nat
      OBVIOUS
    <3> HIDE DEF Bad
    <3> QED
      BY <3>1, Least
  <2>2. m \in Nat /\ m <= n /\ ~\E f : Folds(m, f)
    OBVIOUS
  <2>3. m # 0
    <3> SUFFICES ASSUME m = 0 PROVE FALSE
      OBVIOUS
    <3>1. SUBSET (1..0) = {{}}
      OBVIOUS
    <3>2. Folds(0, [s \in SUBSET (1..0) |-> base])
      BY <3>1
    <3> QED
      BY <2>2, <3>2
  <2>4. m - 1 \in Nat /\ m - 1 <= n /\ ~(m <= m - 1)
    BY <2>2, <2>3
  <2>5. PICK f : Folds(m - 1, f)
    BY <2>1, <2>4
  <2>6. PICK g : g = [s \in SUBSET (1..m) |->
                         IF s = {} THEN base ELSE step[<<f[s \ {Greatest(s)}], seq[Greatest(s)]>>]]
    OBVIOUS
  <2>7. ASSUME NEW s \in SUBSET (1..m), s # {}
        PROVE  s \ {Greatest(s)} \in SUBSET (1..(m - 1)) /\ Greatest(s) \in 1..n
    <3>1. Greatest(s) \in s /\ \A y \in s : y <= Greatest(s)
      BY <2>2, <2>7, GreatestPlace
    <3>2. PICK x : x = Greatest(s)
      OBVIOUS
    <3>3. x \in 1..m /\ \A y \in s : y \in 1..m /\ y <= x
      BY <3>1, <3>2
    <3>4. \A y \in 1..m : y <= x /\ y # x => y \in 1..(m - 1)
      BY <2>2, <3>3
    <3>5. \A y \in s \ {x} : y \in 1..(m - 1)
      BY <3>3, <3>4
    <3>6. x \in 1..n
      BY <2>2, <3>3
    <3> QED
      BY <3>2, <3>5, <3>6
  <2>8. g \in [SUBSET (1..m) -> A]
    <3> SUFFICES ASSUME NEW s \in SUBSET (1..m), s # {}
                 PROVE  step[<<f[s \ {Greatest(s)}], seq[Greatest(s)]>>] \in A
      BY <2>6
    <3>1. f[s \ {Greatest(s)}] \in A /\ seq[Greatest(s)] \in X
      BY <2>5, <2>7
    <3> QED
      BY <3>1
  <2>9. ASSUME NEW s \in SUBSET (1..(m - 1)) PROVE g[s] = f[s]
    <3>1. s \in SUBSET (1..m)
      BY <2>2
    <3> QED
      BY <2>5, <2>6, <3>1
  <2>10. ASSUME NEW s \in SUBSET (1..m)
         PROVE  g[s] = IF s = {} THEN base ELSE step[<<g[s \ {Greatest(s)}], seq[Greatest(s)]>>]
    BY <2>6, <2>7, <2>9
  <2>11. Folds(m, g)
    BY <2>8, <2>10
  <2> HIDE DEF Folds
  <2> QED
    BY <2>2, <2>11
<1>2. \E f : Folds(n, f)
  <2>1. n \notin Bad /\ n <= n
    <3> HIDE DEF Bad
    <3> QED
      BY <1>1
  <2> HIDE DEF Folds
  <2> QED
    BY <2>1
<1> QED
  BY <1>2 DEF FoldOf

\* It is read off place by place.
LEMMA FoldedSegments ==
    ASSUME NEW k \in Nat \ {0}
    PROVE  1..k # {} /\ Greatest(1..k) = k /\ (1..k) \ {k} = 1..(k - 1)
<1>1. k \in 1..k /\ 1..k \in SUBSET (1..k)
  OBVIOUS
<1>2. Greatest(1..k) \in 1..k /\ k <= Greatest(1..k)
  BY <1>1, GreatestPlace
<1>3. Greatest(1..k) = k
  BY <1>2
<1> QED
  BY <1>1, <1>3

\* A function applied over and over, to the elements of a sequence or to nothing.
RunOf(f, A, base, step, n, seq) ==
    /\ f \in [0..n -> A]
    /\ f[0] = base
    /\ \A k \in 1..n : f[k] = step[<<f[k - 1], seq[k]>>]

IterOf(f, A, base, step, n) ==
    /\ f \in [0..n -> A]
    /\ f[0] = base
    /\ \A k \in 1..n : f[k] = step[f[k - 1]]

LEMMA RunExists ==
    ASSUME NEW A, NEW X, NEW base, NEW step, NEW n, NEW seq,
           base \in A, step \in [A \X X -> A], n \in Nat, seq \in [1..n -> X]
    PROVE  \E f : RunOf(f, A, base, step, n, seq)
<1>1. PICK g : FoldOf(g, A, base, step, n, seq)
  BY FoldExists
<1>2. g \in [SUBSET (1..n) -> A] /\ \A s \in SUBSET (1..n) :
          g[s] = IF s = {} THEN base ELSE step[<<g[s \ {Greatest(s)}], seq[Greatest(s)]>>]
  BY <1>1 DEF FoldOf
<1> DEFINE f == [k \in 0..n |-> g[1..k]]
<1>3. \A k \in 0..n : 1..k \in SUBSET (1..n)
  OBVIOUS
<1>4. f \in [0..n -> A]
  BY <1>2, <1>3
<1>5. f[0] = base
  <2>1. 0 \in 0..n /\ 1..0 = {}
    OBVIOUS
  <2> QED
    BY <1>2, <1>3, <2>1
<1>6. ASSUME NEW k \in 1..n PROVE f[k] = step[<<f[k - 1], seq[k]>>]
  <2>1. k \in Nat \ {0} /\ k \in 0..n /\ k - 1 \in 0..n /\ 1..k \in SUBSET (1..n)
    OBVIOUS
  <2>2. 1..k # {} /\ Greatest(1..k) = k /\ (1..k) \ {k} = 1..(k - 1)
    BY <2>1, FoldedSegments
  <2>3. g[1..k] = step[<<g[1..(k - 1)], seq[k]>>]
    BY <1>2, <2>1, <2>2
  <2> QED
    BY <2>1, <2>3
<1> HIDE DEF f
<1> QED
  BY <1>4, <1>5, <1>6 DEF RunOf

LEMMA IterExists ==
    ASSUME NEW A, NEW base, NEW step, NEW n, base \in A, step \in [A -> A], n \in Nat
    PROVE  \E f : IterOf(f, A, base, step, n)
<1> DEFINE X == {0}
           pairs == [a \in A \X X |-> step[a[1]]]
           seq == [i \in 1..n |-> 0]
<1>1. pairs \in [A \X X -> A] /\ \A a \in A : pairs[<<a, 0>>] = step[a]
  <2>1. \A a \in A \X X : a[1] \in A
    OBVIOUS
  <2>2. \A a \in A : <<a, 0>> \in A \X X /\ <<a, 0>>[1] = a
    OBVIOUS
  <2> QED
    BY <2>1, <2>2
<1>2. seq \in [1..n -> X] /\ \A i \in 1..n : seq[i] = 0
  OBVIOUS
<1> HIDE DEF pairs, seq, X
<1>3. PICK f : RunOf(f, A, base, pairs, n, seq)
  BY <1>1, <1>2, RunExists
<1>4. f \in [0..n -> A] /\ f[0] = base /\ \A k \in 1..n : f[k] = pairs[<<f[k - 1], seq[k]>>]
  BY <1>3 DEF RunOf
<1>5. ASSUME NEW k \in 1..n PROVE f[k] = step[f[k - 1]]
  <2>1. k - 1 \in 0..n
    OBVIOUS
  <2> QED
    BY <1>1, <1>2, <1>4, <2>1
<1> QED
  BY <1>4, <1>5 DEF IterOf

----------------------------------------------------------------------------
(* The builder under a caller: one invariant of it, the nodes that the root  *)
(* reaches, and the words behind a node.                                     *)

\* What the writer needs of the builder: the nodes behind the root, once it has
\* finished, are canonical ones.
RootLinked == finished => Children(pool, RootId) \subseteq registered

BuilderInv == TypeOK /\ PathInv /\ RegisteredLinked /\ Ranked /\ RootLinked

LEMMA BuilderInvInit == Init => BuilderInv
<1> SUFFICES ASSUME Init PROVE BuilderInv
  OBVIOUS
<1>1. TypeOK /\ PathInv /\ RegisteredLinked
  BY TypeInit, PathOpenInit, LinkedInit, PathOrderedInit DEF PathInv
<1>2. RanksNodes([n \in registered |-> 0], 0)
  BY DEF Init, RanksNodes
<1>3. Ranked
  <2>1. 0 \in Nat
    OBVIOUS
  <2> QED
    BY <1>2, <2>1 DEF Ranked
<1> QED
  BY <1>1, <1>3 DEF BuilderInv, RootLinked, Init

LEMMA BuilderInvStep ==
    ASSUME BuilderInv, [Next]_vars
    PROVE  BuilderInv'
<1> USE DEF BuilderInv, PathInv
<1>1. TypeOK' /\ PathInv' /\ RegisteredLinked' /\ Ranked'
  BY TypeStep, PathOpenStep, PathLinkedStep, PathOrderedStep, RegisteredLinkedStep, RankStep
<1>2. RootLinked'
  <2>1. CASE FinishReturn
    <3>1. Len(path) = 1 /\ Top = RootId /\ pool' = pool
      BY <2>1, PathNodes DEF FinishReturn, PathOpen, Top
    <3>2. DOMAIN pool[RootId].trans = 1..Len(pool[RootId].trans)
      BY <3>1, PathNodes DEF Top
    <3>3. Children(pool, RootId) \subseteq registered
      BY <3>1, <3>2, TopLinked DEF Children
    <3>4. registered \subseteq registered'
      BY FrozenStep
    <3> QED
      BY <3>1, <3>3, <3>4 DEF RootLinked, Children
  <2>2. CASE ~FinishReturn /\ ~finished
    <3>1. ~finished'
      BY <2>2 DEF Next, Step, AddRejected, AddStart, FinishStart, MinimizeStep, MinimizeReturn,
         ExtendStep, AddReturn, vars
    <3> QED
      BY <3>1 DEF RootLinked
  <2>3. CASE finished
    <3>1. pc = "idle"
      BY <2>3 DEF PathOpen
    <3>2. pool' = pool /\ registered' = registered
      BY <2>3, <3>1 DEF Next, Step, AddRejected, AddStart, FinishStart, MinimizeStep, MinimizeReturn,
         ExtendStep, AddReturn, FinishReturn, vars
    <3> QED
      BY <2>3, <3>2 DEF RootLinked, Children
  <2> QED
    BY <2>1, <2>2, <2>3
<1> QED
  BY <1>1, <1>2

Canonical == registered \cup {RootId}

\* An order in which children are below their parents.
RankOn(r) ==
    /\ r \in [Canonical -> Nat]
    /\ \A n \in Canonical : \A m \in Children(pool, n) : m \in Canonical /\ r[m] < r[n]

ClosedUnderChildren(S) == RootId \in S /\ \A n \in S : Children(pool, n) \subseteq S

LEMMA RankExists ==
    ASSUME BuilderInv, finished
    PROVE  \E r : RankOn(r)
<1> USE DEF BuilderInv
<1>1. PICK b \in Nat : \E q : RanksNodes(q, b)
  BY DEF Ranked
<1>2. PICK q : RanksNodes(q, b)
  BY <1>1
<1>3. /\ q \in [registered -> Nat] /\ \A n \in registered : q[n] < b
      /\ \A n \in registered : \A m \in Children(pool, n) \cap registered : q[m] < q[n]
  BY <1>2 DEF RanksNodes
<1>4. \A n \in Canonical : Children(pool, n) \subseteq registered
  BY PathNodes DEF RegisteredLinked, RootLinked, Children, Canonical, TypeOK
<1> DEFINE r == [n \in Canonical |-> IF n \in registered THEN q[n] ELSE b]
<1>5. r \in [Canonical -> Nat]
  BY <1>1, <1>3
<1>6. \A n \in registered : r[n] = q[n] /\ n \in Canonical
  BY DEF Canonical
<1>7. \A n \in Canonical : n \notin registered => r[n] = b
  OBVIOUS
<1> HIDE DEF r
<1>8. ASSUME NEW n \in Canonical, NEW m \in Children(pool, n)
      PROVE  m \in Canonical /\ r[m] < r[n]
  <2>1. m \in registered /\ m \in Canonical /\ r[m] = q[m] /\ q[m] < b
    BY <1>3, <1>4, <1>6
  <2>2. CASE n \in registered
    BY <1>3, <1>6, <2>1, <2>2
  <2>3. CASE n \notin registered
    BY <1>7, <2>1, <2>3
  <2> QED
    BY <2>1, <2>2, <2>3
<1> QED
  BY <1>5, <1>8 DEF RankOn

\* The nodes of the walk are nodes of the pool.
LEMMA CanonicalNodes ==
    ASSUME BuilderInv
    PROVE  /\ Canonical \subseteq 1..Len(pool)
           /\ finished => \A n \in Canonical : Children(pool, n) \subseteq Canonical
<1> USE DEF BuilderInv
<1>1. RootId \in 1..Len(pool) /\ registered \subseteq 1..Len(pool)
  BY PathNodes DEF PathInv, PathOpen, TypeOK
<1>2. finished => \A n \in Canonical : Children(pool, n) \subseteq registered
  BY PathNodes DEF RegisteredLinked, RootLinked, Children, Canonical, TypeOK
<1> QED
  BY <1>1, <1>2 DEF Canonical

LEMMA NothingAccepted == Init => Accepted(pool) = {}
<1> SUFFICES ASSUME Init PROVE Accepted(pool) = {}
  OBVIOUS
<1>1. Len(pool) = 1 /\ ~pool[1].final
  BY DEF Init, EmptyNode
<1>2. ASSUME NEW u \in Seq(Labels), NEW p, IsWay(pool, RootId, u, p), pool[p[Len(u) + 1]].final
      PROVE  FALSE
  <2>1. p[Len(u) + 1] \in 1..1
    BY <1>1, <1>2 DEF IsWay
  <2> QED
    BY <1>1, <1>2, <2>1
<1> QED
  BY <1>2 DEF Accepted, Accepts

\* How deep a node lies: from the root to it and on to a final node is a word.
Deep(n, k) ==
    /\ k > 0 => n \in registered /\ n # RootId
    /\ \A v \in Seq(Labels) : AcceptsFrom(pool, n, v) => \E u \in Accepted(pool) : Len(u) = k + Len(v)

LEMMA DeepRoot == Deep(RootId, 0)
<1> SUFFICES ASSUME NEW v \in Seq(Labels), AcceptsFrom(pool, RootId, v)
             PROVE  \E u \in Accepted(pool) : Len(u) = 0 + Len(v)
  BY DEF Deep
<1>1. v \in Accepted(pool)
  BY DEF AcceptsFrom, Accepted, Accepts
<1>2. Len(v) = 0 + Len(v)
  OBVIOUS
<1> QED
  BY <1>1, <1>2

\* The words behind a node.
WordsFrom(n) == {u \in Seq(Labels) : AcceptsFrom(pool, n, u)}

LEMMA HeadAndTail ==
    ASSUME NEW S, NEW u \in Seq(S), u # << >>
    PROVE  u[1] \in S /\ Tail(u) \in Seq(S) /\ u = <<u[1]>> \o Tail(u)
<1>1. Len(u) \in Nat \ {0} /\ u[1] \in S /\ Tail(u) \in Seq(S) /\ Len(Tail(u)) = Len(u) - 1
  OBVIOUS
<1>2. \A i \in 1..(Len(u) - 1) : Tail(u)[i] = u[i + 1]
  OBVIOUS
<1>3. PICK v : v = <<u[1]>> \o Tail(u)
  OBVIOUS
<1>4. <<u[1]>> \in Seq(S) /\ Len(<<u[1]>>) = 1 /\ <<u[1]>>[1] = u[1]
  BY <1>1
<1>5. v \in Seq(S) /\ Len(v) = Len(u)
  BY <1>1, <1>3, <1>4
<1>6. ASSUME NEW i \in 1..Len(u) PROVE v[i] = u[i]
  <2>1. CASE i = 1
    BY <1>1, <1>3, <1>4, <2>1
  <2>2. CASE i # 1
    <3>1. v[i] = Tail(u)[i - 1] /\ i - 1 \in 1..(Len(u) - 1) /\ (i - 1) + 1 = i
      BY <1>1, <1>3, <1>4, <2>2
    <3> QED
      BY <1>2, <3>1
  <2> QED
    BY <2>1, <2>2
<1>7. v = u
  BY <1>5, <1>6, SeqEqual
<1> QED
  BY <1>1, <1>3, <1>7

\* What is left of a key behind its first labels.
RestOf(k, i) == SubSeq(k, i + 1, Len(k))

LEMMA RestNext ==
    ASSUME NEW k \in Seq(Labels), NEW i \in 1..Len(k)
    PROVE  /\ RestOf(k, i - 1) = <<k[i]>> \o RestOf(k, i)
           /\ RestOf(k, i) \in Seq(Labels) /\ k[i] \in Labels
<1>1. Len(k) \in Nat /\ i \in Nat \ {0} /\ k[i] \in Labels /\ \A j \in 1..Len(k) : k[j] \in Labels
  OBVIOUS
<1>2. PICK s : s = RestOf(k, i - 1)
  OBVIOUS
<1>3. PICK t : t = RestOf(k, i)
  OBVIOUS
<1>4. /\ s \in Seq(Labels) /\ Len(s) = Len(k) - (i - 1)
      /\ \A j \in 1..Len(s) : s[j] = k[j + (i - 1)]
  BY <1>1, <1>2 DEF RestOf
<1>5. /\ t \in Seq(Labels) /\ Len(t) = Len(k) - i
      /\ \A j \in 1..Len(t) : t[j] = k[j + i]
  BY <1>1, <1>3 DEF RestOf
<1>6. PICK u : u = <<k[i]>> \o t
  OBVIOUS
<1>7. u \in Seq(Labels) /\ Len(u) = Len(t) + 1
  <2>1. <<k[i]>> \in Seq(Labels) /\ Len(<<k[i]>>) = 1 /\ t \in Seq(Labels)
    BY <1>1, <1>5
  <2>2. Len(<<k[i]>> \o t) = 1 + Len(t) /\ <<k[i]>> \o t \in Seq(Labels)
    BY <2>1
  <2> QED
    BY <1>5, <1>6, <2>2
<1>8. ASSUME NEW j \in 1..Len(s) PROVE s[j] = u[j]
  <2>1. CASE j = 1
    <3>1. s[1] = k[1 + (i - 1)] /\ 1 + (i - 1) = i
      BY <1>1, <1>4, <2>1
    <3>2. u[1] = k[i]
      BY <1>1, <1>5, <1>6
    <3> QED
      BY <2>1, <3>1, <3>2
  <2>2. CASE j # 1
    <3>1. j \in Nat /\ j - 1 \in 1..Len(t) /\ (j - 1) + i = j + (i - 1)
      BY <1>1, <1>4, <1>5, <2>2
    <3>2. u[j] = t[j - 1]
      BY <1>1, <1>4, <1>5, <1>6, <2>2
    <3>3. t[j - 1] = k[(j - 1) + i]
      BY <1>5, <3>1
    <3> QED
      BY <1>4, <3>1, <3>2, <3>3
  <2> QED
    BY <2>1, <2>2
<1>9. Len(s) = Len(u)
  BY <1>1, <1>4, <1>5, <1>7
<1>10. s = u
  BY <1>4, <1>7, <1>8, <1>9, SeqEqual
<1> QED
  BY <1>1, <1>2, <1>3, <1>5, <1>6, <1>10
==============================================================================
