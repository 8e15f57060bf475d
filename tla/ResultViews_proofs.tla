--------------------------- MODULE ResultViews_proofs ---------------------------
(***************************************************************************)
(* Proofs about ResultViews, for any threads, handles and results.         *)
(***************************************************************************)
EXTENDS ResultViews, TLAPS

----------------------------------------------------------------------------

\* What a search under way is known to hold: a handle that is not moved or
\* destroyed meanwhile, and its Impl.
Searching(t) ==
    /\ {"pc", "handle", "impl"} \subseteq DOMAIN call[t]
    /\ call[t].handle \in Handles
    /\ call[t].impl # 0
    /\ call[t].impl = impl[call[t].handle]

\* The strengthening of ImplsOwned: types of the handles, Impls are numbered as
\* they are made, and searches hold on to their handles.
OwnerInv ==
    /\ impl \in [Handles -> Nat]
    /\ made \in Nat
    /\ live \subseteq 1..made
    /\ live = {impl[h] : h \in Handles} \ {0}
    /\ \A h, g \in Handles : impl[h] = impl[g] /\ h # g => impl[h] = 0
    /\ DOMAIN call = Threads
    /\ \A t \in Threads : "pc" \in DOMAIN call[t]
    /\ \A t \in Threads : call[t].pc = "gather" => Searching(t)

LEMMA OwnerInit == Init => OwnerInv
<1> SUFFICES ASSUME Init PROVE OwnerInv
  OBVIOUS
<1>1. \A t \in Threads : "pc" \in DOMAIN call[t] /\ call[t].pc # "gather"
  BY DEF Init, Idle
<1>2. {impl[h] : h \in Handles} \ {0} = {}
  BY DEF Init
<1>3. impl \in [Handles -> Nat] /\ DOMAIN call = Threads /\ live = {} /\ made = 0
      /\ \A h \in Handles : impl[h] = 0
  BY DEF Init
<1> QED
  BY <1>1, <1>2, <1>3 DEF OwnerInv

\* Steps that leave the handles alone, and start no search.
LEMMA CallStep ==
    ASSUME OwnerInv, NEW t \in Threads, UNCHANGED handles,
           \E c : /\ call' = [call EXCEPT ![t] = c]
                  /\ "pc" \in DOMAIN c
                  /\ c.pc = "gather" => /\ call[t].pc = "gather"
                                        /\ {"pc", "handle", "impl"} \subseteq DOMAIN c
                                        /\ c.handle = call[t].handle /\ c.impl = call[t].impl
    PROVE  OwnerInv'
<1>1. UNCHANGED <<impl, live, made>>
  BY DEF handles
<1>2. DOMAIN call' = Threads /\ \A u \in Threads : u # t => call'[u] = call[u]
  BY DEF OwnerInv
<1>3. \A u \in Threads : "pc" \in DOMAIN call'[u] /\ (call'[u].pc = "gather" => Searching(u)')
  BY <1>1, <1>2 DEF OwnerInv, Searching
<1> QED
  BY <1>1, <1>2, <1>3 DEF OwnerInv

LEMMA OwnerStep == OwnerInv /\ [Next]_vars => OwnerInv'
<1> SUFFICES ASSUME OwnerInv, [Next]_vars PROVE OwnerInv'
  OBVIOUS
<1>1. CASE UNCHANGED vars
  BY <1>1 DEF OwnerInv, Searching, vars
<1>2. ASSUME NEW h \in Handles, Open(h)
      PROVE  OwnerInv'
  <2>1. /\ impl[h] = 0 /\ made' = made + 1 /\ live' = live \cup {made'}
        /\ impl' = [impl EXCEPT ![h] = made'] /\ UNCHANGED call
    BY <1>2 DEF Open
  <2>2. /\ made \in Nat /\ made' \in Nat /\ made' # 0 /\ made' \notin live
        /\ live' \subseteq 1..made'
    BY <2>1 DEF OwnerInv
  <2>3. impl' \in [Handles -> Nat] /\ \A g \in Handles : impl'[g] = IF g = h THEN made' ELSE impl[g]
    BY <2>1, <2>2 DEF OwnerInv
  <2>4. live' = {impl'[g] : g \in Handles} \ {0}
    BY <2>1, <2>2, <2>3 DEF OwnerInv
  <2>5. \A g \in Handles : impl[g] # made'
    BY <2>2 DEF OwnerInv
  <2>6. \A t \in Threads : call'[t].pc = "gather" => Searching(t)'
    BY <2>1, <2>3 DEF OwnerInv, Searching
  <2> QED
    BY <2>1, <2>2, <2>3, <2>4, <2>5, <2>6 DEF OwnerInv
<1>3. ASSUME NEW h \in Handles, Destroy(h)
      PROVE  OwnerInv'
  <2>1. Unused(h) /\ live' = live \ {impl[h]} /\ impl' = [impl EXCEPT ![h] = 0] /\ UNCHANGED <<made, call>>
    BY <1>3 DEF Destroy
  <2>2. impl' \in [Handles -> Nat] /\ \A g \in Handles : impl'[g] = IF g = h THEN 0 ELSE impl[g]
    BY <2>1 DEF OwnerInv
  <2>3. live' = {impl'[g] : g \in Handles} \ {0}
    BY <2>1, <2>2 DEF OwnerInv
  <2>4. \A t \in Threads : call'[t].pc = "gather" => Searching(t)'
    BY <2>1, <2>2 DEF OwnerInv, Searching, Unused
  <2> QED
    BY <2>1, <2>2, <2>3, <2>4 DEF OwnerInv
<1>4. ASSUME NEW h \in Handles, NEW g \in Handles, Move(h, g)
      PROVE  OwnerInv'
  <2>1. /\ h # g /\ Unused(h) /\ Unused(g) /\ live' = live \ {impl[h]}
        /\ impl' = [impl EXCEPT ![h] = impl[g], ![g] = 0] /\ UNCHANGED <<made, call>>
    BY <1>4 DEF Move, Moved
  <2>2. /\ impl' \in [Handles -> Nat]
        /\ \A f \in Handles : impl'[f] = IF f = g THEN 0 ELSE IF f = h THEN impl[g] ELSE impl[f]
    BY <2>1 DEF OwnerInv
  <2>3. live' = {impl'[f] : f \in Handles} \ {0}
    <3>1. \A m : m \in live <=> m # 0 /\ \E f \in Handles : impl[f] = m
      BY DEF OwnerInv
    <3>2. \A m : m # 0 /\ m # impl[h] /\ (\E f \in Handles : impl[f] = m) <=> m # 0 /\ \E f \in Handles : impl'[f] = m
      <4>1. ASSUME NEW m, m # 0, m # impl[h], NEW f \in Handles, impl[f] = m
            PROVE  \E e \in Handles : impl'[e] = m
        <5>1. CASE f = g
          BY <2>1, <2>2, <4>1, <5>1
        <5>2. CASE f # g
          BY <2>1, <2>2, <4>1, <5>2
        <5> QED
          BY <5>1, <5>2
      <4>2. ASSUME NEW m, m # 0, NEW f \in Handles, impl'[f] = m
            PROVE  m # impl[h] /\ \E e \in Handles : impl[e] = m
        <5>1. f # g
          BY <2>2, <4>2
        <5>2. CASE f = h
          BY <2>1, <2>2, <4>2, <5>1, <5>2 DEF OwnerInv
        <5>3. CASE f # h
          BY <2>1, <2>2, <4>2, <5>1, <5>3 DEF OwnerInv
        <5> QED
          BY <5>2, <5>3
      <4> QED
        BY <4>1, <4>2
    <3> DEFINE owned == {impl'[f] : f \in Handles}
    <3>3. \A m : m \in live' <=> m # impl[h] /\ m # 0 /\ \E f \in Handles : impl[f] = m
      BY <2>1, <3>1
    <3>4. \A m : m \in owned <=> \E f \in Handles : impl'[f] = m
      OBVIOUS
    <3> HIDE DEF owned
    <3>5. \A m : m \in live' <=> m \in owned \ {0}
      BY <3>2, <3>3, <3>4
    <3> QED
      BY <3>5 DEF owned
  <2>4. \A t \in Threads : call'[t].pc = "gather" => Searching(t)'
    BY <2>1, <2>2 DEF OwnerInv, Searching, Unused
  <2>5. \A e, f \in Handles : impl'[e] = impl'[f] /\ e # f => impl'[e] = 0
    BY <2>1, <2>2 DEF OwnerInv
  <2>6. live' \subseteq 1..made'
    BY <2>1 DEF OwnerInv
  <2> QED
    BY <2>1, <2>2, <2>3, <2>4, <2>5, <2>6 DEF OwnerInv
<1>5. ASSUME NEW t \in Threads, NEW h \in Handles, NEW o \in Overloads, NEW python \in BOOLEAN,
             Start(t, h, o, python)
      PROVE  OwnerInv'
  <2>1. impl[h] # 0 /\ UNCHANGED <<impl, live, made>>
    BY <1>5 DEF Start, handles
  <2>2. PICK found \in Found :
          call' = [call EXCEPT ![t] = [pc |-> "gather", handle |-> h, impl |-> impl[h], overload |-> o,
                                       python |-> python, left |-> found, offsets |-> << >>]]
    BY <1>5 DEF Start
  <2>3. /\ DOMAIN call' = Threads
        /\ \A u \in Threads : u # t => call'[u] = call[u]
        /\ call'[t] = [pc |-> "gather", handle |-> h, impl |-> impl[h], overload |-> o,
                       python |-> python, left |-> found, offsets |-> << >>]
    BY <2>2 DEF OwnerInv
  <2>4. {"pc", "handle", "impl"} \subseteq DOMAIN call'[t] /\ call'[t].handle = h /\ call'[t].impl = impl[h]
    BY <2>3
  <2>5. \A u \in Threads : call'[u].pc = "gather" => Searching(u)'
    BY <2>1, <2>3, <2>4 DEF OwnerInv, Searching
  <2> QED
    BY <2>1, <2>3, <2>5 DEF OwnerInv
<1>6. ASSUME NEW t \in Threads, Gather(t)
      PROVE  OwnerInv'
  <2> DEFINE c == call'[t]
  <2>1. call[t].pc = "gather" /\ UNCHANGED handles
    BY <1>6 DEF Gather
  <2>2. Searching(t)
    BY <2>1 DEF OwnerInv
  <2>3. \E left, offsets : call' = [call EXCEPT ![t] = [call[t] EXCEPT !.left = left, !.offsets = offsets]]
    BY <1>6 DEF Gather
  <2>4. PICK left, offsets : call' = [call EXCEPT ![t] = [call[t] EXCEPT !.left = left, !.offsets = offsets]]
    BY <2>3
  <2> DEFINE d == [call[t] EXCEPT !.left = left, !.offsets = offsets]
  <2>5. /\ {"pc", "handle", "impl"} \subseteq DOMAIN d
        /\ d.handle = call[t].handle /\ d.impl = call[t].impl
    BY <2>2 DEF Searching
  <2> QED
    BY <2>1, <2>4, <2>5, CallStep
<1>7. ASSUME NEW t \in Threads, Return(t)
      PROVE  OwnerInv'
  <2> DEFINE c == IF call[t].python THEN [pc |-> "copy", views |-> ViewsOf(t)] ELSE Idle
  <2>1. UNCHANGED handles /\ call' = [call EXCEPT ![t] = c]
    BY <1>7 DEF Return
  <2>2. "pc" \in DOMAIN c /\ c.pc # "gather"
    BY DEF Idle
  <2> QED
    BY <2>1, <2>2, CallStep
<1>8. ASSUME NEW t \in Threads, Copy(t)
      PROVE  OwnerInv'
  <2> DEFINE c == IF call[t].views = << >> THEN Idle ELSE [call[t] EXCEPT !.views = Tail(call[t].views)]
  <2>1. UNCHANGED handles /\ call[t].pc = "copy"
    BY <1>8 DEF Copy
  <2>2. call' = [call EXCEPT ![t] = c]
    BY <1>8 DEF Copy
  <2>3. "pc" \in DOMAIN call[t]
    BY DEF OwnerInv
  <2>4. "pc" \in DOMAIN c /\ c.pc # "gather"
    BY <2>1, <2>3 DEF Idle
  <2> QED
    BY <2>1, <2>2, <2>4, CallStep
<1>9. ASSUME NEW t \in Threads, End(t)
      PROVE  OwnerInv'
  BY <1>9 DEF End, handles, OwnerInv, Searching
<1> QED
  BY <1>1, <1>2, <1>3, <1>4, <1>5, <1>6, <1>7, <1>8, <1>9 DEF Next

\* Whatever handles are opened, moved and destroyed while other threads search:
\* every Impl has exactly one handle until it is deleted, is deleted once, and
\* never while a search is using it.
THEOREM OwnersCorrect == Spec => []ImplsOwned
<1>1. OwnerInv => ImplsOwned
  BY DEF OwnerInv, Searching, ImplsOwned
<1> QED
  BY OwnerInit, OwnerStep, <1>1, PTL DEF Spec

----------------------------------------------------------------------------
(* The strengthening of ViewsIntact and CopiesIntact.                      *)

Strings == Threads \X Overloads
Word == Seq(Nat)
Buffer == [text : Seq(Nat), freed : BOOLEAN]
Offset == [at : Nat, buffer : Nat, word : Word]
View == [string : Strings, number : Nat, buffer : Nat, at : Nat, word : Word]
GatherCall == [pc : {"gather"}, handle : Handles, impl : Nat, overload : Overloads, python : BOOLEAN,
               left : Seq(Word), offsets : Seq(Offset)]
CopyCall == [pc : {"copy"}, views : Seq(View)]

ViewTypes ==
    /\ string \in [Strings -> [buffer : Nat, size : Nat]]
    /\ memory \in [Strings -> Seq(Buffer)]
    /\ calls \in [Strings -> Nat]
    /\ running \subseteq Threads
    /\ call \in [Threads -> GatherCall \cup CopyCall \cup {Idle}]
    /\ held \subseteq View
    /\ copies \in [Threads -> Seq(Word \X Word)]

\* The buffer that string s is in.
Current(s) == memory[s][string[s].buffer]

BuffersKept ==
    \A s \in Strings :
        /\ string[s].buffer = Len(memory[s]) /\ Len(memory[s]) >= 1
        /\ string[s].size < Len(Current(s).text)
        /\ \A k \in 1..(Len(memory[s]) - 1) : memory[s][k].freed
        /\ Current(s).freed <=> s[1] \notin running

\* String s has the word w at a place.
Holds(s, at, w) ==
    /\ at + Len(w) <= string[s].size
    /\ \A k \in 1..Len(w) : Current(s).text[at + k] = w[k]

\* The words gathered so far are in the string, and nobody has views of it that
\* were made since it was cleared.
Gathered(t) ==
    LET s == Backing(t, call[t].overload) IN
    /\ t \in running
    /\ \A k \in DOMAIN call[t].offsets : Holds(s, call[t].offsets[k].at, call[t].offsets[k].word)
    /\ \A v \in held : v.string = s => v.number < calls[s]

\* A view that was made since its string was cleared, and still reads as its word.
Recent(v) == v.string[1] \in running /\ v.number = calls[v.string]
ViewKept(v) ==
    /\ v.number <= calls[v.string]
    /\ Recent(v) => v.buffer = string[v.string].buffer /\ Holds(v.string, v.at, v.word)

\* The views that a binding has yet to copy are recent.
Copying(t) ==
    /\ t \in running
    /\ \A k \in DOMAIN call[t].views :
          call[t].views[k] \in held /\ Recent(call[t].views[k]) /\ call[t].views[k].string[1] = t

GatherKept == \A t \in Threads : call[t].pc = "gather" => Gathered(t)
ViewsKept == \A v \in held : ViewKept(v)
CopyKept == \A t \in Threads : call[t].pc = "copy" => Copying(t)

ViewInv == ViewTypes /\ BuffersKept /\ GatherKept /\ ViewsKept /\ CopyKept /\ CopiesIntact

----------------------------------------------------------------------------
(* Appending to a string.                                                  *)

LEMMA OverwrittenText ==
    ASSUME NEW text \in Seq(Nat), NEW at \in Nat, NEW w \in Word, at + Len(w) < Len(text)
    PROVE  LET new == Overwritten(text, at, w)
           IN  /\ new \in Seq(Nat) /\ Len(new) = Len(text)
               /\ \A k \in 1..Len(w) : new[at + k] = w[k]
               /\ \A k \in 1..at : new[k] = text[k]
<1> DEFINE new == Overwritten(text, at, w)
<1>1. /\ Len(w) \in Nat /\ Len(text) \in Nat /\ DOMAIN text = 1..Len(text)
      /\ \A k \in 1..Len(w) : w[k] \in Nat
      /\ \A k \in 1..Len(text) : text[k] \in Nat
  BY DEF Word
<1>2. new = [i \in 1..Len(text) |-> IF i \in (at + 1)..(at + Len(w)) THEN w[i - at]
                                    ELSE IF i = at + Len(w) + 1 THEN 0 ELSE text[i]]
  BY <1>1 DEF Overwritten
<1>3. \A i \in 1..Len(text) : new[i] \in Nat
  <2> TAKE i \in 1..Len(text)
  <2>1. CASE i \in (at + 1)..(at + Len(w))
    <3>1. i - at \in 1..Len(w)
      BY <1>1, <2>1
    <3> QED
      BY <1>1, <1>2, <2>1, <3>1
  <2>2. CASE i \notin (at + 1)..(at + Len(w))
    BY <1>1, <1>2, <2>2
  <2> QED
    BY <2>1, <2>2
<1>4. new \in [1..Len(text) -> Nat]
  BY <1>2, <1>3
<1>5. new \in Seq(Nat) /\ Len(new) = Len(text)
  BY <1>1, <1>4
<1>6. \A k \in 1..Len(w) : new[at + k] = w[k]
  <2> TAKE k \in 1..Len(w)
  <2>1. at + k \in 1..Len(text) /\ at + k \in (at + 1)..(at + Len(w)) /\ (at + k) - at = k
    BY <1>1
  <2> QED
    BY <1>2, <2>1
<1>7. \A k \in 1..at : new[k] = text[k]
  BY <1>1, <1>2
<1> QED
  BY <1>5, <1>6, <1>7

\* A buffer with size bytes and the word behind them: in place, or in a new
\* buffer to which they are copied.
GoodBuffer(b, old, size, w) ==
    /\ b \in Buffer /\ ~b.freed
    /\ size + Len(w) < Len(b.text)
    /\ \A k \in 1..size : b.text[k] = old.text[k]
    /\ \A k \in 1..Len(w) : b.text[size + k] = w[k]

LEMMA FreshBuffer ==
    ASSUME NEW n \in Nat
    PROVE  Fresh(n) \in Buffer /\ Len(Fresh(n).text) = n + 1 /\ ~Fresh(n).freed
<1>1. [i \in 1..(n + 1) |-> 0] \in Seq(Nat) /\ Len([i \in 1..(n + 1) |-> 0]) = n + 1
  OBVIOUS
<1> QED
  BY <1>1 DEF Fresh, Buffer

LEMMA GrownBuffer ==
    ASSUME NEW old \in Buffer, NEW size \in Nat, size < Len(old.text), NEW w \in Word
    PROVE  LET bigger == Fresh(Grown(CapacityOf(old), size + Len(w)))
           IN  GoodBuffer([bigger EXCEPT !.text =
                               Overwritten(Overwritten(@, 0, SubSeq(old.text, 1, size)), size, w)],
                          old, size, w)
<1>1. Len(w) \in Nat /\ old.text \in Seq(Nat) /\ Len(old.text) \in Nat
  BY DEF Word, Buffer
<1> DEFINE needed == size + Len(w)
           n == Grown(CapacityOf(old), needed)
           kept == SubSeq(old.text, 1, size)
<1>2. n \in Nat /\ needed <= n
  BY <1>1 DEF Grown, CapacityOf
<1>3. kept \in Word /\ Len(kept) = size /\ \A k \in 1..size : kept[k] = old.text[k]
  BY <1>1 DEF Word
<1>4. Fresh(n) \in Buffer /\ Len(Fresh(n).text) = n + 1 /\ ~Fresh(n).freed
  BY <1>2, FreshBuffer
<1> DEFINE first == Overwritten(Fresh(n).text, 0, kept)
           second == Overwritten(first, size, w)
<1> HIDE DEF n, kept
<1> DEFINE empty == Fresh(n).text
<1>5. empty \in Seq(Nat) /\ 0 + Len(kept) < Len(empty)
  BY <1>1, <1>2, <1>3, <1>4 DEF Buffer
<1> HIDE DEF empty
<1> DEFINE written == Overwritten(empty, 0, kept)
<1>12. /\ written \in Seq(Nat) /\ Len(written) = Len(empty)
       /\ \A k \in 1..Len(kept) : written[0 + k] = kept[k]
  <2>1. 0 \in Nat
    OBVIOUS
  <2> QED
    BY ONLY <1>3, <1>5, <2>1, OverwrittenText
<1> HIDE DEF written
<1>13. \A k \in 1..size : written[k] = kept[k]
  BY <1>3, <1>12
<1>6. first \in Seq(Nat) /\ Len(first) = Len(Fresh(n).text) /\ \A k \in 1..size : first[k] = kept[k]
  BY ONLY <1>12, <1>13 DEF written, empty
<1> HIDE DEF first
<1>7. size + Len(w) < Len(first)
  BY <1>1, <1>2, <1>4, <1>6
<1>8. /\ second \in Seq(Nat) /\ Len(second) = Len(first)
      /\ \A k \in 1..Len(w) : second[size + k] = w[k]
      /\ \A k \in 1..size : second[k] = first[k]
  BY <1>6, <1>7, OverwrittenText
<1> HIDE DEF second
<1>9. \A k \in 1..size : second[k] = old.text[k]
  BY <1>3, <1>6, <1>8
<1> DEFINE b == [Fresh(n) EXCEPT !.text = second]
<1>10. b \in Buffer /\ b.text = second /\ ~b.freed
  BY <1>4, <1>8 DEF Buffer
<1> HIDE DEF b
<1>11. GoodBuffer(b, old, size, w)
  BY <1>7, <1>8, <1>9, <1>10 DEF GoodBuffer
<1> QED
  BY <1>11 DEF b, second, first, n, kept

\* What append leaves of the buffers of a string: the last one has the text and
\* the word, and those before it are freed.
LEMMA AppendedMemory ==
    ASSUME ViewTypes, BuffersKept, NEW s \in Strings, s[1] \in running, NEW w \in Word
    PROVE  LET m == Appended(s, w)
           IN  /\ m \in Seq(Buffer) /\ Len(m) >= 1
               /\ GoodBuffer(m[Len(m)], Current(s), string[s].size, w)
               /\ \A k \in 1..(Len(m) - 1) : m[k].freed
<1> DEFINE n == Len(memory[s])
           size == string[s].size
           old == memory[s][n]
           m == Appended(s, w)
<1>1. /\ memory[s] \in Seq(Buffer) /\ n \in Nat /\ n >= 1 /\ size \in Nat
      /\ string[s].buffer = n /\ Current(s) = old
      /\ size < Len(old.text) /\ ~old.freed
      /\ \A k \in 1..(n - 1) : memory[s][k].freed
  BY DEF ViewTypes, BuffersKept, Current
<1>2. /\ n \in 1..n /\ old \in Buffer
      /\ old.text \in Seq(Nat) /\ Len(w) \in Nat /\ Len(old.text) \in Nat
  <2>1. n \in 1..n
    BY <1>1
  <2>2. old \in Buffer
    BY <1>1, <2>1
  <2> QED
    BY <2>1, <2>2 DEF Buffer, Word
<1>3. CASE size + Len(w) <= CapacityOf(old)
  <2>1. size + Len(w) < Len(old.text)
    BY <1>1, <1>2, <1>3 DEF CapacityOf
  <2> DEFINE text == Overwritten(old.text, size, w)
  <2>2. /\ text \in Seq(Nat) /\ Len(text) = Len(old.text)
        /\ \A k \in 1..Len(w) : text[size + k] = w[k]
        /\ \A k \in 1..size : text[k] = old.text[k]
    BY <1>1, <1>2, <2>1, OverwrittenText
  <2>3. m = [memory[s] EXCEPT ![n].text = text]
    BY <1>1, <1>3 DEF Appended
  <2> HIDE DEF text, m
  <2> DEFINE b == [old EXCEPT !.text = text]
  <2>4. b \in Buffer /\ b.text = text /\ ~b.freed
    BY <1>1, <1>2, <2>2 DEF Buffer
  <2>5. m = [memory[s] EXCEPT ![n] = b]
    BY <2>3
  <2> HIDE DEF b
  <2>6. m \in Seq(Buffer) /\ Len(m) = n /\ m[n] = b /\ \A k \in 1..(n - 1) : m[k] = memory[s][k]
    BY <1>1, <1>2, <2>4, <2>5
  <2>7. GoodBuffer(b, old, size, w)
    BY <2>1, <2>2, <2>4 DEF GoodBuffer
  <2> QED
    BY <1>1, <2>6, <2>7 DEF m
<1>4. CASE ~(size + Len(w) <= CapacityOf(old))
  <2> DEFINE bigger == Fresh(Grown(CapacityOf(old), size + Len(w)))
             b == [bigger EXCEPT !.text =
                      Overwritten(Overwritten(@, 0, SubSeq(old.text, 1, size)), size, w)]
             gone == [memory[s] EXCEPT ![n].freed = TRUE]
  <2>1. m = Append(gone, b)
    BY <1>1, <1>4 DEF Appended
  <2>2. GoodBuffer(b, old, size, w)
    BY <1>1, <1>2, GrownBuffer
  <2> HIDE DEF b, m
  <2>3. b \in Buffer
    BY <2>2 DEF GoodBuffer
  <2>4. [old EXCEPT !.freed = TRUE] \in Buffer /\ [old EXCEPT !.freed = TRUE].freed
    BY <1>2 DEF Buffer
  <2>5. gone = [memory[s] EXCEPT ![n] = [old EXCEPT !.freed = TRUE]]
    OBVIOUS
  <2> HIDE DEF gone
  <2>6. gone \in Seq(Buffer) /\ Len(gone) = n /\ \A k \in 1..n : gone[k].freed
    BY <1>1, <1>2, <2>4, <2>5
  <2>7. m \in Seq(Buffer) /\ Len(m) = n + 1 /\ m[n + 1] = b /\ \A k \in 1..n : m[k] = gone[k]
    BY <1>1, <2>1, <2>3, <2>6
  <2> QED
    BY <1>1, <2>2, <2>6, <2>7 DEF m
<1> QED
  BY <1>3, <1>4

----------------------------------------------------------------------------
(* ViewInv holds in every state.                                           *)

LEMMA ViewInit == Init => ViewInv
<1> SUFFICES ASSUME Init PROVE ViewInv
  OBVIOUS
<1>1. /\ held = {} /\ running = Threads
      /\ call = [t \in Threads |-> Idle] /\ \A t \in Threads : call[t] = Idle
      /\ string = [s \in Strings |-> [buffer |-> 1, size |-> 0]]
      /\ memory = [s \in Strings |-> <<Fresh(Small)>>]
      /\ calls = [s \in Strings |-> 0]
      /\ copies = [t \in Threads |-> << >>]
  BY DEF Init, Strings
<1>2. Fresh(Small) \in Buffer /\ Len(Fresh(Small).text) = Small + 1 /\ ~Fresh(Small).freed /\ Small \in Nat
  BY FreshBuffer, ViewsAssumption
<1> HIDE DEF Fresh
<1>3. <<Fresh(Small)>> \in Seq(Buffer) /\ Len(<<Fresh(Small)>>) = 1 /\ <<Fresh(Small)>>[1] = Fresh(Small)
  BY <1>2
<1>4. ViewTypes
  BY <1>1, <1>3 DEF ViewTypes
<1>5. BuffersKept
  BY <1>1, <1>2, <1>3 DEF BuffersKept, Current, Strings
<1>6. \A t \in Threads : call[t].pc = "idle"
  BY <1>1 DEF Idle
<1>7. GatherKept /\ ViewsKept /\ CopyKept
  BY <1>1, <1>6 DEF GatherKept, ViewsKept, CopyKept
<1>8. CopiesIntact
  BY <1>1 DEF CopiesIntact
<1> QED
  BY <1>4, <1>5, <1>7, <1>8 DEF ViewInv

\* What a thread in a call has.
LEMMA CallTypes ==
    ASSUME ViewTypes, NEW t \in Threads
    PROVE  /\ call[t].pc = "gather" => call[t] \in GatherCall
           /\ call[t].pc = "copy" => call[t] \in CopyCall
           /\ call[t].pc = "idle" => call[t] = Idle
<1> call[t] \in GatherCall \cup CopyCall \cup {Idle}
  BY DEF ViewTypes
<1> QED
  BY DEF GatherCall, CopyCall, Idle

LEMMA BackingString ==
    ASSUME NEW t \in Threads, NEW o \in Overloads
    PROVE  Backing(t, o) \in Strings /\ Backing(t, o)[1] = t
BY DEF Backing, Strings

\* The handles are no part of it.
LEMMA HandleViews ==
    ASSUME ViewInv, UNCHANGED <<running, call, string, memory, calls, held, copies>>
    PROVE  ViewInv'
<1>1. ViewTypes'
  BY DEF ViewInv, ViewTypes
<1>2. BuffersKept'
  BY DEF ViewInv, BuffersKept, Current
<1>3. GatherKept'
  BY DEF ViewInv, GatherKept, Gathered, Holds, Current
<1>4. ViewsKept'
  BY DEF ViewInv, ViewsKept, ViewKept, Recent, Holds, Current
<1>5. CopyKept'
  BY DEF ViewInv, CopyKept, Copying, Recent
<1>6. CopiesIntact'
  BY DEF ViewInv, CopiesIntact
<1> QED
  BY <1>1, <1>2, <1>3, <1>4, <1>5, <1>6 DEF ViewInv

\* A step of thread t leaves the searches of the others alone, and the views of
\* their strings.
OnlyOf(t) ==
    /\ \A u \in Threads : u # t => call'[u] = call[u] /\ (u \in running' <=> u \in running)
    /\ \A s \in Strings : s[1] # t => string'[s] = string[s] /\ memory'[s] = memory[s] /\ calls'[s] = calls[s]
    /\ held \subseteq held' /\ \A v \in held' : v \in held \/ v.string[1] = t

LEMMA OtherThreads ==
    ASSUME ViewInv, NEW t \in Threads, OnlyOf(t), NEW u \in Threads, u # t
    PROVE  /\ call'[u].pc = "gather" => Gathered(u)'
           /\ call'[u].pc = "copy" => Copying(u)'
<1>1. call'[u] = call[u] /\ (u \in running' <=> u \in running)
  BY DEF OnlyOf
<1>2. ASSUME call'[u].pc = "gather"
      PROVE  Gathered(u)'
  <2>1. call[u].pc = "gather" /\ call[u] \in GatherCall /\ Gathered(u)
    BY <1>1, <1>2, CallTypes DEF ViewInv, GatherKept
  <2> DEFINE s == Backing(u, call[u].overload)
  <2>2. s \in Strings /\ s[1] # t
    BY <2>1, BackingString DEF GatherCall
  <2>4. /\ string'[s] = string[s] /\ memory'[s] = memory[s] /\ calls'[s] = calls[s]
        /\ \A v \in held' : v.string = s => v \in held
    BY <2>2 DEF OnlyOf
  <2> HIDE DEF s
  <2>5. /\ u \in running'
        /\ \A k \in DOMAIN call[u].offsets : Holds(s, call[u].offsets[k].at, call[u].offsets[k].word)
        /\ \A v \in held' : v.string = s => v.number < calls[s]
    BY <1>1, <2>1, <2>4 DEF Gathered, s
  <2>6. \A k \in DOMAIN call[u].offsets :
           /\ call[u].offsets[k].at + Len(call[u].offsets[k].word) <= string'[s].size
           /\ \A i \in 1..Len(call[u].offsets[k].word) :
                 memory'[s][string'[s].buffer].text[call[u].offsets[k].at + i] = call[u].offsets[k].word[i]
    BY <2>4, <2>5 DEF Holds, Current
  <2>7. <<u, call'[u].overload>> = s
    BY <1>1 DEF s, Backing
  <2> HIDE DEF s
  <2>8. u \in running' /\ \A v \in held' : v.string = s => v.number < calls'[s]
    BY <2>4, <2>5
  <2>9. \A k \in DOMAIN call'[u].offsets :
           /\ call'[u].offsets[k].at + Len(call'[u].offsets[k].word) <= string'[s].size
           /\ \A i \in 1..Len(call'[u].offsets[k].word) :
                 memory'[s][string'[s].buffer].text[call'[u].offsets[k].at + i] = call'[u].offsets[k].word[i]
    BY <1>1, <2>6
  <2> QED
    BY <2>7, <2>8, <2>9 DEF Gathered, Holds, Current, Backing
<1>3. ASSUME call'[u].pc = "copy"
      PROVE  Copying(u)'
  <2>1. call[u].pc = "copy" /\ Copying(u) /\ held \subseteq View
    BY <1>1, <1>3 DEF ViewInv, CopyKept, ViewTypes
  <2>2. \A k \in DOMAIN call[u].views :
           LET v == call[u].views[k]
           IN  v \in held /\ v \in held' /\ v.string[1] = u /\ v.string \in Strings /\ v.number = calls[v.string]
    BY <2>1 DEF Copying, Recent, View, OnlyOf
  <2>3. \A k \in DOMAIN call[u].views : calls'[call[u].views[k].string] = calls[call[u].views[k].string]
    BY <2>2 DEF OnlyOf
  <2>4. u \in running'
    BY <1>1, <2>1 DEF Copying
  <2> QED
    BY <1>1, <2>2, <2>3, <2>4 DEF Copying, Recent
<1> QED
  BY <1>2, <1>3

\* A view of a string that the step leaves alone.
LEMMA OtherView ==
    ASSUME ViewInv, NEW v \in held,
           v.string[1] \in running' => v.string[1] \in running,
           string'[v.string] = string[v.string], calls'[v.string] = calls[v.string],
           v.string[1] \in running' => memory'[v.string] = memory[v.string]
    PROVE  ViewKept(v)'
BY DEF ViewInv, ViewsKept, ViewKept, Recent, Holds, Current

\* What is known of a view.
LEMMA ViewFacts ==
    ASSUME ViewInv, NEW v \in held
    PROVE  /\ v \in View /\ v.string \in Strings /\ v.number \in Nat /\ calls[v.string] \in Nat
           /\ v.number <= calls[v.string]
BY DEF ViewInv, ViewTypes, View, ViewsKept, ViewKept

LEMMA StartViews ==
    ASSUME OwnerInv, ViewInv, NEW t \in Threads, NEW h \in Handles, NEW o \in Overloads, NEW python \in BOOLEAN,
           Start(t, h, o, python)
    PROVE  ViewInv'
<1> DEFINE s == Backing(t, o)
           n == Len(memory[s])
           old == memory[s][n]
<1>1. /\ ViewTypes /\ BuffersKept /\ GatherKept /\ ViewsKept /\ CopyKept /\ CopiesIntact
      /\ s \in Strings /\ s[1] = t
  BY BackingString DEF ViewInv
<1>2. PICK found \in Found :
         call' = [call EXCEPT ![t] = [pc |-> "gather", handle |-> h, impl |-> impl[h], overload |-> o,
                                      python |-> python, left |-> found, offsets |-> << >>]]
  BY DEF Start
<1> DEFINE c == [pc |-> "gather", handle |-> h, impl |-> impl[h], overload |-> o,
                 python |-> python, left |-> found, offsets |-> << >>]
<1>3. c \in GatherCall
  <2>1. found \in Seq(Word) /\ impl[h] \in Nat /\ << >> \in Seq(Offset)
    BY FoundAssumption DEF OwnerInv, Word
  <2> QED
    BY <2>1 DEF GatherCall
<1>4. c.pc = "gather" /\ c.overload = o /\ c.offsets = << >>
  OBVIOUS
<1> HIDE DEF c
<1>5. /\ call' \in [Threads -> GatherCall \cup CopyCall \cup {Idle}]
      /\ call'[t] = c /\ \A u \in Threads : u # t => call'[u] = call[u]
  BY <1>1, <1>2, <1>3 DEF c, ViewTypes
<1> HIDE DEF s
<1>6. /\ t \in running /\ UNCHANGED <<running, held, copies>>
      /\ calls' = [calls EXCEPT ![s] = @ + 1]
      /\ string' = [string EXCEPT ![s].size = 0]
      /\ memory' = [memory EXCEPT ![s][string[s].buffer].text[1] = 0]
  BY DEF Start, s
<1>7. /\ memory[s] \in Seq(Buffer) /\ n \in Nat /\ n >= 1 /\ string[s].buffer = n
      /\ Len(old.text) > 0 /\ calls[s] \in Nat
      /\ \A k \in 1..(n - 1) : memory[s][k].freed
      /\ old.freed <=> t \notin running
  BY <1>1 DEF ViewTypes, BuffersKept, Current
<1>8. n \in 1..n /\ old \in Buffer
  <2>1. n \in 1..n
    BY <1>7
  <2> QED
    BY <1>7, <2>1
<1> DEFINE text == [old.text EXCEPT ![1] = 0]
           b == [old EXCEPT !.text = text]
<1>9. text \in Seq(Nat) /\ Len(text) = Len(old.text)
  BY <1>7, <1>8 DEF Buffer
<1> HIDE DEF text
<1>10. b \in Buffer /\ b.text = text /\ b.freed = old.freed
  BY <1>8, <1>9 DEF Buffer
<1>11. memory'[s] = [memory[s] EXCEPT ![n] = b] /\ \A u \in Strings : u # s => memory'[u] = memory[u]
  BY <1>1, <1>6, <1>7 DEF ViewTypes, b, text
<1> HIDE DEF b
<1>12. /\ memory'[s] \in Seq(Buffer) /\ Len(memory'[s]) = n /\ memory'[s][n] = b
       /\ \A k \in 1..(n - 1) : memory'[s][k] = memory[s][k]
  BY <1>7, <1>8, <1>10, <1>11
<1>13. memory' \in [Strings -> Seq(Buffer)]
  <2>1. DOMAIN memory' = Strings /\ memory' = [u \in DOMAIN memory |-> memory'[u]]
    BY <1>6, <1>1 DEF ViewTypes
  <2>2. \A u \in Strings : memory'[u] \in Seq(Buffer)
    BY <1>1, <1>11, <1>12 DEF ViewTypes
  <2> QED
    BY <1>1, <2>1, <2>2 DEF ViewTypes
<1>14. /\ string' \in [Strings -> [buffer : Nat, size : Nat]]
       /\ string'[s] = [buffer |-> n, size |-> 0]
       /\ \A u \in Strings : u # s => string'[u] = string[u]
  BY <1>1, <1>6, <1>7 DEF ViewTypes
<1>15. /\ calls' \in [Strings -> Nat] /\ calls'[s] = calls[s] + 1
       /\ \A u \in Strings : u # s => calls'[u] = calls[u]
  BY <1>1, <1>6 DEF ViewTypes
<1>16. ViewTypes'
  BY <1>1, <1>5, <1>6, <1>13, <1>14, <1>15 DEF ViewTypes
<1>17. BuffersKept'
  <2> SUFFICES ASSUME NEW u \in Strings
               PROVE  (/\ string[u].buffer = Len(memory[u]) /\ Len(memory[u]) >= 1
                       /\ string[u].size < Len(Current(u).text)
                       /\ \A k \in 1..(Len(memory[u]) - 1) : memory[u][k].freed
                       /\ Current(u).freed <=> u[1] \notin running)'
    BY DEF BuffersKept
  <2>1. CASE u # s
    BY <1>1, <1>6, <1>11, <1>14, <2>1 DEF BuffersKept, Current
  <2>2. CASE u = s
    <3>1. string'[s].buffer = n /\ string'[s].size = 0 /\ Current(s)' = b
      BY <1>12, <1>14 DEF Current
    <3> QED
      BY <1>1, <1>6, <1>7, <1>9, <1>10, <1>12, <2>2, <3>1
  <2> QED
    BY <2>1, <2>2
<1>18. OnlyOf(t)
  BY <1>1, <1>5, <1>6, <1>11, <1>14, <1>15 DEF OnlyOf
<1>19. Gathered(t)'
  <2>1. \A v \in held : v.string = s => v.number < calls[s] + 1
    BY <1>7, ViewFacts
  <2>2. DOMAIN call'[t].offsets = {} /\ Backing(t, call'[t].overload) = s
    BY <1>4, <1>5 DEF s
  <2> QED
    BY <1>6, <1>15, <2>1, <2>2 DEF Gathered
<1>20. GatherKept' /\ CopyKept'
  BY <1>4, <1>5, <1>18, <1>19, OtherThreads DEF GatherKept, CopyKept
<1>21. ViewsKept'
  <2> SUFFICES ASSUME NEW v \in held
               PROVE  ViewKept(v)'
    BY <1>6 DEF ViewsKept
  <2>1. v \in View /\ v.string \in Strings /\ v.number \in Nat /\ v.number <= calls[v.string]
    BY ViewFacts
  <2>2. CASE v.string = s
    BY <1>7, <1>15, <2>1, <2>2 DEF ViewKept, Recent
  <2>3. CASE v.string # s
    BY <1>6, <1>11, <1>14, <1>15, <2>1, <2>3, OtherView
  <2> QED
    BY <2>2, <2>3
<1>22. CopiesIntact'
  BY <1>1, <1>6 DEF CopiesIntact
<1> QED
  BY <1>16, <1>17, <1>20, <1>21, <1>22 DEF ViewInv

LEMMA GatherViews ==
    ASSUME ViewInv, NEW t \in Threads, Gather(t)
    PROVE  ViewInv'
<1>1. /\ ViewTypes /\ BuffersKept /\ GatherKept /\ ViewsKept /\ CopyKept /\ CopiesIntact
      /\ call[t].pc = "gather" /\ call[t] \in GatherCall /\ Gathered(t)
  BY CallTypes DEF Gather, ViewInv, GatherKept
<1>2. PICK s \in Strings : s = Backing(t, call[t].overload) /\ s[1] = t /\ t \in running
  BY <1>1, BackingString DEF GatherCall, Gathered
<1> DEFINE w == Head(call[t].left)
           size == string[s].size
           old == Current(s)
           m == Appended(s, w)
           new == [at |-> size, buffer |-> string[s].buffer, word |-> w]
<1>3. w \in Word /\ Tail(call[t].left) \in Seq(Word) /\ Len(w) \in Nat
  BY <1>1 DEF Gather, GatherCall, Word
<1>4. /\ memory' = [memory EXCEPT ![s] = m]
      /\ string' = [string EXCEPT ![s] = [buffer |-> Len(memory'[s]), size |-> size + Len(w)]]
      /\ call' = [call EXCEPT ![t].left = Tail(@), ![t].offsets = Append(@, new)]
      /\ UNCHANGED <<running, calls, held, copies>>
  BY <1>2 DEF Gather, ViewTypes
<1>5. /\ m \in Seq(Buffer) /\ Len(m) >= 1 /\ Len(m) \in Nat
      /\ GoodBuffer(m[Len(m)], old, size, w)
      /\ \A k \in 1..(Len(m) - 1) : m[k].freed
  BY <1>1, <1>2, <1>3, AppendedMemory
<1>6. size \in Nat /\ string[s].buffer \in Nat
  BY <1>1, <1>2 DEF ViewTypes
<1>7. new \in Offset /\ new.at = size /\ new.word = w
  BY <1>3, <1>6 DEF Offset
<1> DEFINE c == [call[t] EXCEPT !.left = Tail(call[t].left), !.offsets = Append(call[t].offsets, new)]
<1> HIDE DEF w, m, new
<1>8. c \in GatherCall /\ c.overload = call[t].overload /\ c.pc = "gather" /\ c.offsets = Append(call[t].offsets, new)
  <2>1. call[t].offsets \in Seq(Offset)
    BY <1>1 DEF GatherCall
  <2>2. Append(call[t].offsets, new) \in Seq(Offset)
    BY <1>7, <2>1
  <2> QED
    BY <1>1, <1>3, <2>2 DEF GatherCall
<1>9. call' = [call EXCEPT ![t] = c]
  BY <1>1, <1>4 DEF ViewTypes
<1> HIDE DEF c
<1>10. /\ call' \in [Threads -> GatherCall \cup CopyCall \cup {Idle}]
       /\ call'[t] = c /\ \A u \in Threads : u # t => call'[u] = call[u]
  BY <1>1, <1>8, <1>9 DEF ViewTypes
<1>11. /\ memory' \in [Strings -> Seq(Buffer)] /\ memory'[s] = m
       /\ \A u \in Strings : u # s => memory'[u] = memory[u]
  BY <1>1, <1>2, <1>4, <1>5 DEF ViewTypes
<1>12. /\ string' \in [Strings -> [buffer : Nat, size : Nat]]
       /\ string'[s] = [buffer |-> Len(m), size |-> size + Len(w)]
       /\ \A u \in Strings : u # s => string'[u] = string[u]
  <2>1. size + Len(w) \in Nat
    BY <1>3, <1>6
  <2> DEFINE r == [buffer |-> Len(m), size |-> size + Len(w)]
  <2>2. r \in [buffer : Nat, size : Nat]
    BY <1>5, <2>1
  <2>3. string' = [string EXCEPT ![s] = r]
    BY <1>4, <1>11
  <2> HIDE DEF r
  <2>4. string' \in [Strings -> [buffer : Nat, size : Nat]] /\ string'[s] = r
        /\ \A u \in Strings : u # s => string'[u] = string[u]
    BY <1>1, <1>2, <2>2, <2>3 DEF ViewTypes
  <2> QED
    BY <2>4 DEF r
<1>13. ViewTypes'
  BY <1>1, <1>4, <1>10, <1>11, <1>12 DEF ViewTypes
<1>14. Current(s)' = m[Len(m)]
  BY <1>11, <1>12 DEF Current
<1>15. BuffersKept'
  <2> SUFFICES ASSUME NEW u \in Strings
               PROVE  (/\ string[u].buffer = Len(memory[u]) /\ Len(memory[u]) >= 1
                       /\ string[u].size < Len(Current(u).text)
                       /\ \A k \in 1..(Len(memory[u]) - 1) : memory[u][k].freed
                       /\ Current(u).freed <=> u[1] \notin running)'
    BY DEF BuffersKept
  <2>1. CASE u # s
    BY <1>1, <1>4, <1>11, <1>12, <2>1 DEF BuffersKept, Current
  <2>2. CASE u = s
    <3>1. string'[s].buffer = Len(m) /\ string'[s].size = size + Len(w)
      BY <1>12
    <3>2. size + Len(w) < Len(m[Len(m)].text) /\ ~m[Len(m)].freed
      BY <1>5 DEF GoodBuffer
    <3> QED
      BY <1>2, <1>4, <1>5, <1>11, <1>14, <2>2, <3>1, <3>2
  <2> QED
    BY <2>1, <2>2
<1>16. OnlyOf(t)
  BY <1>2, <1>4, <1>10, <1>11, <1>12 DEF OnlyOf
<1>17. Gathered(t)'
  <2> DEFINE text == m[Len(m)].text
  <2>1. /\ \A k \in 1..size : text[k] = old.text[k]
        /\ \A k \in 1..Len(w) : text[size + k] = w[k]
    BY <1>5 DEF GoodBuffer
  <2>2. memory'[s][string'[s].buffer].text = text /\ string'[s].size = size + Len(w)
    BY <1>11, <1>12
  <2> HIDE DEF text
  <2>3. \A k \in DOMAIN c.offsets :
           /\ c.offsets[k].at + Len(c.offsets[k].word) <= size + Len(w)
           /\ \A i \in 1..Len(c.offsets[k].word) : text[c.offsets[k].at + i] = c.offsets[k].word[i]
    <3> SUFFICES ASSUME NEW k \in DOMAIN c.offsets
                 PROVE  /\ c.offsets[k].at + Len(c.offsets[k].word) <= size + Len(w)
                        /\ \A i \in 1..Len(c.offsets[k].word) :
                              text[c.offsets[k].at + i] = c.offsets[k].word[i]
      OBVIOUS
    <3> DEFINE offsets == call[t].offsets
    <3>1. offsets \in Seq(Offset) /\ c.offsets = Append(offsets, new)
      BY <1>1, <1>8 DEF GatherCall
    <3>2. CASE k \in DOMAIN offsets
      <4>1. c.offsets[k] = offsets[k] /\ offsets[k] \in Offset
        BY <1>7, <3>1, <3>2
      <4>2. Holds(s, offsets[k].at, offsets[k].word) /\ offsets[k].at \in Nat /\ Len(offsets[k].word) \in Nat
        BY <1>1, <1>2, <3>2, <4>1 DEF Gathered, Offset, Word
      <4> DEFINE at == offsets[k].at
                 word == offsets[k].word
      <4>3. at + Len(word) <= size /\ \A i \in 1..Len(word) : old.text[at + i] = word[i]
        BY <4>2 DEF Holds
      <4> HIDE DEF at, word, size, old
      <4>7. at \in Nat /\ Len(word) \in Nat /\ size \in Nat /\ Len(w) \in Nat
        BY <4>2, <1>3, <1>6 DEF at, word, size
      <4>4. \A i \in 1..Len(word) : at + i \in 1..size
        BY <4>3, <4>7
      <4>5. at + Len(word) <= size + Len(w)
        BY <4>3, <4>7
      <4>6. \A i \in 1..Len(word) : text[at + i] = word[i]
        BY <2>1, <4>3, <4>4
      <4> QED
        BY <4>1, <4>5, <4>6 DEF at, word
    <3>3. CASE k \notin DOMAIN offsets
      <4>1. c.offsets[k] = new
        BY <1>7, <3>1, <3>3
      <4> QED
        BY <1>3, <1>6, <1>7, <2>1, <4>1
    <3> QED
      BY <3>2, <3>3
  <2>4. Backing(t, call'[t].overload) = s /\ call'[t].offsets = c.offsets
    BY <1>2, <1>8, <1>10
  <2>5. t \in running' /\ \A v \in held' : v.string = s => v.number < calls'[s]
    BY <1>1, <1>2, <1>4 DEF Gathered
  <2> HIDE DEF size
  <2>6. \A k \in DOMAIN call'[t].offsets :
           /\ call'[t].offsets[k].at + Len(call'[t].offsets[k].word) <= string'[s].size
           /\ \A i \in 1..Len(call'[t].offsets[k].word) :
                 memory'[s][string'[s].buffer].text[call'[t].offsets[k].at + i] = call'[t].offsets[k].word[i]
    BY <2>2, <2>3, <2>4
  <2> QED
    BY <2>4, <2>5, <2>6 DEF Gathered, Holds, Current
<1>18. GatherKept' /\ CopyKept'
  BY <1>8, <1>10, <1>16, <1>17, OtherThreads DEF GatherKept, CopyKept
<1>19. ViewsKept'
  <2> SUFFICES ASSUME NEW v \in held
               PROVE  ViewKept(v)'
    BY <1>4 DEF ViewsKept
  <2>1. v \in View /\ v.string \in Strings /\ v.number \in Nat /\ calls[v.string] \in Nat /\ v.number <= calls[v.string]
    BY ViewFacts
  <2>2. CASE v.string = s
    <3>1. v.number < calls[s]
      BY <1>1, <1>2, <2>2 DEF Gathered
    <3> QED
      BY <1>4, <2>1, <2>2, <3>1 DEF ViewKept, Recent
  <2>3. CASE v.string # s
    BY <1>4, <1>11, <1>12, <2>1, <2>3, OtherView
  <2> QED
    BY <2>2, <2>3
<1>20. CopiesIntact'
  BY <1>1, <1>4 DEF CopiesIntact
<1> QED
  BY <1>13, <1>15, <1>18, <1>19, <1>20 DEF ViewInv

LEMMA ReturnViews ==
    ASSUME ViewInv, NEW t \in Threads, Return(t)
    PROVE  ViewInv'
<1> DEFINE s == Backing(t, call[t].overload)
           offsets == call[t].offsets
           views == ViewsOf(t)
<1>1. /\ ViewTypes /\ BuffersKept /\ GatherKept /\ ViewsKept /\ CopyKept /\ CopiesIntact
      /\ call[t].pc = "gather" /\ call[t] \in GatherCall /\ Gathered(t)
  BY CallTypes DEF Return, ViewInv, GatherKept
<1>2. s \in Strings /\ s[1] = t /\ t \in running
  BY <1>1, BackingString DEF GatherCall, Gathered
<1>3. /\ offsets \in Seq(Offset) /\ DOMAIN views = DOMAIN offsets
      /\ \A k \in DOMAIN offsets :
            views[k] = [string |-> s, number |-> calls[s], buffer |-> string[s].buffer,
                        at |-> offsets[k].at, word |-> offsets[k].word]
  BY <1>1 DEF GatherCall, ViewsOf, BufferOf
<1>4. \A k \in DOMAIN views :
         /\ views[k] \in View /\ views[k].string = s /\ views[k].number = calls[s]
         /\ views[k].buffer = string[s].buffer /\ Holds(s, views[k].at, views[k].word)
  <2> SUFFICES ASSUME NEW k \in DOMAIN offsets
               PROVE  /\ views[k] \in View /\ views[k].string = s /\ views[k].number = calls[s]
                      /\ views[k].buffer = string[s].buffer /\ Holds(s, views[k].at, views[k].word)
    BY <1>3
  <2>1. offsets[k] \in Offset /\ calls[s] \in Nat /\ string[s].buffer \in Nat
    BY <1>1, <1>2, <1>3 DEF ViewTypes
  <2>2. Holds(s, offsets[k].at, offsets[k].word)
    BY <1>1 DEF Gathered
  <2> HIDE DEF s, offsets, views
  <2>3. views[k] = [string |-> s, number |-> calls[s], buffer |-> string[s].buffer,
                    at |-> offsets[k].at, word |-> offsets[k].word]
    BY <1>3
  <2> QED
    BY <1>2, <2>1, <2>2, <2>3 DEF View, Offset
<1>5. views \in Seq(View)
  <2>1. views = [k \in 1..Len(offsets) |-> views[k]] /\ Len(offsets) \in Nat
    BY <1>3 DEF ViewsOf
  <2>2. \A k \in 1..Len(offsets) : views[k] \in View
    BY <1>3, <1>4
  <2> HIDE DEF views, offsets
  <2> QED
    BY <2>1, <2>2
<1> DEFINE c == IF call[t].python THEN [pc |-> "copy", views |-> views] ELSE Idle
<1>6. /\ held' = held \cup ToSet(views)
      /\ call' = [call EXCEPT ![t] = c]
      /\ copies' = IF call[t].python THEN [copies EXCEPT ![t] = << >>] ELSE copies
      /\ UNCHANGED <<running, string, memory, calls>>
  BY <1>1 DEF Return, ViewTypes
<1> HIDE DEF views, s
<1>7. c \in CopyCall \cup {Idle} /\ c.pc # "gather" /\ (c.pc = "copy" => c.views = views)
  BY <1>5 DEF CopyCall, Idle
<1> HIDE DEF c
<1>8. /\ call' \in [Threads -> GatherCall \cup CopyCall \cup {Idle}]
      /\ call'[t] = c /\ \A u \in Threads : u # t => call'[u] = call[u]
  BY <1>1, <1>6, <1>7 DEF ViewTypes
<1>9. \A v \in held' : v \in held \/ \E k \in DOMAIN views : v = views[k]
  BY <1>6 DEF ToSet
<1>10. held \subseteq held' /\ \A k \in DOMAIN views : views[k] \in held'
  BY <1>6 DEF ToSet
<1>11. copies' \in [Threads -> Seq(Word \X Word)] /\ CopiesIntact'
  <2>1. CASE call[t].python
    <3>1. copies' = [copies EXCEPT ![t] = << >>]
      BY <1>6, <2>1
    <3> QED
      BY <1>1, <3>1 DEF ViewTypes, CopiesIntact
  <2>2. CASE ~call[t].python
    <3>1. copies' = copies
      BY <1>6, <2>2
    <3> QED
      BY <1>1, <3>1 DEF ViewTypes, CopiesIntact
  <2> QED
    BY <2>1, <2>2
<1>12. ViewTypes'
  <2>1. held' \subseteq View
    BY <1>1, <1>4, <1>9 DEF ViewTypes
  <2> QED
    BY <1>1, <1>6, <1>8, <1>11, <2>1 DEF ViewTypes
<1>13. BuffersKept'
  BY <1>1, <1>6 DEF BuffersKept, Current
<1>14. OnlyOf(t)
  BY <1>2, <1>4, <1>6, <1>8, <1>9, <1>10 DEF OnlyOf
<1>15. call'[t].pc = "copy" => Copying(t)'
  <2> SUFFICES ASSUME call'[t].pc = "copy"
               PROVE  Copying(t)'
    OBVIOUS
  <2>1. call'[t].views = views
    BY <1>7, <1>8
  <2>2. \A k \in DOMAIN views : views[k] \in held' /\ views[k].string = s /\ views[k].number = calls[s]
    BY <1>4, <1>10
  <2> QED
    BY <1>2, <1>6, <2>1, <2>2 DEF Copying, Recent
<1>16. GatherKept' /\ CopyKept'
  BY <1>7, <1>8, <1>14, <1>15, OtherThreads DEF GatherKept, CopyKept
<1>17. ViewsKept'
  <2> SUFFICES ASSUME NEW v \in held'
               PROVE  ViewKept(v)'
    BY DEF ViewsKept
  <2>1. CASE v \in held
    <3>1. v.string \in Strings
      BY <2>1, ViewFacts
    <3> QED
      BY <1>6, <2>1, <3>1, OtherView
  <2>2. CASE \E k \in DOMAIN views : v = views[k]
    <3>1. /\ v.string = s /\ v.number = calls[s] /\ calls[s] \in Nat
          /\ v.buffer = string[s].buffer /\ Holds(s, v.at, v.word)
      BY <1>1, <1>2, <1>4, <2>2 DEF ViewTypes
    <3> QED
      BY <1>6, <3>1 DEF ViewKept, Recent, Holds, Current
  <2> QED
    BY <1>9, <2>1, <2>2
<1> QED
  BY <1>11, <1>12, <1>13, <1>16, <1>17 DEF ViewInv

\* The bytes of a text are those of a word.
LEMMA SubText ==
    ASSUME NEW text \in Seq(Nat), NEW at \in Nat, NEW w \in Seq(Nat), at + Len(w) <= Len(text),
           \A k \in 1..Len(w) : text[at + k] = w[k]
    PROVE  SubSeq(text, at + 1, at + Len(w)) = w
<1> DEFINE n == Len(w)
           sub == SubSeq(text, at + 1, at + n)
<1>1. n \in Nat /\ Len(text) \in Nat
  OBVIOUS
<1>2. (at + n) - (at + 1) + 1 = n /\ \A k \in 1..n : (at + 1) + k - 1 = at + k
  BY <1>1
<1> HIDE DEF n
<1>3. sub = [k \in 1..n |-> text[at + k]]
  BY <1>1, <1>2
<1>4. sub = [k \in 1..n |-> w[k]]
  BY <1>3 DEF n
<1>5. w = [k \in 1..n |-> w[k]]
  BY DEF n
<1> QED
  BY <1>4, <1>5 DEF n

\* A recent view reads as its word.
LEMMA RecentRead ==
    ASSUME ViewInv, NEW v \in held, Recent(v)
    PROVE  Read(v) = v.word
<1> DEFINE s == v.string
           buffer == memory[s][v.buffer]
<1>1. v \in View /\ s \in Strings /\ s[1] \in running
  BY ViewFacts DEF Recent
<1>2. v.at \in Nat /\ v.word \in Seq(Nat)
  BY <1>1 DEF View, Word
<1>3. v.buffer = string[s].buffer /\ Holds(s, v.at, v.word)
  BY DEF ViewInv, ViewsKept, ViewKept
<1>4. /\ memory[s] \in Seq(Buffer) /\ string[s].buffer = Len(memory[s]) /\ Len(memory[s]) >= 1
      /\ string[s].size \in Nat /\ string[s].size < Len(Current(s).text)
      /\ ~Current(s).freed
  BY <1>1 DEF ViewInv, ViewTypes, BuffersKept
<1>5. buffer = Current(s) /\ Len(memory[s]) \in 1..Len(memory[s])
  BY <1>3, <1>4 DEF Current
<1>6. buffer \in Buffer
  BY <1>3, <1>4, <1>5
<1> DEFINE text == buffer.text
           n == Len(v.word)
<1>7. /\ ~buffer.freed /\ text \in Seq(Nat)
      /\ v.at + n <= string[s].size /\ string[s].size < Len(text)
      /\ \A k \in 1..n : text[v.at + k] = v.word[k]
  BY <1>3, <1>4, <1>5, <1>6 DEF Holds, Buffer
<1>8. Read(v) = SubSeq(text, v.at + 1, v.at + n)
  BY <1>7 DEF Read
<1> HIDE DEF buffer, text
<1>9. v.at + n <= Len(text)
  <2>1. n \in Nat /\ Len(text) \in Nat /\ string[s].size \in Nat
    BY <1>2, <1>4, <1>7
  <2> QED
    BY <1>2, <1>7, <2>1
<1> QED
  BY <1>2, <1>7, <1>8, <1>9, SubText

LEMMA CopyViews ==
    ASSUME ViewInv, NEW t \in Threads, Copy(t)
    PROVE  ViewInv'
<1> DEFINE views == call[t].views
           v == Head(views)
<1>1. /\ ViewTypes /\ BuffersKept /\ GatherKept /\ ViewsKept /\ CopyKept /\ CopiesIntact
      /\ call[t].pc = "copy" /\ call[t] \in CopyCall /\ Copying(t)
  BY CallTypes DEF Copy, ViewInv, CopyKept
<1>2. views \in Seq(View) /\ UNCHANGED <<running, string, memory, calls, held>>
  BY <1>1 DEF CopyCall, Copy
<1> DEFINE c == IF views = << >> THEN Idle ELSE [call[t] EXCEPT !.views = Tail(views)]
<1>3. call' = [call EXCEPT ![t] = c]
  BY <1>1 DEF Copy, ViewTypes
<1>4. /\ c \in CopyCall \cup {Idle} /\ c.pc # "gather"
      /\ c.pc = "copy" => \A k \in DOMAIN c.views : \E i \in DOMAIN views : c.views[k] = views[i]
  <2>1. CASE views = << >>
    BY <2>1 DEF Idle
  <2>2. CASE views # << >>
    <3>1. /\ Tail(views) \in Seq(View)
          /\ \A k \in DOMAIN Tail(views) : k + 1 \in DOMAIN views /\ Tail(views)[k] = views[k + 1]
      BY <1>2, <2>2
    <3>2. c = [call[t] EXCEPT !.views = Tail(views)]
      BY <2>2
    <3>3. c \in CopyCall /\ c.pc = "copy" /\ c.views = Tail(views)
      BY <1>1, <3>1, <3>2 DEF CopyCall
    <3> QED
      BY <3>1, <3>3
  <2> QED
    BY <2>1, <2>2
<1> HIDE DEF c
<1>5. /\ call' \in [Threads -> GatherCall \cup CopyCall \cup {Idle}]
      /\ call'[t] = c /\ \A u \in Threads : u # t => call'[u] = call[u]
  BY <1>1, <1>3, <1>4 DEF ViewTypes
<1>6. copies' \in [Threads -> Seq(Word \X Word)] /\ CopiesIntact'
  <2>1. CASE views = << >>
    <3>1. copies' = copies
      BY <2>1 DEF Copy
    <3> QED
      BY <1>1, <3>1 DEF ViewTypes, CopiesIntact
  <2>2. CASE views # << >>
    <3>1. copies' = [copies EXCEPT ![t] = Append(copies[t], <<v.word, Read(v)>>)]
      BY <1>1, <2>2 DEF Copy, ViewTypes
    <3>2. 1 \in DOMAIN views /\ v = views[1]
      BY <1>2, <2>2
    <3>3. v \in held /\ Recent(v)
      BY <1>1, <3>2 DEF Copying
    <3>4. v.word \in Word
      <4>1. v \in View
        BY <3>3, ViewFacts
      <4> QED
        BY <4>1 DEF View
    <3>5. Read(v) = v.word
      BY <3>3, RecentRead
    <3> DEFINE pair == <<v.word, Read(v)>>
    <3>6. pair \in Word \X Word /\ pair[1] = pair[2]
      BY <3>4, <3>5
    <3> HIDE DEF pair
    <3>7. copies[t] \in Seq(Word \X Word)
      BY <1>1 DEF ViewTypes
    <3>8. /\ Append(copies[t], pair) \in Seq(Word \X Word)
          /\ \A k \in DOMAIN Append(copies[t], pair) :
                \/ k \in DOMAIN copies[t] /\ Append(copies[t], pair)[k] = copies[t][k]
                \/ Append(copies[t], pair)[k] = pair
      BY <3>6, <3>7
    <3>9. copies' = [copies EXCEPT ![t] = Append(copies[t], pair)]
      BY <3>1 DEF pair
    <3>10. /\ copies' \in [Threads -> Seq(Word \X Word)]
           /\ copies'[t] = Append(copies[t], pair)
           /\ \A u \in Threads : u # t => copies'[u] = copies[u]
      BY <1>1, <3>8, <3>9 DEF ViewTypes
    <3>11. \A u \in Threads : \A k \in DOMAIN copies'[u] : copies'[u][k][1] = copies'[u][k][2]
      <4> TAKE u \in Threads
      <4>1. CASE u = t
        <5>1. \A k \in DOMAIN copies[t] : copies[t][k][1] = copies[t][k][2]
          BY <1>1 DEF CopiesIntact
        <5> QED
          BY <3>6, <3>8, <3>10, <4>1, <5>1
      <4>2. CASE u # t
        BY <1>1, <3>10, <4>2 DEF CopiesIntact
      <4> QED
        BY <4>1, <4>2
    <3> QED
      BY <3>10, <3>11 DEF CopiesIntact
  <2> QED
    BY <2>1, <2>2
<1>7. ViewTypes'
  BY <1>1, <1>2, <1>5, <1>6 DEF ViewTypes
<1>8. BuffersKept'
  BY <1>1, <1>2 DEF BuffersKept, Current
<1>9. OnlyOf(t)
  BY <1>2, <1>5 DEF OnlyOf
<1>10. call'[t].pc = "copy" => Copying(t)'
  BY <1>1, <1>2, <1>4, <1>5 DEF Copying, Recent
<1>11. GatherKept' /\ CopyKept'
  BY <1>4, <1>5, <1>9, <1>10, OtherThreads DEF GatherKept, CopyKept
<1>12. ViewsKept'
  BY <1>1, <1>2 DEF ViewsKept, ViewKept, Recent, Holds, Current
<1> QED
  BY <1>6, <1>7, <1>8, <1>11, <1>12 DEF ViewInv

LEMMA FreedBuffer ==
    ASSUME NEW b \in Buffer
    PROVE  LET c == [b EXCEPT !.freed = TRUE] IN c \in Buffer /\ c.freed /\ c.text = b.text
BY DEF Buffer

LEMMA EndViews ==
    ASSUME ViewInv, NEW t \in Threads, End(t)
    PROVE  ViewInv'
<1>1. /\ ViewTypes /\ BuffersKept /\ GatherKept /\ ViewsKept /\ CopyKept /\ CopiesIntact
      /\ t \in running /\ call[t].pc = "idle"
      /\ running' = running \ {t}
      /\ UNCHANGED <<call, string, calls, held, copies>>
  BY DEF End, ViewInv
<1>2. memory' = [s \in Strings |-> IF s[1] # t THEN memory[s]
                                   ELSE [k \in DOMAIN memory[s] |-> [memory[s][k] EXCEPT !.freed = TRUE]]]
  BY <1>1 DEF End, ViewTypes
<1>3. \A s \in Strings : s[1] # t => memory'[s] = memory[s]
  BY <1>2
<1>4. ASSUME NEW s \in Strings, s[1] = t
      PROVE  /\ memory'[s] \in Seq(Buffer) /\ Len(memory'[s]) = Len(memory[s])
             /\ \A k \in 1..Len(memory[s]) : memory'[s][k].freed /\ memory'[s][k].text = memory[s][k].text
  <2>1. memory[s] \in Seq(Buffer) /\ DOMAIN memory[s] = 1..Len(memory[s]) /\ Len(memory[s]) \in Nat
    BY <1>1 DEF ViewTypes
  <2>2. memory'[s] = [k \in 1..Len(memory[s]) |-> [memory[s][k] EXCEPT !.freed = TRUE]]
    BY <1>2, <1>4, <2>1
  <2>3. \A k \in 1..Len(memory[s]) :
           LET b == [memory[s][k] EXCEPT !.freed = TRUE]
           IN  b \in Buffer /\ b.freed /\ b.text = memory[s][k].text
    BY <2>1, FreedBuffer
  <2> QED
    BY <2>1, <2>2, <2>3
<1>5. ViewTypes'
  <2>1. \A s \in Strings : memory'[s] \in Seq(Buffer)
    BY <1>1, <1>3, <1>4 DEF ViewTypes
  <2>2. memory' \in [Strings -> Seq(Buffer)]
    BY <1>2, <2>1
  <2> QED
    BY <1>1, <2>2 DEF ViewTypes
<1>6. BuffersKept'
  <2> SUFFICES ASSUME NEW s \in Strings
               PROVE  (/\ string[s].buffer = Len(memory[s]) /\ Len(memory[s]) >= 1
                       /\ string[s].size < Len(Current(s).text)
                       /\ \A k \in 1..(Len(memory[s]) - 1) : memory[s][k].freed
                       /\ Current(s).freed <=> s[1] \notin running)'
    BY DEF BuffersKept
  <2>1. CASE s[1] # t
    BY <1>1, <1>3, <2>1 DEF BuffersKept, Current
  <2>2. CASE s[1] = t
    <3>1. /\ string[s].buffer = Len(memory[s]) /\ Len(memory[s]) >= 1
          /\ string[s].size < Len(memory[s][string[s].buffer].text)
          /\ Len(memory[s]) \in Nat
      BY <1>1 DEF BuffersKept, Current, ViewTypes
    <3>2. /\ Len(memory'[s]) = Len(memory[s])
          /\ \A k \in 1..Len(memory[s]) : memory'[s][k].freed /\ memory'[s][k].text = memory[s][k].text
      BY <1>4, <2>2
    <3> QED
      BY <1>1, <2>2, <3>1, <3>2 DEF Current
  <2> QED
    BY <2>1, <2>2
<1>7. OnlyOf(t)
  BY <1>1, <1>3 DEF OnlyOf
<1>8. GatherKept' /\ CopyKept'
  BY <1>1, <1>7, OtherThreads DEF GatherKept, CopyKept
<1>9. ViewsKept'
  <2> SUFFICES ASSUME NEW v \in held
               PROVE  ViewKept(v)'
    BY <1>1 DEF ViewsKept
  <2>1. v.string \in Strings
    BY ViewFacts
  <2> QED
    BY <1>1, <1>3, <2>1, OtherView
<1>10. CopiesIntact'
  BY <1>1 DEF CopiesIntact
<1> QED
  BY <1>5, <1>6, <1>8, <1>9, <1>10 DEF ViewInv

LEMMA ViewStep == OwnerInv /\ ViewInv /\ [Next]_vars => ViewInv'
<1> SUFFICES ASSUME OwnerInv, ViewInv, [Next]_vars PROVE ViewInv'
  OBVIOUS
<1>1. CASE UNCHANGED vars
  BY <1>1, HandleViews DEF vars
<1>2. ASSUME NEW h \in Handles, Open(h) \/ Destroy(h)
      PROVE  ViewInv'
  BY <1>2, HandleViews DEF Open, Destroy
<1>3. ASSUME NEW h \in Handles, NEW g \in Handles, Move(h, g)
      PROVE  ViewInv'
  BY <1>3, HandleViews DEF Move
<1>4. ASSUME NEW t \in Threads, NEW h \in Handles, NEW o \in Overloads, NEW python \in BOOLEAN,
             Start(t, h, o, python)
      PROVE  ViewInv'
  BY <1>4, StartViews
<1>5. ASSUME NEW t \in Threads, Gather(t) \/ Return(t) \/ Copy(t) \/ End(t)
      PROVE  ViewInv'
  BY <1>5, GatherViews, ReturnViews, CopyViews, EndViews
<1> QED
  BY <1>1, <1>2, <1>3, <1>4, <1>5 DEF Next

LEMMA ViewsFollow == OwnerInv /\ ViewInv => ViewsIntact /\ CopiesIntact
<1> SUFFICES ASSUME OwnerInv, ViewInv PROVE ViewsIntact /\ CopiesIntact
  OBVIOUS
<1>1. DOMAIN string = Strings
  BY DEF ViewInv, ViewTypes
<1>2. ASSUME NEW s \in Strings
      PROVE  /\ string[s].buffer = Len(memory[s])
             /\ string[s].size <= CapacityOf(Last(memory[s]))
             /\ \A k \in 1..(Len(memory[s]) - 1) : memory[s][k].freed
             /\ Last(memory[s]).freed <=> s[1] \notin running
  <2> DEFINE b == memory[s][Len(memory[s])]
  <2>1. /\ memory[s] \in Seq(Buffer) /\ string[s].buffer = Len(memory[s]) /\ Len(memory[s]) >= 1
        /\ string[s].size \in Nat /\ string[s].size < Len(b.text)
        /\ \A k \in 1..(Len(memory[s]) - 1) : memory[s][k].freed
        /\ b.freed <=> s[1] \notin running
    BY DEF ViewInv, ViewTypes, BuffersKept, Current
  <2>2. Len(memory[s]) \in 1..Len(memory[s])
    BY <2>1
  <2>3. b \in Buffer
    BY <2>1, <2>2
  <2>4. Len(b.text) \in Nat
    BY <2>3 DEF Buffer
  <2>5. Last(memory[s]) = b
    BY DEF Last
  <2> HIDE DEF b
  <2>6. string[s].size <= CapacityOf(b)
    BY <2>1, <2>4 DEF CapacityOf
  <2> QED
    BY <2>1, <2>5, <2>6 DEF b
<1>3. TypeOK
  BY <1>1, <1>2 DEF TypeOK, OwnerInv
<1>4. \A v \in held : v.string[1] \in running /\ v.number = calls[v.string] => Read(v) = v.word
  BY RecentRead DEF Recent
<1> QED
  BY <1>3, <1>4 DEF ViewsIntact, ViewInv

\* However threads search, end, and open, move and destroy handles meanwhile: a
\* view that a caller was given reads as the word that was found until its
\* thread ends or calls the same overload again.
THEOREM ViewsCorrect == Spec => []ViewsIntact
<1>1. OwnerInv /\ ViewInv => ViewsIntact
  BY ViewsFollow
<1> QED
  BY OwnerInit, OwnerStep, ViewInit, ViewStep, <1>1, PTL DEF Spec

\* Python is given copies of the words that its search has found, whatever other
\* threads do between the end of the search and the last copy.
THEOREM CopiesCorrect == Spec => []CopiesIntact
<1>1. OwnerInv /\ ViewInv => CopiesIntact
  BY ViewsFollow
<1> QED
  BY OwnerInit, OwnerStep, ViewInit, ViewStep, <1>1, PTL DEF Spec
==============================================================================
