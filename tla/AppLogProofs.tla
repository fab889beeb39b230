----------------------------- MODULE AppLogProofs -----------------------------
(***************************************************************************)
(* Proofs about AppLog, for every set of calls and tails, every size of    *)
(* the queue and of a tail's buffer, and any number of failed file         *)
(* operations and restarts.                                                *)
(***************************************************************************)
EXTENDS AppLog, FiniteSetTheorems, SequenceTheorems, TLAPS

-----------------------------------------------------------------------------
(* Pick.  The library's induction theorems take an operator, which the     *)
(* provers cannot instantiate; the least element of a set of numbers takes *)
(* their place.                                                            *)

\* A set of natural numbers that is not empty has a least member.
LEMMA Least ==
    ASSUME NEW T, T \subseteq Nat, T # {}
    PROVE  \E n \in T : \A m \in T : n <= m
<1>1. \E x \in T : \A y \in T : ~ (<<y, x>> \in OpToRel(<, Nat))
  BY NatLessThanWellFounded, WFMin
<1>2. ASSUME NEW x \in Nat, NEW y \in Nat, y < x PROVE <<y, x>> \in OpToRel(<, Nat)
  BY <1>2 DEF OpToRel
<1>3. ASSUME NEW x \in T, \A y \in T : ~ (<<y, x>> \in OpToRel(<, Nat)), NEW y \in T
      PROVE  x <= y
  <2>1. x \in Nat /\ y \in Nat /\ ~(y < x)
    BY <1>2, <1>3
  <2> QED
    BY <2>1
<1> QED
  BY <1>1, <1>3

\* u[i] is what Pick has collected after the first i places, up to n.
Collects(u, s, keep, n) ==
    \A i \in 0..n : u[i] = IF i = 0 THEN <<>>
                           ELSE IF i \in keep THEN Append(u[i - 1], s[i]) ELSE u[i - 1]

\* The recursion in Pick has a solution.
LEMMA CollectsExists ==
    ASSUME NEW S, NEW s \in Seq(S), NEW keep
    PROVE  \E u \in [0..Len(s) -> Seq(S)] : Collects(u, s, keep, Len(s))
<1> DEFINE Good(n) == \E u \in [0..n -> Seq(S)] : Collects(u, s, keep, n)
           Bad == {n \in 0..Len(s) : ~Good(n)}
<1>1. Len(s) \in Nat
  OBVIOUS
<1>2. Good(0)
  <2>1. [i \in 0..0 |-> <<>>] \in [0..0 -> Seq(S)]
    OBVIOUS
  <2>2. Collects([i \in 0..0 |-> <<>>], s, keep, 0)
    BY DEF Collects
  <2> QED
    BY <2>1, <2>2
<1>3. ASSUME NEW n \in 0..Len(s), n # 0, Good(n - 1) PROVE Good(n)
  <2>1. PICK u \in [0..(n - 1) -> Seq(S)] : Collects(u, s, keep, n - 1)
    BY <1>3
  <2> DEFINE last == IF n \in keep THEN Append(u[n - 1], s[n]) ELSE u[n - 1]
             v == [i \in 0..n |-> IF i = n THEN last ELSE u[i]]
  <2>2. n \in Nat /\ n - 1 \in 0..(n - 1) /\ n \in 1..Len(s)
    BY <1>1, <1>3
  <2>3. u[n - 1] \in Seq(S) /\ s[n] \in S
    BY <2>1, <2>2
  <2>4. last \in Seq(S)
    BY <2>3
  <2>5. v \in [0..n -> Seq(S)]
    BY <2>1, <2>2, <2>4
  <2>6. Collects(v, s, keep, n)
    <3> SUFFICES ASSUME NEW i \in 0..n
                 PROVE  v[i] = IF i = 0 THEN <<>>
                               ELSE IF i \in keep THEN Append(v[i - 1], s[i]) ELSE v[i - 1]
      BY DEF Collects
    <3>1. CASE i = n
      <4>1. v[n - 1] = u[n - 1] /\ v[n] = last
        BY <2>2
      <4> QED
        BY <3>1, <4>1, <1>3
    <3>2. CASE i # n
      <4>1. /\ i \in 0..(n - 1) /\ i \in 0..n
            /\ i # 0 => i - 1 \in 0..(n - 1) /\ i - 1 \in 0..n /\ i - 1 # n
        BY <3>2, <2>2
      <4>2. v[i] = u[i] /\ (i # 0 => v[i - 1] = u[i - 1])
        BY <3>2, <4>1
      <4> HIDE DEF v
      <4> QED
        BY <2>1, <4>1, <4>2 DEF Collects
    <3> QED
      BY <3>1, <3>2
  <2> HIDE DEF v
  <2> QED
    BY <2>5, <2>6
<1>4. Bad = {}
  <2> SUFFICES ASSUME Bad # {} PROVE FALSE
    OBVIOUS
  <2>1. PICK n \in Bad : \A m \in Bad : n <= m
    <3>1. Bad \subseteq Nat
      BY <1>1
    <3> HIDE DEF Bad
    <3> QED
      BY <3>1, Least
  <2>2. n # 0 /\ n \in 0..Len(s) /\ ~Good(n)
    BY <1>2, <2>1
  <2>3. n - 1 \in 0..Len(s) /\ ~(n <= n - 1)
    BY <1>1, <2>2
  <2>4. Good(n - 1)
    BY <2>1, <2>3
  <2> QED
    BY <1>3, <2>2, <2>4
<1>5. Len(s) \in 0..Len(s)
  BY <1>1
<1> QED
  BY <1>4, <1>5

\* Pick returns the last of what it has collected.
LEMMA PickCollects ==
    ASSUME NEW S, NEW s \in Seq(S), NEW keep
    PROVE  \E u : Collects(u, s, keep, Len(s)) /\ Pick(s, keep) = u[Len(s)]
<1> DEFINE D(u) == u = [i \in 0..Len(s) |->
                          IF i = 0 THEN <<>>
                          ELSE IF i \in keep THEN Append(u[i - 1], s[i]) ELSE u[i - 1]]
           w == CHOOSE u : D(u)
<1>1. \E u : D(u)
  <2>1. PICK u \in [0..Len(s) -> Seq(S)] : Collects(u, s, keep, Len(s))
    BY CollectsExists
  <2>2. D(u)
    BY <2>1 DEF Collects
  <2> QED
    BY <2>2
<1>2. D(w)
  <2> HIDE DEF D
  <2> QED
    BY <1>1
<1>3. Pick(s, keep) = w[Len(s)]
  BY DEF Pick
<1>4. Collects(w, s, keep, Len(s))
  <2> HIDE DEF w
  <2> QED
    BY <1>2 DEF Collects
<1> QED
  BY <1>3, <1>4

\* p holds what keep picks of the first n places of s, in their order.
Picks(p, S, s, keep, n) ==
    /\ p \in Seq(S)
    /\ Elements(p) = {s[i] : i \in keep \cap (1..n)}
    /\ \A i, j \in 1..Len(p) : i < j =>
          \E a, b \in keep \cap (1..n) : a < b /\ p[i] = s[a] /\ p[j] = s[b]
    /\ 1..n \subseteq keep => Len(p) = n /\ \A i \in 1..n : p[i] = s[i]

\* Of no places at all, nothing is picked.
LEMMA PicksNone ==
    ASSUME NEW S, NEW s \in Seq(S), NEW keep
    PROVE  Picks(<<>>, S, s, keep, 0)
  BY DEF Picks, Elements

\* One more place: it is appended when keep has it, as both loops of the code do.
LEMMA PicksNext ==
    ASSUME NEW S, NEW s \in Seq(S), NEW keep, NEW n \in 1..Len(s), NEW p,
           Picks(p, S, s, keep, n - 1)
    PROVE  Picks(IF n \in keep THEN Append(p, s[n]) ELSE p, S, s, keep, n)
<1>1. /\ Len(s) \in Nat /\ n \in Nat \ {0} /\ n - 1 \in Nat /\ s[n] \in S
      /\ p \in Seq(S) /\ Len(p) \in Nat
      /\ 1..n = 1..(n - 1) \cup {n} /\ n \notin 1..(n - 1)
  BY DEF Picks
<1>2. CASE n \in keep
  <2> DEFINE q == Append(p, s[n])
  <2>1. /\ q \in Seq(S) /\ Len(q) = Len(p) + 1 /\ q[Len(p) + 1] = s[n]
        /\ \A i \in 1..Len(p) : q[i] = p[i]
        /\ 1..Len(q) = 1..Len(p) \cup {Len(p) + 1}
    BY <1>1
  <2> HIDE DEF q
  <2>2. Elements(q) = Elements(p) \cup {s[n]}
    BY <1>1, <2>1 DEF Elements
  <2>3. {s[i] : i \in keep \cap (1..n)} = {s[i] : i \in keep \cap (1..(n - 1))} \cup {s[n]}
    BY <1>1, <1>2
  <2>4. ASSUME NEW i \in 1..Len(q), NEW j \in 1..Len(q), i < j
        PROVE  \E a, b \in keep \cap (1..n) : a < b /\ q[i] = s[a] /\ q[j] = s[b]
    <3>1. i \in 1..Len(p)
      BY <1>1, <2>1, <2>4
    <3>2. CASE j \in 1..Len(p)
      <4>1. q[i] = p[i] /\ q[j] = p[j]
        BY <2>1, <3>1, <3>2
      <4>2. PICK a, b \in keep \cap (1..(n - 1)) : a < b /\ p[i] = s[a] /\ p[j] = s[b]
        BY <2>4, <3>1, <3>2 DEF Picks
      <4>3. a \in keep \cap (1..n) /\ b \in keep \cap (1..n)
        BY <1>1
      <4> QED
        BY <4>1, <4>2, <4>3
    <3>3. CASE j = Len(p) + 1
      <4>1. PICK a \in keep \cap (1..(n - 1)) : p[i] = s[a]
        <5>1. p[i] \in Elements(p)
          BY <3>1 DEF Elements
        <5>2. Elements(p) = {s[k] : k \in keep \cap (1..(n - 1))}
          BY DEF Picks
        <5> QED
          BY <5>1, <5>2
      <4>2. a < n /\ a \in keep \cap (1..n) /\ n \in keep \cap (1..n)
        BY <1>1, <1>2, <4>1
      <4> QED
        BY <2>1, <3>1, <3>3, <4>1, <4>2
    <3>4. j \in 1..Len(p) \/ j = Len(p) + 1
      BY <2>1
    <3> QED
      BY <3>2, <3>3, <3>4
  <2>5. 1..n \subseteq keep => Len(q) = n /\ \A i \in 1..n : q[i] = s[i]
    BY <1>1, <2>1 DEF Picks
  <2>6. Picks(q, S, s, keep, n)
    BY <2>1, <2>2, <2>3, <2>4, <2>5 DEF Picks
  <2> QED
    BY <1>2, <2>6 DEF q
<1>3. CASE n \notin keep
  <2>1. keep \cap (1..n) = keep \cap (1..(n - 1)) /\ ~(1..n \subseteq keep)
    BY <1>1, <1>3
  <2>2. Elements(p) = {s[i] : i \in keep \cap (1..n)}
    BY <2>1 DEF Picks
  <2>3. ASSUME NEW i \in 1..Len(p), NEW j \in 1..Len(p), i < j
        PROVE  \E a, b \in keep \cap (1..n) : a < b /\ p[i] = s[a] /\ p[j] = s[b]
    <3>1. PICK a, b \in keep \cap (1..(n - 1)) : a < b /\ p[i] = s[a] /\ p[j] = s[b]
      BY <2>3 DEF Picks
    <3>2. a \in keep \cap (1..n) /\ b \in keep \cap (1..n)
      BY <2>1
    <3> QED
      BY <3>1, <3>2
  <2>4. Picks(p, S, s, keep, n)
    BY <1>1, <2>1, <2>2, <2>3 DEF Picks
  <2> QED
    BY <1>3, <2>4
<1> QED
  BY <1>2, <1>3

\* What Pick returns: the kept places, all of them, in their order.
LEMMA PickPicks ==
    ASSUME NEW S, NEW s \in Seq(S), NEW keep
    PROVE  Picks(Pick(s, keep), S, s, keep, Len(s))
<1>1. PICK u : Collects(u, s, keep, Len(s)) /\ Pick(s, keep) = u[Len(s)]
  BY PickCollects
<1> DEFINE Bad == {n \in 0..Len(s) : ~Picks(u[n], S, s, keep, n)}
<1>2. Len(s) \in Nat /\ Len(s) \in 0..Len(s)
  OBVIOUS
<1>3. Bad = {}
  <2> SUFFICES ASSUME Bad # {} PROVE FALSE
    OBVIOUS
  <2>1. PICK n \in Bad : \A m \in Bad : n <= m
    <3>1. Bad \subseteq Nat
      BY <1>2
    <3> HIDE DEF Bad
    <3> QED
      BY <3>1, Least
  <2>2. n # 0
    <3>1. u[0] = <<>>
      BY <1>1, <1>2 DEF Collects
    <3> QED
      BY <2>1, <3>1, PicksNone
  <2>3. n \in 1..Len(s) /\ n - 1 \in 0..Len(s) /\ ~(n <= n - 1)
    BY <1>2, <2>1, <2>2
  <2>4. Picks(u[n - 1], S, s, keep, n - 1)
    BY <2>1, <2>3
  <2>5. u[n] = IF n \in keep THEN Append(u[n - 1], s[n]) ELSE u[n - 1]
    BY <1>1, <2>1, <2>2 DEF Collects
  <2>6. Picks(u[n], S, s, keep, n)
    BY <2>3, <2>4, <2>5, PicksNext
  <2> QED
    BY <2>1, <2>6
<1> QED
  BY <1>1, <1>2, <1>3

\* What InCallOrder says of s, with h for earlier.
InOrder(s, h) == \A i, j \in 1..Len(s) : i < j => s[i] # s[j] /\ s[j] \notin h[s[i]]

\* The same for the sequences of AppLog.
LEMMA PickFacts ==
    ASSUME NEW S, NEW s \in Seq(S), NEW keep
    PROVE  /\ Pick(s, keep) \in Seq(S)
           /\ Elements(Pick(s, keep)) = {s[i] : i \in keep \cap (1..Len(s))}
           /\ \A h : InOrder(s, h) => InOrder(Pick(s, keep), h)
           /\ 1..Len(s) \subseteq keep => Pick(s, keep) = s
<1> DEFINE p == Pick(s, keep)
<1>1. Picks(p, S, s, keep, Len(s))
  BY PickPicks
<1> HIDE DEF p
<1>2. p \in Seq(S) /\ Elements(p) = {s[i] : i \in keep \cap (1..Len(s))}
  BY <1>1 DEF Picks
<1>3. ASSUME NEW h, InOrder(s, h) PROVE InOrder(p, h)
  BY <1>1, <1>3 DEF Picks, InOrder
<1>4. 1..Len(s) \subseteq keep => p = s
  BY <1>1, <1>2, SeqEqual DEF Picks
<1> QED
  BY <1>2, <1>3, <1>4 DEF p

-----------------------------------------------------------------------------
(* Elements and order. *)

\* What Append adds to the elements of a sequence and what Tail takes from them.
LEMMA ElementsFacts ==
    ASSUME NEW S, NEW s \in Seq(S)
    PROVE  /\ Elements(<<>>) = {}
           /\ Elements(s) \subseteq S
           /\ \A e \in S : Elements(Append(s, e)) = Elements(s) \cup {e}
           /\ s # <<>> => /\ Head(s) \in S /\ Tail(s) \in Seq(S)
                          /\ Elements(s) = {Head(s)} \cup Elements(Tail(s))
<1>1. ASSUME NEW e \in S PROVE Elements(Append(s, e)) = Elements(s) \cup {e}
  <2>1. /\ Len(s) \in Nat /\ Len(Append(s, e)) = Len(s) + 1
        /\ Append(s, e)[Len(s) + 1] = e
        /\ \A i \in 1..Len(s) : Append(s, e)[i] = s[i]
        /\ 1..(Len(s) + 1) = 1..Len(s) \cup {Len(s) + 1}
    OBVIOUS
  <2> QED
    BY <2>1 DEF Elements
<1>2. ASSUME s # <<>>
      PROVE  /\ Head(s) \in S /\ Tail(s) \in Seq(S)
             /\ Elements(s) = {Head(s)} \cup Elements(Tail(s))
  <2>1. /\ Len(s) \in Nat \ {0} /\ Head(s) = s[1] /\ Tail(s) \in Seq(S)
        /\ Len(Tail(s)) = Len(s) - 1
        /\ \A i \in 1..(Len(s) - 1) : Tail(s)[i] = s[i + 1]
    BY <1>2
  <2>2. ASSUME NEW i \in 1..Len(s), i # 1 PROVE s[i] \in Elements(Tail(s))
    <3>1. i - 1 \in 1..Len(Tail(s)) /\ Tail(s)[i - 1] = s[i]
      BY <2>1, <2>2
    <3> QED
      BY <3>1 DEF Elements
  <2>3. ASSUME NEW i \in 1..Len(Tail(s)) PROVE Tail(s)[i] \in Elements(s)
    <3>1. i + 1 \in 1..Len(s) /\ Tail(s)[i] = s[i + 1]
      BY <2>1
    <3> QED
      BY <3>1 DEF Elements
  <2>4. 1 \in 1..Len(s)
    BY <2>1
  <2> QED
    BY <2>1, <2>2, <2>3, <2>4 DEF Elements
<1>3. Elements(<<>>) = {} /\ Elements(s) \subseteq S
  BY DEF Elements
<1> QED
  BY <1>1, <1>2, <1>3

\* Every entry of A may come before every entry of B.
Precedes(A, B, h) == \A a \in A, b \in B : a # b /\ b \notin h[a]

\* Append keeps call order when nothing before the new entry must follow it; Tail keeps it.
LEMMA OrderFacts ==
    ASSUME NEW S, NEW s \in Seq(S), NEW h
    PROVE  /\ InOrder(<<>>, h)
           /\ \A e \in S : InOrder(s, h) /\ Precedes(Elements(s), {e}, h)
                              => InOrder(Append(s, e), h)
           /\ s # <<>> /\ InOrder(s, h)
                => InOrder(Tail(s), h) /\ Precedes({Head(s)}, Elements(Tail(s)), h)
<1>1. ASSUME NEW e \in S, InOrder(s, h), Precedes(Elements(s), {e}, h)
      PROVE  InOrder(Append(s, e), h)
  <2>1. /\ Len(s) \in Nat /\ Len(Append(s, e)) = Len(s) + 1
        /\ Append(s, e)[Len(s) + 1] = e
        /\ \A i \in 1..Len(s) : Append(s, e)[i] = s[i]
    OBVIOUS
  <2>2. ASSUME NEW i \in 1..(Len(s) + 1), NEW j \in 1..(Len(s) + 1), i < j
        PROVE  /\ Append(s, e)[i] # Append(s, e)[j]
               /\ Append(s, e)[j] \notin h[Append(s, e)[i]]
    <3>1. i \in 1..Len(s) /\ Append(s, e)[i] = s[i]
      BY <2>1, <2>2
    <3>2. CASE j \in 1..Len(s)
      BY <1>1, <2>1, <2>2, <3>1, <3>2 DEF InOrder
    <3>3. CASE j = Len(s) + 1
      <4>1. s[i] \in Elements(s)
        BY <3>1 DEF Elements
      <4> QED
        BY <1>1, <2>1, <3>1, <3>3, <4>1 DEF Precedes
    <3> QED
      BY <2>1, <3>2, <3>3
  <2> QED
    BY <2>1, <2>2 DEF InOrder
<1>2. ASSUME s # <<>>, InOrder(s, h)
      PROVE  InOrder(Tail(s), h) /\ Precedes({Head(s)}, Elements(Tail(s)), h)
  <2>1. /\ Len(s) \in Nat \ {0} /\ Head(s) = s[1] /\ Len(Tail(s)) = Len(s) - 1
        /\ \A i \in 1..(Len(s) - 1) : Tail(s)[i] = s[i + 1]
    BY <1>2
  <2>2. InOrder(Tail(s), h)
    <3> SUFFICES ASSUME NEW i \in 1..Len(Tail(s)), NEW j \in 1..Len(Tail(s)), i < j
                 PROVE  Tail(s)[i] # Tail(s)[j] /\ Tail(s)[j] \notin h[Tail(s)[i]]
      BY DEF InOrder
    <3>1. /\ i + 1 \in 1..Len(s) /\ j + 1 \in 1..Len(s) /\ i + 1 < j + 1
          /\ Tail(s)[i] = s[i + 1] /\ Tail(s)[j] = s[j + 1]
      BY <2>1
    <3> QED
      BY <1>2, <3>1 DEF InOrder
  <2>3. ASSUME NEW i \in 1..Len(Tail(s))
        PROVE  Head(s) # Tail(s)[i] /\ Tail(s)[i] \notin h[Head(s)]
    <3>1. 1 \in 1..Len(s) /\ i + 1 \in 1..Len(s) /\ 1 < i + 1 /\ Tail(s)[i] = s[i + 1]
      BY <2>1
    <3> QED
      BY <1>2, <2>1, <3>1 DEF InOrder
  <2> QED
    BY <2>2, <2>3 DEF Precedes, Elements
<1>3. InOrder(<<>>, h)
  BY DEF InOrder
<1> QED
  BY <1>1, <1>2, <1>3

-----------------------------------------------------------------------------
(* The file. *)

Chunks == [entry : Writes, cut : Cuts]

\* A piece of the file names the entry it was written for and how much of it is there.
LEMMA ChunkFacts ==
    ASSUME NEW e \in Writes, NEW cut \in Cuts
    PROVE  Chunk(e, cut) \in Chunks /\ Chunk(e, cut).entry = e /\ Chunk(e, cut).cut = cut
  BY DEF Chunk, Chunks

\* The entries the pieces of a file were written for, place by place.
LEMMA WrittenAt ==
    ASSUME NEW f \in Seq(Chunks)
    PROVE  /\ Len(f) \in Nat
           /\ \A i \in 1..Len(f) : f[i].entry \in Writes /\ f[i].cut \in Cuts
           /\ Written(f) \in Seq(Writes) /\ Len(Written(f)) = Len(f)
<1>1. Len(f) \in Nat
  OBVIOUS
<1>2. ASSUME NEW i \in 1..Len(f) PROVE f[i].entry \in Writes /\ f[i].cut \in Cuts
  <2>1. f[i] \in Chunks
    OBVIOUS
  <2> QED
    BY <2>1 DEF Chunks
<1>3. Written(f) \in Seq(Writes) /\ Len(Written(f)) = Len(f)
  BY <1>1, <1>2 DEF Written
<1> QED
  BY <1>1, <1>2, <1>3

\* A write to the file adds one entry to those it was written for.
LEMMA WrittenFacts ==
    ASSUME NEW f \in Seq(Chunks)
    PROVE  /\ Written(f) \in Seq(Writes) /\ Len(Written(f)) = Len(f)
           /\ Written(<<>>) = <<>>
           /\ \A e \in Writes, cut \in Cuts :
                Written(Append(f, Chunk(e, cut))) = Append(Written(f), e)
<1>1. Len(f) \in Nat /\ \A i \in 1..Len(f) : f[i].entry \in Writes
  BY WrittenAt
<1>2. Written(f) \in Seq(Writes) /\ Len(Written(f)) = Len(f)
  BY WrittenAt
<1>3. Written(<<>>) = <<>>
  BY DEF Written
<1>4. ASSUME NEW e \in Writes, NEW cut \in Cuts
      PROVE  Written(Append(f, Chunk(e, cut))) = Append(Written(f), e)
  <2> DEFINE g == Append(f, Chunk(e, cut))
  <2>1. /\ g \in Seq(Chunks) /\ Len(g) = Len(f) + 1 /\ g[Len(f) + 1] = Chunk(e, cut)
        /\ \A i \in 1..Len(f) : g[i] = f[i]
    BY ChunkFacts
  <2> HIDE DEF g
  <2>2. Written(g) \in Seq(Writes) /\ Len(Written(g)) = Len(f) + 1
    BY <2>1, WrittenAt
  <2>3. Append(Written(f), e) \in Seq(Writes) /\ Len(Append(Written(f), e)) = Len(f) + 1
    BY <1>2
  <2>4. ASSUME NEW i \in 1..(Len(f) + 1) PROVE Written(g)[i] = Append(Written(f), e)[i]
    <3>1. Written(g)[i] = g[i].entry
      BY <2>1 DEF Written
    <3>2. CASE i \in 1..Len(f)
      <4>1. Append(Written(f), e)[i] = f[i].entry
        BY <1>1, <1>2, <3>2 DEF Written
      <4> QED
        BY <2>1, <3>1, <3>2, <4>1
    <3>3. CASE i = Len(f) + 1
      <4>1. Append(Written(f), e)[i] = e
        BY <1>1, <1>2, <3>3
      <4> QED
        BY <2>1, <3>1, <3>3, <4>1, ChunkFacts
    <3>4. i \in 1..Len(f) \/ i = Len(f) + 1
      BY <1>1
    <3> QED
      BY <3>2, <3>3, <3>4
  <2>5. Written(g) = Append(Written(f), e)
    BY <2>2, <2>3, <2>4, SeqEqual
  <2> QED
    BY <2>5 DEF g
<1> QED
  BY <1>2, <1>3, <1>4

\* Every write to f was whole.
Whole(f) == \A i \in 1..Len(f) : f[i].cut = "none"

TornIn(f, e) == \E i \in 1..Len(f) :
                   f[i].entry = e /\ (f[i].cut # "none" \/ ~StartsLine(f, i))

\* loadEntries finds nothing that was not written, in the order of the writes; it
\* misses what is on a torn line, and nothing in a file without one.
LEMMA LoadFacts ==
    ASSUME NEW f \in Seq(Chunks)
    PROVE  /\ Load(f) \in Seq(Writes)
           /\ Elements(Load(f)) \subseteq Elements(Written(f))
           /\ \A e \in Elements(Written(f)) \ Elements(Load(f)) : TornIn(f, e)
           /\ \A h : InOrder(Written(f), h) => InOrder(Load(f), h)
           /\ Whole(f) => Load(f) = Written(f)
<1> DEFINE keep == {i \in 1..Len(f) : Readable(f, i)}
<1>1. /\ Written(f) \in Seq(Writes) /\ Len(Written(f)) = Len(f)
      /\ \A i \in 1..Len(f) : Written(f)[i] = f[i].entry
  BY WrittenFacts DEF Written
<1>2. /\ Load(f) \in Seq(Writes)
      /\ Elements(Load(f)) = {Written(f)[i] : i \in keep \cap (1..Len(f))}
      /\ \A h : InOrder(Written(f), h) => InOrder(Load(f), h)
      /\ 1..Len(f) \subseteq keep => Load(f) = Written(f)
  BY <1>1, PickFacts DEF Load
<1>3. Elements(Load(f)) \subseteq Elements(Written(f))
  BY <1>1, <1>2 DEF Elements
<1>4. ASSUME NEW e \in Elements(Written(f)) \ Elements(Load(f)) PROVE TornIn(f, e)
  <2>1. PICK i \in 1..Len(f) : Written(f)[i] = e
    BY <1>1 DEF Elements
  <2>2. ~Readable(f, i)
    BY <1>2, <2>1
  <2> QED
    BY <1>1, <2>1, <2>2 DEF TornIn, Readable
<1>5. Whole(f) => Load(f) = Written(f)
  <2>1. Len(f) \in Nat
    OBVIOUS
  <2>2. ASSUME Whole(f), NEW i \in 1..Len(f) PROVE Readable(f, i)
    <3>1. i = 1 \/ i - 1 \in 1..Len(f)
      BY <2>1
    <3> QED
      BY <2>2, <3>1 DEF Whole, Readable, StartsLine
  <2> QED
    BY <1>2, <2>2
<1> QED
  BY <1>2, <1>3, <1>4, <1>5

-----------------------------------------------------------------------------
(* The inductive invariant, in layers. *)

\* The write loop has one entry in hand from the receive to the last handler,
\* and calls registered handlers only.
RunInv ==
    /\ run \in {"recv", "exited"} => current = {}
    /\ run \notin {"recv", "exited"} => \E e \in Writes : current = {e}
    /\ run # "handle" => todo = {}
    /\ \A t \in todo : tpc[t] = "on"

TypeInv == TypeOK /\ RunInv

\* Close excludes the calls that hold the read lock, and the write loop leaves
\* over a closed and empty queue, which stays so.
LockInv ==
    /\ \A w \in Writes : wpc[w] \in {"check", "send", "unlock"} => w \in readers
    /\ \A w \in Writes : wpc[w] = "send" => ~closed
    /\ closed <=> close \in {"wait", "returned"}
    /\ run = "exited" => closed /\ queue = <<>>
    /\ close = "returned" => run = "exited"

\* Entries on their way: not stored yet, not written to the file yet, not yet
\* given to the handler of t.
Unstored   == (IF run = "lock" THEN current ELSE {}) \cup Elements(queue)
Unfiled    == (IF run \in {"lock", "write"} THEN current ELSE {}) \cup Elements(queue)
Unshown(t) == (IF run \in {"lock", "write", "handlers"} \/ t \in todo THEN current ELSE {})
              \cup Elements(queue)

\* Whatever is anywhere was sent, by a call that will not send again; and a call
\* that had ended when another was made stays so, whatever process that one is in.
Known == {w \in Writes : wpc[w] \in {"unlock", "end", "killed"}}

KnownInv ==
    /\ Elements(queue) \cup current \cup Elements(entries) \cup Elements(Written(file)) \subseteq Known
    /\ cleared \subseteq Known
    /\ \A t \in Tails : Elements(sent[t] \o buffer[t]) \subseteq Known
    /\ \A c \in Clears : older[c] \subseteq Known
    /\ \A w \in Writes : \A v \in earlier[w] : wpc[v] \in {"end", "killed"}

\* What a ClearLogs that works on the file still has to write back.
Rewrites(c) == cpc[c] \in {"truncate", "rewrite"}

KeptInv == \A c \in Clears : Rewrites(c) => Elements(kept[c]) \subseteq Elements(entries)

\* Every place entries go through is in order, and before what is to come there.
OrderInv ==
    /\ InOrder(queue, earlier) /\ Precedes(current, Elements(queue), earlier)
    /\ InOrder(entries, earlier) /\ Precedes(Elements(entries), Unstored, earlier)
    /\ InOrder(Written(file), earlier) /\ Precedes(Elements(Written(file)), Unfiled, earlier)
    /\ \A c \in Clears : Rewrites(c) => InOrder(kept[c], earlier)
    /\ \A c \in Clears : cpc[c] = "rewrite" =>
          Precedes(Elements(Written(file)), Elements(kept[c]), earlier)

TailInv ==
    \A t \in Tails : /\ InOrder(sent[t] \o buffer[t], earlier)
                     /\ Precedes(Elements(sent[t] \o buffer[t]), Unshown(t), earlier)

\* What a ClearLogs removes is nowhere else, and nothing else is rewritten.
ClearedInv ==
    /\ \A c \in Clears : Rewrites(c) => older[c] \cap (Elements(entries) \cup Unstored) = {}
    /\ \A c \in Clears : cpc[c] = "rewrite" => Elements(Written(file)) \subseteq Elements(entries)
    /\ cleared \cap (Elements(entries) \cup Elements(Written(file)) \cup Unfiled) = {}

\* An accepted entry is on its way, stored or removed.
AcceptedInv ==
    /\ \A w \in Writes : result[w] = "ok" =>
          w \in Elements(entries) \cup Unstored \cup UNION {older[c] : c \in Clears}
    /\ \A c \in Clears : cpc[c] \in {"idle", "lock"} => older[c] = {}

\* What memory holds is in the file, or about to be written there, or was lost to
\* a failed operation.
FiledInv ==
    /\ mu = "free" => Elements(entries) \subseteq Elements(Written(file)) \cup unwritten
    /\ mu = "run" => Elements(entries) \ current \subseteq Elements(Written(file)) \cup unwritten
    /\ \A c \in Clears : cpc[c] = "truncate" => kept[c] = entries
    /\ \A c \in Clears : cpc[c] = "rewrite" =>
          Elements(entries) \subseteq Elements(Written(file)) \cup Elements(kept[c])

\* As long as nothing has failed the file is what memory is, but for the step
\* that is being taken.
NothingFailed == faults = 0 /\ \A c \in Clears : cpc[c] # "error"

InStepInv ==
    NothingFailed =>
      /\ Whole(file)
      /\ mu = "free" => Written(file) = entries
      /\ mu = "run" => \A e \in current : entries = Append(Written(file), e)
      /\ \A c \in Clears : cpc[c] = "rewrite" => Written(file) \o kept[c] = entries

-----------------------------------------------------------------------------
(* Types. *)

\* A set of no or one member has at most one.
LEMMA AtMostOne == ASSUME NEW s, s = {} \/ \E e : s = {e} PROVE Cardinality(s) <= 1
<1>1. CASE s = {}
  BY <1>1, FS_EmptySet
<1>2. ASSUME NEW e, s = {e} PROVE Cardinality(s) <= 1
  BY <1>2, FS_Singleton
<1> QED
  BY <1>1, <1>2

\* The initial states have the types.
LEMMA TypeInit == Init => TypeInv
<1> SUFFICES ASSUME Init PROVE TypeInv
  OBVIOUS
<1>1. Cardinality(current) <= 1
  BY AtMostOne DEF Init
<1>2. /\ file \in Seq([entry : Writes, cut : Cuts])
      /\ buffer \in [Tails -> Seq(Writes)] /\ \A t \in Tails : Len(buffer[t]) <= BufferSize
  BY AppLogAssumption DEF Init
<1>3. faults \in 0..MaxFaults /\ restarts \in 0..MaxRestarts /\ Len(queue) <= QueueSize
  BY AppLogAssumption DEF Init
<1>4. \A c \in Clears : mu = c <=> cpc[c] \in {"truncate", "rewrite"}
  BY AppLogAssumption DEF Init
<1>5. /\ wpc \in [Writes -> WritePCs] /\ result \in [Writes -> Results]
      /\ stamped \in Seq(Writes) /\ queue \in Seq(Writes) /\ entries \in Seq(Writes)
      /\ earlier \in [Writes -> SUBSET Writes]
  BY DEF Init, WritePCs, Results
<1>6. /\ cpc \in [Clears -> ClearPCs] /\ kept \in [Clears -> Seq(Writes)]
      /\ older \in [Clears -> SUBSET Writes]
  BY DEF Init, ClearPCs
<1>7. tpc \in [Tails -> {"out", "on", "gone"}] /\ sent \in [Tails -> Seq(Writes)]
  BY DEF Init
<1> QED
  BY <1>1, <1>2, <1>3, <1>4, <1>5, <1>6, <1>7 DEF Init, TypeInv, TypeOK, RunInv, WritePCs, Results, RunPCs,
     ClearPCs, ClosePCs

\* Every step of a call, the write loop, a clear, Close and a restart keeps the types.
LEMMA TypeStep == ASSUME TypeInv, [Next]_vars PROVE TypeInv'
<1> USE AppLogAssumption DEF TypeInv, TypeOK, RunInv, WritePCs, Results, RunPCs,
        ClearPCs, ClosePCs
<1>1. ASSUME NEW w \in Writes, CallWrite(w) PROVE TypeInv'
  BY <1>1 DEF CallWrite, WriteGoto, runVars, clearVars, tailVars, diskVars
<1>2. ASSUME NEW w \in Writes, WriteRLock(w) PROVE TypeInv'
  BY <1>2 DEF WriteRLock, WriteGoto, runVars, clearVars, tailVars, diskVars
<1>3. ASSUME NEW w \in Writes, WriteCheck(w) PROVE TypeInv'
  <2>1. /\ wpc' \in [Writes -> WritePCs] /\ result' \in [Writes -> Results]
        /\ stamped' \in Seq(Writes)
    <3>1. CASE closed
      BY <1>3, <3>1 DEF WriteCheck, WriteGoto
    <3>2. CASE ~closed
      <4>1. /\ wpc' = [wpc EXCEPT ![w] = "send"] /\ result' = result
            /\ stamped' = Append(stamped, w)
        BY <1>3, <3>2 DEF WriteCheck, WriteGoto
      <4> QED
        BY <4>1
    <3> QED
      BY <3>1, <3>2
  <2> QED
    BY <1>3, <2>1 DEF WriteCheck, runVars, clearVars, tailVars, diskVars
<1>4. ASSUME NEW w \in Writes, WriteSend(w) PROVE TypeInv'
  BY <1>4 DEF WriteSend, WriteGoto, runVars, clearVars, tailVars, diskVars
<1>5. ASSUME NEW w \in Writes, WriteRUnlock(w) PROVE TypeInv'
  BY <1>5 DEF WriteRUnlock, WriteGoto, runVars, clearVars, tailVars, diskVars
<1>6. ASSUME RunReceive PROVE TypeInv'
  <2>1. Head(queue) \in Writes /\ Tail(queue) \in Seq(Writes) /\ Len(Tail(queue)) <= QueueSize
    BY <1>6 DEF RunReceive
  <2>2. Cardinality({Head(queue)}) <= 1
    BY AtMostOne
  <2> QED
    BY <1>6, <2>1, <2>2 DEF RunReceive, RunGoto, writeVars, clearVars, tailVars, diskVars
<1>7. ASSUME RunExit PROVE TypeInv'
  BY <1>7 DEF RunExit, RunGoto, writeVars, clearVars, tailVars, diskVars
<1>8. ASSUME RunStore PROVE TypeInv'
  BY <1>8 DEF RunStore, RunGoto, writeVars, clearVars, tailVars, diskVars
<1>9. ASSUME RunWrite PROVE TypeInv'
  <2>1. PICK e \in Writes : current = {e}
    BY <1>9 DEF RunWrite, RunGoto
  <2>2. \A cut \in Cuts : Append(file, Chunk(e, cut)) \in Seq([entry : Writes, cut : Cuts])
    BY ChunkFacts DEF Chunks
  <2>3. file' \in Seq([entry : Writes, cut : Cuts])
    <3>1. file' = file \/ \E cut \in Cuts : file' = Append(file, Chunk(e, cut))
      BY <1>9, <2>1 DEF RunWrite, Cuts
    <3> QED
      BY <2>2, <3>1
  <2>4. unwritten' \subseteq Writes /\ faults' \in 0..MaxFaults
    BY <1>9, <2>1 DEF RunWrite, Fault
  <2> QED
    BY <1>9, <2>1, <2>3, <2>4 DEF RunWrite, RunGoto, writeVars, clearVars, tailVars
<1>10. ASSUME RunHandlers PROVE TypeInv'
  BY <1>10 DEF RunHandlers, RunGoto, writeVars, clearVars, tailVars, diskVars
<1>11. ASSUME NEW t \in Tails, RunHandle(t) PROVE TypeInv'
  BY <1>11 DEF RunHandle, writeVars, clearVars, diskVars
<1>12. ASSUME RunNext PROVE TypeInv'
  <2>1. Cardinality({}) <= 1
    BY AtMostOne
  <2> QED
    BY <1>12, <2>1 DEF RunNext, RunGoto, writeVars, clearVars, tailVars, diskVars
<1>13. ASSUME NEW c \in Clears, CallClear(c) PROVE TypeInv'
  BY <1>13 DEF CallClear, ClearGoto, writeVars, runVars, tailVars, diskVars
<1>14. ASSUME NEW c \in Clears, ClearFilter(c) PROVE TypeInv'
  <2>1. PICK k \in 0..Len(stamped) :
          LET stays == {i \in 1..Len(entries) : entries[i] \notin Before(k)}
          IN  /\ entries' = Pick(entries, stays)
              /\ kept' = [kept EXCEPT ![c] = Pick(entries, stays)]
              /\ older' = [older EXCEPT ![c] = Elements(entries) \cap Before(k)]
    BY <1>14 DEF ClearFilter
  <2>2. entries' \in Seq(Writes) /\ Elements(entries) \subseteq Writes
    BY <2>1, PickFacts, ElementsFacts
  <2>3. kept' \in [Clears -> Seq(Writes)] /\ older' \in [Clears -> SUBSET Writes]
    BY <2>1, <2>2
  <2> QED
    BY <1>14, <2>2, <2>3 DEF ClearFilter, ClearGoto, writeVars, runVars, tailVars, diskVars
<1>15. ASSUME NEW c \in Clears, ClearTruncate(c) PROVE TypeInv'
  <2>1. Elements(kept[c]) \subseteq Writes
    BY ElementsFacts
  <2>2. /\ file' \in Seq([entry : Writes, cut : Cuts])
        /\ unwritten' \subseteq Writes /\ faults' \in 0..MaxFaults
    <3>1. file' \in Seq([entry : Writes, cut : Cuts])
      <4>1. file' = file \/ file' = <<>>
        BY <1>15 DEF ClearTruncate
      <4>2. <<>> \in Seq([entry : Writes, cut : Cuts])
        BY EmptySeq
      <4>3. CASE file' = file
        BY <4>3
      <4>4. CASE file' = <<>>
        BY <4>2, <4>4
      <4> QED
        BY <4>1, <4>3, <4>4
    <3>2. unwritten' = unwritten \/ unwritten' = unwritten \cup Elements(kept[c])
      BY <1>15 DEF ClearTruncate, ClearFails
    <3>3. faults' = faults \/ (faults < MaxFaults /\ faults' = faults + 1)
      BY <1>15 DEF ClearTruncate, Fault
    <3>4. faults' \in 0..MaxFaults
      BY <3>3
    <3> QED
      BY <2>1, <3>1, <3>2, <3>4
  <2>3. /\ \/ mu' = mu /\ cpc' = [cpc EXCEPT ![c] = "rewrite"]
           \/ mu' = "free" /\ cpc' = [cpc EXCEPT ![c] = "error"]
        /\ cpc[c] = "truncate" /\ UNCHANGED <<kept, older, cleared>>
    BY <1>15 DEF ClearTruncate, ClearFails, ClearGoto
  <2>4. /\ UNCHANGED <<wpc, result, stamped, readers, earlier, run, current, todo>>
        /\ UNCHANGED <<closed, queue, entries, tpc, buffer, sent, close, restarts>>
    BY <1>15 DEF ClearTruncate, writeVars, runVars, tailVars
  <2>5. /\ mu' \in {"free", "run"} \cup Clears /\ (mu' = "run" <=> run' = "write")
        /\ \A d \in Clears : mu' = d <=> cpc'[d] \in {"truncate", "rewrite"}
        /\ cpc' \in [Clears -> ClearPCs]
    <3>1. /\ mu \in {"free", "run"} \cup Clears /\ (mu = "run" <=> run = "write")
          /\ \A d \in Clears : mu = d <=> cpc[d] \in {"truncate", "rewrite"}
          /\ cpc \in [Clears -> ClearPCs]
      OBVIOUS
    <3> HIDE DEF TypeInv, TypeOK
    <3> QED
      BY <3>1, <2>3, <2>4, AppLogAssumption DEF AppLogAssumption, ClearPCs
  <2> QED
    BY <2>2, <2>3, <2>4, <2>5
<1>16. ASSUME NEW c \in Clears, ClearRewrite(c) PROVE TypeInv'
  <2>1. Elements(kept[c]) \subseteq Writes /\ Head(kept[c]) \in Writes /\ Tail(kept[c]) \in Seq(Writes)
    BY <1>16, ElementsFacts DEF ClearRewrite
  <2>2. \A cut \in Cuts :
          Append(file, Chunk(Head(kept[c]), cut)) \in Seq([entry : Writes, cut : Cuts])
    BY <2>1, ChunkFacts DEF Chunks
  <2>3. file' \in Seq([entry : Writes, cut : Cuts])
    BY <1>16, <2>2 DEF ClearRewrite, Cuts
  <2>4. unwritten' \subseteq Writes /\ faults' \in 0..MaxFaults
    BY <1>16, <2>1 DEF ClearRewrite, ClearFails, Fault
  <2>5. /\ \/ mu' = mu /\ cpc' = [cpc EXCEPT ![c] = "rewrite"]
           \/ mu' = "free" /\ cpc' = [cpc EXCEPT ![c] = "error"]
        /\ cpc[c] = "rewrite" /\ UNCHANGED <<older, cleared>>
    BY <1>16 DEF ClearRewrite, ClearFails, ClearGoto
  <2>6. kept' = kept \/ kept' = [kept EXCEPT ![c] = Tail(kept[c])]
    BY <1>16 DEF ClearRewrite, ClearFails
  <2>7. kept' \in [Clears -> Seq(Writes)]
    BY <2>1, <2>6
  <2>8. /\ UNCHANGED <<wpc, result, stamped, readers, earlier, run, current, todo>>
        /\ UNCHANGED <<closed, queue, entries, tpc, buffer, sent, close, restarts>>
    BY <1>16 DEF ClearRewrite, writeVars, runVars, tailVars
  <2>9. /\ mu' \in {"free", "run"} \cup Clears /\ (mu' = "run" <=> run' = "write")
        /\ \A d \in Clears : mu' = d <=> cpc'[d] \in {"truncate", "rewrite"}
        /\ cpc' \in [Clears -> ClearPCs]
    <3>1. /\ mu \in {"free", "run"} \cup Clears /\ (mu = "run" <=> run = "write")
          /\ \A d \in Clears : mu = d <=> cpc[d] \in {"truncate", "rewrite"}
          /\ cpc \in [Clears -> ClearPCs]
      OBVIOUS
    <3> HIDE DEF TypeInv, TypeOK
    <3> QED
      BY <3>1, <2>5, <2>8, AppLogAssumption DEF AppLogAssumption, ClearPCs
  <2> QED
    BY <2>3, <2>4, <2>5, <2>7, <2>8, <2>9
<1>17. ASSUME NEW c \in Clears, ClearReturn(c) PROVE TypeInv'
  BY <1>17 DEF ClearReturn, ClearGoto, writeVars, runVars, tailVars
<1>18. ASSUME NEW t \in Tails, Register(t) PROVE TypeInv'
  BY <1>18 DEF Register, HandlersFree, writeVars, runVars, clearVars, diskVars
<1>19. ASSUME NEW t \in Tails, TailSend(t) PROVE TypeInv'
  BY <1>19 DEF TailSend, writeVars, runVars, clearVars, diskVars
<1>20. ASSUME NEW t \in Tails, Unregister(t) PROVE TypeInv'
  BY <1>20 DEF Unregister, HandlersFree, writeVars, runVars, clearVars, diskVars
<1>21. ASSUME CallClose PROVE TypeInv'
  BY <1>21 DEF CallClose, CloseGoto, writeVars, runVars, clearVars, tailVars, diskVars
<1>22. ASSUME CloseQueue PROVE TypeInv'
  BY <1>22 DEF CloseQueue, CloseGoto, writeVars, runVars, clearVars, tailVars, diskVars
<1>23. ASSUME CloseFile PROVE TypeInv'
  BY <1>23 DEF CloseFile, CloseGoto, writeVars, runVars, clearVars, tailVars, diskVars
<1>24. ASSUME Restart PROVE TypeInv'
  <2>1. Load(file) \in Seq(Writes)
    BY LoadFacts DEF Chunks
  <2>2. Cardinality({}) <= 1
    BY AtMostOne
  <2>3. /\ wpc' \in [Writes -> WritePCs] /\ cpc' \in [Clears -> ClearPCs]
        /\ kept' \in [Clears -> Seq(Writes)] /\ tpc' \in [Tails -> {"out", "on", "gone"}]
    BY <1>24 DEF Restart
  <2>4. \A c \in Clears : mu' # c /\ cpc'[c] \notin {"truncate", "rewrite"}
    BY <1>24 DEF Restart
  <2>5. restarts' \in 0..MaxRestarts /\ Len(queue') <= QueueSize
    BY <1>24 DEF Restart
  <2>6. /\ result' \in [Writes -> Results] /\ readers' \subseteq Writes /\ closed' \in BOOLEAN
        /\ run' \in RunPCs /\ current' = {} /\ todo' = {} /\ run' = "recv" /\ mu' = "free"
        /\ close' \in ClosePCs /\ unwritten' \subseteq Writes
    BY <1>24 DEF Restart
  <2>7. queue' \in Seq(Writes) /\ entries' \in Seq(Writes)
    <3>1. queue' = <<>> /\ entries' = Load(file)
      BY <1>24 DEF Restart
    <3> QED
      BY <2>1, <3>1
  <2>8. UNCHANGED <<stamped, earlier, older, cleared, buffer, sent, file, faults>>
    BY <1>24 DEF Restart
  <2> QED
    BY <2>2, <2>3, <2>4, <2>5, <2>6, <2>7, <2>8
<1>25. ASSUME UNCHANGED vars PROVE TypeInv'
  BY <1>25 DEF vars, writeVars, runVars, clearVars, tailVars, diskVars
<1> QED
  BY <1>1, <1>2, <1>3, <1>4, <1>5, <1>6, <1>7, <1>8, <1>9, <1>10, <1>11,
     <1>12, <1>13, <1>14, <1>15, <1>16, <1>17, <1>18, <1>19, <1>20, <1>21,
     <1>22, <1>23, <1>24, <1>25 DEF Next, Write, Run, Clear, Close, Finished

\* Every reachable state has the types.
LEMMA TypeInvariant == Spec => []TypeInv
  BY TypeInit, TypeStep, PTL DEF Spec

\* WriteLog, the write loop, ClearLogs, the tails, Close and a restart keep
\* every variable within its type, and mu is held by whoever works on the file.
THEOREM TypeCorrect == Spec => []TypeOK
<1>1. TypeInv => TypeOK
  BY DEF TypeInv
<1> QED
  BY <1>1, TypeInvariant, PTL

-----------------------------------------------------------------------------
(* Close and the read lock. *)

\* Nobody holds stateMu at the start and the queue is open.
LEMMA LockInit == Init => LockInv
  BY DEF Init, LockInv

\* Every step keeps to the read and write lock of stateMu.
LEMMA LockStep == ASSUME TypeInv, LockInv, [Next]_vars PROVE LockInv'
<1> USE DEF TypeInv, TypeOK, LockInv, WritePCs
<1>1. ASSUME NEW w \in Writes, CallWrite(w) PROVE LockInv'
  BY <1>1 DEF CallWrite, WriteGoto, runVars, clearVars, tailVars, diskVars
<1>2. ASSUME NEW w \in Writes, WriteRLock(w) PROVE LockInv'
  BY <1>2 DEF WriteRLock, WriteGoto, runVars, clearVars, tailVars, diskVars
<1>3. ASSUME NEW w \in Writes, WriteCheck(w) PROVE LockInv'
  BY <1>3 DEF WriteCheck, WriteGoto, runVars, clearVars, tailVars, diskVars
<1>4. ASSUME NEW w \in Writes, WriteSend(w) PROVE LockInv'
  BY <1>4 DEF WriteSend, WriteGoto, runVars, clearVars, tailVars, diskVars
<1>5. ASSUME NEW w \in Writes, WriteRUnlock(w) PROVE LockInv'
  BY <1>5 DEF WriteRUnlock, WriteGoto, runVars, clearVars, tailVars, diskVars
<1>6. ASSUME RunReceive PROVE LockInv'
  BY <1>6 DEF RunReceive, RunGoto, writeVars, clearVars, tailVars, diskVars
<1>7. ASSUME RunExit PROVE LockInv'
  BY <1>7 DEF RunExit, RunGoto, writeVars, clearVars, tailVars, diskVars
<1>8. ASSUME RunStore PROVE LockInv'
  BY <1>8 DEF RunStore, RunGoto, writeVars, clearVars, tailVars, diskVars
<1>9. ASSUME RunWrite PROVE LockInv'
  BY <1>9 DEF RunWrite, RunGoto, Fault, writeVars, clearVars, tailVars
<1>10. ASSUME RunHandlers PROVE LockInv'
  BY <1>10 DEF RunHandlers, RunGoto, writeVars, clearVars, tailVars, diskVars
<1>11. ASSUME NEW t \in Tails, RunHandle(t) PROVE LockInv'
  BY <1>11 DEF RunHandle, writeVars, clearVars, diskVars
<1>12. ASSUME RunNext PROVE LockInv'
  BY <1>12 DEF RunNext, RunGoto, writeVars, clearVars, tailVars, diskVars
<1>13. ASSUME NEW c \in Clears, CallClear(c) PROVE LockInv'
  BY <1>13 DEF CallClear, ClearGoto, writeVars, runVars, tailVars, diskVars
<1>14. ASSUME NEW c \in Clears, ClearFilter(c) PROVE LockInv'
  BY <1>14 DEF ClearFilter, ClearGoto, writeVars, runVars, tailVars, diskVars
<1>15. ASSUME NEW c \in Clears, ClearTruncate(c) PROVE LockInv'
  BY <1>15 DEF ClearTruncate, ClearGoto, ClearFails, Fault, writeVars, runVars, tailVars
<1>16. ASSUME NEW c \in Clears, ClearRewrite(c) PROVE LockInv'
  BY <1>16 DEF ClearRewrite, ClearGoto, ClearFails, Fault, writeVars, runVars, tailVars
<1>17. ASSUME NEW c \in Clears, ClearReturn(c) PROVE LockInv'
  BY <1>17 DEF ClearReturn, ClearGoto, writeVars, runVars, tailVars
<1>18. ASSUME NEW t \in Tails, Register(t) PROVE LockInv'
  BY <1>18 DEF Register, HandlersFree, writeVars, runVars, clearVars, diskVars
<1>19. ASSUME NEW t \in Tails, TailSend(t) PROVE LockInv'
  BY <1>19 DEF TailSend, writeVars, runVars, clearVars, diskVars
<1>20. ASSUME NEW t \in Tails, Unregister(t) PROVE LockInv'
  BY <1>20 DEF Unregister, HandlersFree, writeVars, runVars, clearVars, diskVars
<1>21. ASSUME CallClose PROVE LockInv'
  BY <1>21 DEF CallClose, CloseGoto, writeVars, runVars, clearVars, tailVars, diskVars
<1>22. ASSUME CloseQueue PROVE LockInv'
  BY <1>22 DEF CloseQueue, CloseGoto, writeVars, runVars, clearVars, tailVars, diskVars
<1>23. ASSUME CloseFile PROVE LockInv'
  BY <1>23 DEF CloseFile, CloseGoto, writeVars, runVars, clearVars, tailVars, diskVars
<1>24. ASSUME Restart PROVE LockInv'
  BY <1>24 DEF Restart
<1>25. ASSUME UNCHANGED vars PROVE LockInv'
  BY <1>25 DEF vars, writeVars, runVars, clearVars, tailVars, diskVars
<1> QED
  BY <1>1, <1>2, <1>3, <1>4, <1>5, <1>6, <1>7, <1>8, <1>9, <1>10, <1>11,
     <1>12, <1>13, <1>14, <1>15, <1>16, <1>17, <1>18, <1>19, <1>20, <1>21,
     <1>22, <1>23, <1>24, <1>25 DEF Next, Write, Run, Clear, Close, Finished

\* In every reachable state the lock keeps callers and Close apart.
LEMMA LockInvariant == Spec => [](TypeInv /\ LockInv)
<1>1. TypeInv /\ LockInv /\ [Next]_vars => LockInv'
  BY LockStep
<1> QED
  BY <1>1, LockInit, TypeInvariant, PTL DEF Spec

\* No WriteLog that found the log open sends on the queue that Close has closed:
\* Close takes the write lock and waits for every reader.
THEOREM NeverSendsOnClosedQueue == Spec => []WriteNeverPanics
<1>1. LockInv => WriteNeverPanics
  BY DEF LockInv, WriteNeverPanics
<1> QED
  BY <1>1, LockInvariant, PTL

-----------------------------------------------------------------------------
(* Where entries come from. *)

\* At the start there is no entry anywhere.
LEMMA KnownInit == Init => KnownInv
  BY ElementsFacts DEF Init, KnownInv, Elements, Written

\* A call that has sent, or whose process has ended, stays such a call.
LEMMA KnownGrows == ASSUME TypeInv, [Next]_vars PROVE Known \subseteq Known'
<1> USE DEF TypeInv, TypeOK, WritePCs, Known
<1>1. ASSUME NEW w \in Writes, CallWrite(w) PROVE Known \subseteq Known'
  BY <1>1 DEF CallWrite, WriteGoto, runVars, clearVars, tailVars, diskVars
<1>2. ASSUME NEW w \in Writes, WriteRLock(w) PROVE Known \subseteq Known'
  BY <1>2 DEF WriteRLock, WriteGoto, runVars, clearVars, tailVars, diskVars
<1>3. ASSUME NEW w \in Writes, WriteCheck(w) PROVE Known \subseteq Known'
  BY <1>3 DEF WriteCheck, WriteGoto, runVars, clearVars, tailVars, diskVars
<1>4. ASSUME NEW w \in Writes, WriteSend(w) PROVE Known \subseteq Known'
  BY <1>4 DEF WriteSend, WriteGoto, runVars, clearVars, tailVars, diskVars
<1>5. ASSUME NEW w \in Writes, WriteRUnlock(w) PROVE Known \subseteq Known'
  BY <1>5 DEF WriteRUnlock, WriteGoto, runVars, clearVars, tailVars, diskVars
<1>6. ASSUME RunReceive PROVE Known \subseteq Known'
  BY <1>6 DEF RunReceive, RunGoto, writeVars, clearVars, tailVars, diskVars
<1>7. ASSUME RunExit PROVE Known \subseteq Known'
  BY <1>7 DEF RunExit, RunGoto, writeVars, clearVars, tailVars, diskVars
<1>8. ASSUME RunStore PROVE Known \subseteq Known'
  BY <1>8 DEF RunStore, RunGoto, writeVars, clearVars, tailVars, diskVars
<1>9. ASSUME RunWrite PROVE Known \subseteq Known'
  BY <1>9 DEF RunWrite, RunGoto, Fault, writeVars, clearVars, tailVars
<1>10. ASSUME RunHandlers PROVE Known \subseteq Known'
  BY <1>10 DEF RunHandlers, RunGoto, writeVars, clearVars, tailVars, diskVars
<1>11. ASSUME NEW t \in Tails, RunHandle(t) PROVE Known \subseteq Known'
  BY <1>11 DEF RunHandle, writeVars, clearVars, diskVars
<1>12. ASSUME RunNext PROVE Known \subseteq Known'
  BY <1>12 DEF RunNext, RunGoto, writeVars, clearVars, tailVars, diskVars
<1>13. ASSUME NEW c \in Clears, CallClear(c) PROVE Known \subseteq Known'
  BY <1>13 DEF CallClear, ClearGoto, writeVars, runVars, tailVars, diskVars
<1>14. ASSUME NEW c \in Clears, ClearFilter(c) PROVE Known \subseteq Known'
  BY <1>14 DEF ClearFilter, ClearGoto, writeVars, runVars, tailVars, diskVars
<1>15. ASSUME NEW c \in Clears, ClearTruncate(c) PROVE Known \subseteq Known'
  BY <1>15 DEF ClearTruncate, ClearGoto, ClearFails, Fault, writeVars, runVars, tailVars
<1>16. ASSUME NEW c \in Clears, ClearRewrite(c) PROVE Known \subseteq Known'
  BY <1>16 DEF ClearRewrite, ClearGoto, ClearFails, Fault, writeVars, runVars, tailVars
<1>17. ASSUME NEW c \in Clears, ClearReturn(c) PROVE Known \subseteq Known'
  BY <1>17 DEF ClearReturn, ClearGoto, writeVars, runVars, tailVars
<1>18. ASSUME NEW t \in Tails, Register(t) PROVE Known \subseteq Known'
  BY <1>18 DEF Register, HandlersFree, writeVars, runVars, clearVars, diskVars
<1>19. ASSUME NEW t \in Tails, TailSend(t) PROVE Known \subseteq Known'
  BY <1>19 DEF TailSend, writeVars, runVars, clearVars, diskVars
<1>20. ASSUME NEW t \in Tails, Unregister(t) PROVE Known \subseteq Known'
  BY <1>20 DEF Unregister, HandlersFree, writeVars, runVars, clearVars, diskVars
<1>21. ASSUME CallClose PROVE Known \subseteq Known'
  BY <1>21 DEF CallClose, CloseGoto, writeVars, runVars, clearVars, tailVars, diskVars
<1>22. ASSUME CloseQueue PROVE Known \subseteq Known'
  BY <1>22 DEF CloseQueue, CloseGoto, writeVars, runVars, clearVars, tailVars, diskVars
<1>23. ASSUME CloseFile PROVE Known \subseteq Known'
  BY <1>23 DEF CloseFile, CloseGoto, writeVars, runVars, clearVars, tailVars, diskVars
<1>24. ASSUME Restart PROVE Known \subseteq Known'
  BY <1>24 DEF Restart
<1>25. ASSUME UNCHANGED vars PROVE Known \subseteq Known'
  BY <1>25 DEF vars, writeVars, runVars, clearVars, tailVars, diskVars
<1> QED
  BY <1>1, <1>2, <1>3, <1>4, <1>5, <1>6, <1>7, <1>8, <1>9, <1>10, <1>11,
     <1>12, <1>13, <1>14, <1>15, <1>16, <1>17, <1>18, <1>19, <1>20, <1>21,
     <1>22, <1>23, <1>24, <1>25 DEF Next, Write, Run, Clear, Close, Finished

\* What a concatenation contains, and how an element moves from its right part to its left.
LEMMA ConcatFacts ==
    ASSUME NEW S, NEW s \in Seq(S), NEW r \in Seq(S)
    PROVE  /\ s \o r \in Seq(S) /\ Elements(s \o r) = Elements(s) \cup Elements(r)
           /\ s \o <<>> = s /\ <<>> \o s = s
           /\ \A e \in S : s \o Append(r, e) = Append(s \o r, e)
           /\ r # <<>> => Append(s, Head(r)) \o Tail(r) = s \o r
<1>1. /\ Len(s) \in Nat /\ Len(r) \in Nat /\ s \o r \in Seq(S)
      /\ Len(s \o r) = Len(s) + Len(r)
      /\ \A i \in 1..Len(s) + Len(r) :
            (s \o r)[i] = IF i <= Len(s) THEN s[i] ELSE r[i - Len(s)]
  BY ConcatProperties
<1>2. Elements(s \o r) = Elements(s) \cup Elements(r)
  <2>1. ASSUME NEW i \in 1..Len(s) + Len(r)
        PROVE  (s \o r)[i] \in Elements(s) \cup Elements(r)
    <3>1. CASE i <= Len(s)
      <4>1. i \in 1..Len(s) /\ (s \o r)[i] = s[i]
        BY <1>1, <3>1
      <4> QED
        BY <4>1 DEF Elements
    <3>2. CASE ~(i <= Len(s))
      <4>1. i - Len(s) \in 1..Len(r) /\ (s \o r)[i] = r[i - Len(s)]
        BY <1>1, <3>2
      <4> QED
        BY <4>1 DEF Elements
    <3> QED
      BY <3>1, <3>2
  <2>2. ASSUME NEW i \in 1..Len(s) PROVE s[i] \in Elements(s \o r)
    <3>1. i \in 1..Len(s \o r) /\ (s \o r)[i] = s[i]
      BY <1>1
    <3> QED
      BY <3>1 DEF Elements
  <2>3. ASSUME NEW i \in 1..Len(r) PROVE r[i] \in Elements(s \o r)
    <3>1. i + Len(s) \in 1..Len(s \o r) /\ (s \o r)[i + Len(s)] = r[i]
      BY <1>1
    <3> QED
      BY <3>1 DEF Elements
  <2>4. Elements(s \o r) \subseteq Elements(s) \cup Elements(r)
    BY <1>1, <2>1 DEF Elements
  <2>5. Elements(s) \subseteq Elements(s \o r) /\ Elements(r) \subseteq Elements(s \o r)
    BY <2>2, <2>3 DEF Elements
  <2> QED
    BY <2>4, <2>5
<1>3. s \o <<>> = s /\ <<>> \o s = s
  BY ConcatEmptySeq
<1>4. ASSUME NEW e \in S PROVE s \o Append(r, e) = Append(s \o r, e)
  <2>1. <<e>> \in Seq(S)
    OBVIOUS
  <2>2. Append(r, e) = r \o <<e>> /\ Append(s \o r, e) = (s \o r) \o <<e>>
    BY <1>1, AppendIsConcat
  <2> QED
    BY <2>1, <2>2, ConcatAssociative
<1>5. ASSUME r # <<>> PROVE Append(s, Head(r)) \o Tail(r) = s \o r
  <2>1. Head(r) \in S /\ Tail(r) \in Seq(S) /\ <<Head(r)>> \in Seq(S)
    BY <1>5, HeadTailProperties
  <2>2. r = <<Head(r)>> \o Tail(r)
    <3>1. /\ Len(r) \in Nat \ {0} /\ Head(r) = r[1] /\ Len(Tail(r)) = Len(r) - 1
          /\ \A i \in 1..(Len(r) - 1) : Tail(r)[i] = r[i + 1]
      BY <1>5
    <3>2. /\ <<Head(r)>> \o Tail(r) \in Seq(S) /\ Len(<<Head(r)>> \o Tail(r)) = Len(r)
          /\ \A i \in 1..Len(r) : (<<Head(r)>> \o Tail(r))[i]
                = IF i <= 1 THEN <<Head(r)>>[i] ELSE Tail(r)[i - 1]
      BY <2>1, <3>1, ConcatProperties
    <3>3. ASSUME NEW i \in 1..Len(r) PROVE (<<Head(r)>> \o Tail(r))[i] = r[i]
      <4>1. CASE i = 1
        BY <3>1, <3>2, <4>1
      <4>2. CASE i # 1
        <5>1. ~(i <= 1) /\ i - 1 \in 1..(Len(r) - 1) /\ (i - 1) + 1 = i
          BY <3>1, <4>2
        <5> QED
          BY <3>1, <3>2, <5>1
      <4> QED
        BY <4>1, <4>2
    <3> QED
      BY <3>2, <3>3, SeqEqual
  <2>3. Append(s, Head(r)) = s \o <<Head(r)>>
    BY <2>1, AppendIsConcat
  <2>4. (s \o <<Head(r)>>) \o Tail(r) = s \o (<<Head(r)>> \o Tail(r))
    BY <2>1, ConcatAssociative
  <2> QED
    BY <2>2, <2>3, <2>4
<1> QED
  BY <1>1, <1>2, <1>3, <1>4, <1>5

\* At the start no ClearLogs is rewriting.
LEMMA KeptInit == Init => KeptInv
  BY DEF Init, KeptInv, Rewrites

\* What a ClearLogs at work on the file has kept is in memory as well.
LEMMA KeptStep == ASSUME TypeInv, KeptInv, [Next]_vars PROVE KeptInv'
<1> USE DEF TypeInv, TypeOK, KeptInv, Rewrites, ClearPCs
<1>1. ASSUME NEW w \in Writes, CallWrite(w) PROVE KeptInv'
  BY <1>1 DEF CallWrite, WriteGoto, runVars, clearVars, tailVars, diskVars
<1>2. ASSUME NEW w \in Writes, WriteRLock(w) PROVE KeptInv'
  BY <1>2 DEF WriteRLock, WriteGoto, runVars, clearVars, tailVars, diskVars
<1>3. ASSUME NEW w \in Writes, WriteCheck(w) PROVE KeptInv'
  BY <1>3 DEF WriteCheck, WriteGoto, runVars, clearVars, tailVars, diskVars
<1>4. ASSUME NEW w \in Writes, WriteSend(w) PROVE KeptInv'
  BY <1>4 DEF WriteSend, WriteGoto, runVars, clearVars, tailVars, diskVars
<1>5. ASSUME NEW w \in Writes, WriteRUnlock(w) PROVE KeptInv'
  BY <1>5 DEF WriteRUnlock, WriteGoto, runVars, clearVars, tailVars, diskVars
<1>6. ASSUME RunReceive PROVE KeptInv'
  BY <1>6 DEF RunReceive, RunGoto, writeVars, clearVars, tailVars, diskVars
<1>7. ASSUME RunExit PROVE KeptInv'
  BY <1>7 DEF RunExit, RunGoto, writeVars, clearVars, tailVars, diskVars
<1>8. ASSUME RunStore PROVE KeptInv'
  <2>1. PICK e \in current : entries' = Append(entries, e)
    BY <1>8 DEF RunStore
  <2>2. Elements(entries') = Elements(entries) \cup {e}
    BY <2>1, ElementsFacts
  <2> QED
    BY <1>8, <2>2 DEF RunStore, clearVars
<1>9. ASSUME RunWrite PROVE KeptInv'
  BY <1>9 DEF RunWrite, RunGoto, Fault, writeVars, clearVars, tailVars
<1>10. ASSUME RunHandlers PROVE KeptInv'
  BY <1>10 DEF RunHandlers, RunGoto, writeVars, clearVars, tailVars, diskVars
<1>11. ASSUME NEW t \in Tails, RunHandle(t) PROVE KeptInv'
  BY <1>11 DEF RunHandle, writeVars, clearVars, diskVars
<1>12. ASSUME RunNext PROVE KeptInv'
  BY <1>12 DEF RunNext, RunGoto, writeVars, clearVars, tailVars, diskVars
<1>13. ASSUME NEW c \in Clears, CallClear(c) PROVE KeptInv'
  BY <1>13 DEF CallClear, ClearGoto, writeVars, runVars, tailVars, diskVars
<1>14. ASSUME NEW c \in Clears, ClearFilter(c) PROVE KeptInv'
  <2>1. \A d \in Clears : cpc[d] \notin {"truncate", "rewrite"}
    BY <1>14, AppLogAssumption DEF ClearFilter
  <2>2. kept'[c] = entries' /\ \A d \in Clears \ {c} : cpc'[d] = cpc[d]
    BY <1>14 DEF ClearFilter, ClearGoto
  <2> QED
    BY <2>1, <2>2
<1>15. ASSUME NEW c \in Clears, ClearTruncate(c) PROVE KeptInv'
  <2>1. /\ cpc[c] = "truncate" /\ \A d \in Clears \ {c} : cpc'[d] = cpc[d]
        /\ UNCHANGED <<kept, entries>>
    BY <1>15 DEF ClearTruncate, ClearGoto, ClearFails
  <2> QED
    BY <2>1
<1>16. ASSUME NEW c \in Clears, ClearRewrite(c) PROVE KeptInv'
  <2>1. /\ cpc[c] = "rewrite" /\ \A d \in Clears \ {c} : cpc'[d] = cpc[d]
        /\ kept' = kept \/ kept' = [kept EXCEPT ![c] = Tail(kept[c])]
        /\ kept[c] # <<>> /\ UNCHANGED entries
    BY <1>16 DEF ClearRewrite, ClearGoto, ClearFails
  <2>2. Elements(Tail(kept[c])) \subseteq Elements(kept[c])
    BY <2>1, ElementsFacts
  <2> QED
    BY <2>1, <2>2
<1>17. ASSUME NEW c \in Clears, ClearReturn(c) PROVE KeptInv'
  BY <1>17 DEF ClearReturn, ClearGoto, writeVars, runVars, tailVars
<1>18. ASSUME NEW t \in Tails, Register(t) PROVE KeptInv'
  BY <1>18 DEF Register, HandlersFree, writeVars, runVars, clearVars, diskVars
<1>19. ASSUME NEW t \in Tails, TailSend(t) PROVE KeptInv'
  BY <1>19 DEF TailSend, writeVars, runVars, clearVars, diskVars
<1>20. ASSUME NEW t \in Tails, Unregister(t) PROVE KeptInv'
  BY <1>20 DEF Unregister, HandlersFree, writeVars, runVars, clearVars, diskVars
<1>21. ASSUME CallClose PROVE KeptInv'
  BY <1>21 DEF CallClose, CloseGoto, writeVars, runVars, clearVars, tailVars, diskVars
<1>22. ASSUME CloseQueue PROVE KeptInv'
  BY <1>22 DEF CloseQueue, CloseGoto, writeVars, runVars, clearVars, tailVars, diskVars
<1>23. ASSUME CloseFile PROVE KeptInv'
  BY <1>23 DEF CloseFile, CloseGoto, writeVars, runVars, clearVars, tailVars, diskVars
<1>24. ASSUME Restart PROVE KeptInv'
  BY <1>24 DEF Restart
<1>25. ASSUME UNCHANGED vars PROVE KeptInv'
  BY <1>25 DEF vars, writeVars, runVars, clearVars, tailVars, diskVars
<1> QED
  BY <1>1, <1>2, <1>3, <1>4, <1>5, <1>6, <1>7, <1>8, <1>9, <1>10, <1>11,
     <1>12, <1>13, <1>14, <1>15, <1>16, <1>17, <1>18, <1>19, <1>20, <1>21,
     <1>22, <1>23, <1>24, <1>25 DEF Next, Write, Run, Clear, Close, Finished

\* The first step of ClearLogs takes entries away and moves none.
LEMMA PickShrinks ==
    ASSUME NEW S, NEW s \in Seq(S), NEW keep
    PROVE  Elements(Pick(s, keep)) \subseteq Elements(s)
<1>1. Elements(Pick(s, keep)) = {s[i] : i \in keep \cap (1..Len(s))}
  BY PickFacts
<1> QED
  BY <1>1 DEF Elements

\* An element appended to the right part of a concatenation of calls is its last.
LEMMA ConcatAppend ==
    ASSUME NEW s \in Seq(Writes), NEW r \in Seq(Writes), NEW e \in Writes
    PROVE  /\ s \o Append(r, e) = Append(s \o r, e) /\ s \o r \in Seq(Writes)
           /\ Elements(s \o Append(r, e)) = Elements(s \o r) \cup {e}
<1>1. s \o r \in Seq(Writes)
  BY ConcatFacts
<1>2. s \o Append(r, e) = Append(s \o r, e)
  BY ConcatFacts
<1>3. Elements(s \o Append(r, e)) = Elements(s \o r) \cup {e}
  <2> DEFINE q == s \o r
  <2>1. q \in Seq(Writes)
    BY <1>1
  <2> HIDE DEF q
  <2>2. Elements(Append(q, e)) = Elements(q) \cup {e}
    BY <2>1, ElementsFacts
  <2> QED
    BY <1>2, <2>2 DEF q
<1> QED
  BY <1>1, <1>2, <1>3

\* A write adds its entry to the file, as far as it gets.
LEMMA FileGrows ==
    ASSUME NEW f \in Seq(Chunks), NEW e \in Writes, NEW g,
           g = f \/ \E cut \in Cuts : g = Append(f, Chunk(e, cut))
    PROVE  Elements(Written(g)) \subseteq Elements(Written(f)) \cup {e}
<1>1. ASSUME NEW cut \in Cuts, g = Append(f, Chunk(e, cut))
      PROVE  Elements(Written(g)) = Elements(Written(f)) \cup {e}
  <2>1. Written(g) = Append(Written(f), e) /\ Written(f) \in Seq(Writes)
    BY <1>1, WrittenFacts
  <2> QED
    BY <2>1, ElementsFacts
<1> QED
  BY <1>1

\* Sending moves an entry from the buffer to what has been sent.
LEMMA TailSendKeeps ==
    ASSUME TypeInv, NEW t \in Tails, TailSend(t), NEW u \in Tails
    PROVE  sent'[u] \o buffer'[u] = sent[u] \o buffer[u]
<1>1. /\ buffer[t] # <<>>
      /\ sent' = [sent EXCEPT ![t] = Append(sent[t], Head(buffer[t]))]
      /\ buffer' = [buffer EXCEPT ![t] = Tail(buffer[t])]
  BY DEF TailSend
<1>2. /\ sent \in [Tails -> Seq(Writes)] /\ buffer \in [Tails -> Seq(Writes)]
      /\ sent'[u] = IF u = t THEN Append(sent[t], Head(buffer[t])) ELSE sent[u]
  BY <1>1 DEF TypeInv, TypeOK
<1>3. u # t => buffer'[u] = buffer[u]
  BY <1>1
<1>4. u = t => buffer'[u] = Tail(buffer[t])
  BY <1>1, <1>2
<1>5. Append(sent[t], Head(buffer[t])) \o Tail(buffer[t]) = sent[t] \o buffer[t]
  BY <1>1, <1>2, ConcatFacts
<1> QED
  BY <1>2, <1>3, <1>4, <1>5

\* An entry in the queue, in memory, in the file or in a tail comes from a call that was made.
LEMMA KnownStep ==
    ASSUME TypeInv, KeptInv, KnownInv, [Next]_vars PROVE KnownInv'
<1>0. Known \subseteq Known'
  BY KnownGrows
<1> USE DEF TypeInv, TypeOK, KnownInv, WritePCs
<1>1. ASSUME NEW w \in Writes, CallWrite(w) PROVE KnownInv'
  <2>1. UNCHANGED <<queue, current, entries, file, cleared, older, sent, buffer>>
    BY <1>1 DEF CallWrite, runVars, clearVars, tailVars, diskVars
  <2>2. \A v \in Writes : wpc[v] \in {"end", "killed"} => wpc'[v] \in {"end", "killed"}
    BY <1>1 DEF CallWrite, WriteGoto
  <2>3. \A v \in Writes, u \in Writes : u \in earlier'[v] => wpc[u] \in {"end", "killed"}
    BY <1>1 DEF CallWrite
  <2>4. earlier' \in [Writes -> SUBSET Writes]
    BY <1>1 DEF CallWrite
  <2> QED
    BY <1>0, <2>1, <2>2, <2>3, <2>4
<1>2. ASSUME NEW w \in Writes, WriteRLock(w) PROVE KnownInv'
  BY <1>0, <1>2 DEF WriteRLock, WriteGoto, runVars, clearVars, tailVars, diskVars
<1>3. ASSUME NEW w \in Writes, WriteCheck(w) PROVE KnownInv'
  BY <1>0, <1>3 DEF WriteCheck, WriteGoto, runVars, clearVars, tailVars, diskVars
<1>4. ASSUME NEW w \in Writes, WriteSend(w) PROVE KnownInv'
  <2>1. /\ wpc[w] = "send" /\ wpc' = [wpc EXCEPT ![w] = "unlock"] /\ queue' = Append(queue, w)
        /\ UNCHANGED <<current, entries, file, cleared, older, sent, buffer, earlier>>
    BY <1>4 DEF WriteSend, WriteGoto, runVars, clearVars, tailVars, diskVars
  <2>2. Elements(queue') = Elements(queue) \cup {w}
    BY <2>1, ElementsFacts
  <2>3. w \in Known'
    BY <2>1 DEF Known
  <2> QED
    BY <1>0, <2>1, <2>2, <2>3
<1>5. ASSUME NEW w \in Writes, WriteRUnlock(w) PROVE KnownInv'
  BY <1>0, <1>5 DEF WriteRUnlock, WriteGoto, runVars, clearVars, tailVars, diskVars
<1>6. ASSUME RunReceive PROVE KnownInv'
  <2>1. /\ queue # <<>> /\ current' = {Head(queue)} /\ queue' = Tail(queue)
        /\ UNCHANGED <<wpc, entries, file, cleared, older, sent, buffer, earlier>>
    BY <1>6 DEF RunReceive, writeVars, clearVars, tailVars, diskVars
  <2>2. Elements(queue) = {Head(queue)} \cup Elements(Tail(queue))
    BY <2>1, ElementsFacts
  <2> QED
    BY <1>0, <2>1, <2>2
<1>7. ASSUME RunExit PROVE KnownInv'
  BY <1>0, <1>7 DEF RunExit, RunGoto, writeVars, clearVars, tailVars, diskVars
<1>8. ASSUME RunStore PROVE KnownInv'
  <2>1. PICK e \in current : entries' = Append(entries, e)
    BY <1>8 DEF RunStore
  <2>2. Elements(entries') = Elements(entries) \cup {e}
    BY <2>1, ElementsFacts
  <2>3. UNCHANGED <<wpc, queue, current, file, cleared, older, sent, buffer, earlier>>
    BY <1>8 DEF RunStore, writeVars, clearVars, tailVars, diskVars
  <2> QED
    BY <1>0, <2>2, <2>3
<1>9. ASSUME RunWrite PROVE KnownInv'
  <2>1. PICK e \in current : \/ file' = file
                             \/ \E cut \in Cuts : file' = Append(file, Chunk(e, cut))
    BY <1>9 DEF RunWrite, Cuts
  <2>2. Elements(Written(file')) \subseteq Elements(Written(file)) \cup {e}
    <3>1. file \in Seq(Chunks) /\ e \in Writes
      BY DEF Chunks
    <3> QED
      BY <2>1, <3>1, FileGrows
  <2>3. UNCHANGED <<wpc, queue, current, entries, cleared, older, sent, buffer, earlier>>
    BY <1>9 DEF RunWrite, writeVars, clearVars, tailVars
  <2> QED
    BY <1>0, <2>2, <2>3
<1>10. ASSUME RunHandlers PROVE KnownInv'
  BY <1>0, <1>10 DEF RunHandlers, RunGoto, writeVars, clearVars, tailVars, diskVars
<1>11. ASSUME NEW t \in Tails, RunHandle(t) PROVE KnownInv'
  <2>1. PICK e \in current : buffer' = buffer \/ buffer' = [buffer EXCEPT ![t] = Append(buffer[t], e)]
    BY <1>11 DEF RunHandle
  <2>2. \A u \in Tails : Elements(sent[u] \o buffer'[u]) \subseteq Elements(sent[u] \o buffer[u]) \cup {e}
    <3>1. ASSUME NEW u \in Tails
          PROVE  buffer'[u] = buffer[u] \/ buffer'[u] = Append(buffer[u], e)
      BY <2>1
    <3>2. ASSUME NEW u \in Tails
          PROVE  Elements(sent[u] \o Append(buffer[u], e)) = Elements(sent[u] \o buffer[u]) \cup {e}
      <4>1. sent[u] \in Seq(Writes) /\ buffer[u] \in Seq(Writes) /\ e \in Writes
        OBVIOUS
      <4>2. \A d \in Writes :
              Elements(sent[u] \o Append(buffer[u], d)) = Elements(sent[u] \o buffer[u]) \cup {d}
        BY <4>1, ConcatAppend
      <4> QED
        BY <4>1, <4>2
    <3> QED
      BY <3>1, <3>2
  <2>3. UNCHANGED <<wpc, queue, current, entries, cleared, older, sent, file, earlier>>
    BY <1>11 DEF RunHandle, writeVars, clearVars, diskVars
  <2> QED
    BY <1>0, <2>2, <2>3
<1>12. ASSUME RunNext PROVE KnownInv'
  BY <1>0, <1>12 DEF RunNext, RunGoto, writeVars, clearVars, tailVars, diskVars
<1>13. ASSUME NEW c \in Clears, CallClear(c) PROVE KnownInv'
  BY <1>0, <1>13 DEF CallClear, ClearGoto, writeVars, runVars, tailVars, diskVars
<1>14. ASSUME NEW c \in Clears, ClearFilter(c) PROVE KnownInv'
  <2>1. Elements(entries') \subseteq Elements(entries)
    BY <1>14, PickShrinks DEF ClearFilter
  <2>2. \A d \in Clears : older'[d] \subseteq older[d] \cup Elements(entries)
    BY <1>14 DEF ClearFilter
  <2>3. UNCHANGED <<wpc, queue, current, file, cleared, sent, buffer, earlier>>
    BY <1>14 DEF ClearFilter, writeVars, runVars, tailVars, diskVars
  <2> QED
    BY <1>0, <2>1, <2>2, <2>3
<1>15. ASSUME NEW c \in Clears, ClearTruncate(c) PROVE KnownInv'
  <2>1. file' = file \/ file' = <<>>
    BY <1>15 DEF ClearTruncate
  <2>2. Elements(Written(file')) \subseteq Elements(Written(file))
    <3>1. file \in Seq(Chunks)
      BY DEF Chunks
    <3> QED
      BY <2>1, <3>1, WrittenFacts, ElementsFacts
  <2>3. UNCHANGED <<wpc, queue, current, entries, cleared, older, sent, buffer, earlier>>
    BY <1>15 DEF ClearTruncate, ClearFails, writeVars, runVars, tailVars
  <2> QED
    BY <1>0, <2>2, <2>3
<1>16. ASSUME NEW c \in Clears, ClearRewrite(c) PROVE KnownInv'
  <2>1. /\ cpc[c] = "rewrite" /\ kept[c] # <<>>
        /\ \/ file' = file
           \/ \E cut \in Cuts : file' = Append(file, Chunk(Head(kept[c]), cut))
    BY <1>16 DEF ClearRewrite, ClearGoto, ClearFails, Cuts
  <2>2. Head(kept[c]) \in Elements(kept[c]) /\ Elements(kept[c]) \subseteq Elements(entries)
    BY <2>1, ElementsFacts DEF KeptInv, Rewrites
  <2>3. Elements(Written(file')) \subseteq Elements(Written(file)) \cup Elements(entries)
    <3>1. file \in Seq(Chunks) /\ Head(kept[c]) \in Writes
      BY <2>1 DEF Chunks
    <3> QED
      BY <2>1, <2>2, <3>1, FileGrows
  <2>4. UNCHANGED <<wpc, queue, current, entries, cleared, older, sent, buffer, earlier>>
    BY <1>16 DEF ClearRewrite, ClearFails, writeVars, runVars, tailVars
  <2> QED
    BY <1>0, <2>3, <2>4
<1>17. ASSUME NEW c \in Clears, ClearReturn(c) PROVE KnownInv'
  BY <1>0, <1>17 DEF ClearReturn, ClearGoto, writeVars, runVars, tailVars
<1>18. ASSUME NEW t \in Tails, Register(t) PROVE KnownInv'
  BY <1>0, <1>18 DEF Register, HandlersFree, writeVars, runVars, clearVars, diskVars
<1>19. ASSUME NEW t \in Tails, TailSend(t) PROVE KnownInv'
  <2>1. \A u \in Tails : sent'[u] \o buffer'[u] = sent[u] \o buffer[u]
    BY <1>19, TailSendKeeps
  <2>2. UNCHANGED <<wpc, queue, current, entries, file, cleared, older, earlier>>
    BY <1>19 DEF TailSend, writeVars, runVars, clearVars, diskVars
  <2> QED
    BY <1>0, <2>1, <2>2
<1>20. ASSUME NEW t \in Tails, Unregister(t) PROVE KnownInv'
  BY <1>0, <1>20 DEF Unregister, HandlersFree, writeVars, runVars, clearVars, diskVars
<1>21. ASSUME CallClose PROVE KnownInv'
  BY <1>0, <1>21 DEF CallClose, CloseGoto, writeVars, runVars, clearVars, tailVars, diskVars
<1>22. ASSUME CloseQueue PROVE KnownInv'
  BY <1>0, <1>22 DEF CloseQueue, CloseGoto, writeVars, runVars, clearVars, tailVars, diskVars
<1>23. ASSUME CloseFile PROVE KnownInv'
  BY <1>0, <1>23 DEF CloseFile, CloseGoto, writeVars, runVars, clearVars, tailVars, diskVars
<1>24. ASSUME Restart PROVE KnownInv'
  <2>1. /\ queue' = <<>> /\ current' = {} /\ entries' = Load(file)
        /\ UNCHANGED <<file, cleared, older, sent, buffer, earlier>>
    BY <1>24 DEF Restart
  <2>2. Elements(queue') = {} /\ Elements(entries') \subseteq Elements(Written(file))
    BY <2>1, ElementsFacts, LoadFacts DEF Chunks
  <2>3. \A v \in Writes : wpc[v] \in {"end", "killed"} => wpc'[v] \in {"end", "killed"}
    BY <1>24 DEF Restart
  <2> QED
    BY <1>0, <2>1, <2>2, <2>3
<1>25. ASSUME UNCHANGED vars PROVE KnownInv'
  BY <1>0, <1>25 DEF vars, writeVars, runVars, clearVars, tailVars, diskVars
<1> QED
  BY <1>1, <1>2, <1>3, <1>4, <1>5, <1>6, <1>7, <1>8, <1>9, <1>10, <1>11,
     <1>12, <1>13, <1>14, <1>15, <1>16, <1>17, <1>18, <1>19, <1>20, <1>21,
     <1>22, <1>23, <1>24, <1>25 DEF Next, Write, Run, Clear, Close, Finished

-----------------------------------------------------------------------------
(* Order. *)

\* The order of entries that are somewhere already does not change.
LEMMA SameOrder ==
    ASSUME NEW S, NEW h, NEW g, \A a \in S : g[a] = h[a]
    PROVE  /\ \A s : Elements(s) \subseteq S /\ InOrder(s, h) => InOrder(s, g)
           /\ \A A, B : A \subseteq S /\ Precedes(A, B, h) => Precedes(A, B, g)
<1>1. ASSUME NEW s, Elements(s) \subseteq S, InOrder(s, h) PROVE InOrder(s, g)
  <2>1. \A i \in 1..Len(s) : s[i] \in S
    BY <1>1 DEF Elements
  <2> QED
    BY <1>1, <2>1 DEF InOrder
<1>2. ASSUME NEW A, NEW B, A \subseteq S, Precedes(A, B, h) PROVE Precedes(A, B, g)
  BY <1>2 DEF Precedes
<1> QED
  BY <1>1, <1>2

\* An entry that is being sent may come after all that are somewhere already.
LEMMA NewIsLast ==
    ASSUME TypeInv, KnownInv, NEW w \in Writes, wpc[w] = "send", NEW A, A \subseteq Known
    PROVE  Precedes(A, {w}, earlier)
<1>1. w \notin Known /\ \A a \in A : a \in Writes /\ a # w
  BY DEF Known
<1>2. \A a \in A : w \notin earlier[a]
  BY <1>1 DEF KnownInv
<1> QED
  BY <1>1, <1>2 DEF Precedes

\* A file in order stays so when one more entry is written to it.
LEMMA FileStaysInOrder ==
    ASSUME NEW f \in Seq(Chunks), NEW e \in Writes, NEW g, NEW h,
           g = f \/ \E cut \in Cuts : g = Append(f, Chunk(e, cut)),
           InOrder(Written(f), h), Precedes(Elements(Written(f)), {e}, h)
    PROVE  InOrder(Written(g), h)
<1>1. ASSUME NEW cut \in Cuts, g = Append(f, Chunk(e, cut)) PROVE InOrder(Written(g), h)
  <2>1. Written(g) = Append(Written(f), e) /\ Written(f) \in Seq(Writes)
    BY <1>1, WrittenFacts
  <2> DEFINE s == Written(f)
  <2>2. s \in Seq(Writes) /\ InOrder(s, h) /\ Precedes(Elements(s), {e}, h)
    BY <2>1
  <2> HIDE DEF s
  <2>3. InOrder(Append(s, e), h)
    BY <2>2, OrderFacts
  <2> QED
    BY <2>1, <2>3 DEF s
<1> QED
  BY <1>1

\* Nothing is out of order at the start.
LEMMA OrderInit == Init => OrderInv
<1> SUFFICES ASSUME Init PROVE OrderInv
  OBVIOUS
<1>1. /\ queue = <<>> /\ current = {} /\ entries = <<>> /\ run = "recv"
      /\ \A c \in Clears : ~Rewrites(c) /\ cpc[c] # "rewrite"
  BY DEF Init, Rewrites
<1>2. Written(file) = <<>> /\ Elements(<<>>) = {} /\ InOrder(<<>>, earlier)
  BY DEF Init, Written, Elements, InOrder
<1> QED
  BY <1>1, <1>2 DEF OrderInv, Precedes

\* Queue, hand, memory and file stay in the order of the calls, one after the other.
LEMMA OrderStep ==
    ASSUME TypeInv, KeptInv, KnownInv, OrderInv, [Next]_vars PROVE OrderInv'
<1> USE DEF TypeInv, TypeOK, ClearPCs
<1>0. file \in Seq(Chunks)
  BY DEF Chunks
<1>1. ASSUME NEW w \in Writes, CallWrite(w) PROVE OrderInv'
  <2>1. UNCHANGED <<queue, run, current, entries, file, cpc, kept>>
    BY <1>1 DEF CallWrite, runVars, clearVars, diskVars
  <2>2. \A a \in Known : earlier'[a] = earlier[a]
    BY <1>1 DEF CallWrite, WriteGoto, Known
  <2>3. /\ Elements(queue) \subseteq Known /\ current \subseteq Known
        /\ Elements(entries) \subseteq Known /\ Elements(Written(file)) \subseteq Known
        /\ \A c \in Clears : Rewrites(c) => Elements(kept[c]) \subseteq Known
    BY DEF KnownInv, KeptInv
  <2>4. /\ \A s : Elements(s) \subseteq Known /\ InOrder(s, earlier) => InOrder(s, earlier')
        /\ \A A, B : A \subseteq Known /\ Precedes(A, B, earlier) => Precedes(A, B, earlier')
    BY <2>2, SameOrder
  <2> QED
    BY <2>1, <2>3, <2>4 DEF OrderInv, Unstored, Unfiled, Rewrites
<1>2. ASSUME NEW w \in Writes, WriteRLock(w) PROVE OrderInv'
  BY <1>2 DEF WriteRLock, WriteGoto, runVars, clearVars, tailVars, diskVars, OrderInv, Unstored, Unfiled, Rewrites
<1>3. ASSUME NEW w \in Writes, WriteCheck(w) PROVE OrderInv'
  BY <1>3 DEF WriteCheck, WriteGoto, runVars, clearVars, tailVars, diskVars, OrderInv, Unstored, Unfiled, Rewrites
<1>4. ASSUME NEW w \in Writes, WriteSend(w) PROVE OrderInv'
  <2>1. /\ wpc[w] = "send" /\ queue' = Append(queue, w)
        /\ UNCHANGED <<run, current, entries, file, cpc, kept, earlier>>
    BY <1>4 DEF WriteSend, WriteGoto, runVars, clearVars, diskVars
  <2>2. Elements(queue') = Elements(queue) \cup {w}
    BY <2>1, ElementsFacts
  <2>3. \A A : A \subseteq Known => Precedes(A, {w}, earlier)
    BY <2>1, NewIsLast
  <2>4. /\ Elements(queue) \subseteq Known /\ current \subseteq Known
        /\ Elements(entries) \subseteq Known /\ Elements(Written(file)) \subseteq Known
    BY DEF KnownInv
  <2>5. Unstored' = Unstored \cup {w} /\ Unfiled' = Unfiled \cup {w}
    BY <2>1, <2>2 DEF Unstored, Unfiled
  <2>6. InOrder(queue', earlier')
    BY <2>1, <2>3, <2>4, OrderFacts DEF OrderInv
  <2>7. /\ Precedes(current, Elements(queue) \cup {w}, earlier)
        /\ Precedes(Elements(entries), Unstored \cup {w}, earlier)
        /\ Precedes(Elements(Written(file)), Unfiled \cup {w}, earlier)
    BY <2>3, <2>4 DEF OrderInv, Precedes
  <2> QED
    BY <2>1, <2>2, <2>5, <2>6, <2>7 DEF OrderInv, Rewrites
<1>5. ASSUME NEW w \in Writes, WriteRUnlock(w) PROVE OrderInv'
  BY <1>5 DEF WriteRUnlock, WriteGoto, runVars, clearVars, tailVars, diskVars, OrderInv, Unstored, Unfiled, Rewrites
<1>6. ASSUME RunReceive PROVE OrderInv'
  <2>1. /\ run = "recv" /\ run' = "lock" /\ current = {}
        /\ queue # <<>> /\ current' = {Head(queue)} /\ queue' = Tail(queue)
        /\ UNCHANGED <<entries, file, cpc, kept, earlier>>
    BY <1>6 DEF RunReceive, RunGoto, RunInv, writeVars, clearVars, diskVars
  <2>2. Elements(queue) = {Head(queue)} \cup Elements(Tail(queue))
    BY <2>1, ElementsFacts
  <2>3. InOrder(Tail(queue), earlier) /\ Precedes({Head(queue)}, Elements(Tail(queue)), earlier)
    BY <2>1, OrderFacts DEF OrderInv
  <2>4. Unstored' = Unstored /\ Unfiled' = Unfiled
    BY <2>1, <2>2 DEF Unstored, Unfiled
  <2> QED
    BY <2>1, <2>3, <2>4 DEF OrderInv, Rewrites
<1>7. ASSUME RunExit PROVE OrderInv'
  BY <1>7 DEF RunExit, RunGoto, writeVars, clearVars, tailVars, diskVars, OrderInv, Unstored, Unfiled, Rewrites
<1>8. ASSUME RunStore PROVE OrderInv'
  <2>1. PICK e \in Writes : current = {e} /\ entries' = Append(entries, e)
    BY <1>8 DEF RunStore, RunGoto, RunInv
  <2>2. /\ run = "lock" /\ run' = "write"
        /\ UNCHANGED <<queue, current, file, cpc, kept, earlier>>
    BY <1>8 DEF RunStore, RunGoto, writeVars, clearVars, diskVars
  <2>3. Elements(entries') = Elements(entries) \cup {e}
    BY <2>1, ElementsFacts
  <2>4. /\ Unstored = {e} \cup Elements(queue) /\ Unstored' = Elements(queue)
        /\ Unfiled' = Unfiled
    BY <2>1, <2>2 DEF Unstored, Unfiled
  <2>5. Precedes(Elements(entries), {e}, earlier)
    BY <2>4 DEF OrderInv, Precedes
  <2>6. InOrder(entries', earlier)
    BY <2>1, <2>5, OrderFacts DEF OrderInv
  <2>7. Precedes(Elements(entries) \cup {e}, Elements(queue), earlier)
    BY <2>1, <2>4 DEF OrderInv, Precedes
  <2> QED
    BY <2>2, <2>3, <2>4, <2>6, <2>7 DEF OrderInv, Rewrites
<1>9. ASSUME RunWrite PROVE OrderInv'
  <2>1. PICK e \in Writes : /\ current = {e}
                            /\ \/ file' = file
                               \/ \E cut \in Cuts : file' = Append(file, Chunk(e, cut))
    BY <1>9 DEF RunWrite, RunGoto, RunInv, Cuts
  <2>2. /\ run = "write" /\ run' = "handlers"
        /\ UNCHANGED <<queue, current, entries, cpc, kept, earlier>>
    BY <1>9 DEF RunWrite, RunGoto, writeVars, clearVars
  <2>3. /\ Unfiled = {e} \cup Elements(queue) /\ Unfiled' = Elements(queue)
        /\ Unstored' = Unstored
    BY <2>1, <2>2 DEF Unstored, Unfiled
  <2>4. \A c \in Clears : ~Rewrites(c)
    BY <2>2, AppLogAssumption DEF Rewrites
  <2>5. Precedes(Elements(Written(file)), {e}, earlier)
    BY <2>3 DEF OrderInv, Precedes
  <2>6. InOrder(Written(file'), earlier)
    BY <1>0, <2>1, <2>5, FileStaysInOrder DEF OrderInv
  <2>7. Elements(Written(file')) \subseteq Elements(Written(file)) \cup {e}
    BY <1>0, <2>1, FileGrows
  <2>8. Precedes(Elements(Written(file')), Elements(queue), earlier)
    BY <2>1, <2>3, <2>7 DEF OrderInv, Precedes
  <2> QED
    BY <2>2, <2>3, <2>4, <2>6, <2>8 DEF OrderInv, Rewrites
<1>10. ASSUME RunHandlers PROVE OrderInv'
  BY <1>10 DEF RunHandlers, RunGoto, writeVars, clearVars, tailVars, diskVars, OrderInv, Unstored, Unfiled, Rewrites
<1>11. ASSUME NEW t \in Tails, RunHandle(t) PROVE OrderInv'
  BY <1>11 DEF RunHandle, writeVars, clearVars, diskVars, OrderInv, Unstored, Unfiled, Rewrites
<1>12. ASSUME RunNext PROVE OrderInv'
  <2>1. /\ run = "handle" /\ run' = "recv" /\ current' = {}
        /\ UNCHANGED <<queue, entries, file, cpc, kept, earlier>>
    BY <1>12 DEF RunNext, RunGoto, writeVars, clearVars, diskVars
  <2>2. Unstored' = Unstored /\ Unfiled' = Unfiled
    BY <2>1 DEF Unstored, Unfiled
  <2>3. Precedes({}, Elements(queue), earlier)
    BY DEF Precedes
  <2> QED
    BY <2>1, <2>2, <2>3 DEF OrderInv, Rewrites
<1>13. ASSUME NEW c \in Clears, CallClear(c) PROVE OrderInv'
  BY <1>13 DEF CallClear, ClearGoto, writeVars, runVars, tailVars, diskVars, OrderInv, Unstored, Unfiled, Rewrites
<1>14. ASSUME NEW c \in Clears, ClearFilter(c) PROVE OrderInv'
  <2>1. /\ mu = "free" /\ cpc' = [cpc EXCEPT ![c] = "truncate"]
        /\ UNCHANGED <<queue, run, current, file, earlier>>
    BY <1>14 DEF ClearFilter, ClearGoto, writeVars, runVars, diskVars
  <2>2. PICK keep : entries' = Pick(entries, keep) /\ kept' = [kept EXCEPT ![c] = Pick(entries, keep)]
    BY <1>14 DEF ClearFilter
  <2>3. InOrder(entries', earlier) /\ kept'[c] = entries'
    BY <2>2, PickFacts DEF OrderInv
  <2>4. Elements(entries') \subseteq Elements(entries)
    BY <2>2, PickShrinks
  <2>5. Unstored' = Unstored /\ Unfiled' = Unfiled
    BY <2>1 DEF Unstored, Unfiled
  <2>6. \A d \in Clears : cpc'[d] # "rewrite" /\ (cpc'[d] = "truncate" => d = c)
    BY <2>1, AppLogAssumption
  <2>7. Precedes(Elements(entries'), Unstored, earlier)
    BY <2>4 DEF OrderInv, Precedes
  <2> QED
    BY <2>1, <2>3, <2>5, <2>6, <2>7 DEF OrderInv, Rewrites
<1>15. ASSUME NEW c \in Clears, ClearTruncate(c) PROVE OrderInv'
  <2>1. /\ file' = file \/ file' = <<>>
        /\ UNCHANGED <<queue, run, current, entries, kept, earlier>>
    BY <1>15 DEF ClearTruncate, ClearFails, writeVars, runVars
  <2>2. /\ cpc[c] = "truncate"
        /\ \/ cpc' = [cpc EXCEPT ![c] = "rewrite"] /\ file' = <<>>
           \/ cpc' = [cpc EXCEPT ![c] = "error"]
    BY <1>15 DEF ClearTruncate, ClearFails, ClearGoto
  <2>3. Written(<<>>) = <<>> /\ Elements(<<>>) = {} /\ InOrder(<<>>, earlier)
    BY DEF Written, Elements, InOrder
  <2>4. \A d \in Clears : cpc'[d] \in {"truncate", "rewrite"} => d = c
    BY <2>2, AppLogAssumption
  <2>5. InOrder(Written(file'), earlier) /\ Precedes(Elements(Written(file')), Unfiled, earlier)
    BY <2>1, <2>3 DEF OrderInv, Precedes
  <2>6. cpc'[c] = "rewrite" => Precedes(Elements(Written(file')), Elements(kept[c]), earlier)
    BY <2>2, <2>3 DEF Precedes
  <2>7. Unstored' = Unstored /\ Unfiled' = Unfiled
    BY <2>1 DEF Unstored, Unfiled
  <2> QED
    BY <2>1, <2>2, <2>4, <2>5, <2>6, <2>7 DEF OrderInv, Rewrites
<1>16. ASSUME NEW c \in Clears, ClearRewrite(c) PROVE OrderInv'
  <2>1. /\ cpc[c] = "rewrite" /\ kept[c] # <<>>
        /\ \/ file' = file
           \/ \E cut \in Cuts : file' = Append(file, Chunk(Head(kept[c]), cut))
        /\ \/ cpc' = [cpc EXCEPT ![c] = "rewrite"] /\ kept' = [kept EXCEPT ![c] = Tail(kept[c])]
           \/ cpc' = [cpc EXCEPT ![c] = "error"] /\ kept' = kept
    BY <1>16 DEF ClearRewrite, ClearGoto, ClearFails, Cuts
  <2>2. UNCHANGED <<queue, run, current, entries, earlier>>
    BY <1>16 DEF ClearRewrite, ClearFails, writeVars, runVars
  <2> DEFINE k == kept[c]
  <2>3. k \in Seq(Writes) /\ k # <<>> /\ InOrder(k, earlier)
    BY <2>1 DEF OrderInv, Rewrites
  <2>4. /\ Elements(k) \subseteq Elements(entries)
        /\ Precedes(Elements(Written(file)), Elements(k), earlier)
    BY <2>1 DEF OrderInv, KeptInv, Rewrites
  <2>5. /\ cpc' = [cpc EXCEPT ![c] = "rewrite"] => kept'[c] = Tail(k)
        /\ \/ file' = file
           \/ \E cut \in Cuts : file' = Append(file, Chunk(Head(k), cut))
    BY <2>1
  <2> HIDE DEF k
  <2>6. Head(k) \in Writes /\ Elements(k) = {Head(k)} \cup Elements(Tail(k))
    BY <2>3, ElementsFacts
  <2>7. InOrder(Tail(k), earlier) /\ Precedes({Head(k)}, Elements(Tail(k)), earlier)
    BY <2>3, OrderFacts
  <2>8. Precedes(Elements(Written(file)), {Head(k)}, earlier)
    BY <2>4, <2>6 DEF Precedes
  <2>9. InOrder(Written(file'), earlier)
    BY <1>0, <2>5, <2>6, <2>8, FileStaysInOrder DEF OrderInv
  <2>10. Elements(Written(file')) \subseteq Elements(Written(file)) \cup {Head(k)}
    BY <1>0, <2>5, <2>6, FileGrows
  <2>11. run # "write" /\ \A d \in Clears : cpc'[d] \in {"truncate", "rewrite"} => d = c
    BY <2>1, AppLogAssumption
  <2>12. Unfiled = Unstored /\ Unstored' = Unstored /\ Unfiled' = Unfiled
    BY <2>2, <2>11 DEF Unstored, Unfiled
  <2>13. Precedes(Elements(Written(file')), Unfiled, earlier)
    BY <2>4, <2>6, <2>10, <2>12 DEF OrderInv, Precedes
  <2>14. Precedes(Elements(Written(file')), Elements(Tail(k)), earlier)
    BY <2>4, <2>6, <2>7, <2>10 DEF Precedes
  <2>15. cpc'[c] = "rewrite" => kept'[c] = Tail(k)
    BY <2>1, <2>5
  <2>16. cpc'[c] # "truncate"
    BY <2>1
  <2> QED
    BY <2>2, <2>7, <2>9, <2>11, <2>12, <2>13, <2>14, <2>15, <2>16 DEF OrderInv, Rewrites
<1>17. ASSUME NEW c \in Clears, ClearReturn(c) PROVE OrderInv'
  BY <1>17 DEF ClearReturn, ClearGoto, writeVars, runVars, tailVars, OrderInv, Unstored, Unfiled, Rewrites
<1>18. ASSUME NEW t \in Tails, Register(t) PROVE OrderInv'
  BY <1>18 DEF Register, HandlersFree, writeVars, runVars, clearVars, diskVars, OrderInv, Unstored, Unfiled, Rewrites
<1>19. ASSUME NEW t \in Tails, TailSend(t) PROVE OrderInv'
  BY <1>19 DEF TailSend, writeVars, runVars, clearVars, diskVars, OrderInv, Unstored, Unfiled, Rewrites
<1>20. ASSUME NEW t \in Tails, Unregister(t) PROVE OrderInv'
  BY <1>20 DEF Unregister, HandlersFree, writeVars, runVars, clearVars, diskVars, OrderInv, Unstored, Unfiled, Rewrites
<1>21. ASSUME CallClose PROVE OrderInv'
  BY <1>21 DEF CallClose, CloseGoto, writeVars, runVars, clearVars, tailVars, diskVars, OrderInv, Unstored, Unfiled, Rewrites
<1>22. ASSUME CloseQueue PROVE OrderInv'
  BY <1>22 DEF CloseQueue, CloseGoto, writeVars, runVars, clearVars, tailVars, diskVars, OrderInv, Unstored, Unfiled, Rewrites
<1>23. ASSUME CloseFile PROVE OrderInv'
  BY <1>23 DEF CloseFile, CloseGoto, writeVars, runVars, clearVars, tailVars, diskVars, OrderInv, Unstored, Unfiled, Rewrites
<1>24. ASSUME Restart PROVE OrderInv'
  <2>1. /\ queue' = <<>> /\ current' = {} /\ entries' = Load(file) /\ run' = "recv"
        /\ file' = file /\ earlier' = earlier
        /\ \A c \in Clears : cpc'[c] \notin {"truncate", "rewrite"}
    BY <1>24 DEF Restart
  <2>2. Elements(<<>>) = {} /\ InOrder(<<>>, earlier)
    BY DEF Elements, InOrder
  <2>3. InOrder(Load(file), earlier)
    BY <1>0, LoadFacts DEF OrderInv
  <2>4. Unstored' = {} /\ Unfiled' = {}
    BY <2>1, <2>2 DEF Unstored, Unfiled
  <2>5. \A A : Precedes(A, {}, earlier)
    BY DEF Precedes
  <2> QED
    BY <2>1, <2>2, <2>3, <2>4, <2>5 DEF OrderInv, Rewrites
<1>25. ASSUME UNCHANGED vars PROVE OrderInv'
  BY <1>25 DEF vars, writeVars, runVars, clearVars, tailVars, diskVars, OrderInv, Unstored, Unfiled, Rewrites
<1> QED
  BY <1>1, <1>2, <1>3, <1>4, <1>5, <1>6, <1>7, <1>8, <1>9, <1>10, <1>11,
     <1>12, <1>13, <1>14, <1>15, <1>16, <1>17, <1>18, <1>19, <1>20, <1>21,
     <1>22, <1>23, <1>24, <1>25 DEF Next, Write, Run, Clear, Close, Finished

OrderFull == TypeInv /\ KeptInv /\ KnownInv /\ OrderInv

\* The order holds in every reachable state.
LEMMA OrderInvariant == Spec => []OrderFull
<1>1. Init => OrderFull
  BY TypeInit, KeptInit, KnownInit, OrderInit DEF OrderFull
<1>2. OrderFull /\ [Next]_vars => OrderFull'
  BY TypeStep, KeptStep, KnownStep, OrderStep DEF OrderFull
<1> QED
  BY <1>1, <1>2, PTL DEF Spec

\* ReadLogs finds every entry once, after those of the calls that had ended when
\* it was written, in this process or an earlier one, also when ClearLogs has
\* rewritten the file or a restart has loaded it: memory, the queue and the file
\* are in order, and each before what is still to come.
THEOREM StoresInCallOrder == Spec => []StoredInCallOrder
<1>1. OrderFull => StoredInCallOrder
  BY DEF OrderFull, OrderInv, StoredInCallOrder, InCallOrder, InOrder
<1> QED
  BY <1>1, OrderInvariant, PTL

-----------------------------------------------------------------------------
(* The tails. *)

\* At the start no tail has received anything.
LEMMA TailInit == Init => TailInv
<1> SUFFICES ASSUME Init, NEW t \in Tails
             PROVE  /\ InOrder(sent[t] \o buffer[t], earlier)
                    /\ Precedes(Elements(sent[t] \o buffer[t]), Unshown(t), earlier)
  BY DEF TailInv
<1>1. sent[t] = <<>> /\ buffer[t] = <<>>
  BY DEF Init
<1>2. <<>> \o <<>> = <<>>
  OBVIOUS
<1>3. Elements(<<>>) = {} /\ InOrder(<<>>, earlier)
  BY DEF Elements, InOrder
<1> QED
  BY <1>1, <1>2, <1>3 DEF Precedes

\* A tail receives entries as the write loop hands them on, and drops without reordering.
LEMMA TailStep ==
    ASSUME TypeInv, KeptInv, KnownInv, OrderInv, TailInv, [Next]_vars PROVE TailInv'
<1> USE DEF TypeInv, TypeOK
<1> DEFINE Got(t) == sent[t] \o buffer[t]
<1>0. \A t \in Tails : Elements(Got(t)) \subseteq Known
  BY DEF KnownInv
<1>1. ASSUME NEW w \in Writes, CallWrite(w) PROVE TailInv'
  <2>1. UNCHANGED <<queue, run, current, todo, sent, buffer>>
    BY <1>1 DEF CallWrite, runVars, tailVars
  <2>2. \A a \in Known : earlier'[a] = earlier[a]
    BY <1>1 DEF CallWrite, WriteGoto, Known
  <2>3. /\ \A s : Elements(s) \subseteq Known /\ InOrder(s, earlier) => InOrder(s, earlier')
        /\ \A A, B : A \subseteq Known /\ Precedes(A, B, earlier) => Precedes(A, B, earlier')
    BY <2>2, SameOrder
  <2> QED
    BY <1>0, <2>1, <2>3 DEF TailInv, Unshown
<1>2. ASSUME NEW w \in Writes, WriteRLock(w) PROVE TailInv'
  BY <1>2 DEF WriteRLock, WriteGoto, runVars, clearVars, tailVars, diskVars, TailInv, Unshown
<1>3. ASSUME NEW w \in Writes, WriteCheck(w) PROVE TailInv'
  BY <1>3 DEF WriteCheck, WriteGoto, runVars, clearVars, tailVars, diskVars, TailInv, Unshown
<1>4. ASSUME NEW w \in Writes, WriteSend(w) PROVE TailInv'
  <2>1. /\ wpc[w] = "send" /\ queue' = Append(queue, w)
        /\ UNCHANGED <<run, current, todo, sent, buffer, earlier>>
    BY <1>4 DEF WriteSend, WriteGoto, runVars, tailVars
  <2>2. Elements(queue') = Elements(queue) \cup {w}
    BY <2>1, ElementsFacts
  <2>3. \A A : A \subseteq Known => Precedes(A, {w}, earlier)
    BY <2>1, NewIsLast
  <2>4. \A t \in Tails : Unshown(t)' = Unshown(t) \cup {w}
    BY <2>1, <2>2 DEF Unshown
  <2>5. \A t \in Tails : Precedes(Elements(Got(t)), Unshown(t) \cup {w}, earlier)
    BY <1>0, <2>3 DEF TailInv, Precedes
  <2> QED
    BY <2>1, <2>4, <2>5 DEF TailInv
<1>5. ASSUME NEW w \in Writes, WriteRUnlock(w) PROVE TailInv'
  BY <1>5 DEF WriteRUnlock, WriteGoto, runVars, clearVars, tailVars, diskVars, TailInv, Unshown
<1>6. ASSUME RunReceive PROVE TailInv'
  <2>1. /\ run = "recv" /\ run' = "lock" /\ current = {} /\ todo = {}
        /\ queue # <<>> /\ current' = {Head(queue)} /\ queue' = Tail(queue)
        /\ UNCHANGED <<todo, sent, buffer, earlier>>
    BY <1>6 DEF RunReceive, RunGoto, RunInv, writeVars, tailVars
  <2>2. Elements(queue) = {Head(queue)} \cup Elements(Tail(queue))
    BY <2>1, ElementsFacts
  <2>3. \A t \in Tails : Unshown(t)' = Unshown(t)
    BY <2>1, <2>2 DEF Unshown
  <2> QED
    BY <2>1, <2>3 DEF TailInv
<1>7. ASSUME RunExit PROVE TailInv'
  <2>1. /\ current = {} /\ UNCHANGED <<queue, current, todo, sent, buffer, earlier>>
    BY <1>7 DEF RunExit, RunGoto, RunInv, writeVars, tailVars
  <2>2. \A t \in Tails : Unshown(t)' = Unshown(t)
    BY <2>1 DEF Unshown
  <2> QED
    BY <2>1, <2>2 DEF TailInv
<1>8. ASSUME RunStore PROVE TailInv'
  BY <1>8 DEF RunStore, RunGoto, writeVars, clearVars, tailVars, diskVars, TailInv, Unshown
<1>9. ASSUME RunWrite PROVE TailInv'
  BY <1>9 DEF RunWrite, RunGoto, Fault, writeVars, clearVars, tailVars, TailInv, Unshown
<1>10. ASSUME RunHandlers PROVE TailInv'
  <2>1. /\ run = "handlers" /\ UNCHANGED <<queue, current, sent, buffer, earlier>>
    BY <1>10 DEF RunHandlers, RunGoto, writeVars, tailVars
  <2>2. \A t \in Tails : Unshown(t)' \subseteq Unshown(t)
    BY <2>1 DEF Unshown
  <2>3. \A t \in Tails : Precedes(Elements(Got(t)), Unshown(t)', earlier)
    BY <2>2 DEF TailInv, Precedes
  <2> QED
    BY <2>1, <2>3 DEF TailInv
<1>11. ASSUME NEW t \in Tails, RunHandle(t) PROVE TailInv'
  <2>1. PICK e \in Writes :
          /\ current = {e}
          /\ buffer' = buffer \/ buffer' = [buffer EXCEPT ![t] = Append(buffer[t], e)]
    BY <1>11 DEF RunHandle, RunInv
  <2>2. /\ run = "handle" /\ t \in todo /\ todo' = todo \ {t}
        /\ UNCHANGED <<queue, run, current, sent, earlier>>
    BY <1>11 DEF RunHandle, writeVars
  <2>3. ASSUME NEW u \in Tails, u # t
        PROVE  buffer'[u] = buffer[u] /\ Unshown(u)' = Unshown(u)
    BY <2>1, <2>2, <2>3 DEF Unshown
  <2>4. Unshown(t) = {e} \cup Elements(queue) /\ Unshown(t)' = Elements(queue)
    BY <2>1, <2>2 DEF Unshown
  <2>5. buffer'[t] = buffer[t] \/ buffer'[t] = Append(buffer[t], e)
    BY <2>1
  <2>6. InOrder(Got(t), earlier) /\ Precedes(Elements(Got(t)), {e} \cup Elements(queue), earlier)
    BY <2>4 DEF TailInv
  <2>7. Precedes({e}, Elements(queue), earlier)
    BY <2>1 DEF OrderInv
  <2>8. sent[t] \in Seq(Writes) /\ buffer[t] \in Seq(Writes)
    OBVIOUS
  <2>9. /\ Got(t) \in Seq(Writes) /\ sent[t] \o Append(buffer[t], e) = Append(Got(t), e)
        /\ Elements(sent[t] \o Append(buffer[t], e)) = Elements(Got(t)) \cup {e}
    <3> DEFINE a == sent[t]
               b == buffer[t]
    <3>1. a \in Seq(Writes) /\ b \in Seq(Writes)
      BY <2>8
    <3> HIDE DEF a, b, TypeInv, TypeOK
    <3>2. /\ a \o Append(b, e) = Append(a \o b, e) /\ a \o b \in Seq(Writes)
          /\ Elements(a \o Append(b, e)) = Elements(a \o b) \cup {e}
      BY <3>1, ConcatAppend
    <3> QED
      BY <3>2 DEF a, b
  <2> DEFINE s == Got(t)
  <2>10. s \in Seq(Writes) /\ InOrder(s, earlier) /\ Precedes(Elements(s), {e}, earlier)
    BY <2>6, <2>9 DEF Precedes
  <2> HIDE DEF s
  <2>11. InOrder(Append(s, e), earlier)
    BY <2>10, OrderFacts
  <2>12. InOrder(sent[t] \o Append(buffer[t], e), earlier)
    BY <2>9, <2>11 DEF s
  <2>13. Precedes(Elements(Got(t)) \cup {e}, Elements(queue), earlier)
    BY <2>6, <2>7 DEF Precedes
  <2>14. Precedes(Elements(Got(t)), Elements(queue), earlier)
    BY <2>6 DEF Precedes
  <2>15. /\ InOrder(sent[t] \o buffer'[t], earlier)
         /\ Precedes(Elements(sent[t] \o buffer'[t]), Elements(queue), earlier)
    <3>1. CASE buffer'[t] = buffer[t]
      BY <2>6, <2>14, <3>1
    <3>2. CASE buffer'[t] = Append(buffer[t], e)
      BY <2>9, <2>12, <2>13, <3>2
    <3> QED
      BY <2>5, <3>1, <3>2
  <2> QED
    BY <2>2, <2>3, <2>4, <2>15 DEF TailInv
<1>12. ASSUME RunNext PROVE TailInv'
  <2>1. /\ run = "handle" /\ run' = "recv" /\ current' = {} /\ todo = {}
        /\ UNCHANGED <<queue, todo, sent, buffer, earlier>>
    BY <1>12 DEF RunNext, RunGoto, writeVars, tailVars
  <2>2. \A t \in Tails : Unshown(t)' = Unshown(t)
    BY <2>1 DEF Unshown
  <2> QED
    BY <2>1, <2>2 DEF TailInv
<1>13. ASSUME NEW c \in Clears, CallClear(c) PROVE TailInv'
  BY <1>13 DEF CallClear, ClearGoto, writeVars, runVars, tailVars, diskVars, TailInv, Unshown
<1>14. ASSUME NEW c \in Clears, ClearFilter(c) PROVE TailInv'
  BY <1>14 DEF ClearFilter, ClearGoto, writeVars, runVars, tailVars, diskVars, TailInv, Unshown
<1>15. ASSUME NEW c \in Clears, ClearTruncate(c) PROVE TailInv'
  BY <1>15 DEF ClearTruncate, ClearGoto, ClearFails, Fault, writeVars, runVars, tailVars, TailInv, Unshown
<1>16. ASSUME NEW c \in Clears, ClearRewrite(c) PROVE TailInv'
  BY <1>16 DEF ClearRewrite, ClearGoto, ClearFails, Fault, writeVars, runVars, tailVars, TailInv, Unshown
<1>17. ASSUME NEW c \in Clears, ClearReturn(c) PROVE TailInv'
  BY <1>17 DEF ClearReturn, ClearGoto, writeVars, runVars, tailVars, TailInv, Unshown
<1>18. ASSUME NEW t \in Tails, Register(t) PROVE TailInv'
  BY <1>18 DEF Register, HandlersFree, writeVars, runVars, clearVars, diskVars, TailInv, Unshown
<1>19. ASSUME NEW t \in Tails, TailSend(t) PROVE TailInv'
  <2>1. \A u \in Tails : sent'[u] \o buffer'[u] = sent[u] \o buffer[u]
    BY <1>19, TailSendKeeps
  <2>2. UNCHANGED <<queue, run, current, todo, earlier>>
    BY <1>19 DEF TailSend, writeVars, runVars
  <2> QED
    BY <2>1, <2>2 DEF TailInv, Unshown
<1>20. ASSUME NEW t \in Tails, Unregister(t) PROVE TailInv'
  BY <1>20 DEF Unregister, HandlersFree, writeVars, runVars, clearVars, diskVars, TailInv, Unshown
<1>21. ASSUME CallClose PROVE TailInv'
  BY <1>21 DEF CallClose, CloseGoto, writeVars, runVars, clearVars, tailVars, diskVars, TailInv, Unshown
<1>22. ASSUME CloseQueue PROVE TailInv'
  BY <1>22 DEF CloseQueue, CloseGoto, writeVars, runVars, clearVars, tailVars, diskVars, TailInv, Unshown
<1>23. ASSUME CloseFile PROVE TailInv'
  BY <1>23 DEF CloseFile, CloseGoto, writeVars, runVars, clearVars, tailVars, diskVars, TailInv, Unshown
<1>24. ASSUME Restart PROVE TailInv'
  <2>1. /\ queue' = <<>> /\ current' = {} /\ UNCHANGED <<sent, buffer, earlier>>
    BY <1>24 DEF Restart
  <2>2. \A t \in Tails : Unshown(t)' = {}
    BY <2>1 DEF Unshown, Elements
  <2>3. \A A : Precedes(A, {}, earlier)
    BY DEF Precedes
  <2> QED
    BY <2>1, <2>2, <2>3 DEF TailInv
<1>25. ASSUME UNCHANGED vars PROVE TailInv'
  BY <1>25 DEF vars, writeVars, runVars, clearVars, tailVars, diskVars, TailInv, Unshown
<1> QED
  BY <1>1, <1>2, <1>3, <1>4, <1>5, <1>6, <1>7, <1>8, <1>9, <1>10, <1>11,
     <1>12, <1>13, <1>14, <1>15, <1>16, <1>17, <1>18, <1>19, <1>20, <1>21,
     <1>22, <1>23, <1>24, <1>25 DEF Next, Write, Run, Clear, Close, Finished

\* What tails hold is in order in every reachable state.
LEMMA TailInvariant == Spec => [](OrderFull /\ TailInv)
<1>1. OrderFull /\ TailInv /\ [Next]_vars => TailInv'
  BY TailStep DEF OrderFull
<1> QED
  BY <1>1, TailInit, OrderInvariant, PTL DEF Spec

\* A client gets every entry at most once and in the order in which they were
\* written, however many its full buffer has made the handler drop.
THEOREM TailsInCallOrder == Spec => []TailInCallOrder
<1>1. TailInv => TailInCallOrder
  BY DEF TailInv, TailInCallOrder, InCallOrder, InOrder
<1> QED
  BY <1>1, TailInvariant, PTL

\* A step changes the buffers of registered tails only.
LEMMA SilentStep ==
    ASSUME TypeInv, [Next]_vars, NEW t \in Tails, tpc[t] = "gone"
    PROVE  buffer'[t] = buffer[t]
<1> USE DEF TypeInv, TypeOK
<1>1. ASSUME NEW w \in Writes, CallWrite(w) PROVE buffer'[t] = buffer[t]
  BY <1>1 DEF CallWrite, WriteGoto, runVars, clearVars, tailVars, diskVars
<1>2. ASSUME NEW w \in Writes, WriteRLock(w) PROVE buffer'[t] = buffer[t]
  BY <1>2 DEF WriteRLock, WriteGoto, runVars, clearVars, tailVars, diskVars
<1>3. ASSUME NEW w \in Writes, WriteCheck(w) PROVE buffer'[t] = buffer[t]
  BY <1>3 DEF WriteCheck, WriteGoto, runVars, clearVars, tailVars, diskVars
<1>4. ASSUME NEW w \in Writes, WriteSend(w) PROVE buffer'[t] = buffer[t]
  BY <1>4 DEF WriteSend, WriteGoto, runVars, clearVars, tailVars, diskVars
<1>5. ASSUME NEW w \in Writes, WriteRUnlock(w) PROVE buffer'[t] = buffer[t]
  BY <1>5 DEF WriteRUnlock, WriteGoto, runVars, clearVars, tailVars, diskVars
<1>6. ASSUME RunReceive PROVE buffer'[t] = buffer[t]
  BY <1>6 DEF RunReceive, RunGoto, writeVars, clearVars, tailVars, diskVars
<1>7. ASSUME RunExit PROVE buffer'[t] = buffer[t]
  BY <1>7 DEF RunExit, RunGoto, writeVars, clearVars, tailVars, diskVars
<1>8. ASSUME RunStore PROVE buffer'[t] = buffer[t]
  BY <1>8 DEF RunStore, RunGoto, writeVars, clearVars, tailVars, diskVars
<1>9. ASSUME RunWrite PROVE buffer'[t] = buffer[t]
  BY <1>9 DEF RunWrite, RunGoto, Fault, writeVars, clearVars, tailVars
<1>10. ASSUME RunHandlers PROVE buffer'[t] = buffer[t]
  BY <1>10 DEF RunHandlers, RunGoto, writeVars, clearVars, tailVars, diskVars
<1>11. ASSUME NEW u \in Tails, RunHandle(u) PROVE buffer'[t] = buffer[t]
  <2>1. u # t
    BY <1>11 DEF RunHandle, RunInv
  <2> QED
    BY <1>11, <2>1 DEF RunHandle
<1>12. ASSUME RunNext PROVE buffer'[t] = buffer[t]
  BY <1>12 DEF RunNext, RunGoto, writeVars, clearVars, tailVars, diskVars
<1>13. ASSUME NEW c \in Clears, CallClear(c) PROVE buffer'[t] = buffer[t]
  BY <1>13 DEF CallClear, ClearGoto, writeVars, runVars, tailVars, diskVars
<1>14. ASSUME NEW c \in Clears, ClearFilter(c) PROVE buffer'[t] = buffer[t]
  BY <1>14 DEF ClearFilter, ClearGoto, writeVars, runVars, tailVars, diskVars
<1>15. ASSUME NEW c \in Clears, ClearTruncate(c) PROVE buffer'[t] = buffer[t]
  BY <1>15 DEF ClearTruncate, ClearGoto, ClearFails, Fault, writeVars, runVars, tailVars
<1>16. ASSUME NEW c \in Clears, ClearRewrite(c) PROVE buffer'[t] = buffer[t]
  BY <1>16 DEF ClearRewrite, ClearGoto, ClearFails, Fault, writeVars, runVars, tailVars
<1>17. ASSUME NEW c \in Clears, ClearReturn(c) PROVE buffer'[t] = buffer[t]
  BY <1>17 DEF ClearReturn, ClearGoto, writeVars, runVars, tailVars
<1>18. ASSUME NEW u \in Tails, Register(u) PROVE buffer'[t] = buffer[t]
  BY <1>18 DEF Register, HandlersFree, writeVars, runVars, clearVars, diskVars
<1>19. ASSUME NEW u \in Tails, TailSend(u) PROVE buffer'[t] = buffer[t]
  BY <1>19 DEF TailSend
<1>20. ASSUME NEW u \in Tails, Unregister(u) PROVE buffer'[t] = buffer[t]
  BY <1>20 DEF Unregister, HandlersFree, writeVars, runVars, clearVars, diskVars
<1>21. ASSUME CallClose PROVE buffer'[t] = buffer[t]
  BY <1>21 DEF CallClose, CloseGoto, writeVars, runVars, clearVars, tailVars, diskVars
<1>22. ASSUME CloseQueue PROVE buffer'[t] = buffer[t]
  BY <1>22 DEF CloseQueue, CloseGoto, writeVars, runVars, clearVars, tailVars, diskVars
<1>23. ASSUME CloseFile PROVE buffer'[t] = buffer[t]
  BY <1>23 DEF CloseFile, CloseGoto, writeVars, runVars, clearVars, tailVars, diskVars
<1>24. ASSUME Restart PROVE buffer'[t] = buffer[t]
  BY <1>24 DEF Restart
<1>25. ASSUME UNCHANGED vars PROVE buffer'[t] = buffer[t]
  BY <1>25 DEF vars, writeVars, runVars, clearVars, tailVars, diskVars
<1> QED
  BY <1>1, <1>2, <1>3, <1>4, <1>5, <1>6, <1>7, <1>8, <1>9, <1>10, <1>11,
     <1>12, <1>13, <1>14, <1>15, <1>16, <1>17, <1>18, <1>19, <1>20, <1>21,
     <1>22, <1>23, <1>24, <1>25 DEF Next, Write, Run, Clear, Close, Finished

\* Once unregister has returned, the handler is not called again: unregister
\* waits for the write loop to finish its round of the handlers, and the loop
\* calls only those it found registered when it began the round.
THEOREM UnregisteredStaysSilent == Spec => UnregisteredIsSilent
<1>1. TypeInv /\ [Next]_vars => [\A t \in Tails : tpc[t] = "gone" => buffer'[t] = buffer[t]]_vars
  BY SilentStep
<1> QED
  BY <1>1, TypeInvariant, PTL DEF Spec, UnregisteredIsSilent

-----------------------------------------------------------------------------
(* What ClearLogs has removed. *)

\* At the start nothing has been cleared.
LEMMA ClearedInit == Init => ClearedInv
<1> SUFFICES ASSUME Init PROVE ClearedInv
  OBVIOUS
<1>1. cleared = {} /\ \A c \in Clears : cpc[c] = "idle"
  BY DEF Init
<1> QED
  BY <1>1 DEF ClearedInv, Rewrites

\* The entries that ClearLogs removes and those it keeps.
LEMMA FilterSplits ==
    ASSUME TypeInv, NEW c \in Clears, ClearFilter(c)
    PROVE  /\ Elements(entries') \subseteq Elements(entries)
           /\ Elements(entries') \cap older'[c] = {}
           /\ Elements(entries) = Elements(entries') \cup older'[c]
           /\ kept'[c] = entries'
           /\ \A d \in Clears : d # c => older'[d] = older[d] /\ kept'[d] = kept[d]
<1>1. /\ entries \in Seq(Writes) /\ kept \in [Clears -> Seq(Writes)]
      /\ older \in [Clears -> SUBSET Writes]
  BY DEF TypeInv, TypeOK
<1>2. PICK k \in 0..Len(stamped) :
        LET stays == {i \in 1..Len(entries) : entries[i] \notin Before(k)}
        IN  /\ entries' = Pick(entries, stays)
            /\ kept' = [kept EXCEPT ![c] = Pick(entries, stays)]
            /\ older' = [older EXCEPT ![c] = Elements(entries) \cap Before(k)]
  BY DEF ClearFilter
<1> DEFINE stays == {i \in 1..Len(entries) : entries[i] \notin Before(k)}
<1>3. /\ older'[c] = Elements(entries) \cap Before(k) /\ kept'[c] = entries'
      /\ \A d \in Clears : d # c => older'[d] = older[d] /\ kept'[d] = kept[d]
  BY <1>1, <1>2
<1>4. entries' = Pick(entries, stays) /\ stays \cap (1..Len(entries)) = stays
  BY <1>2
<1>5. {entries[i] : i \in stays} = Elements(entries) \ Before(k)
  BY DEF Elements
<1> HIDE DEF stays
<1>6. Elements(Pick(entries, stays)) = {entries[i] : i \in stays \cap (1..Len(entries))}
  BY <1>1, PickFacts
<1>7. Elements(entries') = Elements(entries) \ Before(k)
  BY <1>4, <1>5, <1>6
<1> QED
  BY <1>3, <1>7

\* No step puts a cleared entry back into memory or the file.
LEMMA ClearedStep ==
    ASSUME TypeInv, KeptInv, KnownInv, OrderInv, ClearedInv, [Next]_vars
    PROVE  ClearedInv'
<1> USE DEF TypeInv, TypeOK, ClearPCs
<1>0. file \in Seq(Chunks)
  BY DEF Chunks
<1>1. ASSUME NEW w \in Writes, CallWrite(w) PROVE ClearedInv'
  BY <1>1 DEF CallWrite, WriteGoto, runVars, clearVars, tailVars, diskVars, ClearedInv, Unstored, Unfiled, Rewrites
<1>2. ASSUME NEW w \in Writes, WriteRLock(w) PROVE ClearedInv'
  BY <1>2 DEF WriteRLock, WriteGoto, runVars, clearVars, tailVars, diskVars, ClearedInv, Unstored, Unfiled, Rewrites
<1>3. ASSUME NEW w \in Writes, WriteCheck(w) PROVE ClearedInv'
  BY <1>3 DEF WriteCheck, WriteGoto, runVars, clearVars, tailVars, diskVars, ClearedInv, Unstored, Unfiled, Rewrites
<1>4. ASSUME NEW w \in Writes, WriteSend(w) PROVE ClearedInv'
  <2>1. /\ wpc[w] = "send" /\ queue' = Append(queue, w)
        /\ UNCHANGED <<run, current, entries, file, cpc, older, cleared>>
    BY <1>4 DEF WriteSend, WriteGoto, runVars, clearVars, diskVars
  <2>2. Elements(queue') = Elements(queue) \cup {w}
    BY <2>1, ElementsFacts
  <2>3. w \notin cleared /\ \A c \in Clears : w \notin older[c]
    BY <2>1 DEF Known, KnownInv
  <2>4. Unstored' = Unstored \cup {w} /\ Unfiled' = Unfiled \cup {w}
    BY <2>1, <2>2 DEF Unstored, Unfiled
  <2> QED
    BY <2>1, <2>3, <2>4 DEF ClearedInv, Rewrites
<1>5. ASSUME NEW w \in Writes, WriteRUnlock(w) PROVE ClearedInv'
  BY <1>5 DEF WriteRUnlock, WriteGoto, runVars, clearVars, tailVars, diskVars, ClearedInv, Unstored, Unfiled, Rewrites
<1>6. ASSUME RunReceive PROVE ClearedInv'
  <2>1. /\ run = "recv" /\ run' = "lock" /\ current = {}
        /\ queue # <<>> /\ current' = {Head(queue)} /\ queue' = Tail(queue)
        /\ UNCHANGED <<entries, file, cpc, older, cleared>>
    BY <1>6 DEF RunReceive, RunGoto, RunInv, clearVars, diskVars
  <2>2. Elements(queue) = {Head(queue)} \cup Elements(Tail(queue))
    BY <2>1, ElementsFacts
  <2>3. Unstored' = Unstored /\ Unfiled' = Unfiled
    BY <2>1, <2>2 DEF Unstored, Unfiled
  <2> QED
    BY <2>1, <2>3 DEF ClearedInv, Rewrites
<1>7. ASSUME RunExit PROVE ClearedInv'
  <2>1. /\ run # "lock" /\ run # "write" /\ run' # "lock" /\ run' # "write"
        /\ UNCHANGED <<queue, entries, file, cpc, older, cleared>>
    BY <1>7 DEF RunExit, RunGoto, writeVars, clearVars, tailVars, diskVars
  <2>2. Unstored' = Unstored /\ Unfiled' = Unfiled
    BY <2>1 DEF Unstored, Unfiled
  <2> QED
    BY <2>1, <2>2 DEF ClearedInv, Rewrites
<1>8. ASSUME RunStore PROVE ClearedInv'
  <2>1. PICK e \in Writes : current = {e} /\ entries' = Append(entries, e)
    BY <1>8 DEF RunStore, RunGoto, RunInv
  <2>2. /\ run = "lock" /\ run' = "write" /\ mu = "free"
        /\ UNCHANGED <<queue, current, file, cpc, older, cleared>>
    BY <1>8 DEF RunStore, RunGoto, clearVars, diskVars
  <2>3. Elements(entries') = Elements(entries) \cup {e}
    BY <2>1, ElementsFacts
  <2>4. Unfiled' = Unfiled /\ e \in Unfiled
    BY <2>1, <2>2 DEF Unfiled
  <2>5. \A c \in Clears : ~Rewrites(c)
    BY <2>2, AppLogAssumption DEF Rewrites
  <2> QED
    BY <2>2, <2>3, <2>4, <2>5 DEF ClearedInv, Rewrites
<1>9. ASSUME RunWrite PROVE ClearedInv'
  <2>1. PICK e \in Writes : /\ current = {e}
                            /\ \/ file' = file
                               \/ \E cut \in Cuts : file' = Append(file, Chunk(e, cut))
    BY <1>9 DEF RunWrite, RunGoto, RunInv, Cuts
  <2>2. /\ run = "write" /\ run' = "handlers"
        /\ UNCHANGED <<queue, current, entries, cpc, older, cleared>>
    BY <1>9 DEF RunWrite, RunGoto, clearVars
  <2>3. Unfiled = {e} \cup Elements(queue) /\ Unfiled' = Elements(queue)
    BY <2>1, <2>2 DEF Unfiled
  <2>4. \A c \in Clears : ~Rewrites(c)
    BY <2>2, AppLogAssumption DEF Rewrites
  <2>5. Elements(Written(file')) \subseteq Elements(Written(file)) \cup {e}
    BY <1>0, <2>1, FileGrows
  <2> QED
    BY <2>2, <2>3, <2>4, <2>5 DEF ClearedInv, Rewrites
<1>10. ASSUME RunHandlers PROVE ClearedInv'
  BY <1>10 DEF RunHandlers, RunGoto, writeVars, clearVars, tailVars, diskVars, ClearedInv, Unstored, Unfiled, Rewrites
<1>11. ASSUME NEW t \in Tails, RunHandle(t) PROVE ClearedInv'
  BY <1>11 DEF RunHandle, writeVars, clearVars, diskVars, ClearedInv, Unstored, Unfiled, Rewrites
<1>12. ASSUME RunNext PROVE ClearedInv'
  <2>1. /\ run # "lock" /\ run # "write" /\ run' # "lock" /\ run' # "write"
        /\ UNCHANGED <<queue, entries, file, cpc, older, cleared>>
    BY <1>12 DEF RunNext, RunGoto, writeVars, clearVars, tailVars, diskVars
  <2>2. Unstored' = Unstored /\ Unfiled' = Unfiled
    BY <2>1 DEF Unstored, Unfiled
  <2> QED
    BY <2>1, <2>2 DEF ClearedInv, Rewrites
<1>13. ASSUME NEW c \in Clears, CallClear(c) PROVE ClearedInv'
  BY <1>13 DEF CallClear, ClearGoto, writeVars, runVars, tailVars, diskVars, ClearedInv, Unstored, Unfiled, Rewrites
<1>14. ASSUME NEW c \in Clears, ClearFilter(c) PROVE ClearedInv'
  <2>1. /\ mu = "free" /\ cpc' = [cpc EXCEPT ![c] = "truncate"]
        /\ UNCHANGED <<queue, run, current, file, cleared>>
    BY <1>14 DEF ClearFilter, ClearGoto, runVars, diskVars
  <2>2. /\ Elements(entries') \subseteq Elements(entries)
        /\ Elements(entries') \cap older'[c] = {}
        /\ older'[c] \subseteq Elements(entries)
    BY <1>14, FilterSplits
  <2>3. older'[c] \cap Unstored = {}
    BY <2>2 DEF OrderInv, Precedes
  <2>4. Unstored' = Unstored /\ Unfiled' = Unfiled
    BY <2>1 DEF Unstored, Unfiled
  <2>5. \A d \in Clears : cpc'[d] # "rewrite" /\ (cpc'[d] = "truncate" => d = c)
    BY <2>1, AppLogAssumption
  <2> QED
    BY <2>1, <2>2, <2>3, <2>4, <2>5 DEF ClearedInv, Rewrites
<1>15. ASSUME NEW c \in Clears, ClearTruncate(c) PROVE ClearedInv'
  <2>1. /\ file' = file \/ file' = <<>>
        /\ UNCHANGED <<queue, run, current, entries, older, cleared>>
    BY <1>15 DEF ClearTruncate, ClearFails, runVars
  <2>2. /\ cpc[c] = "truncate"
        /\ \/ cpc' = [cpc EXCEPT ![c] = "rewrite"] /\ file' = <<>>
           \/ cpc' = [cpc EXCEPT ![c] = "error"]
    BY <1>15 DEF ClearTruncate, ClearFails, ClearGoto
  <2>3. Elements(Written(<<>>)) = {}
    BY DEF Written, Elements
  <2>4. \A d \in Clears : cpc'[d] \in {"truncate", "rewrite"} => d = c
    BY <2>2, AppLogAssumption
  <2>5. Unstored' = Unstored /\ Unfiled' = Unfiled
    BY <2>1 DEF Unstored, Unfiled
  <2> QED
    BY <2>1, <2>2, <2>3, <2>4, <2>5 DEF ClearedInv, Rewrites
<1>16. ASSUME NEW c \in Clears, ClearRewrite(c) PROVE ClearedInv'
  <2>1. /\ cpc[c] = "rewrite" /\ kept[c] # <<>>
        /\ \/ file' = file
           \/ \E cut \in Cuts : file' = Append(file, Chunk(Head(kept[c]), cut))
        /\ \/ cpc' = [cpc EXCEPT ![c] = "rewrite"]
           \/ cpc' = [cpc EXCEPT ![c] = "error"]
    BY <1>16 DEF ClearRewrite, ClearGoto, ClearFails, Cuts
  <2>2. UNCHANGED <<queue, run, current, entries, older, cleared>>
    BY <1>16 DEF ClearRewrite, ClearFails, runVars
  <2>3. Head(kept[c]) \in Writes /\ Head(kept[c]) \in Elements(entries)
    <3>1. Head(kept[c]) \in Writes /\ Head(kept[c]) \in Elements(kept[c])
      BY <2>1, ElementsFacts
    <3> QED
      BY <2>1, <3>1 DEF KeptInv, Rewrites
  <2>4. Elements(Written(file')) \subseteq Elements(Written(file)) \cup {Head(kept[c])}
    BY <1>0, <2>1, <2>3, FileGrows
  <2>5. \A d \in Clears : cpc'[d] \in {"truncate", "rewrite"} => d = c
    BY <2>1, AppLogAssumption
  <2>6. Unstored' = Unstored /\ Unfiled' = Unfiled
    BY <2>2 DEF Unstored, Unfiled
  <2> QED
    BY <2>1, <2>2, <2>3, <2>4, <2>5, <2>6 DEF ClearedInv, Rewrites
<1>17. ASSUME NEW c \in Clears, ClearReturn(c) PROVE ClearedInv'
  <2>1. /\ cpc[c] = "rewrite" /\ cpc' = [cpc EXCEPT ![c] = "ok"]
        /\ cleared' = cleared \cup older[c]
        /\ UNCHANGED <<queue, run, current, entries, older, file>>
    BY <1>17 DEF ClearReturn, ClearGoto, runVars
  <2>2. run # "write"
    BY <2>1, AppLogAssumption
  <2>3. Unfiled = Unstored /\ Unstored' = Unstored /\ Unfiled' = Unfiled
    BY <2>1, <2>2 DEF Unstored, Unfiled
  <2>4. /\ older[c] \cap (Elements(entries) \cup Unstored) = {}
        /\ Elements(Written(file)) \subseteq Elements(entries)
    BY <2>1 DEF ClearedInv, Rewrites
  <2> QED
    BY <2>1, <2>3, <2>4 DEF ClearedInv, Rewrites
<1>18. ASSUME NEW t \in Tails, Register(t) PROVE ClearedInv'
  BY <1>18 DEF Register, HandlersFree, writeVars, runVars, clearVars, diskVars, ClearedInv, Unstored, Unfiled, Rewrites
<1>19. ASSUME NEW t \in Tails, TailSend(t) PROVE ClearedInv'
  BY <1>19 DEF TailSend, writeVars, runVars, clearVars, diskVars, ClearedInv, Unstored, Unfiled, Rewrites
<1>20. ASSUME NEW t \in Tails, Unregister(t) PROVE ClearedInv'
  BY <1>20 DEF Unregister, HandlersFree, writeVars, runVars, clearVars, diskVars, ClearedInv, Unstored, Unfiled, Rewrites
<1>21. ASSUME CallClose PROVE ClearedInv'
  BY <1>21 DEF CallClose, CloseGoto, writeVars, runVars, clearVars, tailVars, diskVars, ClearedInv, Unstored, Unfiled, Rewrites
<1>22. ASSUME CloseQueue PROVE ClearedInv'
  BY <1>22 DEF CloseQueue, CloseGoto, writeVars, runVars, clearVars, tailVars, diskVars, ClearedInv, Unstored, Unfiled, Rewrites
<1>23. ASSUME CloseFile PROVE ClearedInv'
  BY <1>23 DEF CloseFile, CloseGoto, writeVars, runVars, clearVars, tailVars, diskVars, ClearedInv, Unstored, Unfiled, Rewrites
<1>24. ASSUME Restart PROVE ClearedInv'
  <2>1. /\ queue' = <<>> /\ current' = {} /\ entries' = Load(file)
        /\ UNCHANGED <<file, cleared>>
        /\ \A c \in Clears : cpc'[c] \notin {"truncate", "rewrite"}
    BY <1>24 DEF Restart
  <2>2. Elements(Load(file)) \subseteq Elements(Written(file))
    BY <1>0, LoadFacts
  <2>3. Unfiled' = {}
    BY <2>1 DEF Unfiled, Elements
  <2> QED
    BY <2>1, <2>2, <2>3 DEF ClearedInv, Rewrites
<1>25. ASSUME UNCHANGED vars PROVE ClearedInv'
  BY <1>25 DEF vars, writeVars, runVars, clearVars, tailVars, diskVars, ClearedInv, Unstored, Unfiled, Rewrites
<1> QED
  BY <1>1, <1>2, <1>3, <1>4, <1>5, <1>6, <1>7, <1>8, <1>9, <1>10, <1>11,
     <1>12, <1>13, <1>14, <1>15, <1>16, <1>17, <1>18, <1>19, <1>20, <1>21,
     <1>22, <1>23, <1>24, <1>25 DEF Next, Write, Run, Clear, Close, Finished

\* Cleared entries are gone in every reachable state.
LEMMA ClearedInvariant == Spec => [](OrderFull /\ ClearedInv)
<1>1. OrderFull /\ ClearedInv /\ [Next]_vars => ClearedInv'
  BY ClearedStep DEF OrderFull
<1> QED
  BY <1>1, ClearedInit, OrderInvariant, PTL DEF Spec

\* What a ClearLogs that returned nil has removed is neither in memory nor in the
\* file from then on, so that no restart brings it back.
THEOREM RemovedStaysRemoved == Spec => []ClearedStaysCleared
<1>1. OrderFull /\ ClearedInv => ClearedStaysCleared
  <2> SUFFICES ASSUME OrderFull, ClearedInv PROVE ClearedStaysCleared
    OBVIOUS
  <2>1. file \in Seq(Chunks)
    BY DEF OrderFull, TypeInv, TypeOK, Chunks
  <2>2. Elements(Load(file)) \subseteq Elements(Written(file))
    BY <2>1, LoadFacts
  <2> QED
    BY <2>2 DEF ClearedInv, ClearedStaysCleared
<1> QED
  BY <1>1, ClearedInvariant, PTL

-----------------------------------------------------------------------------
(* What WriteLog has accepted. *)

\* At the start nothing has been accepted.
LEMMA AcceptedInit == Init => AcceptedInv
  BY DEF Init, AcceptedInv

\* An accepted entry stays in the queue, in hand or in memory until it is cleared or unwritten.
LEMMA AcceptedStep ==
    ASSUME TypeInv, AcceptedInv, [Next]_vars PROVE AcceptedInv'
<1> USE DEF TypeInv, TypeOK, ClearPCs
<1>1. ASSUME NEW w \in Writes, CallWrite(w) PROVE AcceptedInv'
  BY <1>1 DEF CallWrite, WriteGoto, runVars, clearVars, tailVars, diskVars, AcceptedInv, Unstored
<1>2. ASSUME NEW w \in Writes, WriteRLock(w) PROVE AcceptedInv'
  BY <1>2 DEF WriteRLock, WriteGoto, runVars, clearVars, tailVars, diskVars, AcceptedInv, Unstored
<1>3. ASSUME NEW w \in Writes, WriteCheck(w) PROVE AcceptedInv'
  BY <1>3 DEF WriteCheck, WriteGoto, runVars, clearVars, tailVars, diskVars, AcceptedInv, Unstored
<1>4. ASSUME NEW w \in Writes, WriteSend(w) PROVE AcceptedInv'
  <2>1. /\ queue' = Append(queue, w) /\ result' = [result EXCEPT ![w] = "ok"]
        /\ UNCHANGED <<run, current, entries, cpc, older>>
    BY <1>4 DEF WriteSend, WriteGoto, runVars, clearVars
  <2>2. Elements(queue') = Elements(queue) \cup {w}
    BY <2>1, ElementsFacts
  <2>3. Unstored' = Unstored \cup {w}
    BY <2>1, <2>2 DEF Unstored
  <2>4. \A v \in Writes : result'[v] = "ok" => v = w \/ result[v] = "ok"
    BY <2>1
  <2> QED
    BY <2>1, <2>3, <2>4 DEF AcceptedInv
<1>5. ASSUME NEW w \in Writes, WriteRUnlock(w) PROVE AcceptedInv'
  BY <1>5 DEF WriteRUnlock, WriteGoto, runVars, clearVars, tailVars, diskVars, AcceptedInv, Unstored
<1>6. ASSUME RunReceive PROVE AcceptedInv'
  <2>1. /\ run = "recv" /\ run' = "lock" /\ current = {}
        /\ queue # <<>> /\ current' = {Head(queue)} /\ queue' = Tail(queue)
        /\ UNCHANGED <<result, entries, cpc, older>>
    BY <1>6 DEF RunReceive, RunGoto, RunInv, writeVars, clearVars
  <2>2. Elements(queue) = {Head(queue)} \cup Elements(Tail(queue))
    BY <2>1, ElementsFacts
  <2>3. Unstored' = Unstored
    BY <2>1, <2>2 DEF Unstored
  <2> QED
    BY <2>1, <2>3 DEF AcceptedInv
<1>7. ASSUME RunExit PROVE AcceptedInv'
  BY <1>7 DEF RunExit, RunGoto, writeVars, clearVars, tailVars, diskVars, AcceptedInv, Unstored
<1>8. ASSUME RunStore PROVE AcceptedInv'
  <2>1. PICK e \in Writes : current = {e} /\ entries' = Append(entries, e)
    BY <1>8 DEF RunStore, RunGoto, RunInv
  <2>2. /\ run = "lock" /\ run' = "write" /\ UNCHANGED <<queue, current, result, cpc, older>>
    BY <1>8 DEF RunStore, RunGoto, writeVars, clearVars
  <2>3. Elements(entries') = Elements(entries) \cup {e}
    BY <2>1, ElementsFacts
  <2>4. Unstored = {e} \cup Elements(queue) /\ Unstored' = Elements(queue)
    BY <2>1, <2>2 DEF Unstored
  <2>5. Elements(entries') \cup Unstored' = Elements(entries) \cup Unstored
    BY <2>3, <2>4
  <2> QED
    BY <2>2, <2>5 DEF AcceptedInv
<1>9. ASSUME RunWrite PROVE AcceptedInv'
  BY <1>9 DEF RunWrite, RunGoto, Fault, writeVars, clearVars, tailVars, AcceptedInv, Unstored
<1>10. ASSUME RunHandlers PROVE AcceptedInv'
  BY <1>10 DEF RunHandlers, RunGoto, writeVars, clearVars, tailVars, diskVars, AcceptedInv, Unstored
<1>11. ASSUME NEW t \in Tails, RunHandle(t) PROVE AcceptedInv'
  BY <1>11 DEF RunHandle, writeVars, clearVars, diskVars, AcceptedInv, Unstored
<1>12. ASSUME RunNext PROVE AcceptedInv'
  BY <1>12 DEF RunNext, RunGoto, writeVars, clearVars, tailVars, diskVars, AcceptedInv, Unstored
<1>13. ASSUME NEW c \in Clears, CallClear(c) PROVE AcceptedInv'
  BY <1>13 DEF CallClear, ClearGoto, writeVars, runVars, tailVars, diskVars, AcceptedInv, Unstored
<1>14. ASSUME NEW c \in Clears, ClearFilter(c) PROVE AcceptedInv'
  <2>1. /\ cpc[c] = "lock" /\ cpc' = [cpc EXCEPT ![c] = "truncate"]
        /\ UNCHANGED <<queue, run, current, result>>
    BY <1>14 DEF ClearFilter, ClearGoto, writeVars, runVars
  <2>2. /\ Elements(entries) = Elements(entries') \cup older'[c]
        /\ \A d \in Clears : d # c => older'[d] = older[d]
    BY <1>14, FilterSplits
  <2>3. older[c] = {}
    BY <2>1 DEF AcceptedInv
  <2>4. \A d \in Clears : older[d] \subseteq older'[d]
    BY <2>2, <2>3
  <2>5. Unstored' = Unstored
    BY <2>1 DEF Unstored
  <2>6. ASSUME NEW w \in Writes, result'[w] = "ok"
        PROVE  w \in Elements(entries') \cup Unstored' \cup UNION {older'[d] : d \in Clears}
    <3>1. w \in Elements(entries) \/ w \in Unstored \/ \E d \in Clears : w \in older[d]
      BY <2>1, <2>6 DEF AcceptedInv
    <3> QED
      BY <2>2, <2>4, <2>5, <3>1
  <2>7. \A d \in Clears : cpc'[d] \in {"idle", "lock"} => older'[d] = {}
    BY <2>1, <2>2 DEF AcceptedInv
  <2> QED
    BY <2>6, <2>7 DEF AcceptedInv
<1>15. ASSUME NEW c \in Clears, ClearTruncate(c) PROVE AcceptedInv'
  <2>1. UNCHANGED <<queue, run, current, entries, result, older>>
    BY <1>15 DEF ClearTruncate, ClearFails, writeVars, runVars
  <2>2. \A d \in Clears : cpc'[d] \in {"idle", "lock"} => cpc[d] = cpc'[d]
    BY <1>15 DEF ClearTruncate, ClearFails, ClearGoto
  <2> QED
    BY <2>1, <2>2 DEF AcceptedInv, Unstored
<1>16. ASSUME NEW c \in Clears, ClearRewrite(c) PROVE AcceptedInv'
  <2>1. UNCHANGED <<queue, run, current, entries, result, older>>
    BY <1>16 DEF ClearRewrite, ClearFails, writeVars, runVars
  <2>2. \A d \in Clears : cpc'[d] \in {"idle", "lock"} => cpc[d] = cpc'[d]
    BY <1>16 DEF ClearRewrite, ClearFails, ClearGoto
  <2> QED
    BY <2>1, <2>2 DEF AcceptedInv, Unstored
<1>17. ASSUME NEW c \in Clears, ClearReturn(c) PROVE AcceptedInv'
  BY <1>17 DEF ClearReturn, ClearGoto, writeVars, runVars, tailVars, AcceptedInv, Unstored
<1>18. ASSUME NEW t \in Tails, Register(t) PROVE AcceptedInv'
  BY <1>18 DEF Register, HandlersFree, writeVars, runVars, clearVars, diskVars, AcceptedInv, Unstored
<1>19. ASSUME NEW t \in Tails, TailSend(t) PROVE AcceptedInv'
  BY <1>19 DEF TailSend, writeVars, runVars, clearVars, diskVars, AcceptedInv, Unstored
<1>20. ASSUME NEW t \in Tails, Unregister(t) PROVE AcceptedInv'
  BY <1>20 DEF Unregister, HandlersFree, writeVars, runVars, clearVars, diskVars, AcceptedInv, Unstored
<1>21. ASSUME CallClose PROVE AcceptedInv'
  BY <1>21 DEF CallClose, CloseGoto, writeVars, runVars, clearVars, tailVars, diskVars, AcceptedInv, Unstored
<1>22. ASSUME CloseQueue PROVE AcceptedInv'
  BY <1>22 DEF CloseQueue, CloseGoto, writeVars, runVars, clearVars, tailVars, diskVars, AcceptedInv, Unstored
<1>23. ASSUME CloseFile PROVE AcceptedInv'
  BY <1>23 DEF CloseFile, CloseGoto, writeVars, runVars, clearVars, tailVars, diskVars, AcceptedInv, Unstored
<1>24. ASSUME Restart PROVE AcceptedInv'
  <2>1. /\ \A w \in Writes : result'[w] = "none"
        /\ older' = older /\ \A c \in Clears : cpc'[c] \in {"idle", "lock"} => cpc[c] = "idle"
    BY <1>24 DEF Restart
  <2> QED
    BY <2>1 DEF AcceptedInv
<1>25. ASSUME UNCHANGED vars PROVE AcceptedInv'
  BY <1>25 DEF vars, writeVars, runVars, clearVars, tailVars, diskVars, AcceptedInv, Unstored
<1> QED
  BY <1>1, <1>2, <1>3, <1>4, <1>5, <1>6, <1>7, <1>8, <1>9, <1>10, <1>11,
     <1>12, <1>13, <1>14, <1>15, <1>16, <1>17, <1>18, <1>19, <1>20, <1>21,
     <1>22, <1>23, <1>24, <1>25 DEF Next, Write, Run, Clear, Close, Finished

\* No accepted entry is lost in a reachable state.
LEMMA AcceptedInvariant == Spec => [](TypeInv /\ LockInv /\ AcceptedInv)
<1>1. TypeInv /\ AcceptedInv /\ [Next]_vars => AcceptedInv'
  BY AcceptedStep
<1> QED
  BY <1>1, AcceptedInit, LockInvariant, PTL DEF Spec

\* Close returns only after the write loop has drained the queue: whatever
\* WriteLog said it had taken is stored then, or has been removed by ClearLogs.
THEOREM CloseLosesNothing == Spec => []AcceptedIsStored
<1>1. TypeInv /\ LockInv /\ AcceptedInv => AcceptedIsStored
  <2> SUFFICES ASSUME TypeInv, LockInv, AcceptedInv, close = "returned"
               PROVE  \A w \in Writes : result[w] = "ok" =>
                        w \in Elements(entries) \cup UNION {older[c] : c \in Clears}
    BY DEF AcceptedIsStored
  <2>1. run = "exited" /\ queue = <<>>
    BY DEF LockInv
  <2>2. Unstored = {}
    BY <2>1 DEF Unstored, Elements
  <2> QED
    BY <2>2 DEF AcceptedInv
<1> QED
  BY <1>1, AcceptedInvariant, PTL

-----------------------------------------------------------------------------
(* The file and the memory. *)

\* Memory and file are empty at the start.
LEMMA FiledInit == Init => FiledInv /\ InStepInv
<1> SUFFICES ASSUME Init PROVE FiledInv /\ InStepInv
  OBVIOUS
<1>1. /\ mu = "free" /\ entries = <<>> /\ file = <<>>
      /\ \A c \in Clears : cpc[c] = "idle"
  BY DEF Init
<1>2. Elements(<<>>) = {} /\ Written(<<>>) = <<>> /\ Whole(<<>>)
  BY DEF Elements, Written, Whole
<1> QED
  BY <1>1, <1>2 DEF FiledInv, InStepInv

\* A whole write to a file of whole lines.
LEMMA WholeGrows ==
    ASSUME NEW f \in Seq(Chunks), NEW e \in Writes, Whole(f)
    PROVE  Whole(Append(f, Chunk(e, "none")))
<1>1. Chunk(e, "none") \in Chunks /\ Chunk(e, "none").cut = "none"
  BY ChunkFacts DEF Cuts
<1>2. /\ Len(f) \in Nat /\ Len(Append(f, Chunk(e, "none"))) = Len(f) + 1
      /\ Append(f, Chunk(e, "none"))[Len(f) + 1] = Chunk(e, "none")
      /\ \A i \in 1..Len(f) : Append(f, Chunk(e, "none"))[i] = f[i]
  BY <1>1
<1>3. \A i \in 1..(Len(f) + 1) : i \in 1..Len(f) \/ i = Len(f) + 1
  BY <1>2
<1> QED
  BY <1>1, <1>2, <1>3 DEF Whole

\* What a write adds to the file, and what is left of the rewriting.
LEMMA ChunkWritten ==
    ASSUME NEW f \in Seq(Chunks), NEW e \in Writes, NEW cut \in Cuts,
           NEW g, g = Append(f, Chunk(e, cut))
    PROVE  /\ Written(g) = Append(Written(f), e)
           /\ Elements(Written(g)) = Elements(Written(f)) \cup {e}
<1>1. Written(g) = Append(Written(f), e) /\ Written(f) \in Seq(Writes)
  BY WrittenFacts
<1> QED
  BY <1>1, ElementsFacts

\* What memory holds was written to the file, is about to be, or is in unwritten.
LEMMA FiledStep ==
    ASSUME TypeInv, FiledInv, [Next]_vars PROVE FiledInv'
<1> USE DEF TypeInv, TypeOK, ClearPCs
<1>0. file \in Seq(Chunks)
  BY DEF Chunks
<1>1. ASSUME NEW w \in Writes, CallWrite(w) PROVE FiledInv'
  BY <1>1 DEF CallWrite, WriteGoto, runVars, clearVars, tailVars, diskVars, FiledInv
<1>2. ASSUME NEW w \in Writes, WriteRLock(w) PROVE FiledInv'
  BY <1>2 DEF WriteRLock, WriteGoto, runVars, clearVars, tailVars, diskVars, FiledInv
<1>3. ASSUME NEW w \in Writes, WriteCheck(w) PROVE FiledInv'
  BY <1>3 DEF WriteCheck, WriteGoto, runVars, clearVars, tailVars, diskVars, FiledInv
<1>4. ASSUME NEW w \in Writes, WriteSend(w) PROVE FiledInv'
  BY <1>4 DEF WriteSend, WriteGoto, runVars, clearVars, tailVars, diskVars, FiledInv
<1>5. ASSUME NEW w \in Writes, WriteRUnlock(w) PROVE FiledInv'
  BY <1>5 DEF WriteRUnlock, WriteGoto, runVars, clearVars, tailVars, diskVars, FiledInv
<1>6. ASSUME RunReceive PROVE FiledInv'
  <2>1. mu # "run" /\ UNCHANGED <<mu, entries, file, unwritten, cpc, kept>>
    BY <1>6 DEF RunReceive, RunGoto, writeVars, clearVars, tailVars, diskVars
  <2> QED
    BY <2>1 DEF FiledInv
<1>7. ASSUME RunExit PROVE FiledInv'
  BY <1>7 DEF RunExit, RunGoto, writeVars, clearVars, tailVars, diskVars, FiledInv
<1>8. ASSUME RunStore PROVE FiledInv'
  <2>1. PICK e \in Writes : current = {e} /\ entries' = Append(entries, e)
    BY <1>8 DEF RunStore, RunGoto, RunInv
  <2>2. /\ mu = "free" /\ mu' = "run" /\ UNCHANGED <<current, file, unwritten, cpc, kept>>
    BY <1>8 DEF RunStore, clearVars, diskVars
  <2>3. Elements(entries') = Elements(entries) \cup {e}
    BY <2>1, ElementsFacts
  <2>4. \A c \in Clears : cpc[c] \notin {"truncate", "rewrite"}
    BY <2>2, AppLogAssumption
  <2> QED
    BY <2>1, <2>2, <2>3, <2>4 DEF FiledInv
<1>9. ASSUME RunWrite PROVE FiledInv'
  <2>1. PICK e \in Writes :
          /\ current = {e}
          /\ \/ file' = file /\ e \in unwritten'
             \/ \E cut \in Cuts : file' = Append(file, Chunk(e, cut))
    BY <1>9 DEF RunWrite, RunGoto, RunInv, Cuts
  <2>2. /\ mu = "run" /\ mu' = "free" /\ unwritten \subseteq unwritten'
        /\ UNCHANGED <<entries, cpc, kept>>
    BY <1>9 DEF RunWrite, RunGoto, clearVars
  <2>3. \/ Elements(Written(file')) = Elements(Written(file)) /\ e \in unwritten'
        \/ Elements(Written(file')) = Elements(Written(file)) \cup {e}
    BY <1>0, <2>1, ChunkWritten
  <2>4. \A c \in Clears : cpc[c] \notin {"truncate", "rewrite"}
    BY <2>2, AppLogAssumption
  <2>5. Elements(entries) \ {e} \subseteq Elements(Written(file)) \cup unwritten
    BY <2>1, <2>2 DEF FiledInv
  <2> QED
    BY <2>2, <2>3, <2>4, <2>5 DEF FiledInv
<1>10. ASSUME RunHandlers PROVE FiledInv'
  BY <1>10 DEF RunHandlers, RunGoto, writeVars, clearVars, tailVars, diskVars, FiledInv
<1>11. ASSUME NEW t \in Tails, RunHandle(t) PROVE FiledInv'
  BY <1>11 DEF RunHandle, writeVars, clearVars, diskVars, FiledInv
<1>12. ASSUME RunNext PROVE FiledInv'
  <2>1. mu # "run" /\ UNCHANGED <<mu, entries, file, unwritten, cpc, kept>>
    BY <1>12 DEF RunNext, RunGoto, writeVars, clearVars, tailVars, diskVars
  <2> QED
    BY <2>1 DEF FiledInv
<1>13. ASSUME NEW c \in Clears, CallClear(c) PROVE FiledInv'
  BY <1>13 DEF CallClear, ClearGoto, writeVars, runVars, tailVars, diskVars, FiledInv
<1>14. ASSUME NEW c \in Clears, ClearFilter(c) PROVE FiledInv'
  <2>1. /\ mu = "free" /\ mu' = c /\ cpc' = [cpc EXCEPT ![c] = "truncate"]
    BY <1>14 DEF ClearFilter, ClearGoto
  <2>2. kept'[c] = entries'
    BY <1>14, FilterSplits
  <2>3. \A d \in Clears : cpc'[d] # "rewrite" /\ (cpc'[d] = "truncate" => d = c)
    BY <2>1, AppLogAssumption
  <2>4. mu' # "free" /\ mu' # "run"
    BY <2>1, AppLogAssumption
  <2> QED
    BY <2>2, <2>3, <2>4 DEF FiledInv
<1>15. ASSUME NEW c \in Clears, ClearTruncate(c) PROVE FiledInv'
  <2>1. /\ cpc[c] = "truncate" /\ UNCHANGED <<entries, kept>>
        /\ \/ cpc' = [cpc EXCEPT ![c] = "rewrite"] /\ mu' = mu
           \/ /\ cpc' = [cpc EXCEPT ![c] = "error"] /\ mu' = "free"
              /\ unwritten' = unwritten \cup Elements(kept[c])
    BY <1>15 DEF ClearTruncate, ClearFails, ClearGoto
  <2>2. mu = c /\ mu # "free" /\ mu # "run"
    BY <2>1, AppLogAssumption
  <2>3. \A d \in Clears : cpc'[d] # "truncate" /\ (cpc'[d] = "rewrite" => d = c /\ mu' = mu)
    BY <2>1, <2>2
  <2>4. kept[c] = entries
    BY <2>1 DEF FiledInv
  <2>5. mu' = "free" => Elements(entries) \subseteq unwritten'
    BY <2>1, <2>2, <2>4
  <2>6. mu' # "run"
    BY <2>1, <2>2
  <2> QED
    BY <2>1, <2>3, <2>4, <2>5, <2>6 DEF FiledInv
<1>16. ASSUME NEW c \in Clears, ClearRewrite(c) PROVE FiledInv'
  <2>1. /\ cpc[c] = "rewrite" /\ kept[c] # <<>> /\ UNCHANGED entries
        /\ \/ /\ cpc' = [cpc EXCEPT ![c] = "rewrite"] /\ mu' = mu
              /\ file' = Append(file, Chunk(Head(kept[c]), "none"))
              /\ kept' = [kept EXCEPT ![c] = Tail(kept[c])]
           \/ /\ cpc' = [cpc EXCEPT ![c] = "error"] /\ mu' = "free"
              /\ unwritten' = unwritten \cup Elements(kept[c])
              /\ \/ file' = file
                 \/ \E cut \in Cuts : file' = Append(file, Chunk(Head(kept[c]), cut))
    BY <1>16 DEF ClearRewrite, ClearGoto, ClearFails, Cuts
  <2>2. mu = c /\ mu # "free" /\ mu # "run"
    BY <2>1, AppLogAssumption
  <2>3. \A d \in Clears : cpc'[d] # "truncate" /\ (cpc'[d] = "rewrite" => d = c /\ mu' = mu)
    BY <2>1, <2>2
  <2>4. Elements(entries) \subseteq Elements(Written(file)) \cup Elements(kept[c])
    BY <2>1 DEF FiledInv
  <2>5. /\ Head(kept[c]) \in Writes
        /\ Elements(kept[c]) = {Head(kept[c])} \cup Elements(Tail(kept[c]))
    BY <2>1, ElementsFacts
  <2>6. CASE cpc' = [cpc EXCEPT ![c] = "rewrite"]
    <3>1. /\ cpc'[c] = "rewrite" /\ mu' = mu
          /\ file' = Append(file, Chunk(Head(kept[c]), "none")) /\ kept'[c] = Tail(kept[c])
      BY <2>1, <2>6
    <3>2. Elements(Written(file')) = Elements(Written(file)) \cup {Head(kept[c])}
      BY <1>0, <2>5, <3>1, ChunkWritten DEF Cuts
    <3>3. Elements(entries) \subseteq Elements(Written(file')) \cup Elements(kept'[c])
      BY <2>4, <2>5, <3>1, <3>2
    <3> QED
      BY <2>1, <2>2, <2>3, <3>1, <3>3 DEF FiledInv
  <2>7. CASE cpc' = [cpc EXCEPT ![c] = "error"]
    <3>0. cpc'[c] = "error" /\ cpc' # [cpc EXCEPT ![c] = "rewrite"]
      <4>1. cpc'[c] = "error" /\ [cpc EXCEPT ![c] = "rewrite"][c] = "rewrite"
        BY <2>7
      <4> QED
        BY <4>1
    <3>1. /\ cpc'[c] = "error" /\ mu' = "free"
          /\ unwritten' = unwritten \cup Elements(kept[c])
          /\ \/ file' = file
             \/ \E cut \in Cuts : file' = Append(file, Chunk(Head(kept[c]), cut))
      BY <2>1, <3>0
    <3>2. Elements(Written(file)) \subseteq Elements(Written(file'))
      <4>1. CASE file' = file
        BY <4>1
      <4>2. ASSUME NEW cut \in Cuts, file' = Append(file, Chunk(Head(kept[c]), cut))
            PROVE  Elements(Written(file')) = Elements(Written(file)) \cup {Head(kept[c])}
        <5> DEFINE e == Head(kept[c])
        <5>1. e \in Writes /\ file' = Append(file, Chunk(e, cut))
          BY <2>5, <4>2
        <5> HIDE DEF TypeInv, TypeOK, e
        <5>2. Elements(Written(file')) = Elements(Written(file)) \cup {e}
          BY <1>0, <5>1, ChunkWritten
        <5> QED
          BY <5>2 DEF e
      <4> QED
        BY <3>1, <4>1, <4>2
    <3>3. Elements(entries) \subseteq Elements(Written(file')) \cup unwritten'
      BY <2>4, <3>1, <3>2
    <3>4. \A d \in Clears : cpc'[d] # "truncate" /\ cpc'[d] # "rewrite"
      BY <2>3, <3>1
    <3> QED
      BY <2>1, <3>1, <3>3, <3>4 DEF FiledInv
  <2> QED
    BY <2>1, <2>6, <2>7
<1>17. ASSUME NEW c \in Clears, ClearReturn(c) PROVE FiledInv'
  <2>1. /\ cpc[c] = "rewrite" /\ cpc' = [cpc EXCEPT ![c] = "ok"] /\ kept[c] = <<>>
        /\ mu' = "free" /\ UNCHANGED <<entries, file>>
    BY <1>17 DEF ClearReturn, ClearGoto
  <2>2. Elements(entries) \subseteq Elements(Written(file)) \cup Elements(<<>>)
    BY <2>1 DEF FiledInv
  <2>3. Elements(<<>>) = {}
    BY DEF Elements
  <2>4. \A d \in Clears : cpc'[d] # "truncate" /\ cpc'[d] # "rewrite"
    BY <2>1, AppLogAssumption
  <2> QED
    BY <2>1, <2>2, <2>3, <2>4 DEF FiledInv
<1>18. ASSUME NEW t \in Tails, Register(t) PROVE FiledInv'
  BY <1>18 DEF Register, HandlersFree, writeVars, runVars, clearVars, diskVars, FiledInv
<1>19. ASSUME NEW t \in Tails, TailSend(t) PROVE FiledInv'
  BY <1>19 DEF TailSend, writeVars, runVars, clearVars, diskVars, FiledInv
<1>20. ASSUME NEW t \in Tails, Unregister(t) PROVE FiledInv'
  BY <1>20 DEF Unregister, HandlersFree, writeVars, runVars, clearVars, diskVars, FiledInv
<1>21. ASSUME CallClose PROVE FiledInv'
  BY <1>21 DEF CallClose, CloseGoto, writeVars, runVars, clearVars, tailVars, diskVars, FiledInv
<1>22. ASSUME CloseQueue PROVE FiledInv'
  BY <1>22 DEF CloseQueue, CloseGoto, writeVars, runVars, clearVars, tailVars, diskVars, FiledInv
<1>23. ASSUME CloseFile PROVE FiledInv'
  BY <1>23 DEF CloseFile, CloseGoto, writeVars, runVars, clearVars, tailVars, diskVars, FiledInv
<1>24. ASSUME Restart PROVE FiledInv'
  <2>1. /\ entries' = Load(file) /\ file' = file /\ mu' = "free"
        /\ \A c \in Clears : cpc'[c] \notin {"truncate", "rewrite"}
    BY <1>24 DEF Restart
  <2>2. Elements(Load(file)) \subseteq Elements(Written(file))
    BY <1>0, LoadFacts
  <2> QED
    BY <2>1, <2>2 DEF FiledInv
<1>25. ASSUME UNCHANGED vars PROVE FiledInv'
  BY <1>25 DEF vars, writeVars, runVars, clearVars, tailVars, diskVars, FiledInv
<1> QED
  BY <1>1, <1>2, <1>3, <1>4, <1>5, <1>6, <1>7, <1>8, <1>9, <1>10, <1>11,
     <1>12, <1>13, <1>14, <1>15, <1>16, <1>17, <1>18, <1>19, <1>20, <1>21,
     <1>22, <1>23, <1>24, <1>25 DEF Next, Write, Run, Clear, Close, Finished

\* Nothing that has failed is forgotten.
LEMMA FailureStays == ASSUME TypeInv, [Next]_vars, NothingFailed' PROVE NothingFailed
<1> USE DEF TypeInv, TypeOK, NothingFailed
<1>1. ASSUME NEW w \in Writes, CallWrite(w) PROVE NothingFailed
  BY <1>1 DEF CallWrite, WriteGoto, runVars, clearVars, tailVars, diskVars
<1>2. ASSUME NEW w \in Writes, WriteRLock(w) PROVE NothingFailed
  BY <1>2 DEF WriteRLock, WriteGoto, runVars, clearVars, tailVars, diskVars
<1>3. ASSUME NEW w \in Writes, WriteCheck(w) PROVE NothingFailed
  BY <1>3 DEF WriteCheck, WriteGoto, runVars, clearVars, tailVars, diskVars
<1>4. ASSUME NEW w \in Writes, WriteSend(w) PROVE NothingFailed
  BY <1>4 DEF WriteSend, WriteGoto, runVars, clearVars, tailVars, diskVars
<1>5. ASSUME NEW w \in Writes, WriteRUnlock(w) PROVE NothingFailed
  BY <1>5 DEF WriteRUnlock, WriteGoto, runVars, clearVars, tailVars, diskVars
<1>6. ASSUME RunReceive PROVE NothingFailed
  BY <1>6 DEF RunReceive, RunGoto, writeVars, clearVars, tailVars, diskVars
<1>7. ASSUME RunExit PROVE NothingFailed
  BY <1>7 DEF RunExit, RunGoto, writeVars, clearVars, tailVars, diskVars
<1>8. ASSUME RunStore PROVE NothingFailed
  BY <1>8 DEF RunStore, RunGoto, writeVars, clearVars, tailVars, diskVars
<1>9. ASSUME RunWrite PROVE NothingFailed
  <2>1. cpc' = cpc /\ (faults' = faults \/ faults' = faults + 1)
    BY <1>9 DEF RunWrite, Fault, clearVars
  <2> QED
    BY <2>1
<1>10. ASSUME RunHandlers PROVE NothingFailed
  BY <1>10 DEF RunHandlers, RunGoto, writeVars, clearVars, tailVars, diskVars
<1>11. ASSUME NEW t \in Tails, RunHandle(t) PROVE NothingFailed
  BY <1>11 DEF RunHandle, writeVars, clearVars, diskVars
<1>12. ASSUME RunNext PROVE NothingFailed
  BY <1>12 DEF RunNext, RunGoto, writeVars, clearVars, tailVars, diskVars
<1>13. ASSUME NEW c \in Clears, CallClear(c) PROVE NothingFailed
  BY <1>13 DEF CallClear, ClearGoto, writeVars, runVars, tailVars, diskVars
<1>14. ASSUME NEW c \in Clears, ClearFilter(c) PROVE NothingFailed
  BY <1>14 DEF ClearFilter, ClearGoto, writeVars, runVars, tailVars, diskVars
<1>15. ASSUME NEW c \in Clears, ClearTruncate(c) PROVE NothingFailed
  <2>1. cpc[c] = "truncate" /\ faults \in Nat /\ (faults' = faults \/ faults' = faults + 1)
    BY <1>15 DEF ClearTruncate, ClearFails, ClearGoto, Fault
  <2>2. \A d \in Clears : d # c => cpc'[d] = cpc[d]
    BY <1>15 DEF ClearTruncate, ClearFails, ClearGoto
  <2> HIDE DEF TypeInv, TypeOK
  <2> QED
    BY <2>1, <2>2
<1>16. ASSUME NEW c \in Clears, ClearRewrite(c) PROVE NothingFailed
  <2>1. cpc[c] = "rewrite" /\ faults \in Nat /\ (faults' = faults \/ faults' = faults + 1)
    BY <1>16 DEF ClearRewrite, ClearFails, ClearGoto, Fault
  <2>2. \A d \in Clears : d # c => cpc'[d] = cpc[d]
    BY <1>16 DEF ClearRewrite, ClearFails, ClearGoto
  <2> HIDE DEF TypeInv, TypeOK
  <2> QED
    BY <2>1, <2>2
<1>17. ASSUME NEW c \in Clears, ClearReturn(c) PROVE NothingFailed
  BY <1>17 DEF ClearReturn, ClearGoto, writeVars, runVars, tailVars
<1>18. ASSUME NEW t \in Tails, Register(t) PROVE NothingFailed
  BY <1>18 DEF Register, HandlersFree, writeVars, runVars, clearVars, diskVars
<1>19. ASSUME NEW t \in Tails, TailSend(t) PROVE NothingFailed
  BY <1>19 DEF TailSend, writeVars, runVars, clearVars, diskVars
<1>20. ASSUME NEW t \in Tails, Unregister(t) PROVE NothingFailed
  BY <1>20 DEF Unregister, HandlersFree, writeVars, runVars, clearVars, diskVars
<1>21. ASSUME CallClose PROVE NothingFailed
  BY <1>21 DEF CallClose, CloseGoto, writeVars, runVars, clearVars, tailVars, diskVars
<1>22. ASSUME CloseQueue PROVE NothingFailed
  BY <1>22 DEF CloseQueue, CloseGoto, writeVars, runVars, clearVars, tailVars, diskVars
<1>23. ASSUME CloseFile PROVE NothingFailed
  BY <1>23 DEF CloseFile, CloseGoto, writeVars, runVars, clearVars, tailVars, diskVars
<1>24. ASSUME Restart PROVE NothingFailed
  BY <1>24 DEF Restart
<1>25. ASSUME UNCHANGED vars PROVE NothingFailed
  BY <1>25 DEF vars, writeVars, runVars, clearVars, tailVars, diskVars
<1> QED
  BY <1>1, <1>2, <1>3, <1>4, <1>5, <1>6, <1>7, <1>8, <1>9, <1>10, <1>11,
     <1>12, <1>13, <1>14, <1>15, <1>16, <1>17, <1>18, <1>19, <1>20, <1>21,
     <1>22, <1>23, <1>24, <1>25 DEF Next, Write, Run, Clear, Close, Finished

\* Memory and file stay in step under every step that fails nothing.
LEMMA InStepStep ==
    ASSUME TypeInv, FiledInv, InStepInv, [Next]_vars PROVE InStepInv'
<1> SUFFICES ASSUME NothingFailed'
             PROVE  /\ Whole(file')
                    /\ mu' = "free" => Written(file') = entries'
                    /\ mu' = "run" => \A e \in current' : entries' = Append(Written(file'), e)
                    /\ \A d \in Clears : cpc'[d] = "rewrite" => Written(file') \o kept'[d] = entries'
  BY DEF InStepInv
<1> DEFINE Goal == /\ Whole(file')
                   /\ mu' = "free" => Written(file') = entries'
                   /\ mu' = "run" => \A e \in current' : entries' = Append(Written(file'), e)
                   /\ \A d \in Clears : cpc'[d] = "rewrite" => Written(file') \o kept'[d] = entries'
<1> USE DEF TypeInv, TypeOK, ClearPCs
<1>a. file \in Seq(Chunks)
  BY DEF Chunks
<1>b. /\ Whole(file)
      /\ mu = "free" => Written(file) = entries
      /\ mu = "run" => \A e \in current : entries = Append(Written(file), e)
      /\ \A d \in Clears : cpc[d] = "rewrite" => Written(file) \o kept[d] = entries
  BY FailureStays DEF InStepInv
<1>1. ASSUME NEW w \in Writes, CallWrite(w) PROVE Goal
  BY <1>b, <1>1 DEF CallWrite, WriteGoto, runVars, clearVars, tailVars, diskVars
<1>2. ASSUME NEW w \in Writes, WriteRLock(w) PROVE Goal
  BY <1>b, <1>2 DEF WriteRLock, WriteGoto, runVars, clearVars, tailVars, diskVars
<1>3. ASSUME NEW w \in Writes, WriteCheck(w) PROVE Goal
  BY <1>b, <1>3 DEF WriteCheck, WriteGoto, runVars, clearVars, tailVars, diskVars
<1>4. ASSUME NEW w \in Writes, WriteSend(w) PROVE Goal
  BY <1>b, <1>4 DEF WriteSend, WriteGoto, runVars, clearVars, tailVars, diskVars
<1>5. ASSUME NEW w \in Writes, WriteRUnlock(w) PROVE Goal
  BY <1>b, <1>5 DEF WriteRUnlock, WriteGoto, runVars, clearVars, tailVars, diskVars
<1>6. ASSUME RunReceive PROVE Goal
  <2>1. mu # "run" /\ UNCHANGED <<mu, entries, file, cpc, kept>>
    BY <1>6 DEF RunReceive, RunGoto, writeVars, clearVars, tailVars, diskVars
  <2> QED
    BY <1>b, <2>1
<1>7. ASSUME RunExit PROVE Goal
  BY <1>b, <1>7 DEF RunExit, RunGoto, writeVars, clearVars, tailVars, diskVars
<1>8. ASSUME RunStore PROVE Goal
  <2>1. PICK e \in Writes : current = {e} /\ entries' = Append(entries, e)
    BY <1>8 DEF RunStore, RunGoto, RunInv
  <2>2. mu = "free" /\ mu' = "run" /\ UNCHANGED <<current, file, cpc, kept>>
    BY <1>8 DEF RunStore, clearVars, diskVars
  <2>3. \A d \in Clears : cpc[d] \notin {"truncate", "rewrite"}
    BY <2>2, AppLogAssumption
  <2> QED
    BY <1>b, <2>1, <2>2, <2>3
<1>9. ASSUME RunWrite PROVE Goal
  <2>1. ~Fault
    <3>1. faults' = 0 /\ faults \in Nat
      BY DEF NothingFailed
    <3> HIDE DEF TypeInv, TypeOK
    <3> QED
      BY <3>1 DEF Fault
  <2>2. PICK e \in Writes : current = {e} /\ file' = Append(file, Chunk(e, "none"))
    BY <1>9, <2>1 DEF RunWrite, RunGoto, RunInv
  <2>3. mu = "run" /\ mu' = "free" /\ UNCHANGED <<entries, cpc, kept>>
    BY <1>9 DEF RunWrite, RunGoto, clearVars
  <2>4. Whole(file') /\ Written(file') = Append(Written(file), e)
    BY <1>a, <1>b, <2>2, WholeGrows, ChunkWritten DEF Cuts
  <2>5. \A d \in Clears : cpc[d] \notin {"truncate", "rewrite"}
    BY <2>3, AppLogAssumption
  <2> QED
    BY <1>b, <2>2, <2>3, <2>4, <2>5
<1>10. ASSUME RunHandlers PROVE Goal
  BY <1>b, <1>10 DEF RunHandlers, RunGoto, writeVars, clearVars, tailVars, diskVars
<1>11. ASSUME NEW t \in Tails, RunHandle(t) PROVE Goal
  BY <1>b, <1>11 DEF RunHandle, writeVars, clearVars, diskVars
<1>12. ASSUME RunNext PROVE Goal
  <2>1. mu # "run" /\ UNCHANGED <<mu, entries, file, cpc, kept>>
    BY <1>12 DEF RunNext, RunGoto, writeVars, clearVars, tailVars, diskVars
  <2> QED
    BY <1>b, <2>1
<1>13. ASSUME NEW c \in Clears, CallClear(c) PROVE Goal
  BY <1>b, <1>13 DEF CallClear, ClearGoto, writeVars, runVars, tailVars, diskVars
<1>14. ASSUME NEW c \in Clears, ClearFilter(c) PROVE Goal
  <2>1. mu = "free" /\ mu' = c /\ cpc' = [cpc EXCEPT ![c] = "truncate"] /\ file' = file
    BY <1>14 DEF ClearFilter, ClearGoto, diskVars
  <2>2. \A d \in Clears : cpc'[d] # "rewrite"
    BY <2>1, AppLogAssumption
  <2>3. mu' # "free" /\ mu' # "run"
    BY <2>1, AppLogAssumption
  <2> QED
    BY <1>b, <2>1, <2>2, <2>3
<1>15. ASSUME NEW c \in Clears, ClearTruncate(c) PROVE Goal
  <2>1. cpc'[c] # "error"
    BY DEF NothingFailed
  <2>2. /\ cpc[c] = "truncate" /\ cpc' = [cpc EXCEPT ![c] = "rewrite"] /\ file' = <<>>
        /\ UNCHANGED <<mu, entries, kept>>
    BY <1>15, <2>1 DEF ClearTruncate, ClearFails, ClearGoto
  <2>3. mu # "free" /\ mu # "run" /\ \A d \in Clears : cpc'[d] = "rewrite" => d = c
    BY <2>2, AppLogAssumption
  <2>4. Whole(<<>>) /\ Written(<<>>) = <<>>
    BY DEF Whole, Written
  <2>5. kept[c] = entries
    BY <2>2 DEF FiledInv
  <2>6. <<>> \o entries = entries
    BY ConcatFacts
  <2>7. Whole(file') /\ Written(file') = <<>>
    BY <2>2, <2>4
  <2> QED
    BY <2>2, <2>3, <2>5, <2>6, <2>7
<1>16. ASSUME NEW c \in Clears, ClearRewrite(c) PROVE Goal
  <2>1. cpc'[c] # "error"
    BY DEF NothingFailed
  <2>2. /\ cpc[c] = "rewrite" /\ kept[c] # <<>> /\ cpc' = [cpc EXCEPT ![c] = "rewrite"]
        /\ file' = Append(file, Chunk(Head(kept[c]), "none"))
        /\ kept' = [kept EXCEPT ![c] = Tail(kept[c])] /\ UNCHANGED <<mu, entries>>
    BY <1>16, <2>1 DEF ClearRewrite, ClearFails, ClearGoto
  <2>3. mu # "free" /\ mu # "run" /\ \A d \in Clears : cpc'[d] = "rewrite" => d = c
    BY <2>2, AppLogAssumption
  <2>4. Head(kept[c]) \in Writes /\ kept[c] \in Seq(Writes)
    BY <2>2, ElementsFacts
  <2>5. Whole(file') /\ Written(file') = Append(Written(file), Head(kept[c]))
    BY <1>a, <1>b, <2>2, <2>4, WholeGrows, ChunkWritten DEF Cuts
  <2>6. kept'[c] = Tail(kept[c]) /\ Written(file) \o kept[c] = entries
    BY <1>b, <2>2
  <2>7. Append(Written(file), Head(kept[c])) \o Tail(kept[c]) = Written(file) \o kept[c]
    <3> DEFINE s == Written(file)
               k == kept[c]
    <3>1. s \in Seq(Writes) /\ k \in Seq(Writes) /\ k # <<>>
      BY <1>a, <2>2, <2>4, WrittenFacts
    <3> HIDE DEF TypeInv, TypeOK, s, k
    <3>2. Append(s, Head(k)) \o Tail(k) = s \o k
      BY <3>1, ConcatFacts
    <3> QED
      BY <3>2 DEF s, k
  <2>8. Written(file') \o kept'[c] = entries'
    BY <2>2, <2>5, <2>6, <2>7
  <2> QED
    BY <2>2, <2>3, <2>5, <2>8
<1>17. ASSUME NEW c \in Clears, ClearReturn(c) PROVE Goal
  <2>1. /\ cpc[c] = "rewrite" /\ cpc' = [cpc EXCEPT ![c] = "ok"] /\ kept[c] = <<>>
        /\ mu' = "free" /\ UNCHANGED <<entries, file>>
    BY <1>17 DEF ClearReturn, ClearGoto
  <2>2. Written(file) \o <<>> = entries
    BY <1>b, <2>1
  <2>3. Written(file) \o <<>> = Written(file)
    BY <1>a, WrittenFacts, ConcatFacts
  <2>4. \A d \in Clears : cpc'[d] # "rewrite"
    BY <2>1, AppLogAssumption
  <2> QED
    BY <1>b, <2>1, <2>2, <2>3, <2>4
<1>18. ASSUME NEW t \in Tails, Register(t) PROVE Goal
  BY <1>b, <1>18 DEF Register, HandlersFree, writeVars, runVars, clearVars, diskVars
<1>19. ASSUME NEW t \in Tails, TailSend(t) PROVE Goal
  BY <1>b, <1>19 DEF TailSend, writeVars, runVars, clearVars, diskVars
<1>20. ASSUME NEW t \in Tails, Unregister(t) PROVE Goal
  BY <1>b, <1>20 DEF Unregister, HandlersFree, writeVars, runVars, clearVars, diskVars
<1>21. ASSUME CallClose PROVE Goal
  BY <1>b, <1>21 DEF CallClose, CloseGoto, writeVars, runVars, clearVars, tailVars, diskVars
<1>22. ASSUME CloseQueue PROVE Goal
  BY <1>b, <1>22 DEF CloseQueue, CloseGoto, writeVars, runVars, clearVars, tailVars, diskVars
<1>23. ASSUME CloseFile PROVE Goal
  BY <1>b, <1>23 DEF CloseFile, CloseGoto, writeVars, runVars, clearVars, tailVars, diskVars
<1>24. ASSUME Restart PROVE Goal
  <2>1. /\ entries' = Load(file) /\ file' = file /\ mu' = "free"
        /\ \A d \in Clears : cpc'[d] # "rewrite"
    BY <1>24 DEF Restart
  <2>2. Load(file) = Written(file)
    BY <1>a, <1>b, LoadFacts
  <2> QED
    BY <1>b, <2>1, <2>2
<1>25. ASSUME UNCHANGED vars PROVE Goal
  BY <1>b, <1>25 DEF vars, writeVars, runVars, clearVars, tailVars, diskVars
<1> QED
  BY <1>1, <1>2, <1>3, <1>4, <1>5, <1>6, <1>7, <1>8, <1>9, <1>10, <1>11,
     <1>12, <1>13, <1>14, <1>15, <1>16, <1>17, <1>18, <1>19, <1>20, <1>21,
     <1>22, <1>23, <1>24, <1>25 DEF Next, Write, Run, Clear, Close, Finished

\* The file follows the memory in every reachable state.
LEMMA FiledInvariant == Spec => [](TypeInv /\ FiledInv /\ InStepInv)
<1>1. TypeInv /\ FiledInv /\ [Next]_vars => FiledInv'
  BY FiledStep
<1>2. TypeInv /\ FiledInv /\ InStepInv /\ [Next]_vars => InStepInv'
  BY InStepStep
<1> QED
  BY <1>1, <1>2, FiledInit, TypeInvariant, PTL DEF Spec

\* The file is what memory is whenever nobody is at work on it.  After a failure
\* memory may hold entries that a restart does not find: those the failed write
\* was to write, those on the line it left unfinished and the one appended to
\* that line; no other.
THEOREM FileFollowsMemory == Spec => []FileKeepsUp
<1>1. TypeInv /\ FiledInv /\ InStepInv => FileKeepsUp
  <2> SUFFICES ASSUME TypeInv, FiledInv, InStepInv, mu = "free"
               PROVE  /\ NothingFailed => Load(file) = entries
                      /\ \A e \in Elements(entries) \ Elements(Load(file)) :
                            e \in unwritten \/ Torn(e)
    BY DEF FileKeepsUp, NothingFailed
  <2>1. file \in Seq(Chunks)
    BY DEF TypeInv, TypeOK, Chunks
  <2>2. NothingFailed => Load(file) = entries
    BY <2>1, LoadFacts DEF InStepInv
  <2>3. ASSUME NEW e \in Elements(entries) \ Elements(Load(file)), e \notin unwritten
        PROVE  Torn(e)
    <3>1. e \in Elements(Written(file))
      BY <2>3 DEF FiledInv
    <3>2. TornIn(file, e)
      BY <2>1, <2>3, <3>1, LoadFacts
    <3> QED
      BY <3>2 DEF Torn, TornIn
  <2> QED
    BY <2>2, <2>3
<1> QED
  BY <1>1, FiledInvariant, PTL
=============================================================================
