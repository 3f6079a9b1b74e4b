----------------------------- MODULE DataProofs -----------------------------
(***************************************************************************)
(* What the operators on lists and sums return, proved by induction: over  *)
(* the positions of a list, and over finite sets.  The induction is that a *)
(* set of natural numbers has a least element.  Then what calls and        *)
(* returns do to a stack of calls that own packets, and which bucket the   *)
(* weighted round robin selects.                                           *)
(***************************************************************************)
EXTENDS Lists, GroupSelect, Integers, SequencesExt, FiniteSetTheorems,
        SequenceTheorems, WellFoundedInduction, TLAPS

---------------------------------------------------------------------------
\* Lists.

\* Of any natural numbers one is the least: where the loops over the lists stop.
LEMMA LeastNatural ==
    ASSUME NEW T \in SUBSET Nat, T # {}
    PROVE  \E n \in T : \A m \in T : n <= m
<1>1. PICK n \in T : \A m \in T : ~(<<m, n>> \in OpToRel(<, Nat))
  BY WFMin, NatLessThanWellFounded, Zenon
<1>2. \A m \in T : ~(m < n)
  BY <1>1, Zenon DEF OpToRel
<1>3. \A m \in T : n <= m
  BY <1>2
<1> QED
  BY <1>3

\* A loop over a list stops at the first element it looks for, or at the end.
LEMMA FirstPosStops ==
    ASSUME NEW S, NEW s \in Seq(S), NEW E
    PROVE  /\ FirstPos(s, E) \in 1..(Len(s) + 1)
           /\ FirstPos(s, E) <= Len(s) => s[FirstPos(s, E)] \in E
           /\ \A j \in 1..(FirstPos(s, E) - 1) : s[j] \notin E
<1> DEFINE Stops(i) == /\ i <= Len(s) => s[i] \in E
                       /\ \A j \in 1..(i - 1) : s[j] \notin E
           T == {i \in 1..Len(s) : s[i] \in E}
<1>1. Len(s) \in Nat
  OBVIOUS
<1>2. \E i \in 1..(Len(s) + 1) : Stops(i)
  <2>1. CASE T = {}
    <3>1. Stops(Len(s) + 1)
      BY <1>1, <2>1
    <3> QED
      BY <1>1, <3>1
  <2>2. CASE T # {}
    <3>1. T \in SUBSET Nat
      BY <1>1
    <3>2. PICK n \in T : \A m \in T : n <= m
      BY <2>2, <3>1, LeastNatural, Zenon
    <3>3. Stops(n)
      BY <1>1, <3>2
    <3> QED
      BY <1>1, <3>3
  <2> QED
    BY <2>1, <2>2
<1>3. FirstPos(s, E) = CHOOSE i \in 1..(Len(s) + 1) : Stops(i)
  BY DEF FirstPos
<1> HIDE DEF Stops
<1>4. FirstPos(s, E) \in 1..(Len(s) + 1) /\ Stops(FirstPos(s, E))
  BY <1>2, <1>3
<1> QED
  BY <1>4 DEF Stops

\* InsertAt, position by position.
LEMMA InsertAtIs ==
    ASSUME NEW S, NEW s \in Seq(S), NEW x \in S, NEW pos \in 1..(Len(s) + 1)
    PROVE  /\ InsertAt(s, pos, x) \in Seq(S) /\ Len(InsertAt(s, pos, x)) = Len(s) + 1
           /\ \A k \in 1..(pos - 1) : InsertAt(s, pos, x)[k] = s[k]
           /\ InsertAt(s, pos, x)[pos] = x
           /\ \A k \in (pos + 1)..(Len(s) + 1) : InsertAt(s, pos, x)[k] = s[k - 1]
<1> DEFINE a == SubSeq(s, 1, pos - 1)
           b == SubSeq(s, pos, Len(s))
<1>1. a \in Seq(S) /\ Len(a) = pos - 1 /\ \A k \in 1..(pos - 1) : a[k] = s[k]
  OBVIOUS
<1>2. /\ b \in Seq(S) /\ Len(b) = Len(s) - pos + 1
      /\ \A k \in 1..(Len(s) - pos + 1) : b[k] = s[pos + k - 1]
  OBVIOUS
<1>3. InsertAt(s, pos, x) = a \o <<x>> \o b
  BY DEF InsertAt
<1> DEFINE one == <<x>>
           c == a \o one
<1>4. one \in Seq(S) /\ Len(one) = 1 /\ one[1] = x
  OBVIOUS
<1> HIDE DEF a, b, one
<1>5. /\ c \in Seq(S) /\ Len(c) = Len(a) + Len(one)
      /\ \A k \in 1..(Len(a) + Len(one)) :
            c[k] = IF k <= Len(a) THEN a[k] ELSE one[k - Len(a)]
  BY <1>1, <1>4, ConcatProperties, Zenon
<1> HIDE DEF c
<1>6. Len(c) = pos /\ c[pos] = x /\ \A k \in 1..(pos - 1) : c[k] = s[k]
  BY <1>1, <1>4, <1>5
<1>7. /\ c \o b \in Seq(S) /\ Len(c \o b) = Len(c) + Len(b)
      /\ \A k \in 1..(Len(c) + Len(b)) :
            (c \o b)[k] = IF k <= Len(c) THEN c[k] ELSE b[k - Len(c)]
  <2>1. c \in Seq(S) /\ b \in Seq(S)
    BY <1>2, <1>5
  <2> QED
    BY <2>1, ConcatProperties, Zenon
<1> DEFINE d == c \o b
<1>8. InsertAt(s, pos, x) = d
  BY <1>3 DEF c, one
<1> HIDE DEF d
<1>9. d \in Seq(S) /\ Len(d) = Len(s) + 1
  BY <1>2, <1>6, <1>7 DEF d
<1>10. \A k \in 1..pos : d[k] = c[k]
  BY <1>2, <1>6, <1>7 DEF d
<1>11. \A k \in (pos + 1)..(Len(s) + 1) : d[k] = b[k - pos] /\ k - pos \in 1..(Len(s) - pos + 1)
  BY <1>2, <1>6, <1>7 DEF d
<1>12. \A k \in (pos + 1)..(Len(s) + 1) : d[k] = s[k - 1]
  <2> TAKE k \in (pos + 1)..(Len(s) + 1)
  <2>1. d[k] = b[k - pos] /\ b[k - pos] = s[pos + (k - pos) - 1]
    BY <1>2, <1>11
  <2>2. pos + (k - pos) - 1 = k - 1
    OBVIOUS
  <2> QED
    BY <2>1, <2>2
<1> QED
  BY <1>6, <1>8, <1>9, <1>10, <1>12

\* Induction over the first m steps of a loop, for a set of steps.
LEMMA LoopInduction ==
    ASSUME NEW m \in Nat, NEW T, 0 \in T, \A n \in 1..m : n - 1 \in T => n \in T
    PROVE  \A n \in 0..m : n \in T
<1> DEFINE Bad == {n \in 0..m : n \notin T}
<1> SUFFICES ASSUME Bad # {} PROVE FALSE
  OBVIOUS
<1>1. Bad \in SUBSET Nat
  OBVIOUS
<1>2. PICK n \in Bad : \A k \in Bad : n <= k
  BY <1>1, LeastNatural, Zenon
<1>3. n \in 1..m /\ n - 1 \in 0..m /\ n - 1 \notin Bad
  BY <1>2
<1> QED
  BY <1>2, <1>3

\* The lists the loop of Without has built after each step.
WithoutLoop(s, R, m, f) ==
    /\ f = [n \in 0..m |-> f[n]]
    /\ f[0] = <<>>
    /\ \A n \in 1..m : f[n] = IF s[n] \in R THEN f[n - 1] ELSE Append(f[n - 1], s[n])

\* There are such lists,
LEMMA WithoutLoopExists ==
    ASSUME NEW S, NEW s \in Seq(S), NEW R
    PROVE  \E f : WithoutLoop(s, R, Len(s), f)
<1> DEFINE T == {m \in 0..Len(s) : \E f : WithoutLoop(s, R, m, f)}
<1>1. Len(s) \in Nat
  OBVIOUS
<1>2. 0 \in T
  <2>1. WithoutLoop(s, R, 0, [n \in 0..0 |-> <<>>])
    BY DEF WithoutLoop
  <2> QED
    BY <1>1, <2>1
<1>3. ASSUME NEW n \in 1..Len(s), n - 1 \in T
      PROVE  n \in T
  <2>1. PICK f : WithoutLoop(s, R, n - 1, f)
    BY <1>3
  <2> DEFINE last == IF s[n] \in R THEN f[n - 1] ELSE Append(f[n - 1], s[n])
             g == [k \in 0..n |-> IF k = n THEN last ELSE f[k]]
  <2>2. g[n] = last /\ \A k \in 0..(n - 1) : g[k] = f[k]
    BY <1>1
  <2>3. g = [k \in 0..n |-> g[k]]
    OBVIOUS
  <2> HIDE DEF g
  <2>4. \A k \in 1..n : g[k] = IF s[k] \in R THEN g[k - 1] ELSE Append(g[k - 1], s[k])
    <3> TAKE k \in 1..n
    <3>1. CASE k = n
      BY <1>1, <2>2, <3>1
    <3>2. CASE k # n
      <4>1. k \in 1..(n - 1) /\ k - 1 \in 0..(n - 1) /\ k \in 0..(n - 1)
        BY <1>1, <3>2
      <4> QED
        BY <2>1, <2>2, <4>1, Zenon DEF WithoutLoop
    <3> QED
      BY <3>1, <3>2
  <2>5. g[0] = <<>>
    <3>1. f[0] = <<>> /\ 0 \in 0..(n - 1)
      BY <1>1, <2>1 DEF WithoutLoop
    <3> QED
      BY <2>2, <3>1
  <2>6. WithoutLoop(s, R, n, g)
    BY <2>3, <2>4, <2>5, Zenon DEF WithoutLoop
  <2> QED
    BY <2>6
<1>4. \A n \in 1..Len(s) : n - 1 \in T => n \in T
  BY <1>3
<1> HIDE DEF T
<1>5. \A n \in 0..Len(s) : n \in T
  BY <1>1, <1>2, <1>4, LoopInduction, Zenon
<1>6. Len(s) \in T
  BY <1>1, <1>5
<1> QED
  BY <1>6 DEF T

\* and Without is the last of them.
LEMMA WithoutIsLoop ==
    ASSUME NEW S, NEW s \in Seq(S), NEW R
    PROVE  \E f : WithoutLoop(s, R, Len(s), f) /\ Without(s, R) = f[Len(s)]
<1> DEFINE Body(f) == [n \in 0..Len(s) |->
                          IF n = 0 THEN <<>>
                          ELSE IF s[n] \in R THEN f[n - 1] ELSE Append(f[n - 1], s[n])]
           kept == CHOOSE f : f = Body(f)
<1>1. PICK f : WithoutLoop(s, R, Len(s), f)
  BY WithoutLoopExists, Zenon
<1>2. f = Body(f)
  <2>1. f = [n \in 0..Len(s) |-> f[n]]
    BY <1>1 DEF WithoutLoop
  <2>2. ASSUME NEW n \in 0..Len(s)
        PROVE  f[n] = IF n = 0 THEN <<>>
                      ELSE IF s[n] \in R THEN f[n - 1] ELSE Append(f[n - 1], s[n])
    BY <1>1 DEF WithoutLoop
  <2> QED
    BY <2>1, <2>2
<1>3. kept = Body(kept)
  <2> HIDE DEF Body
  <2> QED
    BY <1>2
<1>4. Without(s, R) = kept[Len(s)]
  BY DEF Without
<1> HIDE DEF kept
<1>5. kept = [n \in 0..Len(s) |-> kept[n]]
  BY <1>3
<1>6. ASSUME NEW n \in 0..Len(s)
      PROVE  kept[n] = IF n = 0 THEN <<>>
                       ELSE IF s[n] \in R THEN kept[n - 1] ELSE Append(kept[n - 1], s[n])
  <2> DEFINE g == Body(kept)
  <2>1. g[n] = IF n = 0 THEN <<>>
               ELSE IF s[n] \in R THEN kept[n - 1] ELSE Append(kept[n - 1], s[n])
    OBVIOUS
  <2>2. kept = g
    BY Zenon, <1>3
  <2> HIDE DEF g
  <2> QED
    BY <2>1, <2>2
<1>7. WithoutLoop(s, R, Len(s), kept)
  BY <1>5, <1>6 DEF WithoutLoop
<1> QED
  BY <1>4, <1>7

\* The places in s[1..n] of the elements of t: they go up, and they are the
\* places of the elements that are not in R.
Places(s, R, n, t, h) ==
    /\ h \in [1..Len(t) -> 1..n]
    /\ \A k \in 1..Len(t) : t[k] = s[h[k]] /\ t[k] \notin R
    /\ \A k, l \in 1..Len(t) : k < l => h[k] < h[l]
    /\ \A i \in 1..n : s[i] \notin R => \E k \in 1..Len(t) : h[k] = i

\* Without leaves the elements that are not in R, in the order they had.
LEMMA WithoutPlaces ==
    ASSUME NEW S, NEW s \in Seq(S), NEW R
    PROVE  /\ Without(s, R) \in Seq(S)
           /\ \E h : Places(s, R, Len(s), Without(s, R), h)
<1>1. PICK f : WithoutLoop(s, R, Len(s), f) /\ Without(s, R) = f[Len(s)]
  BY WithoutIsLoop
<1> DEFINE T == {n \in 0..Len(s) : f[n] \in Seq(S) /\ \E h : Places(s, R, n, f[n], h)}
<1>2. Len(s) \in Nat /\ f[0] = <<>>
  BY <1>1 DEF WithoutLoop
<1>3. 0 \in T
  <2>1. Places(s, R, 0, <<>>, [k \in 1..0 |-> 0])
    BY DEF Places
  <2>2. <<>> \in Seq(S) /\ 0 \in 0..Len(s)
    BY <1>2
  <2> QED
    BY <1>2, <2>1, <2>2, Zenon
<1>4. ASSUME NEW n \in 1..Len(s), n - 1 \in T
      PROVE  n \in T
  <2> DEFINE t == f[n - 1]
  <2>1. t \in Seq(S) /\ Len(t) \in Nat
    BY <1>4
  <2>2. PICK h : Places(s, R, n - 1, t, h)
    BY <1>4
  <2>3. f[n] = IF s[n] \in R THEN t ELSE Append(t, s[n])
    BY Zenon, <1>1 DEF WithoutLoop
  <2>4. n \in Nat \ {0} /\ s[n] \in S
    BY <1>2
  <2> HIDE DEF t
  <2>5. CASE s[n] \in R
    <3>1. h \in [1..Len(t) -> 1..n]
      BY <2>1, <2>2, <2>4 DEF Places
    <3>2. \A i \in 1..n : s[i] \notin R => \E k \in 1..Len(t) : h[k] = i
      BY <2>2, <2>4, <2>5 DEF Places
    <3>3. Places(s, R, n, t, h)
      BY <2>2, <3>1, <3>2 DEF Places
    <3> QED
      BY <2>1, <2>3, <2>5, <3>3
  <2>6. CASE s[n] \notin R
    <3> DEFINE u == Append(t, s[n])
               g == [k \in 1..Len(u) |-> IF k = Len(u) THEN n ELSE h[k]]
    <3>1. /\ u \in Seq(S) /\ Len(u) = Len(t) + 1 /\ u[Len(u)] = s[n]
          /\ \A k \in 1..Len(t) : u[k] = t[k]
      BY <2>1, <2>4
    <3> HIDE DEF u
    <3>2. g[Len(u)] = n /\ \A k \in 1..Len(t) : g[k] = h[k] /\ h[k] \in 1..(n - 1)
      BY <2>1, <2>2, <3>1 DEF Places
    <3>3. \A k \in 1..Len(u) : k \in 1..Len(t) \/ k = Len(u)
      BY <2>1, <3>1
    <3>4. g \in [1..Len(u) -> 1..n]
      <4>1. \A k \in 1..Len(u) : g[k] \in 1..n
        <5> HIDE DEF g
        <5> QED
          BY <2>1, <2>4, <3>2, <3>3
      <4> QED
        BY <4>1
    <3> HIDE DEF g
    <3>5. ASSUME NEW k \in 1..Len(u)
          PROVE  u[k] = s[g[k]] /\ u[k] \notin R
      <4>1. CASE k = Len(u)
        BY <2>6, <3>1, <3>2, <4>1
      <4>2. CASE k \in 1..Len(t)
        <5>1. u[k] = t[k] /\ g[k] = h[k] /\ t[k] = s[h[k]] /\ t[k] \notin R
          BY <2>2, <3>1, <3>2, <4>2 DEF Places
        <5> QED
          BY <5>1
      <4> QED
        BY <3>3, <4>1, <4>2
    <3>6. ASSUME NEW k \in 1..Len(u), NEW l \in 1..Len(u), k < l
          PROVE  g[k] < g[l]
      <4>1. k \in 1..Len(t) /\ g[k] = h[k] /\ h[k] \in 1..(n - 1)
        BY <2>1, <3>1, <3>2, <3>6
      <4>2. CASE l = Len(u)
        BY <2>4, <3>2, <4>1, <4>2
      <4>3. CASE l \in 1..Len(t)
        BY <2>2, <3>2, <3>6, <4>1, <4>3 DEF Places
      <4> QED
        BY <3>3, <4>2, <4>3
    <3>7. \A i \in 1..n : s[i] \notin R => \E k \in 1..Len(u) : g[k] = i
      <4> TAKE i \in 1..n
      <4> HAVE s[i] \notin R
      <4>1. CASE i = n
        BY <2>1, <3>1, <3>2, <4>1
      <4>2. CASE i # n
        <5>1. PICK k \in 1..Len(t) : h[k] = i
          BY <2>2, <2>4, <4>2 DEF Places
        <5>2. k \in 1..Len(u) /\ g[k] = i
          BY <2>1, <3>1, <3>2, <5>1
        <5> QED
          BY <5>2
      <4> QED
        BY <4>1, <4>2
    <3>8. Places(s, R, n, u, g)
      BY <3>4, <3>5, <3>6, <3>7 DEF Places
    <3>9. f[n] = u
      BY <2>3, <2>6 DEF u
    <3>10. n \in 0..Len(s)
      BY <1>2
    <3> QED
      BY <3>1, <3>8, <3>9, <3>10
  <2> QED
    BY <2>5, <2>6
<1>5. \A n \in 1..Len(s) : n - 1 \in T => n \in T
  BY Zenon, <1>4
<1> HIDE DEF T
<1>6. \A n \in 0..Len(s) : n \in T
  BY <1>2, <1>3, <1>5, LoopInduction, Zenon
<1>7. Len(s) \in T
  BY <1>2, <1>6
<1> QED
  BY <1>1, <1>7, Zenon DEF T

---------------------------------------------------------------------------
\* What the operations on a list of different elements keep.

\* Elements of both lists are in the same order.
OrderKept(s, t) ==
    \A i, j \in 1..Len(s) : \A k, l \in 1..Len(t) :
        i < j /\ t[k] = s[i] /\ t[l] = s[j] => k < l

\* Removing elements keeps the others, in their order.
LEMMA WithoutKeeps ==
    ASSUME NEW S, NEW s \in Seq(S), IsInjective(s), NEW R
    PROVE  /\ Without(s, R) \in Seq(S) /\ IsInjective(Without(s, R))
           /\ ToSet(Without(s, R)) = ToSet(s) \ R
           /\ OrderKept(s, Without(s, R))
<1> DEFINE t == Without(s, R)
<1>1. t \in Seq(S) /\ DOMAIN t = 1..Len(t) /\ Len(t) \in Nat
  BY WithoutPlaces
<1>2. PICK h : Places(s, R, Len(s), t, h)
  BY WithoutPlaces
<1>3. DOMAIN s = 1..Len(s) /\ Len(s) \in Nat
  OBVIOUS
<1> HIDE DEF t
<1>4. \A k \in 1..Len(t) : h[k] \in 1..Len(s) /\ h[k] \in Nat
  BY <1>2, <1>3 DEF Places
<1>5. IsInjective(t)
  <2> SUFFICES ASSUME NEW k \in 1..Len(t), NEW l \in 1..Len(t), t[k] = t[l], k # l
               PROVE  FALSE
    BY <1>1 DEF IsInjective
  <2>1. h[k] = h[l]
    BY <1>2, <1>3, <1>4 DEF Places, IsInjective
  <2>2. h[k] < h[l] \/ h[l] < h[k]
    BY <1>1, <1>2 DEF Places
  <2> QED
    BY <1>4, <2>1, <2>2
<1>6. ToSet(t) = ToSet(s) \ R
  <2>1. ASSUME NEW k \in 1..Len(t) PROVE t[k] \in ToSet(s) \ R
    BY <1>2, <1>3, <1>4 DEF Places, ToSet
  <2>2. ASSUME NEW i \in 1..Len(s), s[i] \notin R PROVE \E k \in 1..Len(t) : t[k] = s[i]
    <3>1. PICK k \in 1..Len(t) : h[k] = i
      BY <1>2, <2>2, Zenon DEF Places
    <3>2. t[k] = s[h[k]]
      BY <1>2, Zenon DEF Places
    <3> QED
      BY <3>1, <3>2
  <2> QED
    BY <1>1, <1>3, <2>1, <2>2, Zenon DEF ToSet
<1>7. OrderKept(s, t)
  <2> SUFFICES ASSUME NEW i \in 1..Len(s), NEW j \in 1..Len(s), i < j,
                      NEW k \in 1..Len(t), NEW l \in 1..Len(t), t[k] = s[i], t[l] = s[j]
               PROVE  k < l
    BY DEF OrderKept
  <2>1. h[k] = i /\ h[l] = j
    BY <1>2, <1>3, <1>4 DEF Places, IsInjective
  <2>2. l < k => h[l] < h[k]
    BY <1>1, <1>2 DEF Places
  <2>3. ~(h[l] < h[k]) /\ k # l
    BY <1>3, <2>1
  <2> QED
    BY <1>1, <2>2, <2>3
<1> QED
  BY <1>1, <1>5, <1>6, <1>7 DEF t

\* Inserting an element keeps the others, in their order.
LEMMA InsertAtKeeps ==
    ASSUME NEW S, NEW s \in Seq(S), IsInjective(s), NEW x \in S, x \notin ToSet(s),
           NEW pos \in 1..(Len(s) + 1)
    PROVE  /\ IsInjective(InsertAt(s, pos, x))
           /\ ToSet(InsertAt(s, pos, x)) = ToSet(s) \cup {x}
           /\ OrderKept(s, InsertAt(s, pos, x))
<1> DEFINE t == InsertAt(s, pos, x)
           place(k) == IF k < pos THEN k ELSE k - 1
<1>1. /\ DOMAIN s = 1..Len(s) /\ Len(s) \in Nat /\ DOMAIN t = 1..(Len(s) + 1)
      /\ Len(t) = Len(s) + 1 /\ t[pos] = x
      /\ \A k \in 1..(pos - 1) : t[k] = s[k]
      /\ \A k \in (pos + 1)..(Len(s) + 1) : t[k] = s[k - 1]
  BY InsertAtIs
<1> HIDE DEF t
\* every place but pos has an element of s, from the same place or the one before
<1>2. \A k \in 1..Len(t) : k # pos => place(k) \in 1..Len(s) /\ t[k] = s[place(k)]
  <2> TAKE k \in 1..Len(t)
  <2>1. CASE k < pos
    BY <1>1, <2>1
  <2>2. CASE k > pos
    BY <1>1, <2>2
  <2> QED
    BY <1>1, <2>1, <2>2
<1>3. \A i \in 1..Len(s) : s[i] # x
  BY <1>1 DEF ToSet
<1>4. IsInjective(t)
  <2> SUFFICES ASSUME NEW k \in 1..Len(t), NEW l \in 1..Len(t), t[k] = t[l]
               PROVE  k = l
    BY <1>1 DEF IsInjective
  <2>1. CASE k # pos /\ l # pos
    <3>1. s[place(k)] = s[place(l)] /\ place(k) \in DOMAIN s /\ place(l) \in DOMAIN s
      <4> HIDE DEF place
      <4> QED
        BY <1>1, <1>2, <2>1
    <3>2. place(k) = place(l)
      <4> HIDE DEF place
      <4> QED
        BY <3>1 DEF IsInjective
    <3> QED
      BY <1>1, <2>1, <3>2
  <2>2. CASE k = pos \/ l = pos
    <3> HIDE DEF place
    <3> QED
      BY <1>1, <1>2, <1>3, <2>2
  <2> QED
    BY <2>1, <2>2
<1>5. ToSet(t) = ToSet(s) \cup {x}
  <2>1. \A k \in 1..Len(t) : t[k] \in ToSet(s) \cup {x}
    BY <1>1, <1>2 DEF ToSet
  <2>2. ASSUME NEW i \in 1..Len(s) PROVE \E k \in 1..Len(t) : t[k] = s[i]
    <3>1. CASE i < pos
      BY <1>1, <3>1
    <3>2. CASE i >= pos
      <4>1. i + 1 \in (pos + 1)..(Len(s) + 1) /\ i + 1 \in 1..Len(t) /\ t[i + 1] = s[i]
        BY <1>1, <3>2
      <4> QED
        BY <4>1
    <3> QED
      BY <1>1, <3>1, <3>2
  <2>3. \E k \in 1..Len(t) : t[k] = x
    BY <1>1
  <2>4. DOMAIN t = 1..Len(t)
    BY <1>1
  <2>5. ToSet(t) \subseteq ToSet(s) \cup {x}
    BY <2>1, <2>4 DEF ToSet
  <2>6. ToSet(s) \cup {x} \subseteq ToSet(t)
    BY <1>1, <2>2, <2>3, <2>4 DEF ToSet
  <2> QED
    BY <2>5, <2>6
<1>6. OrderKept(s, t)
  <2> SUFFICES ASSUME NEW i \in 1..Len(s), NEW j \in 1..Len(s), i < j,
                      NEW k \in 1..Len(t), NEW l \in 1..Len(t), t[k] = s[i], t[l] = s[j]
               PROVE  k < l
    BY DEF OrderKept
  <2>1. k # pos /\ l # pos
    BY <1>1, <1>3
  <2>2. place(k) = i /\ place(l) = j
    <3> HIDE DEF place
    <3> QED
      BY <1>1, <1>2, <2>1 DEF IsInjective
  <2> QED
    BY <1>1, <2>1, <2>2
<1> QED
  BY <1>4, <1>5, <1>6 DEF t

\* Replacing an element keeps the others, in their order.
LEMMA ReplaceAtKeeps ==
    ASSUME NEW S, NEW s \in Seq(S), IsInjective(s), NEW x \in S, x \notin ToSet(s),
           NEW pos \in 1..Len(s)
    PROVE  /\ ReplaceAt(s, pos, x) \in Seq(S) /\ Len(ReplaceAt(s, pos, x)) = Len(s)
           /\ IsInjective(ReplaceAt(s, pos, x))
           /\ ToSet(ReplaceAt(s, pos, x)) = (ToSet(s) \ {s[pos]}) \cup {x}
           /\ OrderKept(s, ReplaceAt(s, pos, x))
<1> DEFINE t == ReplaceAt(s, pos, x)
<1>1. /\ DOMAIN s = 1..Len(s) /\ Len(s) \in Nat /\ DOMAIN t = 1..Len(s)
      /\ t \in Seq(S) /\ Len(t) = Len(s) /\ t[pos] = x
      /\ \A k \in 1..Len(s) : k # pos => t[k] = s[k]
  BY DEF ReplaceAt
<1> HIDE DEF t
<1>2. \A i \in 1..Len(s) : s[i] # x
  BY <1>1 DEF ToSet
<1>3. IsInjective(t)
  BY <1>1, <1>2 DEF IsInjective
<1>4. ToSet(t) = (ToSet(s) \ {s[pos]}) \cup {x}
  BY <1>1 DEF ToSet, IsInjective
<1>5. OrderKept(s, t)
  BY <1>1, <1>2 DEF OrderKept, IsInjective
<1> QED
  BY <1>1, <1>3, <1>4, <1>5 DEF t

\* A list of different elements is as long as they are many.
LEMMA LenIsCardinality ==
    ASSUME NEW S, NEW s \in Seq(S), IsInjective(s)
    PROVE  IsFiniteSet(ToSet(s)) /\ Cardinality(ToSet(s)) = Len(s)
<1>1. s \in Bijection(1..Len(s), ToSet(s))
  BY DEF IsInjective, ToSet, Bijection, Injection, Surjection
<1>2. ExistsBijection(1..Len(s), ToSet(s)) /\ Len(s) \in Nat
  BY <1>1 DEF ExistsBijection
<1> QED
  BY <1>2, FS_CountingElements, FS_NatBijection

\* Two elements of t that were in s were in the same order there.
LEMMA OrderBefore ==
    ASSUME NEW S, NEW s \in Seq(S), NEW t \in Seq(S), IsInjective(t), OrderKept(s, t),
           NEW k \in 1..Len(t), NEW l \in 1..Len(t), k < l,
           t[k] \in ToSet(s), t[l] \in ToSet(s)
    PROVE  \E i, j \in 1..Len(s) : i < j /\ s[i] = t[k] /\ s[j] = t[l]
<1>1. PICK i \in 1..Len(s), j \in 1..Len(s) : s[i] = t[k] /\ s[j] = t[l]
  BY DEF ToSet
<1>2. t[k] # t[l]
  BY DEF IsInjective
<1>3. ~(j < i)
  BY <1>1 DEF OrderKept
<1> QED
  BY <1>1, <1>2, <1>3

\* A set without two different elements has at most one.
LEMMA AtMostOne ==
    ASSUME NEW S, \A x, y \in S : x = y
    PROVE  Cardinality(S) <= 1
<1>1. CASE S = {}
  BY <1>1, FS_EmptySet
<1>2. ASSUME NEW x \in S PROVE Cardinality(S) <= 1
  <2>1. S = {x}
    BY <1>2
  <2> QED
    BY <2>1, FS_Singleton
<1> QED
  BY <1>1, <1>2

---------------------------------------------------------------------------
\* Sums.  The library adds up a function over a finite set one element at a
\* time, in an order of its own.

\* The element that is added next,
Pick(s) == CHOOSE x \in s : TRUE

\* and g holds the sums of f over the sets of C.
Sums(g, f, C) ==
    \A s \in C : g[s] = IF s = {} THEN 0 ELSE f[Pick(s)] + g[s \ {Pick(s)}]

\* The sets of the induction: up to n elements.
UpTo(D, n) == {s \in SUBSET D : Cardinality(s) <= n}

\* A set without one of its elements is smaller.
LEMMA OneLess ==
    ASSUME NEW D, IsFiniteSet(D), NEW s \in SUBSET D, NEW x \in s
    PROVE  /\ Cardinality(s) \in Nat \ {0} /\ s \ {x} \in SUBSET D
           /\ Cardinality(s \ {x}) = Cardinality(s) - 1
<1>1. IsFiniteSet(s) /\ Cardinality(s) \in Nat
  BY FS_Subset, FS_CardinalityType
<1>2. Cardinality(s \ {x}) = Cardinality(s) - 1 /\ IsFiniteSet(s \ {x})
  BY <1>1, FS_RemoveElement
<1>3. Cardinality(s \ {x}) \in Nat
  BY <1>2, FS_CardinalityType
<1> QED
  BY <1>1, <1>2, <1>3

\* The empty set is the only one without elements.
LEMMA NoneLess ==
    ASSUME NEW D, IsFiniteSet(D), NEW s \in SUBSET D, Cardinality(s) <= 0
    PROVE  s = {}
<1>1. IsFiniteSet(s) /\ Cardinality(s) \in Nat
  BY FS_Subset, FS_CardinalityType
<1>2. Cardinality(s) = 0
  BY <1>1
<1> QED
  BY <1>1, <1>2, FS_EmptySet

\* There are such sums,
LEMMA SumsExist ==
    ASSUME NEW D, IsFiniteSet(D), NEW f \in [D -> Int]
    PROVE  \E g \in [SUBSET D -> Int] : Sums(g, f, SUBSET D)
<1> DEFINE m == Cardinality(D)
           T == {n \in Nat : \E g \in [SUBSET D -> Int] : Sums(g, f, UpTo(D, n))}
<1>1. m \in Nat
  BY FS_CardinalityType
<1>2. 0 \in T
  <2> DEFINE g == [s \in SUBSET D |-> 0]
  <2>1. \A s \in UpTo(D, 0) : s = {}
    BY NoneLess, Zenon DEF UpTo
  <2>2. Sums(g, f, UpTo(D, 0))
    BY <2>1 DEF Sums, UpTo
  <2>3. g \in [SUBSET D -> Int] /\ 0 \in Nat
    OBVIOUS
  <2> HIDE DEF g
  <2> QED
    BY <2>2, <2>3
<1>3. ASSUME NEW n \in 1..m, n - 1 \in T
      PROVE  n \in T
  <2>1. PICK g \in [SUBSET D -> Int] : Sums(g, f, UpTo(D, n - 1))
    BY <1>3
  <2> DEFINE h == [s \in SUBSET D |->
                      IF s = {} THEN 0 ELSE f[Pick(s)] + g[s \ {Pick(s)}]]
  <2>2. ASSUME NEW s \in SUBSET D, s # {}
        PROVE  Pick(s) \in s /\ Pick(s) \in D /\ s \ {Pick(s)} \in SUBSET D
    BY <2>2 DEF Pick
  <2>3. h \in [SUBSET D -> Int]
    BY <2>2
  <2>4. ASSUME NEW s \in UpTo(D, n - 1)
        PROVE  h[s] = g[s]
    <3>1. s \in SUBSET D /\ g[s] = IF s = {} THEN 0 ELSE f[Pick(s)] + g[s \ {Pick(s)}]
      BY <2>1, Zenon DEF Sums, UpTo
    <3> QED
      BY <3>1
  <2>5. ASSUME NEW s \in UpTo(D, n), s # {}
        PROVE  s \ {Pick(s)} \in UpTo(D, n - 1)
    <3>1. s \in SUBSET D /\ Cardinality(s) <= n
      BY DEF UpTo
    <3>2. Pick(s) \in s
      BY <2>2, <2>5, <3>1
    <3>3. /\ Cardinality(s) \in Nat \ {0} /\ s \ {Pick(s)} \in SUBSET D
          /\ Cardinality(s \ {Pick(s)}) = Cardinality(s) - 1
      BY <3>1, <3>2, OneLess
    <3> QED
      BY <1>1, <3>1, <3>3 DEF UpTo
  <2>6. Sums(h, f, UpTo(D, n))
    <3> SUFFICES ASSUME NEW s \in UpTo(D, n)
                 PROVE  h[s] = IF s = {} THEN 0 ELSE f[Pick(s)] + h[s \ {Pick(s)}]
      BY Zenon DEF Sums
    <3>1. h[s] = IF s = {} THEN 0 ELSE f[Pick(s)] + g[s \ {Pick(s)}]
      BY DEF UpTo
    <3> HIDE DEF h
    <3> QED
      BY <2>4, <2>5, <3>1
  <2> HIDE DEF h
  <2>7. n \in Nat
    BY <1>1
  <2> QED
    BY <2>3, <2>6, <2>7
<1>4. \A n \in 1..m : n - 1 \in T => n \in T
  BY Zenon, <1>3
<1> HIDE DEF T, m
<1>5. \A n \in 0..m : n \in T
  BY <1>1, <1>2, <1>4, LoopInduction, Zenon
<1>6. m \in T
  BY <1>1, <1>5
<1>7. ASSUME NEW s \in SUBSET D PROVE s \in UpTo(D, m)
  BY FS_Subset, FS_CardinalityType DEF UpTo, m
<1>8. PICK g \in [SUBSET D -> Int] : Sums(g, f, UpTo(D, m))
  BY Zenon, <1>6 DEF T
<1>9. Sums(g, f, SUBSET D)
  BY <1>7, <1>8, Zenon DEF Sums
<1> QED
  BY <1>9

\* and the library's recursive function is one of them.
LEMMA SumIsSums ==
    ASSUME NEW D, IsFiniteSet(D), NEW f \in [D -> Int]
    PROVE  \E g : Sums(g, f, SUBSET D) /\ SumFunction(f) = g[D]
<1> DEFINE Body(g) == [s \in SUBSET D |->
                          IF s = {} THEN 0
                          ELSE f[CHOOSE x \in s : TRUE] + g[s \ {CHOOSE x \in s : TRUE}]]
           iter == CHOOSE g : g = Body(g)
<1>1. PICK g \in [SUBSET D -> Int] : Sums(g, f, SUBSET D)
  BY Zenon, SumsExist
<1>2. g = Body(g)
  <2>1. ASSUME NEW s \in SUBSET D PROVE g[s] = Body(g)[s]
    BY <1>1 DEF Sums, Pick
  <2>2. DOMAIN Body(g) = SUBSET D /\ DOMAIN g = SUBSET D
    OBVIOUS
  <2>3. g = [s \in SUBSET D |-> g[s]]
    OBVIOUS
  <2> QED
    BY Zenon, <2>1, <2>2, <2>3
<1>3. iter = Body(iter)
  <2> HIDE DEF Body
  <2> QED
    BY <1>2
<1>4. SumFunction(f) = iter[D]
  <2>1. DOMAIN f = D
    OBVIOUS
  <2> QED
    BY <2>1 DEF SumFunction, SumFunctionOnSet, FoldFunctionOnSet, MapThenFoldSet
<1> HIDE DEF iter
<1>5. ASSUME NEW s \in SUBSET D
      PROVE  iter[s] = IF s = {} THEN 0 ELSE f[Pick(s)] + iter[s \ {Pick(s)}]
  <2> DEFINE b == Body(iter)
  <2>1. b[s] = IF s = {} THEN 0 ELSE f[Pick(s)] + iter[s \ {Pick(s)}]
    BY DEF Pick
  <2>2. iter = b
    BY <1>3
  <2> HIDE DEF b
  <2> QED
    BY <2>1, <2>2
<1>6. Sums(iter, f, SUBSET D)
  BY Zenon, <1>5 DEF Sums
<1> QED
  BY <1>4, <1>6

\* Whichever element is added last,
Splits(g, f, s) == g[s] \in Int /\ \A x \in s : g[s] = f[x] + g[s \ {x}]

\* the sum is the same.
LEMMA SumsSplit ==
    ASSUME NEW D, IsFiniteSet(D), NEW f \in [D -> Int], NEW g, Sums(g, f, SUBSET D)
    PROVE  \A s \in SUBSET D : Splits(g, f, s)
<1> DEFINE m == Cardinality(D)
           Good(s) == Splits(g, f, s)
           T == {n \in Nat : \A s \in UpTo(D, n) : Good(s)}
<1>1. m \in Nat
  BY FS_CardinalityType
<1>2. 0 \in T
  <2>1. \A s \in UpTo(D, 0) : s = {}
    BY NoneLess, Zenon DEF UpTo
  <2>2. g[{}] = 0
    BY Zenon DEF Sums
  <2>3. Good({}) /\ 0 \in Nat
    BY <2>2 DEF Splits
  <2> HIDE DEF Good
  <2> QED
    BY <2>1, <2>3
<1>3. ASSUME NEW n \in 1..m, n - 1 \in T
      PROVE  n \in T
  <2>1. \A s \in UpTo(D, n - 1) : Good(s)
    BY <1>3
  <2>2. ASSUME NEW s \in UpTo(D, n), NEW x \in s
        PROVE  s \ {x} \in UpTo(D, n - 1) /\ x \in D
    <3>1. s \in SUBSET D /\ Cardinality(s) <= n
      BY DEF UpTo
    <3>2. /\ Cardinality(s) \in Nat \ {0} /\ s \ {x} \in SUBSET D
          /\ Cardinality(s \ {x}) = Cardinality(s) - 1
      BY <3>1, OneLess
    <3> QED
      BY <1>1, <3>1, <3>2 DEF UpTo
  <2>3. ASSUME NEW s \in UpTo(D, n)
        PROVE  Good(s)
    <3> DEFINE p == Pick(s)
    <3>1. g[s] = IF s = {} THEN 0 ELSE f[p] + g[s \ {p}]
      BY DEF Sums, UpTo
    <3>2. CASE s = {}
      BY <3>1, <3>2 DEF Splits
    <3>3. CASE s # {}
      <4>1. p \in s
        BY <3>3 DEF Pick
      <4> HIDE DEF p
      <4>2. s \ {p} \in UpTo(D, n - 1) /\ p \in D
        BY <2>2, <4>1
      <4>3. g[s \ {p}] \in Int /\ g[s] = f[p] + g[s \ {p}] /\ g[s] \in Int
        BY <2>1, <3>1, <3>3, <4>2 DEF Splits
      <4>4. ASSUME NEW x \in s, x # p
            PROVE  g[s] = f[x] + g[s \ {x}]
        <5>1. s \ {x} \in UpTo(D, n - 1) /\ x \in D
          BY <2>2
        <5>2. x \in s \ {p} /\ p \in s \ {x}
          BY <4>1, <4>4
        <5>3. (s \ {p}) \ {x} = (s \ {x}) \ {p}
          OBVIOUS
        <5>4. g[s \ {p}] = f[x] + g[(s \ {p}) \ {x}]
          BY <2>1, <4>2, <5>2 DEF Splits
        <5>5. g[s \ {x}] = f[p] + g[(s \ {x}) \ {p}] /\ g[s \ {x}] \in Int
          BY <2>1, <5>1, <5>2 DEF Splits
        <5> DEFINE r == g[(s \ {p}) \ {x}]
        <5>6. r \in Int
          <6>1. (s \ {p}) \ {x} \in UpTo(D, n - 1)
            <7>1. s \ {p} \in UpTo(D, n)
              BY <1>1, <4>2, FS_Subset, FS_CardinalityType DEF UpTo
            <7> QED
              BY <2>2, <5>2, <7>1
          <6> QED
            BY <2>1, <6>1 DEF Splits
        <5>7. f[p] \in Int /\ f[x] \in Int
          BY <4>2, <5>1
        <5> HIDE DEF r
        <5>8. g[s \ {p}] = f[x] + r /\ g[s \ {x}] = f[p] + r
          BY Zenon, <5>3, <5>4, <5>5 DEF r
        <5> QED
          BY <4>3, <5>6, <5>7, <5>8
      <4> QED
        BY Zenon, <4>3, <4>4 DEF Splits
    <3> QED
      BY <3>2, <3>3
  <2>4. n \in Nat
    BY <1>1
  <2> HIDE DEF Good
  <2> QED
    BY <2>3, <2>4
<1>4. \A n \in 1..m : n - 1 \in T => n \in T
  BY <1>3
<1> HIDE DEF T, m
<1>5. \A n \in 0..m : n \in T
  BY <1>1, <1>2, <1>4, LoopInduction, Zenon
<1>6. m \in T
  BY <1>1, <1>5
<1>7. ASSUME NEW s \in SUBSET D PROVE s \in UpTo(D, m)
  BY FS_Subset, FS_CardinalityType DEF UpTo, m
<1>8. \A s \in SUBSET D : Good(s)
  <2> HIDE DEF Good
  <2> QED
    BY <1>6, <1>7 DEF T
<1> QED
  BY <1>8

\* Two functions that agree on a set
Agree(h, f, E) == \A x \in E : h[x] = f[x]

\* have the same sums over its subsets.
LEMMA SumsAgree ==
    ASSUME NEW D, IsFiniteSet(D), NEW E \in SUBSET D,
           NEW f, NEW h, Agree(h, f, E),
           NEW g, Sums(g, f, SUBSET D), NEW k, Sums(k, h, SUBSET E)
    PROVE  Agree(k, g, SUBSET E)
<1> DEFINE m == Cardinality(E)
           T == {n \in Nat : \A s \in UpTo(E, n) : k[s] = g[s]}
<1>0. IsFiniteSet(E)
  BY FS_Subset
<1>1. m \in Nat
  BY <1>0, FS_CardinalityType
<1>2. 0 \in T
  <2>1. \A s \in UpTo(E, 0) : s = {}
    BY <1>0, NoneLess, Zenon DEF UpTo
  <2>2. g[{}] = 0 /\ k[{}] = 0
    BY DEF Sums
  <2> QED
    BY <2>1, <2>2
<1>3. ASSUME NEW n \in 1..m, n - 1 \in T
      PROVE  n \in T
  <2>1. \A s \in UpTo(E, n - 1) : k[s] = g[s]
    BY <1>3
  <2>2. ASSUME NEW s \in UpTo(E, n)
        PROVE  k[s] = g[s]
    <3> DEFINE p == Pick(s)
    <3>0. s \in SUBSET E /\ s \in SUBSET D /\ Cardinality(s) <= n
      BY DEF UpTo
    <3>1. /\ g[s] = IF s = {} THEN 0 ELSE f[p] + g[s \ {p}]
          /\ k[s] = IF s = {} THEN 0 ELSE h[p] + k[s \ {p}]
      BY <3>0 DEF Sums
    <3>2. CASE s = {}
      BY <3>1, <3>2
    <3>3. CASE s # {}
      <4>1. p \in s
        BY <3>3 DEF Pick
      <4> HIDE DEF p
      <4>2. /\ Cardinality(s) \in Nat \ {0} /\ s \ {p} \in SUBSET E
            /\ Cardinality(s \ {p}) = Cardinality(s) - 1
        BY <1>0, <3>0, <4>1, OneLess
      <4>3. s \ {p} \in UpTo(E, n - 1)
        BY <1>1, <3>0, <4>2 DEF UpTo
      <4>4. k[s \ {p}] = g[s \ {p}] /\ h[p] = f[p]
        BY <2>1, <3>0, <4>1, <4>3 DEF Agree
      <4> QED
        BY <3>1, <3>3, <4>4
    <3> QED
      BY <3>2, <3>3
  <2>3. n \in Nat
    BY <1>1
  <2> QED
    BY <2>2, <2>3
<1>4. \A n \in 1..m : n - 1 \in T => n \in T
  BY <1>3
<1> HIDE DEF T, m
<1>5. \A n \in 0..m : n \in T
  BY <1>1, <1>2, <1>4, LoopInduction, Zenon
<1>6. m \in T
  BY <1>1, <1>5
<1>7. ASSUME NEW s \in SUBSET E PROVE s \in UpTo(E, m)
  BY <1>0, FS_Subset, FS_CardinalityType DEF UpTo, m
<1> QED
  BY <1>6, <1>7 DEF T, Agree

\* The sum of nothing is 0,
LEMMA SumOfNone ==
    ASSUME NEW f \in [{} -> Int]
    PROVE  SumFunction(f) = 0
<1>1. IsFiniteSet({})
  BY FS_EmptySet
<1>2. PICK g : Sums(g, f, SUBSET {}) /\ SumFunction(f) = g[{}]
  BY Zenon, <1>1, SumIsSums
<1> QED
  BY Zenon, <1>2 DEF Sums

\* and any element can be taken out of a sum.
LEMMA SumWithout ==
    ASSUME NEW D, IsFiniteSet(D), NEW f \in [D -> Int], NEW x \in D,
           NEW h \in [D \ {x} -> Int], Agree(h, f, D \ {x})
    PROVE  /\ SumFunction(f) \in Int /\ SumFunction(h) \in Int
           /\ SumFunction(f) = SumFunction(h) + f[x]
<1> DEFINE E == D \ {x}
<1>1. IsFiniteSet(E) /\ E \in SUBSET D
  BY FS_Subset
<1>2. PICK g : Sums(g, f, SUBSET D) /\ SumFunction(f) = g[D]
  BY SumIsSums
<1>3. PICK k : Sums(k, h, SUBSET E) /\ SumFunction(h) = k[E]
  BY Zenon, <1>1, SumIsSums
<1>4. Agree(k, g, SUBSET E)
  <2>1. Agree(h, f, E)
    OBVIOUS
  <2>2. Sums(g, f, SUBSET D) /\ Sums(k, h, SUBSET E)
    BY <1>2, <1>3
  <2> HIDE DEF E
  <2> QED
    BY <1>1, <2>1, <2>2, SumsAgree, Zenon
<1>5. \A s \in SUBSET D : Splits(g, f, s)
  BY <1>2, SumsSplit
<1>6. g[D] = f[x] + g[E] /\ g[D] \in Int /\ g[E] \in Int
  BY Zenon, <1>1, <1>5 DEF Splits
<1>7. f[x] \in Int /\ k[E] = g[E]
  BY <1>4 DEF Agree
<1> HIDE DEF E
<1> QED
  BY <1>2, <1>3, <1>6, <1>7

---------------------------------------------------------------------------
\* Folds over lists.  The library applies an operator to the elements of a list
\* from the first to the last: a set of positions is folded by folding all but
\* the greatest of them first.

\* The least of a set of numbers.
LEMMA MinIs ==
    ASSUME NEW S \in SUBSET Nat, S # {}
    PROVE  Min(S) \in S /\ \A y \in S : Min(S) <= y
<1>1. \E x \in S : \A y \in S : x <= y
  BY LeastNatural, Zenon
<1> QED
  BY Zenon, <1>1 DEF Min

\* The greatest of a set of positions.
LEMMA MaxIs ==
    ASSUME NEW m \in Nat, NEW s \in SUBSET (1..m), s # {}
    PROVE  Max(s) \in s /\ \A y \in s : Max(s) >= y
<1> DEFINE T == {m - x : x \in s}
<1>1. T \in SUBSET Nat /\ T # {}
  <2>1. \A x \in s : m - x \in Nat
    OBVIOUS
  <2> QED
    BY Zenon, <2>1
<1>2. PICK n \in T : \A k \in T : n <= k
  BY <1>1, LeastNatural, Zenon
<1>3. PICK x \in s : n = m - x
  BY <1>2
<1>4. \A y \in s : x >= y
  BY <1>2, <1>3
<1> QED
  BY Zenon, <1>4 DEF Max

\* The sets of positions with those that are folded before the last
LEMMA BeforeLast ==
    ASSUME NEW n \in Nat, NEW s \in SUBSET (1..n), s # {}
    PROVE  Max(s) \in 1..n /\ s \ {Max(s)} \in SUBSET (1..(n - 1))
<1>1. Max(s) \in s /\ \A y \in s : Max(s) >= y
  BY MaxIs
<1>2. \A y \in s \ {Max(s)} : y \in 1..(n - 1)
  <2> DEFINE x == Max(s)
  <2>1. x \in 1..n /\ \A y \in s : x >= y
    BY Zenon, <1>1
  <2> HIDE DEF x
  <2>2. \A y \in s \ {x} : y \in 1..(n - 1)
    BY <2>1
  <2> QED
    BY <2>2 DEF x
<1> QED
  BY Zenon, <1>1, <1>2

\* The function g folds the places of seq with F, the last place first.
IsFold(g, F, base, seq) ==
    \A s \in SUBSET (1..Len(seq)) :
       g[s] = IF s = {} THEN base ELSE F[<<g[s \ {Max(s)}], seq[Max(s)]>>]

\* There is a function that folds.
LEMMA FoldExists ==
    ASSUME NEW X, NEW Y, NEW F \in [X \X Y -> X], NEW base \in X, NEW seq \in Seq(Y)
    PROVE  \E g \in [SUBSET (1..Len(seq)) -> X] : IsFold(g, F, base, seq)
<1> DEFINE m == Len(seq)
           P == SUBSET (1..m)
           next(g, s) == IF s = {} THEN base ELSE F[<<g[s \ {Max(s)}], seq[Max(s)]>>]
           T == {n \in 0..m : \E g \in [P -> X] : \A s \in SUBSET (1..n) : g[s] = next(g, s)}
<1>1. m \in Nat /\ \A i \in 1..m : seq[i] \in Y
  OBVIOUS
<1>2. 0 \in T
  <2> DEFINE g == [s \in P |-> base]
  <2>1. g \in [P -> X] /\ 0 \in 0..m
    BY <1>1
  <2>2. \A s \in SUBSET (1..0) : s = {} /\ s \in P
    OBVIOUS
  <2>3. \A s \in SUBSET (1..0) : g[s] = next(g, s)
    BY <2>2
  <2> HIDE DEF g, next, P
  <2> QED
    BY <2>1, <2>3
<1>3. ASSUME NEW n \in 1..m, n - 1 \in T
      PROVE  n \in T
  <2>1. PICK g \in [P -> X] : \A s \in SUBSET (1..(n - 1)) : g[s] = next(g, s)
    BY Zenon, <1>3
  <2> DEFINE h == [s \in P |-> next(g, s)]
  <2>2. ASSUME NEW s \in P PROVE next(g, s) \in X
    <3>1. CASE s = {}
      BY <3>1
    <3>2. CASE s # {}
      <4>1. Max(s) \in 1..m /\ s \ {Max(s)} \in P
        BY Zenon, <1>1, <3>2, MaxIs
      <4>2. g[s \ {Max(s)}] \in X /\ seq[Max(s)] \in Y
        BY <1>1, <4>1
      <4> QED
        BY <3>2, <4>2
    <3> QED
      BY <3>1, <3>2
  <2> HIDE DEF next
  <2>3. h \in [P -> X]
    BY <2>2
  <2>4. ASSUME NEW s \in SUBSET (1..(n - 1)) PROVE h[s] = g[s]
    <3>1. s \in P
      BY <1>1
    <3>2. h[s] = next(g, s)
      BY <3>1
    <3> QED
      BY <2>1, <3>2
  <2>5. ASSUME NEW s \in SUBSET (1..n) PROVE h[s] = next(h, s)
    <3>1. s \in P /\ n \in Nat
      BY <1>1
    <3>2. h[s] = next(g, s)
      BY <3>1
    <3>3. s # {} => h[s \ {Max(s)}] = g[s \ {Max(s)}]
      BY Zenon, <2>4, <3>1, BeforeLast
    <3> HIDE DEF h
    <3> QED
      BY <3>2, <3>3 DEF next
  <2>6. n \in 0..m
    BY <1>1
  <2> HIDE DEF h, P
  <2> QED
    BY <2>3, <2>5, <2>6
<1>4. \A n \in 1..m : n - 1 \in T => n \in T
  BY Zenon, <1>3
<1> HIDE DEF T, m
<1>5. \A n \in 0..m : n \in T
  BY <1>1, <1>2, <1>4, LoopInduction, Zenon
<1>6. m \in T
  BY <1>1, <1>5
<1> QED
  BY Zenon, <1>6 DEF T, m, IsFold

\* What each step of a fold keeps, the fold keeps.
LEMMA FoldKeeps ==
    ASSUME NEW X, NEW m \in Nat, NEW g, g[{}] \in X,
           \A s \in SUBSET (1..m) : s # {} /\ g[s \ {Max(s)}] \in X => g[s] \in X
    PROVE  g[1..m] \in X
<1> DEFINE T == {n \in 0..m : \A s \in SUBSET (1..n) : g[s] \in X}
<1>1. 0 \in T
  <2>1. \A s \in SUBSET (1..0) : s = {}
    OBVIOUS
  <2>2. \A s \in SUBSET (1..0) : g[s] \in X
    BY Zenon, <2>1
  <2>3. 0 \in 0..m
    OBVIOUS
  <2> QED
    BY <2>2, <2>3
<1>2. ASSUME NEW n \in 1..m, n - 1 \in T
      PROVE  n \in T
  <2>1. ASSUME NEW s \in SUBSET (1..n), s # {} PROVE g[s] \in X
    <3>1. s \ {Max(s)} \in SUBSET (1..(n - 1))
      BY <2>1, BeforeLast
    <3>2. g[s \ {Max(s)}] \in X
      BY <1>2, <3>1
    <3>3. s \in SUBSET (1..m)
      OBVIOUS
    <3> QED
      BY <2>1, <3>2, <3>3
  <2> QED
    BY <2>1
<1>3. \A n \in 1..m : n - 1 \in T => n \in T
  BY Zenon, <1>2
<1> HIDE DEF T
<1>4. \A n \in 0..m : n \in T
  BY <1>1, <1>3, LoopInduction, Zenon
<1>5. m \in T
  BY <1>4
<1> QED
  BY <1>5 DEF T

---------------------------------------------------------------------------
\* Call stacks: what a call, a return and a call that goes on do to the stack of
\* Pipeline and to the packets that its calls own.

\* The call stack cs, the packets of D in memory and those of S in the
\* buffers: every packet has one owner, and a list borrows the packet of
\* the call that called it.
Sound(cs, D, S) ==
    /\ D = {cs[i].pkt : i \in {j \in DOMAIN cs : cs[j].fn # "list"}} \union S
    /\ \A i, j \in DOMAIN cs :
          cs[i].fn # "list" /\ cs[j].fn # "list" /\ cs[i].pkt = cs[j].pkt => i = j
    /\ \A i \in DOMAIN cs :
          cs[i].fn = "list" => /\ i + 1 \in DOMAIN cs
                               /\ cs[i + 1].fn # "list"
                               /\ cs[i + 1].pkt = cs[i].pkt

\* A call on top of a stack
LEMMA PushIs ==
    ASSUME NEW C, NEW cs \in Seq(C), NEW c \in C
    PROVE  /\ <<c>> \o cs \in Seq(C)
           /\ DOMAIN (<<c>> \o cs) = 1..(Len(cs) + 1)
           /\ (<<c>> \o cs)[1] = c
           /\ \A i \in 1..Len(cs) : (<<c>> \o cs)[i + 1] = cs[i]
OBVIOUS

\* The stack that the innermost call returns to
LEMMA PopIs ==
    ASSUME NEW C, NEW cs \in Seq(C), cs # <<>>
    PROVE  /\ Tail(cs) \in Seq(C) /\ Len(cs) \in Nat \ {0}
           /\ DOMAIN cs = 1..Len(cs)
           /\ Len(Tail(cs)) = Len(cs) - 1
           /\ DOMAIN Tail(cs) = 1..(Len(cs) - 1)
           /\ \A i \in 1..(Len(cs) - 1) : Tail(cs)[i] = cs[i + 1]
           /\ Head(cs) = cs[1] /\ Head(cs) \in C
OBVIOUS

\* The innermost call works on a packet in memory.
LEMMA TopInMemory ==
    ASSUME NEW C, NEW cs \in Seq(C), cs # <<>>, NEW D, NEW S, Sound(cs, D, S)
    PROVE  Head(cs).pkt \in D
<1>1. 1 \in DOMAIN cs /\ Head(cs) = cs[1]
  BY PopIs
<1>2. CASE cs[1].fn # "list"
  BY <1>1, <1>2 DEF Sound
<1>3. CASE cs[1].fn = "list"
  <2>1. /\ 1 + 1 \in DOMAIN cs
        /\ cs[1 + 1].fn # "list" /\ cs[1 + 1].pkt = cs[1].pkt
    BY <1>1, <1>3 DEF Sound
  <2>2. cs[1 + 1].pkt \in D
    BY <2>1 DEF Sound
  <2> QED
    BY <1>1, <2>1, <2>2
<1> QED
  BY <1>2, <1>3

\* A call that goes on with its packet leaves the stack sound.
LEMMA BecomeSound ==
    ASSUME NEW C, NEW cs \in Seq(C), cs # <<>>, NEW D, NEW S, Sound(cs, D, S),
           NEW c \in C, c.pkt = Head(cs).pkt, c.fn = "list" <=> Head(cs).fn = "list"
    PROVE  /\ <<c>> \o Tail(cs) \in Seq(C)
           /\ Sound(<<c>> \o Tail(cs), D, S)
<1> DEFINE t == <<c>> \o Tail(cs)
           n == Len(cs)
<1>1. /\ n \in Nat \ {0} /\ Tail(cs) \in Seq(C) /\ Len(Tail(cs)) = n - 1
      /\ DOMAIN cs = 1..n /\ Head(cs) = cs[1]
      /\ \A i \in 1..(n - 1) : Tail(cs)[i] = cs[i + 1]
  BY PopIs
<1>2. /\ t \in Seq(C) /\ DOMAIN t = 1..((n - 1) + 1) /\ t[1] = c
      /\ \A i \in 1..(n - 1) : t[i + 1] = Tail(cs)[i]
  BY <1>1, PushIs
<1> HIDE DEF t, n
<1>3. DOMAIN t = DOMAIN cs
  BY <1>1, <1>2
<1>4. ASSUME NEW i \in 1..n
      PROVE  t[i].pkt = cs[i].pkt /\ (t[i].fn = "list" <=> cs[i].fn = "list")
  <2>1. CASE i = 1
    BY <1>1, <1>2, <2>1
  <2>2. CASE i # 1
    <3>1. i - 1 \in 1..(n - 1) /\ (i - 1) + 1 = i
      BY <1>1, <2>2
    <3>2. t[i] = cs[i]
      BY <1>1, <1>2, <3>1
    <3> QED
      BY <3>2
  <2> QED
    BY <2>1, <2>2
<1>5. {t[i].pkt : i \in {j \in DOMAIN t : t[j].fn # "list"}} =
      {cs[i].pkt : i \in {j \in DOMAIN cs : cs[j].fn # "list"}}
  BY <1>1, <1>3, <1>4
<1>6. /\ \A i, j \in DOMAIN t :
            t[i].fn # "list" /\ t[j].fn # "list" /\ t[i].pkt = t[j].pkt => i = j
      /\ \A i \in DOMAIN t :
            t[i].fn = "list" => /\ i + 1 \in DOMAIN t
                                /\ t[i + 1].fn # "list"
                                /\ t[i + 1].pkt = t[i].pkt
  BY <1>1, <1>3, <1>4 DEF Sound
<1>7. Sound(t, D, S)
  BY Zenon, <1>5, <1>6 DEF Sound
<1> QED
  BY <1>2, <1>7 DEF t

\* So does one that returns, if it destroys the packet it owns or leaves it
\* to the buffers.
LEMMA ReturnSound ==
    ASSUME NEW C, NEW cs \in Seq(C), cs # <<>>, NEW D, NEW S, Sound(cs, D, S)
    PROVE  Sound(Tail(cs), IF Head(cs).fn = "list" \/ Head(cs).pkt \in S
                           THEN D ELSE D \ {Head(cs).pkt}, S)
<1> DEFINE t == Tail(cs)
           n == Len(cs)
           p == cs[1].pkt
           E == IF cs[1].fn = "list" \/ p \in S THEN D ELSE D \ {p}
           Owns(u) == {u[i].pkt : i \in {j \in DOMAIN u : u[j].fn # "list"}}
<1>1. /\ n \in Nat \ {0} /\ DOMAIN cs = 1..n /\ Head(cs) = cs[1]
      /\ DOMAIN t = 1..(n - 1)
      /\ \A i \in 1..(n - 1) : t[i] = cs[i + 1]
  BY PopIs
<1> HIDE DEF t, n
<1>2. \A i \in 1..(n - 1) : i + 1 \in 1..n /\ i + 1 # 1
  BY <1>1
<1>3. Owns(t) = IF cs[1].fn = "list" THEN Owns(cs) ELSE Owns(cs) \ {p}
  <2>1. ASSUME NEW x \in Owns(t) PROVE x \in Owns(cs) /\ (cs[1].fn # "list" => x # p)
    <3>1. PICK i \in 1..(n - 1) : t[i].fn # "list" /\ x = t[i].pkt
      BY <1>1
    <3>2. i + 1 \in DOMAIN cs /\ cs[i + 1].fn # "list" /\ x = cs[i + 1].pkt
      BY <1>1, <1>2, <3>1
    <3>3. 1 \in DOMAIN cs
      BY <1>1
    <3>4. cs[1].fn # "list" => x # p
      BY <1>2, <3>2, <3>3 DEF Sound
    <3> QED
      BY <3>2, <3>4
  <2>2. ASSUME NEW x \in Owns(cs), cs[1].fn = "list" \/ x # p PROVE x \in Owns(t)
    <3>1. PICK i \in 1..n : cs[i].fn # "list" /\ x = cs[i].pkt
      BY <1>1
    <3>2. i - 1 \in 1..(n - 1) /\ (i - 1) + 1 = i
      BY <1>1, <2>2, <3>1
    <3>3. t[i - 1] = cs[i]
      BY <1>1, <3>2
    <3> QED
      BY SMTT(20), <1>1, <3>1, <3>2, <3>3
  <2> QED
    BY Zenon, <2>1, <2>2
<1>4. D = Owns(cs) \union S
  BY DEF Sound
<1>5. E = Owns(t) \union S
  BY Zenon, <1>3, <1>4
<1>6. \A i, j \in DOMAIN t :
         t[i].fn # "list" /\ t[j].fn # "list" /\ t[i].pkt = t[j].pkt => i = j
  <2> SUFFICES ASSUME NEW i \in 1..(n - 1), NEW j \in 1..(n - 1),
                      t[i].fn # "list", t[j].fn # "list", t[i].pkt = t[j].pkt
               PROVE  i = j
    BY <1>1
  <2>1. /\ i + 1 \in DOMAIN cs /\ j + 1 \in DOMAIN cs
        /\ cs[i + 1].fn # "list" /\ cs[j + 1].fn # "list" /\ cs[i + 1].pkt = cs[j + 1].pkt
    BY <1>1, <1>2
  <2>2. i + 1 = j + 1
    BY <2>1 DEF Sound
  <2> QED
    BY <1>1, <2>2
<1>7. ASSUME NEW i \in DOMAIN t, t[i].fn = "list"
      PROVE  i + 1 \in DOMAIN t /\ t[i + 1].fn # "list" /\ t[i + 1].pkt = t[i].pkt
  <2>1. i \in 1..(n - 1) /\ i + 1 \in DOMAIN cs /\ t[i] = cs[i + 1] /\ cs[i + 1].fn = "list"
    BY <1>1, <1>2, <1>7
  <2>2. /\ (i + 1) + 1 \in DOMAIN cs
        /\ cs[(i + 1) + 1].fn # "list" /\ cs[(i + 1) + 1].pkt = cs[i + 1].pkt
    BY <2>1 DEF Sound
  <2>3. i + 1 \in 1..(n - 1)
    BY <1>1, <2>1, <2>2
  <2>4. t[i + 1] = cs[(i + 1) + 1]
    BY <1>1, <2>3
  <2> QED
    BY <1>1, <2>1, <2>2, <2>3, <2>4
<1>8. Sound(t, E, S)
  BY <1>5, <1>6, <1>7 DEF Sound
<1> QED
  BY Zenon, <1>1, <1>8 DEF t

\* A call that is given a packet of its own
LEMMA CallSound ==
    ASSUME NEW C, NEW cs \in Seq(C), NEW D, NEW S, Sound(cs, D, S),
           NEW c \in C, c.fn # "list", c.pkt \notin D
    PROVE  <<c>> \o cs \in Seq(C) /\ Sound(<<c>> \o cs, D \union {c.pkt}, S)
<1> DEFINE t == <<c>> \o cs
           n == Len(cs)
           Owns(u) == {u[i].pkt : i \in {j \in DOMAIN u : u[j].fn # "list"}}
<1>1. /\ n \in Nat /\ DOMAIN cs = 1..n /\ t \in Seq(C) /\ DOMAIN t = 1..(n + 1) /\ t[1] = c
      /\ \A i \in 1..n : t[i + 1] = cs[i]
  BY PushIs
<1> HIDE DEF t, n
<1>2. ASSUME NEW i \in DOMAIN t, i # 1
      PROVE  i - 1 \in DOMAIN cs /\ t[i] = cs[i - 1]
  <2>1. i - 1 \in 1..n /\ (i - 1) + 1 = i
    BY <1>1, <1>2
  <2> QED
    BY <1>1, <2>1
<1>3. Owns(t) = Owns(cs) \union {c.pkt}
  <2>1. ASSUME NEW x \in Owns(t), x # c.pkt PROVE x \in Owns(cs)
    <3>1. PICK i \in DOMAIN t : t[i].fn # "list" /\ x = t[i].pkt
      OBVIOUS
    <3>2. i # 1
      BY <1>1, <2>1, <3>1
    <3> QED
      BY <1>2, <3>1, <3>2
  <2>2. ASSUME NEW x \in Owns(cs) PROVE x \in Owns(t)
    <3>1. PICK i \in 1..n : cs[i].fn # "list" /\ x = cs[i].pkt
      BY <1>1
    <3>2. i + 1 \in DOMAIN t /\ t[i + 1] = cs[i]
      BY <1>1
    <3> QED
      BY <3>1, <3>2
  <2>3. c.pkt \in Owns(t)
    BY <1>1
  <2> QED
    BY Zenon, <2>1, <2>2, <2>3
<1>4. D = Owns(cs) \union S
  BY DEF Sound
<1>5. \A i \in DOMAIN t : i # 1 /\ t[i].fn # "list" => t[i].pkt # c.pkt
  BY <1>2, <1>4
<1>6. ASSUME NEW i \in DOMAIN t, NEW j \in DOMAIN t,
             t[i].fn # "list", t[j].fn # "list", t[i].pkt = t[j].pkt
      PROVE  i = j
  <2>1. CASE i = 1 \/ j = 1
    BY <1>1, <1>5, <1>6, <2>1
  <2>2. CASE i # 1 /\ j # 1
    <3>1. i - 1 = j - 1
      BY <1>2, <1>6, <2>2 DEF Sound
    <3> QED
      BY <1>1, <3>1
  <2> QED
    BY <2>1, <2>2
<1>7. ASSUME NEW i \in DOMAIN t, t[i].fn = "list"
      PROVE  i + 1 \in DOMAIN t /\ t[i + 1].fn # "list" /\ t[i + 1].pkt = t[i].pkt
  <2>1. i # 1
    BY <1>1, <1>7
  <2>2. i - 1 \in DOMAIN cs /\ t[i] = cs[i - 1]
    BY <1>2, <2>1
  <2>3. /\ (i - 1) + 1 \in DOMAIN cs
        /\ cs[(i - 1) + 1].fn # "list" /\ cs[(i - 1) + 1].pkt = cs[i - 1].pkt
    BY <1>7, <2>2 DEF Sound
  <2>4. (i - 1) + 1 = i
    BY <1>1
  <2>5. i \in 1..n /\ t[i + 1] = cs[i] /\ i + 1 \in DOMAIN t
    BY <1>1, <2>3, <2>4
  <2> QED
    BY <2>2, <2>3, <2>4, <2>5
<1>8. Sound(t, D \union {c.pkt}, S)
  BY Zenon, <1>3, <1>4, <1>6, <1>7 DEF Sound
<1> QED
  BY <1>1, <1>8 DEF t

\* A list that is called borrows the packet.
LEMMA BorrowSound ==
    ASSUME NEW C, NEW cs \in Seq(C), cs # <<>>, NEW D, NEW S, Sound(cs, D, S),
           Head(cs).fn # "list", NEW c \in C, c.fn = "list", c.pkt = Head(cs).pkt
    PROVE  <<c>> \o cs \in Seq(C) /\ Sound(<<c>> \o cs, D, S)
<1> DEFINE t == <<c>> \o cs
           n == Len(cs)
           Owns(u) == {u[i].pkt : i \in {j \in DOMAIN u : u[j].fn # "list"}}
<1>1. /\ n \in Nat \ {0} /\ DOMAIN cs = 1..n /\ Head(cs) = cs[1]
      /\ t \in Seq(C) /\ DOMAIN t = 1..(n + 1) /\ t[1] = c
      /\ \A i \in 1..n : t[i + 1] = cs[i]
  BY PushIs, PopIs
<1> HIDE DEF t, n
<1>2. ASSUME NEW i \in DOMAIN t, i # 1
      PROVE  i - 1 \in DOMAIN cs /\ t[i] = cs[i - 1]
  <2>1. i - 1 \in 1..n /\ (i - 1) + 1 = i
    BY <1>1, <1>2
  <2> QED
    BY <1>1, <2>1
<1>3. Owns(t) = Owns(cs)
  <2>1. ASSUME NEW x \in Owns(t) PROVE x \in Owns(cs)
    <3>1. PICK i \in DOMAIN t : t[i].fn # "list" /\ x = t[i].pkt
      OBVIOUS
    <3>2. i # 1
      BY <1>1, <3>1
    <3> QED
      BY <1>2, <3>1, <3>2
  <2>2. ASSUME NEW x \in Owns(cs) PROVE x \in Owns(t)
    <3>1. PICK i \in 1..n : cs[i].fn # "list" /\ x = cs[i].pkt
      BY <1>1
    <3>2. i + 1 \in DOMAIN t /\ t[i + 1] = cs[i]
      BY <1>1
    <3> QED
      BY <3>1, <3>2
  <2> QED
    BY Zenon, <2>1, <2>2
<1>4. D = Owns(cs) \union S
  BY DEF Sound
<1>6. ASSUME NEW i \in DOMAIN t, NEW j \in DOMAIN t,
             t[i].fn # "list", t[j].fn # "list", t[i].pkt = t[j].pkt
      PROVE  i = j
  <2>1. i # 1 /\ j # 1
    BY <1>1, <1>6
  <2>2. i - 1 = j - 1
    BY <1>2, <1>6, <2>1 DEF Sound
  <2> QED
    BY <1>1, <2>2
<1>7. ASSUME NEW i \in DOMAIN t, t[i].fn = "list"
      PROVE  i + 1 \in DOMAIN t /\ t[i + 1].fn # "list" /\ t[i + 1].pkt = t[i].pkt
  <2>1. CASE i = 1
    <3>1. 1 \in 1..n /\ 1 + 1 \in DOMAIN t /\ t[1 + 1] = cs[1]
      BY <1>1
    <3> QED
      BY <1>1, <2>1, <3>1
  <2>2. CASE i # 1
    <3>2. i - 1 \in DOMAIN cs /\ t[i] = cs[i - 1]
      BY <1>2, <2>2
    <3>3. /\ (i - 1) + 1 \in DOMAIN cs
          /\ cs[(i - 1) + 1].fn # "list" /\ cs[(i - 1) + 1].pkt = cs[i - 1].pkt
      BY <1>7, <3>2 DEF Sound
    <3>4. (i - 1) + 1 = i
      BY <1>1
    <3>5. i \in 1..n /\ t[i + 1] = cs[i] /\ i + 1 \in DOMAIN t
      BY <1>1, <3>3, <3>4
    <3> QED
      BY <3>2, <3>3, <3>4, <3>5
  <2> QED
    BY <2>1, <2>2
<1>8. Sound(t, D, S)
  BY Zenon, <1>3, <1>4, <1>6, <1>7 DEF Sound
<1> QED
  BY <1>1, <1>8 DEF t

\* Saving a packet of a call changes no owner.
LEMMA SaveSound ==
    ASSUME NEW cs, NEW D, NEW S, Sound(cs, D, S), NEW p \in D
    PROVE  Sound(cs, D, S \union {p})
BY DEF Sound

\* Two calls on top of a stack
LEMMA PushTwo ==
    ASSUME NEW C, NEW cs \in Seq(C), NEW c \in C, NEW d \in C
    PROVE  <<c, d>> \o cs = <<c>> \o (<<d>> \o cs)
<1> DEFINE s == <<c, d>> \o cs
           t == <<c>> \o (<<d>> \o cs)
           n == Len(cs)
<1>1. /\ n \in Nat /\ s \in Seq(C) /\ t \in Seq(C)
      /\ Len(s) = n + 2 /\ Len(t) = n + 2
  OBVIOUS
<1>2. \A i \in 1..(n + 2) : s[i] = t[i]
  OBVIOUS
<1> HIDE DEF s, t, n
<1>3. s = t
  BY <1>1, <1>2
<1> QED
  BY <1>3 DEF s, t

\* Between packets, the packets in memory are those of the buffers.
LEMMA IdleSound == \A D, S : Sound(<<>>, D, S) <=> D = S
BY DEF Sound

\* A call with a packet of its own, when there is no other
LEMMA FirstSound ==
    ASSUME NEW C, NEW c \in C, c.fn # "list", NEW D, c.pkt \notin D
    PROVE  <<c>> \in Seq(C) /\ Sound(<<c>>, D \union {c.pkt}, D)
<1>1. <<>> \in Seq(C) /\ Sound(<<>>, D, D)
  BY IdleSound
<1>2. <<c>> \o <<>> \in Seq(C) /\ Sound(<<c>> \o <<>>, D \union {c.pkt}, D)
  BY Zenon, <1>1, CallSound
<1>3. <<c>> \o <<>> = <<c>>
  OBVIOUS
<1> QED
  BY <1>2, <1>3

\* A list that borrows its packet
LEMMA FirstListSound ==
    ASSUME NEW C, NEW c \in C, c.fn # "list", NEW D, c.pkt \notin D,
           NEW l \in C, l.fn = "list", l.pkt = c.pkt
    PROVE  <<l, c>> \in Seq(C) /\ Sound(<<l, c>>, D \union {c.pkt}, D)
<1> DEFINE cs == <<c>>
<1>1. cs \in Seq(C) /\ Sound(cs, D \union {c.pkt}, D)
  BY FirstSound
<1>2. cs # <<>> /\ Head(cs) = c
  OBVIOUS
<1>3. <<l>> \o cs = <<l, c>>
  <2>1. /\ <<>> \in Seq(C) /\ <<c>> \o <<>> = <<c>>
        /\ <<l, c>> \o <<>> = <<l, c>>
    OBVIOUS
  <2>2. <<l, c>> \o <<>> = <<l>> \o (<<c>> \o <<>>)
    BY <2>1, PushTwo
  <2> QED
    BY Zenon, <2>1, <2>2
<1> HIDE DEF cs
<1>4. <<l>> \o cs \in Seq(C) /\ Sound(<<l>> \o cs, D \union {c.pkt}, D)
  BY <1>1, <1>2, BorrowSound
<1> QED
  BY Zenon, <1>3, <1>4
---------------------------------------------------------------------------
\* The weighted round robin of SELECT groups (GroupSelect): what gcd, GcdOf and
\* MaxOf return, and which bucket is next, for any number of buckets and weights.

\* Divisors, of numbers that may be 0
Divides(d, a) == \E k \in Nat : a = d * k

\* A divisor divides sums,
LEMMA DividesSum ==
    ASSUME NEW d \in Nat, NEW a \in Nat, NEW b \in Nat, Divides(d, a), Divides(d, b)
    PROVE  Divides(d, a + b)
<1>1. PICK k \in Nat : a = d * k
  BY Zenon DEF Divides
<1>2. PICK l \in Nat : b = d * l
  BY Zenon DEF Divides
<1>3. a + b = d * (k + l) /\ k + l \in Nat
  BY <1>1, <1>2
<1> QED
  BY <1>3 DEF Divides

\* multiples,
LEMMA DividesProduct ==
    ASSUME NEW d \in Nat, NEW a \in Nat, NEW q \in Nat, Divides(d, a)
    PROVE  Divides(d, a * q)
<1>1. PICK k \in Nat : a = d * k
  BY DEF Divides
<1>3. a * q = d * (k * q) /\ k * q \in Nat
  BY <1>1
<1> QED
  BY <1>3 DEF Divides

\* and differences,
LEMMA DividesRest ==
    ASSUME NEW d \in Nat, NEW a \in Nat, NEW b \in Nat, Divides(d, a), Divides(d, a + b)
    PROVE  Divides(d, b)
<1>1. PICK k \in Nat : a = d * k
  BY Zenon DEF Divides
<1>2. PICK l \in Nat : a + b = d * l
  BY Zenon DEF Divides
<1>3. CASE d = 0
  <2>1. b = d * 0
    BY <1>1, <1>2, <1>3
  <2> QED
    BY Zenon, <2>1 DEF Divides
<1>4. CASE d # 0
  <2>1. k <= l
    <3>1. d * k <= d * l
      BY <1>1, <1>2
    <3> QED
      BY <1>4, <3>1
  <2>2. b = d * (l - k) /\ l - k \in Nat
    BY <1>1, <1>2, <2>1
  <2> QED
    BY Zenon, <2>2 DEF Divides
<1> QED
  BY <1>3, <1>4

\* and is not greater than what it divides.
LEMMA DividesLess ==
    ASSUME NEW d \in Nat, NEW a \in Nat, Divides(d, a), a # 0
    PROVE  d <= a
<1>1. PICK k \in Nat : a = d * k
  BY DEF Divides
<1>2. k # 0
  BY <1>1
<1>3. k - 1 \in Nat /\ d * k = d + d * (k - 1)
  BY <1>2
<1>4. d * (k - 1) >= 0
  BY <1>3
<1> QED
  BY <1>1, <1>3, <1>4

\* The numbers that divide both of a pair
Common(p) == {d \in Nat : Divides(d, p[1]) /\ Divides(d, p[2])}

\* A remainder has the divisors of the numbers divided.
LEMMA CommonRemainder ==
    ASSUME NEW a \in Nat \ {0}, NEW b \in Nat
    PROVE  b % a \in 0..(a - 1) /\ Common(<<b % a, a>>) = Common(<<a, b>>)
<1> DEFINE q == b \div a
           r == b % a
<1>1. b = a * q + r /\ q \in Nat /\ r \in 0..(a - 1)
  OBVIOUS
<1> HIDE DEF q, r
<1>2. a * q \in Nat
  BY <1>1
<1>3. ASSUME NEW d \in Nat, Divides(d, a)
      PROVE  Divides(d, r) <=> Divides(d, b)
  <2>1. Divides(d, a * q)
    BY <1>1, <1>3, DividesProduct
  <2>2. Divides(d, r) => Divides(d, a * q + r)
    BY <1>1, <1>2, <2>1, DividesSum
  <2>3. Divides(d, a * q + r) => Divides(d, r)
    BY <1>1, <1>2, <2>1, DividesRest
  <2> QED
    BY <1>1, <2>2, <2>3
<1>4. \A d \in Nat : d \in Common(<<r, a>>) <=> d \in Common(<<a, b>>)
  BY <1>3 DEF Common
<1>5. Common(<<r, a>>) = Common(<<a, b>>)
  BY <1>4 DEF Common
<1> QED
  BY <1>1, <1>5 DEF r

\* The greatest of them
Greatest(p) ==
    IF p = <<0, 0>> THEN 0 ELSE CHOOSE d \in Common(p) : \A e \in Common(p) : e <= d

\* satisfies the recursion of gcd, so that gcd does.
LEMMA gcdIs ==
    ASSUME NEW a \in Nat, NEW b \in Nat
    PROVE  gcd[<<a, b>>] = IF a = 0 THEN b ELSE gcd[<<b % a, a>>]
<1> DEFINE N2 == Nat \X Nat
           Body(f) == [ab \in N2 |-> IF ab[1] = 0 THEN ab[2] ELSE f[<<ab[2] % ab[1], ab[1]>>]]
           h == [p \in N2 |-> Greatest(p)]
<1>1. ASSUME NEW c \in Nat PROVE Greatest(<<0, c>>) = c
  <2>1. CASE c = 0
    BY <2>1 DEF Greatest
  <2>2. CASE c # 0
    <3>1. Divides(c, 0) /\ Divides(c, c)
      <4>1. 0 = c * 0 /\ c = c * 1
        OBVIOUS
      <4> QED
        BY <4>1 DEF Divides
    <3>2. c \in Common(<<0, c>>)
      BY <3>1 DEF Common
    <3>3. \A e \in Common(<<0, c>>) : e \in Nat /\ e <= c
      BY <2>2, DividesLess DEF Common
    <3>4. Greatest(<<0, c>>) = CHOOSE d \in Common(<<0, c>>) : \A e \in Common(<<0, c>>) : e <= d
      BY <2>2 DEF Greatest
    <3>5. \A d \in Common(<<0, c>>) : (\A e \in Common(<<0, c>>) : e <= d) => d = c
      BY <3>2, <3>3
    <3> QED
      BY <3>2, <3>3, <3>4, <3>5
  <2> QED
    BY <2>1, <2>2
<1>2. ASSUME NEW c \in Nat \ {0}, NEW d \in Nat
      PROVE  d % c \in Nat /\ Greatest(<<c, d>>) = Greatest(<<d % c, c>>)
  <2>1. d % c \in Nat /\ Common(<<d % c, c>>) = Common(<<c, d>>)
    BY CommonRemainder
  <2>2. <<c, d>> # <<0, 0>> /\ <<d % c, c>> # <<0, 0>>
    OBVIOUS
  <2> QED
    BY <2>1, <2>2 DEF Greatest
<1>3. h = Body(h)
  <2>1. ASSUME NEW p \in N2
        PROVE  h[p] = IF p[1] = 0 THEN p[2] ELSE h[<<p[2] % p[1], p[1]>>]
    <3>1. p[1] \in Nat /\ p[2] \in Nat /\ p = <<p[1], p[2]>>
      OBVIOUS
    <3>2. CASE p[1] = 0
      BY <1>1, <3>1, <3>2
    <3>3. CASE p[1] # 0
      <4>1. <<p[2] % p[1], p[1]>> \in N2 /\ Greatest(p) = Greatest(<<p[2] % p[1], p[1]>>)
        BY <1>2, <3>1, <3>3
      <4> QED
        BY <3>3, <4>1
    <3> QED
      BY <3>2, <3>3
  <2> HIDE DEF N2
  <2> QED
    BY <2>1
<1>4. gcd = Body(gcd)
  <2>1. gcd = CHOOSE f : f = Body(f)
    BY DEF gcd
  <2> HIDE DEF Body
  <2> QED
    BY <1>3, <2>1
<1>5. <<a, b>> \in N2
  OBVIOUS
<1> HIDE DEF N2
<1>6. gcd[<<a, b>>] = Body(gcd)[<<a, b>>]
  BY <1>4, Zenon
<1> QED
  BY <1>5, <1>6

\* gcd returns a divisor of both its arguments, and 0 for zeros only.
LEMMA gcdDivides ==
    ASSUME NEW a \in Nat, NEW b \in Nat
    PROVE  /\ gcd[<<a, b>>] \in Nat
           /\ Divides(gcd[<<a, b>>], a) /\ Divides(gcd[<<a, b>>], b)
<1> DEFINE Good(x) == \A y \in Nat : /\ gcd[<<x, y>>] \in Nat
                                     /\ Divides(gcd[<<x, y>>], x)
                                     /\ Divides(gcd[<<x, y>>], y)
           T == {x \in Nat : ~Good(x)}
<1>1. SUFFICES ASSUME T # {} PROVE FALSE
  OBVIOUS
<1>2. PICK x \in T : \A y \in T : x <= y
  <2> HIDE DEF Good
  <2>1. T \in SUBSET Nat
    OBVIOUS
  <2> HIDE DEF T
  <2> QED
    BY <1>1, <2>1, LeastNatural, Zenon
<1>3. ASSUME NEW y \in Nat
      PROVE  gcd[<<x, y>>] \in Nat /\ Divides(gcd[<<x, y>>], x) /\ Divides(gcd[<<x, y>>], y)
  <2>1. CASE x = 0
    <3>1. gcd[<<x, y>>] = y
      BY Zenon, <2>1, gcdIs
    <3>2. 0 = y * 0 /\ y = y * 1
      OBVIOUS
    <3>3. Divides(y, 0) /\ Divides(y, y)
      BY <3>2 DEF Divides
    <3> QED
      BY <2>1, <3>1, <3>3
  <2>2. CASE x # 0
    <3>1. x \in Nat \ {0}
      BY <2>2
    <3>2. y % x \in 0..(x - 1) /\ Common(<<y % x, x>>) = Common(<<x, y>>)
      BY <3>1, CommonRemainder
    <3>3. gcd[<<x, y>>] = gcd[<<y % x, x>>]
      BY <2>2, <3>1, gcdIs
    <3> DEFINE r == y % x
    <3> HIDE DEF r
    <3>4. r \in Nat /\ r < x
      BY <3>1, <3>2 DEF r
    <3>5. Good(r)
      <4> HIDE DEF Good
      <4> QED
        BY <1>2, <3>1, <3>4
    <3>6. gcd[<<r, x>>] \in Common(<<r, x>>)
      BY <3>1, <3>5 DEF Common
    <3>7. gcd[<<x, y>>] \in Common(<<x, y>>)
      BY <3>2, <3>3, <3>6 DEF r
    <3> QED
      BY <3>7 DEF Common
  <2> QED
    BY <2>1, <2>2
<1> QED
  BY <1>2, <1>3

\* A divisor's divisors
LEMMA DividesTransitive ==
    ASSUME NEW d \in Nat, NEW a \in Nat, NEW b \in Nat, Divides(d, a), Divides(a, b)
    PROVE  Divides(d, b)
<1>1. PICK q \in Nat : b = a * q
  BY Zenon DEF Divides
<1> QED
  BY Zenon, <1>1, DividesProduct

\* The first places of a list, without the last of them
LEMMA FirstPlaces ==
    ASSUME NEW m \in Nat, NEW k \in 1..m
    PROVE  /\ 1..k \in SUBSET (1..m) /\ 1..k # {}
           /\ Max(1..k) = k /\ (1..k) \ {Max(1..k)} = 1..(k - 1)
<1>1. 1..k \in SUBSET (1..m) /\ k \in 1..k
  OBVIOUS
<1>2. Max(1..k) \in 1..k /\ Max(1..k) >= k
  BY Zenon, <1>1, MaxIs
<1>3. Max(1..k) = k
  BY <1>2
<1>4. (1..k) \ {k} = 1..(k - 1)
  OBVIOUS
<1> QED
  BY <1>1, <1>3, <1>4

\* What GcdOf has computed after the first k buckets
LEMMA GcdSteps ==
    ASSUME NEW weights \in Seq(Nat)
    PROVE  \E acc : /\ acc[0] = 0 /\ GcdOf(weights) = acc[Len(weights)]
                    /\ \A k \in 1..Len(weights) : acc[k] = gcd[<<acc[k - 1], weights[k]>>]
<1> DEFINE m == Len(weights)
           P == SUBSET (1..m)
           F == [z \in Nat \X Nat |-> gcd[z]]
           Body(g) == [s \in P |->
                         IF s = {} THEN 0 ELSE gcd[<<g[s \ {Max(s)}], weights[Max(s)]>>]]
           iter == CHOOSE g : g = Body(g)
           acc == [k \in 0..m |-> iter[1..k]]
<1>1. m \in Nat /\ DOMAIN weights = 1..m /\ \A i \in 1..m : weights[i] \in Nat
  OBVIOUS
<1>2. GcdOf(weights) = iter[1..m]
  BY <1>1 DEF GcdOf, FoldLeft, MapThenFoldSet
<1>3. F \in [Nat \X Nat -> Nat] /\ \A x \in Nat, w \in Nat : F[<<x, w>>] = gcd[<<x, w>>]
  <2>1. \A z \in Nat \X Nat : z = <<z[1], z[2]>> /\ z[1] \in Nat /\ z[2] \in Nat
    OBVIOUS
  <2>2. \A z \in Nat \X Nat : gcd[z] \in Nat
    BY <2>1, gcdDivides
  <2> QED
    BY <2>2
<1>4. \A s \in P : s # {} => s \ {Max(s)} \in P /\ Max(s) \in 1..m
  BY Zenon, <1>1, MaxIs
<1> HIDE DEF F
<1>5. iter = Body(iter)
  <2>1. PICK g \in [P -> Nat] : IsFold(g, F, 0, weights)
    BY <1>3, FoldExists, Zenon
  <2>2. ASSUME NEW s \in P, s # {}
        PROVE  g[s] = gcd[<<g[s \ {Max(s)}], weights[Max(s)]>>]
    <3>1. g[s \ {Max(s)}] \in Nat /\ weights[Max(s)] \in Nat
      BY <1>1, <1>4, <2>1, <2>2
    <3> QED
      BY Zenon, <1>3, <2>1, <2>2, <3>1 DEF IsFold
  <2>3. g = Body(g)
    BY Zenon, <2>1, <2>2 DEF IsFold
  <2> HIDE DEF Body
  <2> QED
    BY <2>3
<1> HIDE DEF iter
<1>6. /\ iter[{}] = 0
      /\ \A s \in P : s # {} => iter[s] = gcd[<<iter[s \ {Max(s)}], weights[Max(s)]>>]
  BY Zenon, <1>5
<1>7. ASSUME NEW k \in 1..m PROVE acc[k] = gcd[<<acc[k - 1], weights[k]>>]
  <2>1. acc[k] = iter[1..k] /\ acc[k - 1] = iter[1..(k - 1)]
    BY <1>1
  <2>2. iter[1..k] = gcd[<<iter[1..(k - 1)], weights[k]>>]
    <3>1. /\ 1..k \in P /\ 1..k # {}
          /\ Max(1..k) = k /\ (1..k) \ {Max(1..k)} = 1..(k - 1)
      BY <1>1, FirstPlaces, Zenon
    <3>2. iter[1..k] = gcd[<<iter[(1..k) \ {Max(1..k)}], weights[Max(1..k)]>>]
      BY Zenon, <1>6, <3>1
    <3> QED
      BY Zenon, <3>1, <3>2
  <2> QED
    BY Zenon, <2>1, <2>2
<1>8. acc[0] = 0 /\ acc[m] = iter[1..m]
  <2>1. 1..0 = {} /\ 0 \in 0..m /\ m \in 0..m
    BY <1>1
  <2> QED
    BY <1>6, <2>1
<1> HIDE DEF acc
<1> QED
  BY <1>2, <1>7, <1>8

\* GcdOf returns a divisor of every weight, which is not 0 unless they all are.
LEMMA GcdOfIs ==
    ASSUME NEW weights \in Seq(Nat)
    PROVE  /\ GcdOf(weights) \in Nat
           /\ \A j \in 1..Len(weights) : Divides(GcdOf(weights), weights[j])
           /\ (\A j \in 1..Len(weights) : weights[j] = 0) => GcdOf(weights) = 0
<1> DEFINE m == Len(weights)
<1>1. m \in Nat /\ \A i \in 1..m : weights[i] \in Nat
  OBVIOUS
<1>2. PICK acc : /\ acc[0] = 0 /\ GcdOf(weights) = acc[m]
                 /\ \A k \in 1..m : acc[k] = gcd[<<acc[k - 1], weights[k]>>]
  BY GcdSteps, Zenon
<1> DEFINE Good(k) == /\ acc[k] \in Nat
                      /\ \A j \in 1..k : Divides(acc[k], weights[j])
                      /\ (\A j \in 1..k : weights[j] = 0) => acc[k] = 0
           T == {k \in 0..m : Good(k)}
<1> HIDE DEF m
<1>3. 0 \in T
  BY <1>1, <1>2
<1>4. ASSUME NEW k \in 1..m, k - 1 \in T
      PROVE  k \in T
  <2>1. Good(k - 1) /\ weights[k] \in Nat
    BY <1>1, <1>4
  <2>2. acc[k] = gcd[<<acc[k - 1], weights[k]>>]
    BY Zenon, <1>2
  <2>3. acc[k] \in Nat /\ Divides(acc[k], acc[k - 1]) /\ Divides(acc[k], weights[k])
    BY <2>1, <2>2, gcdDivides
  <2>4. ASSUME NEW j \in 1..k PROVE Divides(acc[k], weights[j])
    <3>1. CASE j = k
      BY <2>3, <3>1
    <3>2. CASE j # k
      <4>1. j \in 1..(k - 1) /\ weights[j] \in Nat
        BY <1>1, <3>2
      <4> QED
        BY <2>1, <2>3, <4>1, DividesTransitive
    <3> QED
      BY <3>1, <3>2
  <2>5. ASSUME \A j \in 1..k : weights[j] = 0 PROVE acc[k] = 0
    <3>1. acc[k - 1] = 0 /\ weights[k] = 0
      BY <1>1, <2>1, <2>5
    <3>2. gcd[<<0, 0>>] = 0
      BY Zenon, gcdIs
    <3> QED
      BY <2>2, <3>1, <3>2
  <2> QED
    BY <1>1, <2>3, <2>4, <2>5
<1>5. \A k \in 1..m : k - 1 \in T => k \in T
  BY Zenon, <1>4
<1> HIDE DEF T
<1>6. \A k \in 0..m : k \in T
  BY <1>1, <1>3, <1>5, LoopInduction, Zenon
<1>7. m \in T
  BY <1>1, <1>6
<1> QED
  BY <1>2, <1>7 DEF T, m

\* What MaxOf has computed after the first k buckets
LEMMA MaxSteps ==
    ASSUME NEW weights \in Seq(Nat)
    PROVE  \E acc : /\ acc[0] = 0 /\ MaxOf(weights) = acc[Len(weights)]
                    /\ \A k \in 1..Len(weights) :
                          acc[k] = IF acc[k - 1] < weights[k] THEN weights[k] ELSE acc[k - 1]
<1> DEFINE m == Len(weights)
           P == SUBSET (1..m)
           greater(x, w) == IF x < w THEN w ELSE x
           F == [z \in Nat \X Nat |-> greater(z[1], z[2])]
           Body(g) == [s \in P |->
                         IF s = {} THEN 0 ELSE greater(g[s \ {Max(s)}], weights[Max(s)])]
           iter == CHOOSE g : g = Body(g)
           acc == [k \in 0..m |-> iter[1..k]]
<1>1. m \in Nat /\ DOMAIN weights = 1..m /\ \A i \in 1..m : weights[i] \in Nat
  OBVIOUS
<1>2. MaxOf(weights) = iter[1..m]
  BY <1>1 DEF MaxOf, FoldLeft, MapThenFoldSet
<1>3. F \in [Nat \X Nat -> Nat] /\ \A x \in Nat, w \in Nat : F[<<x, w>>] = greater(x, w)
  OBVIOUS
<1>4. \A s \in P : s # {} => s \ {Max(s)} \in P /\ Max(s) \in 1..m
  BY Zenon, <1>1, MaxIs
<1> HIDE DEF F, greater
<1>5. iter = Body(iter)
  <2>1. PICK g \in [P -> Nat] : IsFold(g, F, 0, weights)
    BY <1>3, FoldExists, Zenon
  <2>2. ASSUME NEW s \in P, s # {}
        PROVE  g[s] = greater(g[s \ {Max(s)}], weights[Max(s)])
    <3>1. g[s \ {Max(s)}] \in Nat /\ weights[Max(s)] \in Nat
      BY <1>1, <1>4, <2>1, <2>2
    <3> QED
      BY Zenon, <1>3, <2>1, <2>2, <3>1 DEF IsFold
  <2>3. g = Body(g)
    BY Zenon, <2>1, <2>2 DEF IsFold
  <2> HIDE DEF Body
  <2> QED
    BY <2>3
<1> HIDE DEF iter
<1>6. /\ iter[{}] = 0
      /\ \A s \in P : s # {} => iter[s] = greater(iter[s \ {Max(s)}], weights[Max(s)])
  BY Zenon, <1>5
<1>7. ASSUME NEW k \in 1..m PROVE acc[k] = greater(acc[k - 1], weights[k])
  <2>1. acc[k] = iter[1..k] /\ acc[k - 1] = iter[1..(k - 1)]
    BY <1>1
  <2>2. iter[1..k] = greater(iter[1..(k - 1)], weights[k])
    <3>1. /\ 1..k \in P /\ 1..k # {}
          /\ Max(1..k) = k /\ (1..k) \ {Max(1..k)} = 1..(k - 1)
      BY <1>1, FirstPlaces, Zenon
    <3>2. iter[1..k] = greater(iter[(1..k) \ {Max(1..k)}], weights[Max(1..k)])
      BY Zenon, <1>6, <3>1
    <3> QED
      BY Zenon, <3>1, <3>2
  <2> QED
    BY <2>1, <2>2
<1>8. acc[0] = 0 /\ acc[m] = iter[1..m]
  <2>1. 1..0 = {} /\ 0 \in 0..m /\ m \in 0..m
    BY <1>1
  <2> QED
    BY <1>6, <2>1
<1> HIDE DEF acc
<1> QED
  BY <1>2, <1>7, <1>8 DEF greater

\* MaxOf returns the greatest of the weights.
LEMMA MaxOfIs ==
    ASSUME NEW weights \in Seq(Nat)
    PROVE  /\ MaxOf(weights) \in Nat
           /\ \A j \in 1..Len(weights) : weights[j] <= MaxOf(weights)
           /\ weights # <<>> => \E j \in 1..Len(weights) : weights[j] = MaxOf(weights)
<1> DEFINE m == Len(weights)
<1>1. m \in Nat /\ (weights # <<>> => m # 0) /\ \A i \in 1..m : weights[i] \in Nat
  OBVIOUS
<1>2. PICK acc : /\ acc[0] = 0 /\ MaxOf(weights) = acc[m]
                 /\ \A k \in 1..m :
                       acc[k] = IF acc[k - 1] < weights[k] THEN weights[k] ELSE acc[k - 1]
  BY MaxSteps, Zenon
<1> DEFINE Good(k) == /\ acc[k] \in Nat
                      /\ \A j \in 1..k : weights[j] <= acc[k]
                      /\ acc[k] = 0 \/ \E j \in 1..k : weights[j] = acc[k]
           T == {k \in 0..m : Good(k)}
<1> HIDE DEF m
<1>3. 0 \in T
  BY <1>1, <1>2
<1>4. ASSUME NEW k \in 1..m, k - 1 \in T
      PROVE  k \in T
  <2>1. Good(k - 1) /\ weights[k] \in Nat
    BY <1>1, <1>4
  <2>2. acc[k] = IF acc[k - 1] < weights[k] THEN weights[k] ELSE acc[k - 1]
    BY <1>2
  <2>3. \A j \in 1..k : j = k \/ j \in 1..(k - 1)
    BY <1>1
  <2>4. /\ acc[k] \in Nat /\ \A j \in 1..k : weights[j] <= acc[k]
    BY <1>1, <2>1, <2>2, <2>3
  <2>5. acc[k] = 0 \/ \E j \in 1..k : weights[j] = acc[k]
    BY <1>1, <2>1, <2>2
  <2> QED
    BY <1>1, <2>4, <2>5
<1>5. \A k \in 1..m : k - 1 \in T => k \in T
  BY Zenon, <1>4
<1> HIDE DEF T
<1>6. \A k \in 0..m : k \in T
  BY <1>1, <1>3, <1>5, LoopInduction, Zenon
<1>7. m \in T
  BY <1>1, <1>6
<1>8. Good(m)
  BY <1>7 DEF T
<1>9. m # 0 => \E j \in 1..m : weights[j] = acc[m]
  <2>1. CASE m # 0 /\ acc[m] = 0
    <3>1. 1 \in 1..m /\ weights[1] = 0
      BY <1>1, <1>8, <2>1
    <3> QED
      BY <2>1, <3>1
  <2> QED
    BY <1>8, <2>1
<1> QED
  BY <1>1, <1>2, <1>8, <1>9 DEF m

\* The weights of a group are multiples of their greatest common divisor, so the
\* round robin counts its levels: x is u times the divisor d.  If all the weights
\* are 0 there is one level.
AtLevel(d, x, u) == IF d = 0 THEN x = 0 /\ u = 1 ELSE x = d * u

\* The level of the current weight, and the highest one
Level(data) == IF data.gcd_weight = 0 THEN 1 ELSE data.curr_weight \div data.gcd_weight
TopLevel(data) == IF data.gcd_weight = 0 THEN 1 ELSE data.max_weight \div data.gcd_weight

\* The level once the round comes back to the first bucket
NextLevel(top, c) == IF c <= 1 THEN top ELSE c - 1

\* What a cycle has selected of a bucket, at level c and bucket cb: once at each
\* level above c that the bucket's share reaches, and at c if its turn was.
Served(share, b, cb, c) ==
    (IF share > c THEN share - c ELSE 0) + (IF b <= cb /\ share >= c THEN 1 ELSE 0)

\* The bucket whose turn was last: at first it is as if the last had been selected.
LastBucket(n, cb) == IF cb = -1 THEN n - 1 ELSE cb

\* The turn after bucket p of n that selects b at level d: it passes the buckets
\* whose shares do not reach the level, and changes level at the first bucket.
Turned(n, share, top, p, c, b, d) ==
    /\ b \in 0..(n - 1) /\ share[b] >= d
    /\ \/ /\ d = c /\ b > p
          /\ \A x \in (p + 1)..(b - 1) : share[x] < c
       \/ /\ d = NextLevel(top, c)
          /\ \A x \in (p + 1)..(n - 1) : share[x] < c
          /\ \A x \in 0..(b - 1) : share[x] < d

\* The round robin data of a group and the picks of its cycle
Round(n, share, top, cb, c, picks) ==
    /\ picks \in [0..(n - 1) -> Nat] /\ c \in Nat
    /\ \/ cb = -1 /\ c <= 1 /\ \A b \in 0..(n - 1) : picks[b] = 0
       \/ /\ cb \in 0..(n - 1) /\ c \in 1..top
          /\ \A b \in 0..(n - 1) : picks[b] = Served(share[b], b, cb, c)

\* top is the greatest share.
Highest(n, share, top) ==
    /\ \A x \in 0..(n - 1) : share[x] <= top
    /\ \E x \in 0..(n - 1) : share[x] = top

\* The picks to add to: none after a full cycle
Anew(n, share, picks, old) ==
    old = IF \A x \in 0..(n - 1) : picks[x] = share[x]
          THEN [x \in 0..(n - 1) |-> 0] ELSE picks

\* Served, in numbers: what it says of the bucket that a turn selects at the
\* same level,
LEMMA ServedOn ==
    ASSUME NEW u \in Nat, NEW c \in Nat \ {0}, NEW x \in Int, NEW cb \in Int, NEW b \in Int,
           b > cb, cb < x /\ x < b => u < c, x = b => u >= c
    PROVE  /\ Served(u, x, b, c) = IF x = b THEN Served(u, x, cb, c) + 1
                                              ELSE Served(u, x, cb, c)
           /\ x = b => Served(u, x, cb, c) < u
BY DEF Served

\* at the next level,
LEMMA ServedDown ==
    ASSUME NEW u \in Nat, NEW c \in Nat \ {0}, NEW x \in Int, NEW cb \in Int, NEW b \in Int,
           x > cb => u < c, x < b => u < c - 1, x = b => u >= c - 1
    PROVE  Served(u, x, b, c - 1) = IF x = b THEN Served(u, x, cb, c) + 1
                                               ELSE Served(u, x, cb, c)
BY DEF Served

\* at the end of a cycle,
LEMMA ServedLast ==
    ASSUME NEW u \in Nat, NEW x \in Int, NEW cb \in Int, x > cb => u < 1
    PROVE  Served(u, x, cb, 1) = u
BY DEF Served

\* and at the start of one.
LEMMA ServedFirst ==
    ASSUME NEW u \in Nat, NEW top \in Nat, NEW x \in Int, NEW cb \in Int, u <= top,
           x < cb => u < top, x = cb => u = top
    PROVE  Served(u, x, cb, top) = IF x = cb THEN 1 ELSE 0
BY DEF Served

\* It is never more than the share.
LEMMA ServedBound ==
    ASSUME NEW u \in Nat, NEW c \in Nat \ {0}, NEW x \in Int, NEW cb \in Int
    PROVE  /\ Served(u, x, cb, c) \in Nat /\ Served(u, x, cb, c) <= u
           /\ u # 0 /\ c > 1 => Served(u, x, cb, c) # u
BY DEF Served

\* A turn adds the bucket it selects to the picks, which are counted anew after a
\* full cycle: they are again those of the level and the bucket.
LEMMA TurnKeepsRound ==
    ASSUME NEW n \in Nat \ {0}, NEW share \in [0..(n - 1) -> Nat], NEW top \in Nat \ {0},
           Highest(n, share, top),
           NEW cb, NEW c, NEW picks, Round(n, share, top, cb, c, picks),
           NEW b, NEW d, Turned(n, share, top, LastBucket(n, cb), c, b, d),
           NEW old, Anew(n, share, picks, old)
    PROVE  Round(n, share, top, b, d, [old EXCEPT ![b] = @ + 1])
<1> DEFINE B == 0..(n - 1)
           new == [old EXCEPT ![b] = @ + 1]
           p == LastBucket(n, cb)
<1>1. picks \in [B -> Nat] /\ c \in Nat /\ b \in B /\ share[b] >= d
  BY DEF Round, Turned
<1>2. old \in [B -> Nat] /\ n - 1 \in Nat
  BY <1>1 DEF Anew
<1>3. new \in [B -> Nat] /\ \A x \in B : new[x] = IF x = b THEN old[x] + 1 ELSE old[x]
  BY SMTT(20), <1>1, <1>2
<1> HIDE DEF new
<1> SUFFICES /\ d \in 1..top
             /\ \A x \in B : new[x] = Served(share[x], x, b, d)
  BY SMTT(20), <1>1, <1>3 DEF Round, new
<1>0. \A x \in B : x \in Nat /\ share[x] \in Nat /\ share[x] <= top
  BY DEF Highest
<1>4. CASE d = c /\ b > p /\ \A x \in (p + 1)..(b - 1) : share[x] < c
  <2>1. cb \in B /\ p = cb /\ c \in 1..top /\ \A x \in B : picks[x] = Served(share[x], x, cb, c)
    BY <1>1, <1>4 DEF Round, LastBucket
  <2>2. ASSUME NEW x \in B
        PROVE  /\ Served(share[x], x, b, c) = IF x = b THEN picks[x] + 1 ELSE picks[x]
               /\ x = b => picks[x] < share[x]
    <3>1. /\ share[x] \in Nat /\ c \in Nat \ {0} /\ x \in Int /\ cb \in Int /\ b \in Int
          /\ b > cb /\ (cb < x /\ x < b => share[x] < c) /\ (x = b => share[x] >= c)
      BY <1>0, <1>1, <1>4, <2>1
    <3>2. picks[x] = Served(share[x], x, cb, c)
      BY <2>1
    <3> QED
      BY <3>1, <3>2, ServedOn
  <2>3. old = picks
    <3>1. picks[b] < share[b] /\ picks[b] \in Nat /\ share[b] \in Nat
      BY <1>1, <2>2
    <3>2. picks[b] # share[b]
      BY <3>1
    <3> QED
      BY <1>1, <3>2 DEF Anew
  <2>4. ASSUME NEW x \in B PROVE new[x] = Served(share[x], x, b, d)
    BY Zenon, <1>3, <1>4, <2>2, <2>3
  <2> QED
    BY <1>4, <2>1, <2>4
<1>5. CASE /\ d = NextLevel(top, c)
           /\ \A x \in (p + 1)..(n - 1) : share[x] < c
           /\ \A x \in 0..(b - 1) : share[x] < d
  <2>1. CASE c > 1
    <3>1. cb \in B /\ p = cb /\ c \in 1..top /\ \A x \in B : picks[x] = Served(share[x], x, cb, c)
      BY <1>1, <2>1 DEF Round, LastBucket
    <3>2. d = c - 1 /\ d \in 1..top
      BY <1>1, <1>5, <2>1, <3>1 DEF NextLevel
    <3>3. PICK t \in B : share[t] = top
      BY DEF Highest
    <3>4. picks[t] # share[t]
      <4>1. /\ share[t] \in Nat /\ c \in Nat \ {0} /\ t \in Int /\ cb \in Int
            /\ share[t] # 0 /\ c > 1
        BY <2>1, <3>1, <3>3
      <4>2. picks[t] = Served(share[t], t, cb, c)
        BY <3>1, <3>3
      <4> QED
        BY Zenon, <4>1, <4>2, ServedBound
    <3>5. old = picks
      BY <3>3, <3>4 DEF Anew
    <3>6. ASSUME NEW x \in B PROVE new[x] = Served(share[x], x, b, d)
      <4>1. /\ share[x] \in Nat /\ c \in Nat \ {0} /\ x \in Int /\ cb \in Int /\ b \in Int
            /\ (x > cb => share[x] < c) /\ (x < b => share[x] < c - 1)
            /\ (x = b => share[x] >= c - 1)
        BY SMTT(20), <1>0, <1>1, <1>5, <3>1, <3>2
      <4>2. picks[x] = Served(share[x], x, cb, c)
        BY <3>1
      <4>3. Served(share[x], x, b, c - 1) = IF x = b THEN picks[x] + 1 ELSE picks[x]
        BY <4>1, <4>2, ServedDown
      <4> QED
        BY SMTT(20), <1>3, <3>2, <3>5, <4>3
    <3> QED
      BY <3>2, <3>6
  <2>2. CASE c <= 1
    <3>1. d = top
      BY <1>5, <2>2 DEF NextLevel
    <3>2. \A x \in B : old[x] = 0
      <4>1. CASE cb = -1 /\ \A x \in B : picks[x] = 0
        BY <4>1 DEF Anew
      <4>2. CASE cb \in B /\ c \in 1..top /\ \A x \in B : picks[x] = Served(share[x], x, cb, c)
        <5>1. c = 1 /\ p = cb
          BY <2>2, <4>2 DEF LastBucket
        <5>2. ASSUME NEW x \in B PROVE picks[x] = share[x]
          <6>1. /\ share[x] \in Nat /\ x \in Int /\ cb \in Int /\ share[x] <= top
                /\ (x > cb => share[x] < 1)
            BY <1>0, <1>5, <4>2, <5>1
          <6>2. picks[x] = Served(share[x], x, cb, 1)
            BY <4>2, <5>1
          <6> QED
            BY SMTT(20), <6>1, <6>2, ServedLast
        <5> QED
          BY <5>2 DEF Anew
      <4> QED
        BY SMTT(20), <4>1, <4>2 DEF Round
    <3>3. ASSUME NEW x \in B PROVE new[x] = Served(share[x], x, b, d)
      <4>1. /\ share[x] \in Nat /\ x \in Int /\ b \in Int /\ share[x] <= top
            /\ (x < b => share[x] < top) /\ (x = b => share[x] = top)
        BY <1>0, <1>1, <1>5, <3>1
      <4>2. Served(share[x], x, b, top) = IF x = b THEN 1 ELSE 0
        BY Zenon, <4>1, ServedFirst
      <4>3. new[x] = IF x = b THEN old[x] + 1 ELSE old[x]
        BY <1>3
      <4>4. old[x] = 0
        BY <3>2
      <4>5. new[x] = IF x = b THEN 1 ELSE 0
        <5>1. CASE x = b
          BY <4>3, <4>4, <5>1
        <5>2. CASE x # b
          BY <4>3, <4>4, <5>2
        <5> QED
          BY <5>1, <5>2
      <4> QED
        BY <3>1, <4>2, <4>5
    <3> QED
      BY <3>1, <3>3
  <2> QED
    BY <1>1, <2>1, <2>2
<1> QED
  BY <1>4, <1>5 DEF Turned

\* Weights compare as their levels do.
LEMMA LevelsCompare ==
    ASSUME NEW d \in Nat, NEW x \in Nat, NEW u \in Nat, NEW y \in Nat, NEW v \in Nat,
           AtLevel(d, x, u), AtLevel(d, y, v)
    PROVE  x >= y <=> u >= v
<1>1. CASE d = 0
  BY <1>1 DEF AtLevel
<1>2. CASE d # 0
  <2>1. x = d * u /\ y = d * v
    BY <1>2 DEF AtLevel
  <2>2. u >= v => d * u >= d * v
    <3>1. ASSUME u >= v PROVE d * u >= d * v
      <4>1. u - v \in Nat /\ d * u = d * v + d * (u - v)
        BY <3>1
      <4>2. d * (u - v) >= 0
        BY <4>1
      <4> QED
        BY <4>1, <4>2
    <3> QED
      BY <3>1
  <2>3. ~(u >= v) => ~(d * u >= d * v)
    <3>1. ASSUME ~(u >= v) PROVE ~(d * u >= d * v)
      <4>1. v - u \in Nat \ {0} /\ d * v = d * u + d * (v - u)
        BY <3>1
      <4>2. d * (v - u) > 0
        BY <1>2, <4>1
      <4> QED
        BY <4>1, <4>2
    <3> QED
      BY <3>1
  <2> QED
    BY <2>1, <2>2, <2>3
<1> QED
  BY <1>1, <1>2

\* A multiple of d is at the level that the division by d finds.
LEMMA LevelOf ==
    ASSUME NEW d \in Nat, NEW x \in Nat, Divides(d, x)
    PROVE  LET u == IF d = 0 THEN 1 ELSE x \div d IN AtLevel(d, x, u) /\ u \in Nat
<1>1. PICK k \in Nat : x = d * k
  BY DEF Divides
<1>2. CASE d = 0
  BY <1>1, <1>2 DEF AtLevel
<1>3. CASE d # 0
  <2>1. x \div d = k
    BY <1>1, <1>3
  <2> QED
    BY <1>1, <1>3, <2>1 DEF AtLevel
<1> QED
  BY <1>2, <1>3

RoundData == [curr_bucket : Int, curr_weight : Nat, gcd_weight : Nat, max_weight : Nat]

Shares(weights, data) == [b \in 0..(Len(weights) - 1) |-> Share(weights, data, b)]

\* The weights that init_select_group has looked at are at the levels of the shares.
LEMMA LevelsAre ==
    ASSUME NEW weights \in Seq(Nat), weights # <<>>, NEW data \in RoundData,
           data.gcd_weight = GcdOf(weights), data.max_weight = MaxOf(weights)
    PROVE  /\ Shares(weights, data) \in [0..(Len(weights) - 1) -> Nat]
           /\ TopLevel(data) \in Nat \ {0}
           /\ Highest(Len(weights), Shares(weights, data), TopLevel(data))
           /\ AtLevel(data.gcd_weight, data.max_weight, TopLevel(data))
           /\ \A b \in 0..(Len(weights) - 1) :
                 AtLevel(data.gcd_weight, weights[b + 1], Shares(weights, data)[b])
<1> DEFINE n == Len(weights)
           d == data.gcd_weight
           max == data.max_weight
           share == Shares(weights, data)
           top == TopLevel(data)
<1>1. n \in Nat \ {0} /\ \A j \in 1..n : weights[j] \in Nat
  OBVIOUS
<1>2. d \in Nat /\ max \in Nat
  BY DEF RoundData
<1>3. /\ \A j \in 1..n : Divides(d, weights[j])
      /\ (\A j \in 1..n : weights[j] = 0) => d = 0
  BY GcdOfIs
<1>4. /\ \A j \in 1..n : weights[j] <= max
      /\ \E j \in 1..n : weights[j] = max
  BY MaxOfIs
<1>5. \A b \in 0..(n - 1) : share[b] = IF d = 0 THEN 1 ELSE weights[b + 1] \div d
  BY DEF Shares, Share
<1>6. top = IF d = 0 THEN 1 ELSE max \div d
  BY DEF TopLevel
<1>7. share = [b \in 0..(n - 1) |-> share[b]]
  BY DEF Shares
<1> HIDE DEF n, d, max, share, top
<1>8. ASSUME NEW b \in 0..(n - 1)
      PROVE  AtLevel(d, weights[b + 1], share[b]) /\ share[b] \in Nat
  <2>1. b + 1 \in 1..n
    BY <1>1
  <2> QED
    BY Zenon, <1>1, <1>2, <1>3, <1>5, <2>1, LevelOf
<1>9. PICK j \in 1..n : weights[j] = max
  BY <1>4
<1>10. AtLevel(d, max, top) /\ top \in Nat
  BY SMTT(20), <1>2, <1>3, <1>6, <1>9, LevelOf
<1>11. top # 0
  <2>1. CASE d = 0
    BY <1>6, <2>1
  <2>2. CASE d # 0
    <3>1. PICK i \in 1..n : weights[i] # 0
      BY <1>3, <2>2
    <3>2. max # 0
      BY <1>1, <1>2, <1>4, <3>1
    <3> QED
      BY <1>2, <1>10, <2>2, <3>2 DEF AtLevel
  <2> QED
    BY <2>1, <2>2
<1>12. Highest(n, share, top)
  <2>1. ASSUME NEW b \in 0..(n - 1) PROVE share[b] <= top
    <3>1. b + 1 \in 1..n
      BY <1>1
    <3>2. max >= weights[b + 1] /\ weights[b + 1] \in Nat
      BY SMTT(20), <1>1, <1>2, <1>4, <3>1
    <3> DEFINE y == weights[b + 1]
               u == share[b]
    <3>3. y \in Nat /\ u \in Nat /\ AtLevel(d, y, u) /\ max >= y
      BY <1>8, <3>2
    <3> HIDE DEF y, u
    <3>4. max >= y <=> top >= u
      BY <1>2, <1>10, <3>3, LevelsCompare
    <3> QED
      BY <1>10, <3>3, <3>4 DEF u
  <2>2. j - 1 \in 0..(n - 1) /\ weights[(j - 1) + 1] = max
    BY <1>1, <1>9
  <2>3. share[j - 1] = top
    BY <1>5, <1>6, <2>2
  <2> QED
    BY <2>1, <2>2, <2>3 DEF Highest
<1>13. share \in [0..(n - 1) -> Nat]
  BY <1>7, <1>8
<1> QED
  BY SMTT(20), <1>8, <1>10, <1>11, <1>12, <1>13 DEF n, d, max, share, top

\* The loop of select_from_select_group over n buckets after bucket cb: the bucket
\* of turn k, and whether the first bucket has been met.
LEMMA TurnIs ==
    ASSUME NEW n \in Nat \ {0}, NEW cb \in -1..(n - 1), NEW k \in 1..n,
           NEW p, p = LastBucket(n, cb)
    PROVE  /\ (cb + k) % n = IF p + k < n THEN p + k ELSE p + k - n
           /\ (\E j \in 1..k : (cb + j) % n = 0) <=> p + k >= n
<1>1. p \in 0..(n - 1) /\ p \in Int /\ p = IF cb = -1 THEN n - 1 ELSE cb
  BY DEF LastBucket
<1>2. ASSUME NEW j \in 1..n
      PROVE  (cb + j) % n = IF p + j < n THEN p + j ELSE p + j - n
  <2>1. CASE p + j < n
    <3>1. cb = p /\ cb + j \in 0..(n - 1)
      BY <1>1, <2>1
    <3>2. \A x \in 0..(n - 1) : x % n = x
      OBVIOUS
    <3> QED
      BY <2>1, <3>1, <3>2
  <2>2. CASE ~(p + j < n)
    <3> DEFINE x == p + j - n
    <3>1. x \in 0..(n - 1)
      BY <1>1, <2>2
    <3>2. cb + j = x \/ cb + j = x + n
      BY <1>1
    <3>3. \A y \in 0..(n - 1) : y % n = y /\ (y + n) % n = y
      OBVIOUS
    <3> HIDE DEF x
    <3>4. (cb + j) % n = x
      BY <3>1, <3>2, <3>3
    <3> QED
      BY <2>2, <3>4 DEF x
  <2> QED
    BY <2>1, <2>2
<1>3. ASSUME p + k >= n PROVE \E j \in 1..k : (cb + j) % n = 0
  <2>1. n - p \in 1..k /\ n - p \in 1..n /\ ~(p + (n - p) < n) /\ p + (n - p) - n = 0
    BY <1>1, <1>3
  <2>2. (cb + (n - p)) % n = 0
    BY <1>2, <2>1
  <2> QED
    BY <2>1, <2>2
<1>4. ASSUME NEW j \in 1..k, (cb + j) % n = 0 PROVE p + k >= n
  <2>1. j \in 1..n
    OBVIOUS
  <2>2. ~(p + j < n)
    BY SMTT(20), <1>1, <1>2, <1>4, <2>1
  <2> QED
    BY <1>1, <2>2
<1> QED
  BY Zenon, <1>2, <1>3, <1>4

\* The level steps down with the weight.
LEMMA WrapLevel ==
    ASSUME NEW data \in RoundData, NEW c \in Nat, NEW top \in Nat,
           AtLevel(data.gcd_weight, data.curr_weight, c),
           AtLevel(data.gcd_weight, data.max_weight, top)
    PROVE  /\ WrapWeight(data) \in Nat /\ NextLevel(top, c) \in Nat
           /\ AtLevel(data.gcd_weight, WrapWeight(data), NextLevel(top, c))
<1> DEFINE d == data.gcd_weight
           x == data.curr_weight
           y == data.max_weight
<1>1. d \in Nat /\ x \in Nat /\ y \in Nat
  BY DEF RoundData
<1>2. WrapWeight(data) = IF x <= d THEN y ELSE x - d
  BY DEF WrapWeight
<1>3. AtLevel(d, x, c) /\ AtLevel(d, y, top)
  OBVIOUS
<1> HIDE DEF d, x, y
<1>4. CASE d = 0
  BY SMTT(20), <1>1, <1>2, <1>3, <1>4 DEF AtLevel, NextLevel, d
<1>5. CASE d # 0
  <2>1. x = d * c /\ y = d * top
    BY <1>3, <1>5 DEF AtLevel
  <2>2. CASE c <= 1
    <3>1. x <= d
      <4>1. CASE c = 0
        BY <1>1, <2>1, <4>1
      <4>2. CASE c = 1
        BY <1>1, <2>1, <4>2
      <4> QED
        BY <2>2, <4>1, <4>2
    <3> QED
      BY SMTT(20), <1>1, <1>2, <1>3, <2>2, <3>1 DEF NextLevel, d
  <2>3. CASE c > 1
    <3>1. c - 1 \in Nat \ {0} /\ d * c = d + d * (c - 1)
      BY <1>1, <2>3
    <3>2. d * (c - 1) > 0
      BY <1>1, <1>5, <3>1
    <3>3. ~(x <= d) /\ x - d = d * (c - 1) /\ x - d \in Nat
      BY <1>1, <2>1, <3>1, <3>2
    <3> QED
      BY SMTT(20), <1>1, <1>2, <1>5, <2>3, <3>1, <3>3 DEF NextLevel, AtLevel, d
  <2> QED
    BY <2>2, <2>3
<1> QED
  BY <1>4, <1>5

\* The bucket of turn k after bucket p of n, and what is current there: x until the
\* first bucket is met, then y.
BucketAt(n, p, k) == IF p + k < n THEN p + k ELSE p + k - n
CurrentAt(n, p, k, x, y) == IF p + k < n THEN x ELSE y

\* One of the n turns meets each bucket.
LEMMA BucketMet ==
    ASSUME NEW n \in Nat \ {0}, NEW p \in 0..(n - 1), NEW t \in 0..(n - 1)
    PROVE  \E k \in 1..n : BucketAt(n, p, k) = t
<1>1. CASE t > p
  <2>1. t - p \in 1..n /\ BucketAt(n, p, t - p) = t
    BY <1>1 DEF BucketAt
  <2> QED
    BY <2>1
<1>2. CASE ~(t > p)
  <2>1. t + n - p \in 1..n /\ BucketAt(n, p, t + n - p) = t
    BY <1>2 DEF BucketAt
  <2> QED
    BY <2>1
<1> QED
  BY <1>1, <1>2

\* The turns that hit
Hits(n, p, share, c, e) ==
    {k \in 1..n : share[BucketAt(n, p, k)] >= CurrentAt(n, p, k, c, e)}

\* A turn at the same level
LEMMA TurnsOn ==
    ASSUME NEW n, NEW share, NEW top, NEW p, NEW c, NEW b, b \in 0..(n - 1), share[b] >= c,
           b > p, \A x \in (p + 1)..(b - 1) : share[x] < c
    PROVE  Turned(n, share, top, p, c, b, c)
BY Zenon DEF Turned

\* A turn that comes back to the first bucket
LEMMA TurnsDown ==
    ASSUME NEW n, NEW share, NEW top, NEW p, NEW c, NEW b, NEW d, b \in 0..(n - 1),
           share[b] >= d, d = NextLevel(top, c),
           \A x \in (p + 1)..(n - 1) : share[x] < c, \A x \in 0..(b - 1) : share[x] < d
    PROVE  Turned(n, share, top, p, c, b, d)
BY Zenon DEF Turned

\* One of the turns hits, as a bucket of the greatest share does, and the first of
\* them makes the turn.
LEMMA FirstHit ==
    ASSUME NEW n \in Nat \ {0}, NEW p \in 0..(n - 1),
           NEW share \in [0..(n - 1) -> Nat], NEW top \in Nat, Highest(n, share, top),
           NEW c \in Nat, c <= top, NEW e \in Nat, e <= top, e = NextLevel(top, c),
           NEW H, H = Hits(n, p, share, c, e)
    PROVE  /\ H # {} /\ Min(H) \in H
           /\ Turned(n, share, top, p, c, BucketAt(n, p, Min(H)), CurrentAt(n, p, Min(H), c, e))
<1>1. H # {}
  <2>1. PICK t \in 0..(n - 1) : share[t] = top
    BY DEF Highest
  <2>2. PICK k \in 1..n : BucketAt(n, p, k) = t
    BY BucketMet
  <2>3. CurrentAt(n, p, k, c, e) <= top
    BY DEF CurrentAt
  <2>4. share[BucketAt(n, p, k)] >= CurrentAt(n, p, k, c, e)
    <3>1. CurrentAt(n, p, k, c, e) \in Nat
      BY DEF CurrentAt
    <3> QED
      BY SMTT(20), <2>1, <2>2, <2>3, <3>1
  <2> QED
    BY SMTT(20), <2>4 DEF Hits
<1> DEFINE h == Min(H)
<1>2. h \in H /\ \A k \in H : h <= k
  <2>1. H \in SUBSET Nat
    BY DEF Hits
  <2> QED
    BY SMTT(20), <1>1, <2>1, MinIs
<1> HIDE DEF h
<1>3. h \in 1..n /\ share[BucketAt(n, p, h)] >= CurrentAt(n, p, h, c, e)
  BY <1>2 DEF Hits
<1>4. ASSUME NEW k \in 1..(h - 1)
      PROVE  ~(share[BucketAt(n, p, k)] >= CurrentAt(n, p, k, c, e))
  <2>1. k \in 1..n /\ ~(h <= k)
    BY <1>3
  <2> QED
    BY <1>2, <2>1 DEF Hits
<1>5. BucketAt(n, p, h) \in 0..(n - 1)
  BY <1>3 DEF BucketAt
<1>6. CASE p + h < n
  <2> DEFINE b == p + h
  <2>1. /\ BucketAt(n, p, h) = b /\ CurrentAt(n, p, h, c, e) = c /\ b > p
        /\ b \in 0..(n - 1) /\ b = p + h
    BY <1>3, <1>6 DEF BucketAt, CurrentAt
  <2> HIDE DEF b
  <2>2. \A x \in (p + 1)..(b - 1) : share[x] < c
    <3> SUFFICES ASSUME NEW x \in (p + 1)..(b - 1) PROVE share[x] < c
      OBVIOUS
    <3>1. x - p \in 1..(h - 1) /\ p + (x - p) < n /\ p + (x - p) = x /\ x \in 0..(n - 1)
      BY SMTT(20), <1>3, <1>6, <2>1
    <3>2. BucketAt(n, p, x - p) = x /\ CurrentAt(n, p, x - p, c, e) = c
      BY <3>1 DEF BucketAt, CurrentAt
    <3>3. ~(share[x] >= c) /\ share[x] \in Nat
      BY Zenon, <1>4, <3>1, <3>2
    <3> QED
      BY <3>3
  <2>3. share[b] >= c
    BY <1>3, <2>1
  <2>4. Turned(n, share, top, p, c, b, c)
    BY Zenon, <2>1, <2>2, <2>3, TurnsOn
  <2> QED
    BY SMTT(20), <1>1, <1>2, <2>1, <2>4 DEF h
<1>7. CASE ~(p + h < n)
  <2> DEFINE b == p + h - n
  <2>1. /\ BucketAt(n, p, h) = b /\ CurrentAt(n, p, h, c, e) = e
        /\ b \in 0..(n - 1) /\ b = p + h - n
    BY <1>3, <1>7 DEF BucketAt, CurrentAt
  <2> HIDE DEF b
  <2>2. \A x \in (p + 1)..(n - 1) : share[x] < c
    <3> SUFFICES ASSUME NEW x \in (p + 1)..(n - 1) PROVE share[x] < c
      OBVIOUS
    <3>1. x - p \in 1..(h - 1) /\ p + (x - p) < n /\ p + (x - p) = x /\ x \in 0..(n - 1)
      BY <1>3, <1>7
    <3>2. BucketAt(n, p, x - p) = x /\ CurrentAt(n, p, x - p, c, e) = c
      BY <3>1 DEF BucketAt, CurrentAt
    <3>3. ~(share[x] >= c) /\ share[x] \in Nat
      BY SMTT(20), <1>4, <3>1, <3>2
    <3> QED
      BY <3>3
  <2>3. \A x \in 0..(b - 1) : share[x] < e
    <3> SUFFICES ASSUME NEW x \in 0..(b - 1) PROVE share[x] < e
      OBVIOUS
    <3>1. /\ x + n - p \in 1..(h - 1) /\ ~(p + (x + n - p) < n) /\ p + (x + n - p) - n = x
          /\ x \in 0..(n - 1)
      BY SMTT(20), <1>3, <1>7, <2>1
    <3>2. BucketAt(n, p, x + n - p) = x /\ CurrentAt(n, p, x + n - p, c, e) = e
      BY <3>1 DEF BucketAt, CurrentAt
    <3>3. ~(share[x] >= e) /\ share[x] \in Nat
      BY SMTT(20), <1>4, <3>1, <3>2
    <3> QED
      BY <3>3
  <2>4. share[b] >= e
    BY <1>3, <2>1
  <2>5. Turned(n, share, top, p, c, b, e)
    BY Zenon, <2>1, <2>2, <2>3, <2>4, TurnsDown
  <2> QED
    BY SMTT(20), <1>1, <1>2, <2>1, <2>5 DEF h
<1> QED
  BY <1>6, <1>7

\* The weights of the buckets are at the levels of their shares.
Levels(d, n, weights, share) == \A b \in 0..(n - 1) : AtLevel(d, weights[b + 1], share[b])

\* s is the selection of the bucket that is next after level c: the data left
\* behind are at its level.
Selects(n, share, top, c, data, s) ==
    /\ s.bucket \in 0..(n - 1)
    /\ s.data \in RoundData /\ s.data.curr_bucket = s.bucket
    /\ s.data.gcd_weight = data.gcd_weight /\ s.data.max_weight = data.max_weight
    /\ \E d \in Nat :
          /\ AtLevel(data.gcd_weight, s.data.curr_weight, d)
          /\ Turned(n, share, top, LastBucket(n, data.curr_bucket), c, s.bucket, d)

\* select_from_select_group finds a bucket, the one that is next at the levels of
\* the weights.
LEMMA SelectTurns ==
    ASSUME NEW weights \in Seq(Nat), NEW n \in Nat \ {0}, n = Len(weights),
           NEW data \in RoundData, NEW g \in Nat, g = data.gcd_weight,
           NEW cb \in -1..(n - 1), cb = data.curr_bucket,
           NEW share \in [0..(n - 1) -> Nat], NEW top \in Nat, Highest(n, share, top),
           NEW c \in Nat, c <= top,
           Levels(g, n, weights, share),
           AtLevel(g, data.curr_weight, c), AtLevel(g, data.max_weight, top)
    PROVE  Selects(n, share, top, c, data, select_from_select_group(weights, data))
<1> DEFINE p == LastBucket(n, cb)
           x == data.curr_weight
           y == WrapWeight(data)
           e == NextLevel(top, c)
           after == [k \in 1..Len(weights) |-> AfterTurns(weights, data, k)]
           hits == {k \in DOMAIN after :
                      weights[after[k].curr_bucket + 1] >= after[k].curr_weight}
<1>1. p \in 0..(n - 1)
  BY DEF LastBucket
<1>2. x \in Nat /\ data.max_weight \in Nat
  BY DEF RoundData
<1>3. y \in Nat /\ e \in Nat /\ AtLevel(g, y, e)
  BY WrapLevel
<1>4. e <= top
  BY DEF NextLevel
<1>5. AtLevel(g, x, c)
  OBVIOUS
<1> HIDE DEF p, x, y, e
<1>6. ASSUME NEW k \in 1..n
      PROVE  after[k] = [data EXCEPT !.curr_bucket = BucketAt(n, p, k),
                                     !.curr_weight = CurrentAt(n, p, k, x, y)]
  <2>1. /\ (cb + k) % n = BucketAt(n, p, k)
        /\ (\E j \in 1..k : (cb + j) % n = 0) <=> p + k >= n
    BY Zenon, TurnIs DEF BucketAt, p
  <2>2. (p + k < n) <=> ~(p + k >= n)
    BY <1>1
  <2>3. after[k] = [data EXCEPT !.curr_bucket = (cb + k) % n,
                                !.curr_weight = IF \E j \in 1..k : (cb + j) % n = 0
                                                THEN y ELSE x]
    BY Zenon DEF AfterTurns, x, y
  <2>4. (IF \E j \in 1..k : (cb + j) % n = 0 THEN y ELSE x) = CurrentAt(n, p, k, x, y)
    BY Zenon, <2>1, <2>2 DEF CurrentAt
  <2> HIDE DEF after
  <2> QED
    BY Zenon, <2>1, <2>3, <2>4
<1>7. ASSUME NEW k \in 1..n
      PROVE  /\ BucketAt(n, p, k) \in 0..(n - 1)
             /\ CurrentAt(n, p, k, x, y) \in Nat /\ CurrentAt(n, p, k, c, e) \in Nat
             /\ AtLevel(g, CurrentAt(n, p, k, x, y), CurrentAt(n, p, k, c, e))
  <2>1. BucketAt(n, p, k) \in 0..(n - 1)
    BY SMTT(20), <1>1 DEF BucketAt
  <2>2. /\ CurrentAt(n, p, k, x, y) \in Nat /\ CurrentAt(n, p, k, c, e) \in Nat
        /\ AtLevel(g, CurrentAt(n, p, k, x, y), CurrentAt(n, p, k, c, e))
    BY Zenon, <1>2, <1>3, <1>5 DEF CurrentAt
  <2> QED
    BY <2>1, <2>2
<1> HIDE DEF after
<1>8. ASSUME NEW k \in 1..n
      PROVE  /\ after[k] \in RoundData
             /\ after[k].curr_bucket = BucketAt(n, p, k)
             /\ after[k].curr_weight = CurrentAt(n, p, k, x, y)
             /\ after[k].gcd_weight = g /\ after[k].max_weight = data.max_weight
  <2>1. BucketAt(n, p, k) \in Int
    BY SMTT(20), <1>7
  <2> DEFINE q == BucketAt(n, p, k)
             z == CurrentAt(n, p, k, x, y)
  <2>2. q \in Int /\ z \in Nat /\ after[k] = [data EXCEPT !.curr_bucket = q, !.curr_weight = z]
    BY Zenon, <1>6, <1>7, <2>1
  <2> HIDE DEF q, z, hits
  <2>3. /\ after[k] \in RoundData /\ after[k].curr_bucket = q /\ after[k].curr_weight = z
        /\ after[k].gcd_weight = g /\ after[k].max_weight = data.max_weight
    BY Zenon, <2>2 DEF RoundData
  <2> QED
    BY <2>3 DEF q, z
<1>9. ASSUME NEW k \in 1..n
      PROVE  k \in hits <=> share[BucketAt(n, p, k)] >= CurrentAt(n, p, k, c, e)
  <2> DEFINE w == weights[BucketAt(n, p, k) + 1]
             u == share[BucketAt(n, p, k)]
             z == CurrentAt(n, p, k, x, y)
             v == CurrentAt(n, p, k, c, e)
  <2>1. k \in hits <=> w >= z
    BY Zenon, <1>8 DEF after
  <2>2. AtLevel(g, w, u) /\ w \in Nat /\ u \in Nat
    <3> DEFINE q == BucketAt(n, p, k)
    <3>1. q \in 0..(n - 1)
      BY <1>7
    <3> HIDE DEF q, w, u, z, v, hits
    <3>2. AtLevel(g, weights[q + 1], share[q])
      BY Zenon, <3>1 DEF Levels
    <3>3. q + 1 \in 1..Len(weights)
      BY <3>1
    <3>4. weights[q + 1] \in Nat /\ share[q] \in Nat
      BY <3>1, <3>3
    <3> QED
      BY Zenon, <3>2, <3>4 DEF q, w, u
  <2>3. AtLevel(g, z, v) /\ z \in Nat /\ v \in Nat
    BY <1>7
  <2> HIDE DEF w, u, z, v
  <2>4. w >= z <=> u >= v
    BY Zenon, <2>2, <2>3, LevelsCompare
  <2> QED
    BY Zenon, <2>1, <2>4 DEF u, v
<1>10. hits = Hits(n, p, share, c, e)
  <2>1. \A k \in hits : k \in 1..n
    BY DEF after
  <2> HIDE DEF hits
  <2> QED
    BY Zenon, <1>9, <2>1 DEF Hits
<1> DEFINE h == Min(hits)
<1>11. /\ hits # {} /\ h \in hits /\ h \in 1..n
       /\ Turned(n, share, top, p, c, BucketAt(n, p, h), CurrentAt(n, p, h, c, e))
  <2>1. e = NextLevel(top, c)
    BY DEF e
  <2>2. /\ hits # {} /\ h \in hits
        /\ Turned(n, share, top, p, c, BucketAt(n, p, h), CurrentAt(n, p, h, c, e))
    <3> HIDE DEF hits
    <3> QED
      BY Zenon, <1>1, <1>3, <1>4, <1>10, <2>1, FirstHit
  <2>3. \A k \in hits : k \in 1..n
    BY DEF after
  <2> QED
    BY Zenon, <2>2, <2>3
<1>12. select_from_select_group(weights, data) = [bucket |-> after[h].curr_bucket, data |-> after[h]]
  <2> DEFINE d == CASE hits # {} -> after[Min(hits)]
                    [] weights = <<>> -> data
                    [] OTHER -> after[Len(weights)]
  <2>1. select_from_select_group(weights, data)
          = [bucket |-> IF hits = {} THEN -1 ELSE d.curr_bucket, data |-> d]
    BY Zenon DEF select_from_select_group, after
  <2>2. weights # <<>>
    OBVIOUS
  <2> HIDE DEF hits, after
  <2>3. d = after[h]
    BY Zenon, <1>11, <2>2
  <2> HIDE DEF d
  <2> QED
    BY Zenon, <1>11, <2>1, <2>3
<1> HIDE DEF h
<1> QED
  BY SMTT(20), <1>7, <1>8, <1>11, <1>12 DEF p, Selects

\* A group without buckets selects none.
LEMMA NoneSelected ==
    ASSUME NEW data, NEW s, s = select_from_select_group(<<>>, data)
    PROVE  s.bucket = -1 /\ s.data = data
<1> DEFINE after == [k \in 1 .. Len(<<>>) |-> AfterTurns(<<>>, data, k)]
           hits == {k \in DOMAIN after :
                      <<>>[after[k].curr_bucket + 1] >= after[k].curr_weight}
           d == CASE hits # {}      -> after[Min(hits)]
                  [] <<>> = <<>>    -> data
                  [] OTHER          -> after[Len(<<>>)]
<1>1. s = [bucket |-> IF hits = {} THEN -1 ELSE d.curr_bucket, data |-> d]
  BY Zenon DEF select_from_select_group
<1>2. DOMAIN after = {}
  OBVIOUS
<1> HIDE DEF after
<1>3. hits = {}
  BY Zenon, <1>2
<1> HIDE DEF hits
<1>4. d = data
  BY Zenon, <1>3
<1> HIDE DEF d
<1> QED
  BY <1>1, <1>3, <1>4

\* The round robin of a group: its data come from the weights, and the picks are
\* those of its level and its bucket.
RoundInv(weights, data, picks) ==
    /\ data \in RoundData
    /\ data.gcd_weight = GcdOf(weights) /\ data.max_weight = MaxOf(weights)
    /\ weights = <<>> => picks = [b \in 0..(Len(weights) - 1) |-> 0]
    /\ weights # <<>> =>
          /\ AtLevel(data.gcd_weight, data.curr_weight, Level(data))
          /\ Round(Len(weights), Shares(weights, data), TopLevel(data),
                   data.curr_bucket, Level(data), picks)

\* It holds of a new group (init_select_group).
LEMMA RoundBegins ==
    ASSUME NEW weights \in Seq(Nat)
    PROVE  RoundInv(weights, init_select_group(weights), [b \in 0..(Len(weights) - 1) |-> 0])
<1> DEFINE data == init_select_group(weights)
           g == GcdOf(weights)
           none == [b \in 0..(Len(weights) - 1) |-> 0]
           c == Level(data)
<1>1. g \in Nat /\ MaxOf(weights) \in Nat
  <2> HIDE DEF data, g, none, c
  <2>1. GcdOf(weights) \in Nat
    BY GcdOfIs
  <2>2. MaxOf(weights) \in Nat
    BY MaxOfIs
  <2> QED
    BY <2>1, <2>2 DEF g
<1>2. /\ data.gcd_weight = g /\ data.max_weight = MaxOf(weights)
      /\ data.curr_weight = 0 /\ data.curr_bucket = -1
  BY DEF init_select_group
<1>3. data \in RoundData
  <2> HIDE DEF g
  <2> QED
    BY <1>1 DEF init_select_group, RoundData, g
<1>4. none \in [0..(Len(weights) - 1) -> Nat] /\ \A b \in 0..(Len(weights) - 1) : none[b] = 0
  OBVIOUS
<1> HIDE DEF data, g, none
<1>5. c \in Nat /\ c <= 1 /\ AtLevel(g, 0, c)
  <2>1. CASE g = 0
    BY <1>2, <2>1 DEF AtLevel, Level
  <2>2. CASE g # 0
    <3>1. 0 \div g = 0 /\ g * 0 = 0
      BY <1>1, <2>2
    <3> QED
      BY <1>2, <2>2, <3>1 DEF AtLevel, Level
  <2> QED
    BY <2>1, <2>2
<1> HIDE DEF c
<1>6. Round(Len(weights), Shares(weights, data), TopLevel(data), -1, c, none)
  BY Zenon, <1>4, <1>5 DEF Round
<1> QED
  BY Zenon, <1>2, <1>3, <1>5, <1>6 DEF RoundInv, c, data, none, g

\* A level is what the division by the divisor finds.
LEMMA LevelIs ==
    ASSUME NEW d \in Nat, NEW x \in Nat, NEW u \in Nat, AtLevel(d, x, u)
    PROVE  u = IF d = 0 THEN 1 ELSE x \div d
<1>1. CASE d = 0
  BY <1>1 DEF AtLevel
<1>2. CASE d # 0
  <2>1. x = d * u
    BY <1>2 DEF AtLevel
  <2>2. (d * u) \div d = u
    BY SMTT(20), <1>2
  <2> QED
    BY <1>2, <2>1, <2>2
<1> QED
  BY <1>1, <1>2

\* It is kept by a selection, which finds a bucket.
LEMMA RoundGoesOn ==
    ASSUME NEW weights \in Seq(Nat), weights # <<>>, NEW data, NEW picks,
           RoundInv(weights, data, picks), NEW old,
           Anew(Len(weights), Shares(weights, data), picks, old),
           NEW s, s = select_from_select_group(weights, data)
    PROVE  /\ s.bucket \in 0..(Len(weights) - 1)
           /\ RoundInv(weights, s.data, [old EXCEPT ![s.bucket] = @ + 1])
<1> DEFINE n == Len(weights)
           g == data.gcd_weight
           cb == data.curr_bucket
           c == Level(data)
           share == Shares(weights, data)
           top == TopLevel(data)
           new == [old EXCEPT ![s.bucket] = @ + 1]
<1>1. /\ data \in RoundData /\ g = GcdOf(weights) /\ data.max_weight = MaxOf(weights)
      /\ AtLevel(g, data.curr_weight, c) /\ Round(n, share, top, cb, c, picks)
  BY Zenon DEF RoundInv
<1>2. /\ share \in [0..(n - 1) -> Nat] /\ top \in Nat \ {0} /\ Highest(n, share, top)
      /\ AtLevel(g, data.max_weight, top) /\ Levels(g, n, weights, share)
  BY Zenon, <1>1, LevelsAre DEF Levels
<1>3. n \in Nat \ {0}
  OBVIOUS
<1>4. g \in Nat
  BY <1>1 DEF RoundData
<1>5. Anew(n, share, picks, old)
  OBVIOUS
<1>6. n = Len(weights) /\ g = data.gcd_weight /\ cb = data.curr_bucket
  OBVIOUS
<1> HIDE DEF n, g, cb, c, share, top
<1>7. cb \in -1..(n - 1) /\ c \in Nat /\ c <= top
  BY <1>1, <1>2, <1>3 DEF Round
<1>8. /\ s.bucket \in 0..(n - 1)
      /\ s.data \in RoundData /\ s.data.curr_bucket = s.bucket
      /\ s.data.gcd_weight = g /\ s.data.max_weight = data.max_weight
      /\ \E d \in Nat : /\ AtLevel(g, s.data.curr_weight, d)
                        /\ Turned(n, share, top, LastBucket(n, cb), c, s.bucket, d)
  <2> HIDE DEF new
  <2>1. data \in RoundData /\ AtLevel(g, data.curr_weight, c) /\ top \in Nat
    BY <1>1, <1>2
  <2>2. Selects(n, share, top, c, data, s)
    BY Zenon, <1>2, <1>3, <1>4, <1>6, <1>7, <2>1, SelectTurns
  <2> QED
    BY Zenon, <1>6, <2>2 DEF Selects
<1>9. PICK d \in Nat : /\ AtLevel(g, s.data.curr_weight, d)
                       /\ Turned(n, share, top, LastBucket(n, cb), c, s.bucket, d)
  BY <1>8
<1>10. Round(n, share, top, s.bucket, d, new)
  BY Zenon, <1>1, <1>2, <1>3, <1>5, <1>9, TurnKeepsRound
<1>11. d = Level(s.data)
  <2>1. s.data.curr_weight \in Nat
    BY SMTT(20), <1>8 DEF RoundData
  <2>2. d = IF g = 0 THEN 1 ELSE s.data.curr_weight \div g
    BY SMTT(20), <1>4, <1>9, <2>1, LevelIs
  <2> QED
    BY Zenon, <1>8, <2>2 DEF Level
<1>12. Shares(weights, s.data) = share /\ TopLevel(s.data) = top
  BY Zenon, <1>6, <1>8 DEF Shares, Share, TopLevel, share, top
<1> HIDE DEF new
<1>13. RoundInv(weights, s.data, new)
  BY Zenon, <1>1, <1>6, <1>8, <1>9, <1>10, <1>11, <1>12 DEF RoundInv
<1> QED
  BY SMTT(20), <1>6, <1>8, <1>13 DEF new

\* No bucket is ahead of its share.
LEMMA RoundMeans ==
    ASSUME NEW weights \in Seq(Nat), NEW data, NEW picks, RoundInv(weights, data, picks)
    PROVE  \A b \in DOMAIN picks : picks[b] <= Share(weights, data, b)
<1>1. CASE weights = <<>>
  <2>1. picks = [b \in 0..(Len(weights) - 1) |-> 0] /\ Len(weights) = 0
    BY <1>1 DEF RoundInv
  <2> QED
    BY <2>1
<1>2. CASE weights # <<>>
  <2> DEFINE n == Len(weights)
             cb == data.curr_bucket
             c == Level(data)
             share == Shares(weights, data)
             top == TopLevel(data)
  <2>1. /\ data \in RoundData /\ data.gcd_weight = GcdOf(weights)
        /\ data.max_weight = MaxOf(weights) /\ Round(n, share, top, cb, c, picks)
    BY Zenon, <1>2 DEF RoundInv
  <2>2. share \in [0..(n - 1) -> Nat] /\ top \in Nat \ {0}
    BY Zenon, <1>2, <2>1, LevelsAre
  <2>3. \A b \in 0..(n - 1) : share[b] = Share(weights, data, b)
    BY DEF Shares
  <2>4. n \in Nat
    OBVIOUS
  <2> HIDE DEF n, cb, c, share, top
  <2>5. DOMAIN picks = 0..(n - 1)
    BY <2>1 DEF Round
  <2>6. ASSUME NEW b \in 0..(n - 1) PROVE picks[b] <= share[b]
    <3>1. CASE picks[b] = 0
      BY <2>2, <3>1
    <3>2. CASE cb \in 0..(n - 1) /\ c \in 1..top /\ picks[b] = Served(share[b], b, cb, c)
      <4> DEFINE u == share[b]
      <4>1. u \in Nat /\ c \in Nat \ {0} /\ b \in Int /\ cb \in Int
        BY <2>2, <2>4, <3>2
      <4>2. picks[b] = Served(u, b, cb, c)
        BY <3>2
      <4> HIDE DEF u
      <4>3. picks[b] <= u
        BY Zenon, <4>1, <4>2, ServedBound
      <4> QED
        BY <4>3 DEF u
    <3> QED
      BY <2>1, <3>1, <3>2 DEF Round
  <2> QED
    BY <2>3, <2>5, <2>6
<1> QED
  BY <1>1, <1>2
=============================================================================
