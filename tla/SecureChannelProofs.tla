------------------------ MODULE SecureChannelProofs ------------------------
(***************************************************************************)
(* Proofs about SecureChannel, for any controllers, command lines and      *)
(* numbers of iterations, failures and messages: each half of the relay    *)
(* counts exactly its messages in the other's send queue, and the loop of  *)
(* rconn_run ends.  The invariant of the memory is what holds between the  *)
(* calls of lib/rconn.c, and each function keeps it.                       *)
(***************************************************************************)
EXTENDS SecureChannel, FiniteSetTheorems, WellFoundedInduction, TLAPS

---------------------------------------------------------------------------
\* Loops.  The library folds a sequence over the set of its positions, all but
\* the greatest of them first.

\* Of any natural numbers one is the least: where an induction begins.
LEMMA LeastNatural ==
    ASSUME NEW T \in SUBSET Nat, T # {}
    PROVE  \E n \in T : \A m \in T : n <= m
<1>1. PICK n \in T : \A m \in T : ~(<<m, n>> \in OpToRel(<, Nat))
  BY WFMin, NatLessThanWellFounded, Zenon
<1>2. \A m \in T : ~(m < n)
  BY <1>1, Zenon DEF OpToRel
<1>3. \A m \in T : n <= m
  BY <1>2
<1> QED
  BY <1>3

\* Induction over the first m steps of a loop, for a set of steps.
LEMMA LoopInduction ==
    ASSUME NEW m \in Nat, NEW T, 0 \in T, \A n \in 1..m : n - 1 \in T => n \in T
    PROVE  \A n \in 0..m : n \in T
<1> DEFINE Bad == {n \in 0..m : n \notin T}
<1> SUFFICES ASSUME Bad # {} PROVE FALSE
  OBVIOUS
<1>1. Bad \in SUBSET Nat
  OBVIOUS
<1>2. PICK n \in Bad : \A k \in Bad : n <= k
  BY <1>1, LeastNatural, Zenon
<1>3. n \in 1..m /\ n - 1 \in 0..m /\ n - 1 \notin Bad
  BY <1>2
<1> QED
  BY <1>2, <1>3

\* The greatest of a set of positions.
LEMMA MaxIs ==
    ASSUME NEW m \in Nat, NEW w \in SUBSET (1..m), w # {}
    PROVE  Max(w) \in w /\ \A y \in w : Max(w) >= y
<1> DEFINE T == {m - x : x \in w}
<1>1. T \in SUBSET Nat /\ T # {}
  <2>1. \A x \in w : m - x \in Nat
    OBVIOUS
  <2> QED
    BY Zenon, <2>1
<1>2. PICK n \in T : \A k \in T : n <= k
  BY <1>1, LeastNatural, Zenon
<1>3. PICK x \in w : n = m - x
  BY <1>2
<1>4. ASSUME NEW y \in w PROVE x >= y
  <2>1. n <= m - y
    BY Zenon, <1>2
  <2> HIDE DEF T
  <2> QED
    BY <1>3, <2>1
<1> QED
  BY Zenon, <1>4 DEF Max

\* The sets of positions with those that are folded before the last
LEMMA BeforeLast ==
    ASSUME NEW n \in Nat, NEW w \in SUBSET (1..n), w # {}
    PROVE  Max(w) \in 1..n /\ w \ {Max(w)} \in SUBSET (1..(n - 1))
<1>1. Max(w) \in w /\ \A y \in w : Max(w) >= y
  BY MaxIs
<1>2. \A y \in w \ {Max(w)} : y \in 1..(n - 1)
  <2> DEFINE x == Max(w)
  <2>1. x \in 1..n /\ \A y \in w : x >= y
    BY Zenon, <1>1
  <2> HIDE DEF x
  <2>2. \A y \in w \ {x} : y \in 1..(n - 1)
    BY <2>1
  <2> QED
    BY <2>2 DEF x
<1> QED
  BY Zenon, <1>1, <1>2

\* What each step of a fold keeps, the fold keeps.
LEMMA FoldKeeps ==
    ASSUME NEW X, NEW m \in Nat, NEW g, g[{}] \in X,
           \A w \in SUBSET (1..m) : w # {} /\ g[w \ {Max(w)}] \in X => g[w] \in X
    PROVE  g[1..m] \in X
<1> DEFINE T == {n \in 0..m : \A w \in SUBSET (1..n) : g[w] \in X}
<1>1. 0 \in T
  <2>1. \A w \in SUBSET (1..0) : w = {}
    OBVIOUS
  <2>2. \A w \in SUBSET (1..0) : g[w] \in X
    BY Zenon, <2>1
  <2>3. 0 \in 0..m
    OBVIOUS
  <2> QED
    BY <2>2, <2>3
<1>2. ASSUME NEW n \in 1..m, n - 1 \in T
      PROVE  n \in T
  <2>1. ASSUME NEW w \in SUBSET (1..n), w # {} PROVE g[w] \in X
    <3>1. w \ {Max(w)} \in SUBSET (1..(n - 1))
      BY <2>1, BeforeLast
    <3>2. g[w \ {Max(w)}] \in X
      BY <1>2, <3>1
    <3>3. w \in SUBSET (1..m)
      OBVIOUS
    <3> QED
      BY <2>1, <3>2, <3>3
  <2>2. \A w \in SUBSET (1..n) : g[w] \in X
    BY Zenon, <2>1
  <2>3. n \in 0..m
    OBVIOUS
  <2> QED
    BY Zenon, <2>2, <2>3
<1>3. \A n \in 1..m : n - 1 \in T => n \in T
  BY Zenon, <1>2
<1> HIDE DEF T
<1>4. \A n \in 0..m : n \in T
  BY <1>1, <1>3, LoopInduction, Zenon
<1>5. m \in T
  BY <1>4
<1> QED
  BY <1>5 DEF T

---------------------------------------------------------------------------
\* Queues and what is counted of them.

\* A queue of messages
IsQueue(q) == \E S : q \in Seq(S)

\* Where the messages of q with a pointer to the counter o are
OwnedAt(q, o) == {k \in DOMAIN q : q[k].owner = o}

\* There are finitely many of them.
LEMMA OwnedNat ==
    ASSUME NEW q, IsQueue(q), NEW o
    PROVE  /\ Owned(q, o) \in Nat /\ Owned(q, o) = Cardinality(OwnedAt(q, o))
           /\ IsFiniteSet(OwnedAt(q, o))
<1>1. DOMAIN q = 1 .. Len(q) /\ Len(q) \in Nat
  BY DEF IsQueue
<1>2. IsFiniteSet(1 .. Len(q))
  BY <1>1, FS_Interval
<1>3. OwnedAt(q, o) \in SUBSET (1 .. Len(q))
  BY <1>1 DEF OwnedAt
<1>4. IsFiniteSet(OwnedAt(q, o))
  BY <1>2, <1>3, FS_Subset, Zenon
<1>5. Owned(q, o) = Cardinality(OwnedAt(q, o))
  BY Zenon DEF Owned, OwnedAt
<1> QED
  BY Zenon, <1>4, <1>5, FS_CardinalityType

\* An empty queue
LEMMA OwnedNone ==
    IsQueue(<<>>) /\ \A o : Owned(<<>>, o) = 0
<1>1. IsQueue(<<>>)
  BY DEF IsQueue
<1>2. \A o : OwnedAt(<<>>, o) = {}
  BY DEF OwnedAt
<1> QED
  BY Zenon, <1>1, <1>2, OwnedNat, FS_EmptySet

\* A message is added at the end.
LEMMA OwnedAppend ==
    ASSUME NEW q, IsQueue(q), NEW b
    PROVE  /\ IsQueue(Append(q, b)) /\ Append(q, b) # <<>>
           /\ Len(Append(q, b)) = 1 => q = <<>>
           /\ \A o : Owned(Append(q, b), o) = Owned(q, o) + (IF b.owner = o THEN 1 ELSE 0)
<1> DEFINE p == Append(q, b)
           n == Len(q) + 1
<1>1. PICK S : q \in Seq(S)
  BY DEF IsQueue
<1>2. p \in Seq(S \cup {b})
  BY <1>1
<1>3. /\ n \in Nat \ {0} /\ DOMAIN q = 1 .. (n - 1) /\ DOMAIN p = 1 .. n
      /\ p[n] = b /\ \A k \in 1 .. (n - 1) : p[k] = q[k]
  BY <1>1
<1>4. p # <<>> /\ (Len(p) = 1 => q = <<>>)
  BY <1>1
<1>5. IsQueue(p)
  BY <1>2 DEF IsQueue
<1> HIDE DEF p, n
<1>6. ASSUME NEW o PROVE Owned(p, o) = Owned(q, o) + (IF b.owner = o THEN 1 ELSE 0)
  <2>1. OwnedAt(p, o) = IF b.owner = o THEN OwnedAt(q, o) \cup {n} ELSE OwnedAt(q, o)
    <3>1. \A k : k \in 1 .. n <=> k \in 1 .. (n - 1) \/ k = n
      BY <1>3
    <3>2. OwnedAt(p, o) \subseteq OwnedAt(q, o) \cup {n}
      BY Zenon, <1>3, <3>1 DEF OwnedAt
    <3>3. OwnedAt(q, o) \subseteq OwnedAt(p, o)
      BY Zenon, <1>3, <3>1 DEF OwnedAt
    <3>4. n \in OwnedAt(p, o) <=> b.owner = o
      BY Zenon, <1>3, <3>1 DEF OwnedAt
    <3> QED
      BY <3>2, <3>3, <3>4
  <2>2. n \notin OwnedAt(q, o)
    BY <1>3 DEF OwnedAt
  <2>3. /\ Owned(q, o) \in Nat /\ IsFiniteSet(OwnedAt(q, o))
        /\ Owned(q, o) = Cardinality(OwnedAt(q, o)) /\ Owned(p, o) = Cardinality(OwnedAt(p, o))
    BY Zenon, <1>5, OwnedNat
  <2>4. Cardinality(OwnedAt(q, o) \cup {n}) = Cardinality(OwnedAt(q, o)) + 1
    BY Zenon, <2>2, <2>3, FS_AddElement
  <2> QED
    BY <2>1, <2>3, <2>4
<1> QED
  BY Zenon, <1>4, <1>5, <1>6 DEF p

\* The first message is taken.
LEMMA OwnedTail ==
    ASSUME NEW q, IsQueue(q), q # <<>>
    PROVE  /\ IsQueue(Tail(q))
           /\ \A o : Owned(Tail(q), o) = Owned(q, o) - Owned(<<Head(q)>>, o)
<1> DEFINE p == Tail(q)
           b == Head(q)
           n == Len(q)
<1>1. PICK S : q \in Seq(S)
  BY DEF IsQueue
<1>2. p \in Seq(S) /\ <<b>> \in Seq(S)
  BY <1>1
<1>3. /\ n \in Nat /\ n > 0 /\ DOMAIN q = 1 .. n /\ DOMAIN p = 1 .. (n - 1)
      /\ b = q[1] /\ \A k \in 1 .. (n - 1) : p[k] = q[k + 1]
  BY <1>1
<1>4. IsQueue(p) /\ IsQueue(<<b>>)
  BY <1>2 DEF IsQueue
<1>5. DOMAIN <<b>> = {1} /\ <<b>>[1] = b
  OBVIOUS
<1> HIDE DEF p, n, b
<1>6. ASSUME NEW o PROVE Owned(p, o) = Owned(q, o) - Owned(<<b>>, o)
  <2> DEFINE A == OwnedAt(q, o)
             B == OwnedAt(p, o)
             f == [k \in A \ {1} |-> k - 1]
  <2>1. /\ Owned(q, o) \in Nat /\ IsFiniteSet(A) /\ Owned(q, o) = Cardinality(A)
        /\ Owned(p, o) = Cardinality(B) /\ Owned(<<b>>, o) = Cardinality(OwnedAt(<<b>>, o))
    BY Zenon, <1>4, OwnedNat
  <2>2. /\ A = {k \in 1 .. n : q[k].owner = o} /\ B = {k \in 1 .. (n - 1) : q[k + 1].owner = o}
    BY <1>3 DEF OwnedAt
  <2> HIDE DEF A, B
  <2>3. f \in Bijection(A \ {1}, B)
    <3>1. \A k \in A \ {1} : k \in Nat /\ k - 1 \in B
      BY <1>3, <2>2
    <3>2. f \in [A \ {1} -> B]
      BY <3>1
    <3>3. \A k, l \in A \ {1} : f[k] = f[l] => k = l
      BY <3>1
    <3>4. ASSUME NEW k \in B PROVE \E l \in A \ {1} : f[l] = k
      <4>1. k + 1 \in A \ {1} /\ (k + 1) - 1 = k
        BY <1>3, <2>2, <3>4
      <4> QED
        BY <4>1
    <3> QED
      BY <3>2, <3>3, <3>4 DEF Bijection, Injection, Surjection, IsInjective
  <2>4. Cardinality(B) = Cardinality(A \ {1})
    <3>1. ExistsBijection(A \ {1}, B)
      BY Zenon, <2>3 DEF ExistsBijection
    <3> QED
      BY Zenon, <2>1, <3>1, FS_RemoveElement, FS_Bijection
  <2>5. Cardinality(A \ {1}) = IF 1 \in A THEN Cardinality(A) - 1 ELSE Cardinality(A)
    BY Zenon, <2>1, FS_RemoveElement
  <2>6. Owned(<<b>>, o) = IF 1 \in A THEN 1 ELSE 0
    <3>1. OwnedAt(<<b>>, o) = IF 1 \in A THEN {1} ELSE {}
      BY <1>3, <1>5, <2>2 DEF OwnedAt
    <3> QED
      BY Zenon, <2>1, <3>1, FS_Singleton, FS_EmptySet
  <2> QED
    BY <2>1, <2>4, <2>5, <2>6
<1> QED
  BY Zenon, <1>4, <1>6 DEF p, b

---------------------------------------------------------------------------
\* The invariant of the memory, between any two calls of lib/rconn.c.

\* The fields of a connection, and those of the memory of the process
ConnFields == {"state", "entered", "vconn", "name", "txq", "backoff", "max_backoff",
               "deadline", "received", "probe_interval", "idle_echo_xid"}
MemFields == {"rc", "rxbuf", "n_txq", "wake", "index", "epoch"}

ConnStates == {"VOID", "BACKOFF", "CONNECTING", "ACTIVE", "IDLE"}

\* A connection waits at least a second before it is tried again, and is
\* probed only when there are probes.
Timed(c) ==
    /\ c.state \in ConnStates
    /\ c.entered \in Nat /\ c.received \in Nat /\ c.backoff \in Nat
    /\ c.max_backoff \in Nat \ {0} /\ c.probe_interval \in Nat
    /\ c.state = "BACKOFF" => c.backoff > 0
    /\ c.state = "IDLE" => c.probe_interval > 0

\* The queue q of the connection i, in a state, has at most one message of the
\* other half of the relay, counted by n, and none of its own; when the
\* connection is not up it is empty.
Counted(q, state, n, i) ==
    /\ IsQueue(q) /\ Owned(q, i) = 0
    /\ n = Owned(q, Other(i)) /\ n <= 1
    /\ ~is_connected_state(state) => q = <<>>

ConnInv(c, n, i) == DOMAIN c = ConnFields /\ Timed(c) /\ Counted(c.txq, c.state, n, i)

\* The memory of the process
IsMem(m) == DOMAIN m = MemFields /\ DOMAIN m.rc = Halves /\ DOMAIN m.n_txq = Halves
MemInv(m) == IsMem(m) /\ \A i \in Halves : ConnInv(m.rc[i], m.n_txq[Other(i)], i)

\* From m to t only the connection r and what it counts for the other half change.
Beside(m, t, r) == /\ IsMem(t) /\ t.rc[Other(r)] = m.rc[Other(r)] /\ t.n_txq[r] = m.n_txq[r]

\* The two halves
LEMMA OtherIs ==
    ASSUME NEW i \in Halves
    PROVE  Other(i) \in Halves /\ Other(Other(i)) = i /\ Other(i) # i /\ "none" # i
           /\ \A j \in Halves : j = i \/ j = Other(i)
BY DEF Other, Halves

\* The other connection stays in order.
LEMMA BesideKeeps ==
    ASSUME NEW m, MemInv(m), NEW r \in Halves, NEW t, Beside(m, t, r),
           ConnInv(t.rc[r], t.n_txq[Other(r)], r)
    PROVE  MemInv(t)
BY Zenon, OtherIs DEF MemInv, Beside

\* From c to d neither the state nor the queue nor the timers change.
Same(c, d) ==
    /\ DOMAIN d = ConnFields
    /\ d.state = c.state /\ d.entered = c.entered /\ d.txq = c.txq /\ d.backoff = c.backoff
    /\ d.max_backoff = c.max_backoff /\ d.received = c.received
    /\ d.probe_interval = c.probe_interval

\* What else changes does not matter.
LEMMA SameKeeps ==
    ASSUME NEW m, MemInv(m), NEW r \in Halves, NEW t, Beside(m, t, r),
           t.n_txq = m.n_txq, Same(m.rc[r], t.rc[r])
    PROVE  MemInv(t)
<1>1. ConnInv(m.rc[r], m.n_txq[Other(r)], r)
  BY Zenon DEF MemInv
<1>2. Timed(t.rc[r])
  BY Zenon, <1>1 DEF ConnInv, Timed, Same
<1>3. Counted(t.rc[r].txq, t.rc[r].state, t.n_txq[Other(r)], r)
  BY Zenon, <1>1 DEF ConnInv, Same
<1>4. DOMAIN t.rc[r] = ConnFields
  BY Zenon DEF Same
<1> QED
  BY Zenon, <1>2, <1>3, <1>4, BesideKeeps DEF ConnInv

\* From m to t the connection r becomes c.
Put(m, t, r, c) == Beside(m, t, r) /\ t.n_txq = m.n_txq /\ t.rc[r] = c

\* That is what an assignment to the connection does.
LEMMA PutIs ==
    ASSUME NEW m, IsMem(m), NEW r \in Halves, NEW c
    PROVE  Put(m, [m EXCEPT !.rc[r] = c], r, c)
BY DEF Put, Beside, IsMem, MemFields, Other, Halves

\* The socket, the deadline or the transaction id of a probe changes.
LEMMA SameIs ==
    ASSUME NEW c, DOMAIN c = ConnFields, NEW v
    PROVE  /\ Same(c, [c EXCEPT !.vconn = v]) /\ Same(c, [c EXCEPT !.deadline = v])
           /\ Same(c, [c EXCEPT !.name = v]) /\ Same(c, [c EXCEPT !.idle_echo_xid = v])
BY DEF Same, ConnFields

\* From m to t nothing that matters changes.
Touched(m, t, r) ==
    MemInv(t) /\ Beside(m, t, r) /\ t.n_txq = m.n_txq /\ Same(m.rc[r], t.rc[r])

\* That is so when one of these is put in.
LEMMA TouchedKeeps ==
    ASSUME NEW m, MemInv(m), NEW r \in Halves, NEW v
    PROVE  /\ Touched(m, [m EXCEPT !.rc[r].vconn = v], r)
           /\ Touched(m, [m EXCEPT !.rc[r].deadline = v], r)
           /\ Touched(m, [m EXCEPT !.rc[r].name = v], r)
           /\ Touched(m, [m EXCEPT !.rc[r].idle_echo_xid = v], r)
<1>1. IsMem(m) /\ DOMAIN m.rc[r] = ConnFields
  BY Zenon DEF MemInv, ConnInv
<1>2. ASSUME NEW c, Same(m.rc[r], c)
      PROVE  Touched(m, [m EXCEPT !.rc[r] = c], r)
  <2> DEFINE t == [m EXCEPT !.rc[r] = c]
  <2>1. Beside(m, t, r) /\ t.n_txq = m.n_txq /\ t.rc[r] = c
    <3>1. Put(m, t, r, c)
      BY Zenon, <1>1, PutIs
    <3> QED
      BY Zenon, <3>1 DEF Put
  <2> HIDE DEF t
  <2>2. Touched(m, t, r)
    BY Zenon, <1>2, <2>1, SameKeeps DEF Touched
  <2> QED
    BY Zenon, <2>2 DEF t
<1>3. /\ [m EXCEPT !.rc[r].vconn = v] = [m EXCEPT !.rc[r] = [m.rc[r] EXCEPT !.vconn = v]]
      /\ [m EXCEPT !.rc[r].deadline = v] = [m EXCEPT !.rc[r] = [m.rc[r] EXCEPT !.deadline = v]]
      /\ [m EXCEPT !.rc[r].name = v] = [m EXCEPT !.rc[r] = [m.rc[r] EXCEPT !.name = v]]
      /\ [m EXCEPT !.rc[r].idle_echo_xid = v]
           = [m EXCEPT !.rc[r] = [m.rc[r] EXCEPT !.idle_echo_xid = v]]
  BY Zenon
<1> QED
  BY Zenon, <1>1, <1>2, <1>3, SameIs

\* From m to t the connection r enters a state, with its queue.
Enters(m, t, r, state) ==
    /\ MemInv(t) /\ Beside(m, t, r) /\ t.rc[r].state = state /\ t.rc[r].entered = 0
    /\ t.rc[r].txq = m.rc[r].txq /\ t.rc[r].probe_interval = m.rc[r].probe_interval

\* A connection that comes up or goes idle keeps its queue.
LEMMA TransitionKeeps ==
    ASSUME NEW m, MemInv(m), NEW r \in Halves, NEW state \in {"ACTIVE", "IDLE"},
           state = "IDLE" => m.rc[r].probe_interval > 0
    PROVE  Enters(m, [m EXCEPT !.rc[r] = state_transition(m.rc[r], state)], r, state)
<1> DEFINE c == m.rc[r]
           d == state_transition(c, state)
           n == m.n_txq[Other(r)]
           t == [m EXCEPT !.rc[r] = state_transition(m.rc[r], state)]
<1>1. IsMem(m) /\ ConnInv(c, n, r)
  BY Zenon DEF MemInv
<1>2. Beside(m, t, r) /\ t.n_txq = m.n_txq /\ t.rc[r] = d
  <2>1. Put(m, t, r, d)
    BY Zenon, <1>1, PutIs
  <2> QED
    BY Zenon, <2>1 DEF Put
<1>3. state = "IDLE" => c.probe_interval > 0
  OBVIOUS
<1> HIDE DEF c, n, t
<1>4. /\ DOMAIN d = ConnFields /\ d.state = state /\ d.entered = 0 /\ d.txq = c.txq
      /\ d.backoff = c.backoff /\ d.max_backoff = c.max_backoff /\ d.received = c.received
      /\ d.probe_interval = c.probe_interval
  BY <1>1 DEF ConnInv, ConnFields, state_transition
<1> HIDE DEF d
<1>5. Timed(d)
  BY <1>1, <1>3, <1>4 DEF ConnInv, Timed, ConnStates
<1>6. Counted(d.txq, d.state, n, r)
  BY <1>1, <1>4 DEF ConnInv, Counted, is_connected_state
<1>7. ConnInv(d, n, r)
  BY Zenon, <1>4, <1>5, <1>6 DEF ConnInv
<1> QED
  BY Zenon, <1>2, <1>4, <1>7, BesideKeeps DEF Enters, c, n, t

---------------------------------------------------------------------------
\* flush_queue and disconnect.

\* An empty queue is counted right.
LEMMA CountedNone ==
    ASSUME NEW state, NEW i
    PROVE  Counted(<<>>, state, 0, i)
BY OwnedNone DEF Counted

\* What is counted for a connection is a number.
LEMMA CountsAre ==
    ASSUME NEW m, MemInv(m), NEW r \in Halves
    PROVE  /\ m.n_txq[r] \in Nat /\ m.n_txq[Other(r)] \in Nat
           /\ IsMem(m) /\ ConnInv(m.rc[r], m.n_txq[Other(r)], r)
           /\ IsQueue(m.rc[r].txq) /\ Owned(m.rc[r].txq, r) = 0
           /\ m.n_txq[Other(r)] = Owned(m.rc[r].txq, Other(r))
<1>1. ASSUME NEW i \in Halves
      PROVE  /\ ConnInv(m.rc[i], m.n_txq[Other(i)], i) /\ IsQueue(m.rc[i].txq)
             /\ Owned(m.rc[i].txq, i) = 0 /\ m.n_txq[Other(i)] = Owned(m.rc[i].txq, Other(i))
  BY Zenon, <1>1 DEF MemInv, ConnInv, Counted
<1>2. ASSUME NEW i \in Halves PROVE m.n_txq[Other(i)] \in Nat
  BY Zenon, <1>1, <1>2, OwnedNat
<1>3. Other(r) \in Halves /\ Other(Other(r)) = r /\ IsMem(m)
  BY Zenon, OtherIs DEF MemInv
<1> QED
  BY Zenon, <1>1, <1>2, <1>3

\* The queue of the connection is emptied, the rest of it stays as it is.
Flushed(m, t, r) ==
    /\ MemInv(t) /\ Beside(m, t, r) /\ t.rc[r].txq = <<>>
    /\ t.rc[r].state = m.rc[r].state /\ t.rc[r].max_backoff = m.rc[r].max_backoff
    /\ t.rc[r].backoff = m.rc[r].backoff /\ t.rc[r].probe_interval = m.rc[r].probe_interval

\* flush_queue gives back what the messages of the queue have been counted for.
LEMMA FlushKeeps ==
    ASSUME NEW m, MemInv(m), NEW r \in Halves
    PROVE  Flushed(m, flush_queue(m, r), r)
<1> DEFINE q == m.rc[r].txq
           c == m.rc[r]
           t == [m EXCEPT !.n_txq = Uncounted(@, q), !.rc[r].txq = <<>>, !.wake = TRUE]
           d == t.rc[r]
<1>1. CASE q = <<>>
  <2>1. flush_queue(m, r) = m
    BY Zenon, <1>1 DEF flush_queue
  <2>2. Beside(m, m, r)
    BY Zenon DEF Beside, MemInv
  <2> QED
    BY Zenon, <1>1, <2>1, <2>2 DEF Flushed
<1>2. CASE q # <<>>
  <2>1. flush_queue(m, r) = t
    BY Zenon, <1>2 DEF flush_queue
  <2>2. /\ m.n_txq[r] \in Nat /\ m.n_txq[Other(r)] \in Nat
        /\ IsMem(m) /\ ConnInv(c, m.n_txq[Other(r)], r)
        /\ Owned(q, r) = 0 /\ m.n_txq[Other(r)] = Owned(q, Other(r))
    BY Zenon, CountsAre
  <2>3. /\ IsMem(t) /\ t.rc[Other(r)] = m.rc[Other(r)] /\ d = [c EXCEPT !.txq = <<>>]
        /\ t.n_txq[r] = m.n_txq[r] - Owned(q, r)
        /\ t.n_txq[Other(r)] = m.n_txq[Other(r)] - Owned(q, Other(r))
    BY <2>2 DEF IsMem, MemFields, Other, Halves, Uncounted
  <2> HIDE DEF t, d, q, c
  <2>4. t.n_txq[r] = m.n_txq[r] /\ t.n_txq[Other(r)] = 0
    BY <2>2, <2>3
  <2>5. /\ DOMAIN d = ConnFields /\ d.state = c.state /\ d.entered = c.entered /\ d.txq = <<>>
        /\ d.backoff = c.backoff /\ d.max_backoff = c.max_backoff /\ d.received = c.received
        /\ d.probe_interval = c.probe_interval
    BY <2>2, <2>3 DEF ConnInv, ConnFields
  <2>6. ConnInv(d, t.n_txq[Other(r)], r)
    BY Zenon, <2>2, <2>4, <2>5, CountedNone DEF ConnInv, Timed
  <2>7. Beside(m, t, r)
    BY Zenon, <2>3, <2>4 DEF Beside
  <2> QED
    BY Zenon, <2>1, <2>5, <2>6, <2>7, BesideKeeps DEF Flushed, d, c
<1> QED
  BY Zenon, <1>1, <1>2

\* The connection r has been given up, and is to be tried again.
BacksOff(m, t, r) ==
    /\ MemInv(t) /\ Beside(m, t, r)
    /\ t.rc[r].state = "BACKOFF" /\ t.rc[r].entered = 0 /\ t.rc[r].txq = <<>>

\* disconnect leaves a connection that backs off for a second or more.
LEMMA DisconnectKeeps ==
    ASSUME NEW m, MemInv(m), NEW r \in Halves
    PROVE  BacksOff(m, disconnect(m, r), r)
<1> DEFINE rc == m.rc[r]
           wait == IF rc.deadline = Passed THEN 1
                   ELSE Least(rc.max_backoff, AtLeast(1, 2 * rc.backoff))
           f == IF rc.state \in {"CONNECTING", "ACTIVE", "IDLE"} THEN flush_queue(m, r) ELSE m
           c == f.rc[r]
           d == state_transition([c EXCEPT !.vconn = NoVconn, !.backoff = wait,
                                           !.deadline = wait], "BACKOFF")
           t == [f EXCEPT !.rc[r] = d]
<1>1. disconnect(m, r) = t
  BY Zenon DEF disconnect
<1>2. IsMem(m) /\ ConnInv(rc, m.n_txq[Other(r)], r)
  BY Zenon DEF MemInv
<1>3. wait \in Nat \ {0}
  BY <1>2 DEF ConnInv, Timed, Least, AtLeast
<1>4. MemInv(f) /\ Beside(m, f, r) /\ c.txq = <<>>
  <2>1. CASE rc.state \in {"CONNECTING", "ACTIVE", "IDLE"}
    <3>1. f = flush_queue(m, r)
      BY Zenon, <2>1
    <3>2. Flushed(m, flush_queue(m, r), r)
      BY Zenon, FlushKeeps
    <3> QED
      BY Zenon, <3>1, <3>2 DEF Flushed
  <2>2. CASE rc.state \notin {"CONNECTING", "ACTIVE", "IDLE"}
    <3>1. f = m
      BY Zenon, <2>2
    <3>2. ~is_connected_state(rc.state)
      BY Zenon, <2>2 DEF is_connected_state
    <3>3. rc.txq = <<>>
      BY Zenon, <1>2, <3>2 DEF ConnInv, Counted
    <3>4. Beside(m, m, r)
      BY Zenon, <1>2 DEF Beside
    <3> QED
      BY Zenon, <3>1, <3>3, <3>4
  <2> QED
    BY Zenon, <2>1, <2>2
<1> HIDE DEF wait, f
<1>5. IsMem(f) /\ ConnInv(c, f.n_txq[Other(r)], r)
  BY Zenon, <1>4, CountsAre
<1>6. Put(f, t, r, d)
  BY Zenon, <1>5, PutIs
<1> HIDE DEF t
<1>7. /\ DOMAIN d = ConnFields /\ d.state = "BACKOFF" /\ d.entered = 0 /\ d.txq = c.txq
      /\ d.backoff = wait /\ d.max_backoff = c.max_backoff /\ d.received = c.received
      /\ d.probe_interval = c.probe_interval
  BY <1>5 DEF ConnInv, ConnFields, state_transition
<1> HIDE DEF d
<1>8. Timed(d)
  BY <1>3, <1>5, <1>7 DEF ConnInv, Timed, ConnStates
<1>9. Counted(d.txq, d.state, f.n_txq[Other(r)], r)
  BY Zenon, <1>4, <1>5, <1>7 DEF ConnInv, Counted
<1>10. MemInv(t)
  BY Zenon, <1>4, <1>6, <1>7, <1>8, <1>9, BesideKeeps DEF ConnInv, Put
<1>11. Beside(m, t, r)
  BY Zenon, <1>4, <1>6, OtherIs DEF Put, Beside
<1> QED
  BY Zenon, <1>1, <1>4, <1>6, <1>7, <1>10, <1>11 DEF BacksOff, Put

---------------------------------------------------------------------------
\* reconnect, rconn_disconnect and rconn_connect.

\* A connection that has no queue enters a state.
LEMMA EnterKeeps ==
    ASSUME NEW m, MemInv(m), NEW r \in Halves, ~rconn_is_connected(m, r),
           NEW c, DOMAIN c = ConnFields, Timed(c), c.txq = m.rc[r].txq
    PROVE  /\ MemInv([m EXCEPT !.rc[r] = c])
           /\ Put(m, [m EXCEPT !.rc[r] = c], r, c)
<1> DEFINE t == [m EXCEPT !.rc[r] = c]
<1>1. IsMem(m) /\ ConnInv(m.rc[r], m.n_txq[Other(r)], r)
  BY Zenon DEF MemInv
<1>2. Put(m, t, r, c)
  BY Zenon, <1>1, PutIs
<1> HIDE DEF t
<1>3. Counted(c.txq, c.state, m.n_txq[Other(r)], r)
  BY Zenon, <1>1 DEF ConnInv, Counted, rconn_is_connected
<1>4. MemInv(t)
  BY Zenon, <1>2, <1>3, BesideKeeps DEF ConnInv, Put
<1> QED
  BY Zenon, <1>2, <1>4 DEF t

\* A connection has been tried, and is being made or backs off.
Tries(m, t, r) ==
    /\ MemInv(t) /\ Beside(m, t, r)
    /\ t.rc[r].state \in {"CONNECTING", "BACKOFF"} /\ t.rc[r].entered = 0 /\ t.rc[r].txq = <<>>

\* reconnect, of a connection that is not up
LEMMA ReconnectKeeps ==
    ASSUME NEW m, MemInv(m), NEW r \in Halves, ~rconn_is_connected(m, r), NEW open
    PROVE  Tries(m, reconnect(m, r, open), r)
<1> DEFINE c == m.rc[r]
           d == state_transition([c EXCEPT !.vconn = vconn_open(c.name), !.deadline = c.backoff],
                                 "CONNECTING")
           never == [m EXCEPT !.rc[r].deadline = Never]
<1>1. CASE open = "OK"
  <2>1. reconnect(m, r, open) = [m EXCEPT !.rc[r] = d]
    BY Zenon, <1>1 DEF reconnect
  <2>2. ConnInv(c, m.n_txq[Other(r)], r)
    BY Zenon DEF MemInv
  <2>3. c.txq = <<>>
    BY Zenon, <2>2 DEF ConnInv, Counted, rconn_is_connected
  <2>4. /\ DOMAIN d = ConnFields /\ d.state = "CONNECTING" /\ d.entered = 0 /\ d.txq = c.txq
        /\ d.backoff = c.backoff /\ d.max_backoff = c.max_backoff /\ d.received = c.received
        /\ d.probe_interval = c.probe_interval
    BY <2>2 DEF ConnInv, ConnFields, state_transition
  <2> HIDE DEF d, c
  <2>5. Timed(d)
    BY <2>2, <2>4 DEF ConnInv, Timed, ConnStates
  <2>6. MemInv([m EXCEPT !.rc[r] = d]) /\ Put(m, [m EXCEPT !.rc[r] = d], r, d)
    BY Zenon, <2>4, <2>5, EnterKeeps DEF c
  <2> QED
    BY Zenon, <2>1, <2>3, <2>4, <2>6 DEF Tries, Put
<1>2. CASE open # "OK"
  <2>1. reconnect(m, r, open) = disconnect(never, r)
    BY Zenon, <1>2 DEF reconnect
  <2>2. Touched(m, never, r)
    BY Zenon, TouchedKeeps
  <2> HIDE DEF never
  <2>3. BacksOff(never, disconnect(never, r), r)
    BY Zenon, <2>2, DisconnectKeeps DEF Touched
  <2>4. Beside(m, disconnect(never, r), r)
    BY Zenon, <2>2, <2>3 DEF Touched, BacksOff, Beside
  <2> QED
    BY Zenon, <2>1, <2>3, <2>4 DEF BacksOff, Tries
<1> QED
  BY Zenon, <1>1, <1>2

\* rconn_disconnect, of a connection that is not up
LEMMA RconnDisconnectKeeps ==
    ASSUME NEW m, MemInv(m), NEW r \in Halves, ~rconn_is_connected(m, r)
    PROVE  /\ MemInv(rconn_disconnect(m, r)) /\ Beside(m, rconn_disconnect(m, r), r)
           /\ rconn_disconnect(m, r).rc[r].state = "VOID"
           /\ ~rconn_is_connected(rconn_disconnect(m, r), r)
<1> DEFINE c == m.rc[r]
           d == state_transition([c EXCEPT !.vconn = NoVconn, !.name = "void",
                                           !.backoff = 0, !.deadline = Passed], "VOID")
           t == rconn_disconnect(m, r)
<1>1. t = IF c.state = "VOID" THEN m ELSE [m EXCEPT !.rc[r] = d]
  BY Zenon DEF rconn_disconnect
<1>2. ConnInv(c, m.n_txq[Other(r)], r) /\ Beside(m, m, r)
  BY Zenon DEF MemInv, Beside
<1>3. /\ DOMAIN d = ConnFields /\ d.state = "VOID" /\ d.entered = 0 /\ d.txq = c.txq
      /\ d.backoff = 0 /\ d.max_backoff = c.max_backoff /\ d.received = c.received
      /\ d.probe_interval = c.probe_interval
  BY <1>2 DEF ConnInv, ConnFields, state_transition
<1> HIDE DEF d, c, t
<1>4. Timed(d)
  BY <1>2, <1>3 DEF ConnInv, Timed, ConnStates
<1>5. MemInv([m EXCEPT !.rc[r] = d]) /\ Put(m, [m EXCEPT !.rc[r] = d], r, d)
  BY Zenon, <1>3, <1>4, EnterKeeps DEF c
<1>6. MemInv(t) /\ Beside(m, t, r) /\ t.rc[r].state = "VOID"
  BY Zenon, <1>1, <1>2, <1>3, <1>5 DEF Put, c
<1>7. ~rconn_is_connected(t, r)
  BY <1>6 DEF rconn_is_connected, is_connected_state
<1> QED
  BY Zenon, <1>6, <1>7 DEF t

\* rconn_connect, of a connection that is not up
LEMMA RconnConnectKeeps ==
    ASSUME NEW m, MemInv(m), NEW r \in Halves, ~rconn_is_connected(m, r), NEW name, NEW open
    PROVE  Tries(m, rconn_connect(m, r, name, open), r)
<1> DEFINE void == rconn_disconnect(m, r)
           named == [void EXCEPT !.rc[r].name = name]
           t == reconnect(named, r, open)
<1>1. rconn_connect(m, r, name, open) = t
  BY Zenon DEF rconn_connect
<1>2. MemInv(void) /\ Beside(m, void, r) /\ ~rconn_is_connected(void, r)
  BY Zenon, RconnDisconnectKeeps
<1> HIDE DEF void
<1>3. Touched(void, named, r)
  BY Zenon, <1>2, TouchedKeeps
<1> HIDE DEF named
<1>4. MemInv(named) /\ Beside(m, named, r) /\ ~rconn_is_connected(named, r)
  BY Zenon, <1>2, <1>3 DEF Touched, Beside, Same, rconn_is_connected
<1>5. Tries(named, t, r)
  BY Zenon, <1>4, ReconnectKeeps
<1> HIDE DEF t
<1>6. Beside(m, t, r)
  BY Zenon, <1>4, <1>5 DEF Tries, Beside
<1> QED
  BY Zenon, <1>1, <1>5, <1>6 DEF Tries

---------------------------------------------------------------------------
\* try_send.

\* A connection that is up has been worked on, and is up still or has been given up.
Works(m, t, r) ==
    /\ MemInv(t) /\ Beside(m, t, r)
    /\ \/ /\ t.rc[r].state = m.rc[r].state /\ t.rc[r].entered = m.rc[r].entered
          /\ t.rc[r].probe_interval = m.rc[r].probe_interval
       \/ t.rc[r].state = "BACKOFF" /\ t.rc[r].entered = 0

\* So it is after two such pieces of work.
LEMMA WorksOn ==
    ASSUME NEW m, NEW t, NEW u, NEW r, Works(m, t, r), Works(t, u, r)
    PROVE  Works(m, u, r)
BY Zenon DEF Works, Beside

\* What stream_send returns.
Returned(x) == x.ret \in {"OK", "EAGAIN", "ERROR"}

\* It returns one of these.
LEMMA StreamReturns ==
    ASSUME NEW v, NEW b
    PROVE  Returned(stream_send(v, b))
BY DEF Returned, stream_send

\* A message of the queue has been sent: it leaves the queue, its counter is told.
LEMMA TakenKeeps ==
    ASSUME NEW m, MemInv(m), NEW r \in Halves, m.rc[r].txq # <<>>, NEW xid,
           NEW first, first = Head(m.rc[r].txq)
    PROVE  Works(m, [m EXCEPT !.rc[r].idle_echo_xid = xid, !.rc[r].txq = Tail(@),
                              !.n_txq = Uncounted(@, <<first>>)], r)
<1> DEFINE q == m.rc[r].txq
           b == <<first>>
           c == m.rc[r]
           t == [m EXCEPT !.rc[r].idle_echo_xid = xid, !.rc[r].txq = Tail(@),
                          !.n_txq = Uncounted(@, b)]
           d == t.rc[r]
<1>1. /\ m.n_txq[r] \in Nat /\ m.n_txq[Other(r)] \in Nat
      /\ IsMem(m) /\ ConnInv(c, m.n_txq[Other(r)], r)
      /\ IsQueue(q) /\ Owned(q, r) = 0 /\ m.n_txq[Other(r)] = Owned(q, Other(r))
  BY Zenon, CountsAre
<1>2. /\ IsMem(t) /\ t.rc[Other(r)] = m.rc[Other(r)]
      /\ d = [c EXCEPT !.idle_echo_xid = xid, !.txq = Tail(@)]
      /\ t.n_txq[r] = m.n_txq[r] - Owned(b, r)
      /\ t.n_txq[Other(r)] = m.n_txq[Other(r)] - Owned(b, Other(r))
  BY Zenon, <1>1 DEF IsMem, MemFields, Other, Halves, Uncounted, ConnInv, ConnFields
<1>3. IsQueue(Tail(q)) /\ \A o : Owned(Tail(q), o) = Owned(q, o) - Owned(b, o)
  BY Zenon, <1>1, OwnedTail
<1>4. IsQueue(b)
  <2>1. <<first>> \in Seq({first})
    OBVIOUS
  <2> QED
    BY Zenon, <2>1 DEF IsQueue
<1>5. /\ DOMAIN d = ConnFields /\ d.state = c.state /\ d.entered = c.entered /\ d.txq = Tail(q)
      /\ d.backoff = c.backoff /\ d.max_backoff = c.max_backoff /\ d.received = c.received
      /\ d.probe_interval = c.probe_interval
  <2> HIDE DEF d, t, b
  <2> QED
    BY <1>1, <1>2 DEF ConnInv, ConnFields
<1>6. c.txq = q /\ q # <<>>
  OBVIOUS
<1> HIDE DEF t, d, q, c, b
<1>7. \A o : Owned(b, o) \in Nat /\ Owned(q, o) \in Nat /\ Owned(Tail(q), o) \in Nat
  BY Zenon, <1>1, <1>3, <1>4, OwnedNat
<1>8. Owned(b, r) = 0 /\ Owned(Tail(q), r) = 0
  BY <1>1, <1>3, <1>7
<1>9. /\ t.n_txq[r] = m.n_txq[r]
      /\ t.n_txq[Other(r)] = Owned(Tail(q), Other(r))
      /\ t.n_txq[Other(r)] <= m.n_txq[Other(r)]
  BY <1>1, <1>2, <1>3, <1>7, <1>8
<1>10. m.n_txq[Other(r)] <= 1 /\ is_connected_state(c.state)
  BY Zenon, <1>1, <1>6 DEF ConnInv, Counted
<1>11. t.n_txq[Other(r)] <= 1
  BY <1>1, <1>7, <1>9, <1>10
<1>12. ConnInv(d, t.n_txq[Other(r)], r)
  BY Zenon, <1>1, <1>3, <1>5, <1>8, <1>9, <1>10, <1>11 DEF ConnInv, Timed, Counted
<1>13. Beside(m, t, r)
  BY Zenon, <1>2, <1>9 DEF Beside
<1>14. Works(m, t, r)
  BY Zenon, <1>5, <1>12, <1>13, BesideKeeps DEF Works, c, d
<1> QED
  BY Zenon, <1>14 DEF t, b

\* try_send, whatever vconn_send returns
LEMMA TrySentKeeps ==
    ASSUME NEW m, MemInv(m), NEW r \in Halves, m.rc[r].txq # <<>>, NEW sent, Returned(sent)
    PROVE  Works(m, TrySent(m, r, Head(m.rc[r].txq), sent).s, r)
<1> DEFINE q == m.rc[r].txq
           b == Head(q)
           put == [m EXCEPT !.rc[r].vconn = sent.vconn]
           kept == [put EXCEPT !.rc[r].idle_echo_xid = 0]
           ok == [kept EXCEPT !.rc[r].idle_echo_xid = b.xid, !.rc[r].txq = Tail(@),
                              !.n_txq = Uncounted(@, <<b>>)]
           t == TrySent(m, r, b, sent).s
<1> SUFFICES Works(m, t, r)
  BY Zenon
<1>1. kept = [m EXCEPT !.rc[r].vconn = sent.vconn, !.rc[r].idle_echo_xid = 0]
  OBVIOUS
<1>2. /\ sent.ret = "OK" => t = ok
      /\ sent.ret = "EAGAIN" => t = kept
      /\ sent.ret = "ERROR" => t = disconnect(kept, r)
  <2> HIDE DEF kept, q, b
  <2> QED
    BY <1>1 DEF TrySent
<1> HIDE DEF t
<1>3. Touched(m, put, r)
  BY Zenon, TouchedKeeps
<1> HIDE DEF put
<1>4. Touched(put, kept, r)
  BY Zenon, <1>3, TouchedKeeps DEF Touched
<1> HIDE DEF kept
<1>5. Works(m, kept, r) /\ kept.rc[r].txq = q
  BY Zenon, <1>3, <1>4 DEF Touched, Works, Same, Beside
<1>6. CASE sent.ret = "OK"
  <2>1. Works(kept, ok, r)
    <3>1. MemInv(kept) /\ kept.rc[r].txq # <<>> /\ b = Head(kept.rc[r].txq)
      BY Zenon, <1>5 DEF Works
    <3> HIDE DEF b
    <3> QED
      BY Zenon, <3>1, TakenKeeps
  <2> HIDE DEF ok
  <2> QED
    BY Zenon, <1>2, <1>5, <1>6, <2>1, WorksOn
<1>7. CASE sent.ret = "EAGAIN"
  BY Zenon, <1>2, <1>5, <1>7
<1>8. CASE sent.ret = "ERROR"
  <2>1. BacksOff(kept, disconnect(kept, r), r)
    BY Zenon, <1>5, DisconnectKeeps DEF Works
  <2>2. Works(kept, disconnect(kept, r), r)
    BY Zenon, <2>1 DEF BacksOff, Works
  <2> QED
    BY Zenon, <1>2, <1>5, <1>8, <2>2, WorksOn
<1> QED
  BY Zenon, <1>6, <1>7, <1>8 DEF Returned

\* try_send
LEMMA TrySendKeeps ==
    ASSUME NEW m, MemInv(m), NEW r \in Halves, m.rc[r].txq # <<>>
    PROVE  Works(m, try_send(m, r).s, r)
<1> DEFINE b == Head(m.rc[r].txq)
           sent == vconn_send(m.rc[r].vconn, [type |-> b.type, xid |-> b.xid, ver |-> b.ver])
<1>1. try_send(m, r) = TrySent(m, r, b, sent)
  BY Zenon DEF try_send
<1>2. Returned(sent)
  BY Zenon, StreamReturns DEF vconn_send
<1> HIDE DEF sent
<1> QED
  BY Zenon, <1>1, <1>2, TrySentKeeps

---------------------------------------------------------------------------
\* rconn_send.

\* The other half of the relay may have a message queued, or one that belongs to
\* no half.
MayQueue(m, r, owner) == owner = "none" \/ (owner = Other(r) /\ m.n_txq[owner] = 0)

\* A message is queued, and counted.
LEMMA QueuedKeeps ==
    ASSUME NEW m, MemInv(m), NEW r \in Halves, rconn_is_connected(m, r),
           NEW owner, MayQueue(m, r, owner), NEW b, b.owner = owner,
           NEW counted,
           counted = IF owner = "none" THEN m ELSE [m EXCEPT !.n_txq[owner] = @ + 1]
    PROVE  /\ Works(m, [counted EXCEPT !.rc[r].txq = Append(@, b)], r)
           /\ [counted EXCEPT !.rc[r].txq = Append(@, b)].rc[r].txq # <<>>
<1> DEFINE c == m.rc[r]
           q == c.txq
           p == Append(q, b)
           t == [counted EXCEPT !.rc[r].txq = Append(@, b)]
           d == t.rc[r]
           one == IF owner = "none" THEN 0 ELSE 1
<1>1. /\ m.n_txq[r] \in Nat /\ m.n_txq[Other(r)] \in Nat
      /\ IsMem(m) /\ ConnInv(c, m.n_txq[Other(r)], r)
      /\ IsQueue(q) /\ Owned(q, r) = 0 /\ m.n_txq[Other(r)] = Owned(q, Other(r))
  BY Zenon, CountsAre
<1>2. Other(r) # r /\ Other(r) \in Halves /\ "none" \notin Halves
  BY DEF Other, Halves
<1>3. /\ IsMem(counted) /\ counted.rc = m.rc /\ counted.n_txq[r] = m.n_txq[r]
      /\ counted.n_txq[Other(r)] = m.n_txq[Other(r)] + one
  BY <1>1, <1>2 DEF IsMem, MemFields, MayQueue
<1>4. /\ IsMem(t) /\ t.rc[Other(r)] = m.rc[Other(r)] /\ d = [c EXCEPT !.txq = p]
      /\ t.n_txq = counted.n_txq
  BY <1>2, <1>3 DEF IsMem, MemFields
<1>5. IsQueue(p) /\ p # <<>> /\ \A o : Owned(p, o) = Owned(q, o) + (IF b.owner = o THEN 1 ELSE 0)
  <2>1. IsQueue(q)
    BY Zenon, <1>1
  <2> HIDE DEF q, c
  <2> QED
    BY <2>1, OwnedAppend
<1> HIDE DEF t, d, p
<1>6. /\ DOMAIN d = ConnFields /\ d.state = c.state /\ d.entered = c.entered /\ d.txq = p
      /\ d.backoff = c.backoff /\ d.max_backoff = c.max_backoff /\ d.received = c.received
      /\ d.probe_interval = c.probe_interval
  BY <1>1, <1>4 DEF ConnInv, ConnFields
<1> HIDE DEF q, c
<1>7. Owned(p, r) = 0 /\ Owned(p, Other(r)) = m.n_txq[Other(r)] + one
  BY <1>1, <1>2, <1>5 DEF MayQueue
<1>8. m.n_txq[Other(r)] + one <= 1
  <2>1. m.n_txq[Other(r)] <= 1
    BY Zenon, <1>1 DEF ConnInv, Counted
  <2> QED
    BY <1>1, <1>2, <2>1 DEF MayQueue
<1> HIDE DEF one
<1>9. is_connected_state(d.state)
  BY Zenon, <1>6 DEF rconn_is_connected, c
<1>10. ConnInv(d, t.n_txq[Other(r)], r)
  BY Zenon, <1>1, <1>3, <1>4, <1>5, <1>6, <1>7, <1>8, <1>9 DEF ConnInv, Timed, Counted
<1>11. Beside(m, t, r)
  BY Zenon, <1>3, <1>4 DEF Beside
<1>12. Works(m, t, r) /\ t.rc[r].txq # <<>>
  BY Zenon, <1>5, <1>6, <1>10, <1>11, BesideKeeps DEF Works, c, d
<1> QED
  BY Zenon, <1>12 DEF t

\* rconn_send
LEMMA SendKeeps ==
    ASSUME NEW m, MemInv(m), NEW r \in Halves, NEW msg, NEW owner, MayQueue(m, r, owner)
    PROVE  Works(m, rconn_send(m, r, msg, owner).s, r)
<1> DEFINE b == [type |-> msg.type, xid |-> msg.xid, ver |-> msg.ver, owner |-> owner]
           counted == IF owner = "none" THEN m ELSE [m EXCEPT !.n_txq[owner] = @ + 1]
           queued == [counted EXCEPT !.rc[r].txq = Append(@, b)]
           t == rconn_send(m, r, msg, owner).s
<1>1. t = IF ~rconn_is_connected(m, r) THEN m
          ELSE IF Len(queued.rc[r].txq) = 1 THEN try_send(queued, r).s ELSE queued
  <2> HIDE DEF queued
  <2>1. rconn_send(m, r, msg, owner)
          = IF ~rconn_is_connected(m, r) THEN [ret |-> "ENOTCONN", s |-> m]
            ELSE [ret |-> "OK",
                  s |-> IF Len(queued.rc[r].txq) = 1 THEN try_send(queued, r).s ELSE queued]
    BY Zenon DEF rconn_send, queued
  <2> QED
    BY <2>1
<1> SUFFICES Works(m, t, r)
  BY Zenon
<1> HIDE DEF t
<1>2. CASE ~rconn_is_connected(m, r)
  BY Zenon, <1>1, <1>2 DEF Works, Beside, MemInv
<1>3. CASE rconn_is_connected(m, r)
  <2>1. b.owner = owner
    OBVIOUS
  <2> HIDE DEF b
  <2>2. Works(m, queued, r) /\ queued.rc[r].txq # <<>>
    <3> HIDE DEF counted
    <3> QED
      BY Zenon, <1>3, <2>1, QueuedKeeps DEF counted
  <2> HIDE DEF queued
  <2>3. Works(queued, try_send(queued, r).s, r)
    BY Zenon, <2>2, TrySendKeeps DEF Works
  <2> QED
    BY Zenon, <1>1, <1>3, <2>2, <2>3, WorksOn
<1> QED
  BY Zenon, <1>2, <1>3

---------------------------------------------------------------------------
\* rconn_recv, and the half of a relay.

\* What do_recv returns.
LEMMA RecvReturns ==
    ASSUME NEW v
    PROVE  Returned(do_recv(v))
BY DEF Returned, do_recv

\* rconn_recv, whatever vconn_recv returns
LEMMA ReceivedKeeps ==
    ASSUME NEW m, MemInv(m), NEW r \in Halves, rconn_is_connected(m, r), NEW got, Returned(got)
    PROVE  MemInv(Received(m, r, got).s) /\ Beside(m, Received(m, r, got).s, r)
<1> DEFINE t == Received(m, r, got).s
           c == m.rc[r]
           d == Heard(c, got.vconn, got.msg)
<1>1. /\ got.ret = "OK" => t = [m EXCEPT !.rc[r] = d]
      /\ got.ret = "EAGAIN" => t = [m EXCEPT !.rc[r].vconn = got.vconn]
      /\ got.ret = "ERROR" => t = disconnect(m, r)
  <2> HIDE DEF d
  <2> QED
    BY DEF Received, d
<1> SUFFICES MemInv(t) /\ Beside(m, t, r)
  BY Zenon
<1> HIDE DEF t
<1>2. CASE got.ret = "OK"
  <2>1. IsMem(m) /\ ConnInv(c, m.n_txq[Other(r)], r)
    BY Zenon DEF MemInv
  <2>2. Put(m, t, r, d)
    <3>1. t = [m EXCEPT !.rc[r] = d]
      BY Zenon, <1>1, <1>2
    <3> HIDE DEF d
    <3>2. Put(m, [m EXCEPT !.rc[r] = d], r, d)
      BY Zenon, <2>1, PutIs
    <3> QED
      BY Zenon, <3>1, <3>2
  <2>3. is_connected_state(c.state)
    BY Zenon DEF rconn_is_connected
  <2> HIDE DEF c
  <2>4. /\ DOMAIN d = ConnFields /\ d.txq = c.txq /\ d.backoff = c.backoff
        /\ d.max_backoff = c.max_backoff /\ d.received = 0
        /\ d.probe_interval = c.probe_interval /\ d.state \in {c.state, "ACTIVE"}
        /\ d.entered \in {c.entered, 0}
    BY <2>1 DEF ConnInv, ConnFields, Heard, state_transition
  <2> HIDE DEF d
  <2>5. Timed(d)
    BY <2>1, <2>4 DEF ConnInv, Timed, ConnStates
  <2>6. is_connected_state(d.state)
    BY <2>3, <2>4 DEF is_connected_state
  <2>7. ConnInv(d, m.n_txq[Other(r)], r)
    BY Zenon, <2>1, <2>4, <2>5, <2>6 DEF ConnInv, Counted
  <2> QED
    BY Zenon, <2>2, <2>7, BesideKeeps DEF Put
<1>3. CASE got.ret = "EAGAIN"
  <2>1. Touched(m, [m EXCEPT !.rc[r].vconn = got.vconn], r)
    BY Zenon, TouchedKeeps
  <2> QED
    BY Zenon, <1>1, <1>3, <2>1 DEF Touched
<1>4. CASE got.ret = "ERROR"
  <2>1. BacksOff(m, disconnect(m, r), r)
    BY Zenon, DisconnectKeeps
  <2> QED
    BY Zenon, <1>1, <1>4, <2>1 DEF BacksOff
<1> QED
  BY Zenon, <1>2, <1>3, <1>4 DEF Returned

\* rconn_recv
LEMMA RecvKeeps ==
    ASSUME NEW m, MemInv(m), NEW r \in Halves
    PROVE  MemInv(rconn_recv(m, r).s) /\ Beside(m, rconn_recv(m, r).s, r)
<1> DEFINE got == vconn_recv(m.rc[r].vconn)
<1>1. CASE rconn_is_connected(m, r)
  <2>1. rconn_recv(m, r) = Received(m, r, got)
    BY Zenon, <1>1 DEF rconn_recv
  <2>2. Returned(got)
    BY Zenon, RecvReturns DEF vconn_recv
  <2> HIDE DEF got
  <2> QED
    BY Zenon, <1>1, <2>1, <2>2, ReceivedKeeps
<1>2. CASE ~rconn_is_connected(m, r)
  <2>1. rconn_recv(m, r).s = m
    BY <1>2 DEF rconn_recv
  <2> QED
    BY Zenon, <2>1 DEF Beside, MemInv
<1> QED
  BY Zenon, <1>1, <1>2

\* The message that waits to be relayed is put in or taken out.
LEMMA RxbufKeeps ==
    ASSUME NEW m, MemInv(m), NEW t, DOMAIN t = MemFields, t.rc = m.rc, t.n_txq = m.n_txq
    PROVE  MemInv(t)
BY Zenon DEF MemInv, IsMem

\* The buffer of a half is filled or emptied.
LEMMA RxbufIs ==
    ASSUME NEW m, MemInv(m), NEW i, NEW msg
    PROVE  MemInv([m EXCEPT !.rxbuf[i] = msg])
<1> DEFINE t == [m EXCEPT !.rxbuf[i] = msg]
<1>1. DOMAIN m = MemFields
  BY Zenon DEF MemInv, IsMem
<1>2. DOMAIN t = MemFields /\ t.rc = m.rc /\ t.n_txq = m.n_txq
  BY <1>1 DEF MemFields
<1> HIDE DEF t
<1>3. MemInv(t)
  BY Zenon, <1>2, RxbufKeeps
<1> QED
  BY Zenon, <1>3 DEF t

\* What a turn of the inner loop leaves behind
IsRelay(x) == DOMAIN x = {"s", "progress", "stop"}

\* The handling of a message leaves that behind.
LEMMA HandledIs ==
    ASSUME NEW m, NEW i, NEW fresh
    PROVE  IsRelay(Handled(m, i, fresh))
<1>1. \A u, p, x : IsRelay(Relay(u, p, x))
  BY DEF IsRelay, Relay
<1> QED
  BY Zenon, <1>1 DEF Handled, Sent

\* A message is handed to a hook, held back or sent.
LEMMA HandledKeeps ==
    ASSUME NEW m, MemInv(m), NEW i \in Halves, NEW fresh
    PROVE  MemInv(Handled(m, i, fresh).s)
<1> DEFINE b == m.rxbuf[i]
           status == switch_status_remote_packet_cb(m, b)
           sent == rconn_send(m, Other(i), b, i)
           t == Handled(m, i, fresh).s
<1>1. t \in {m, Emptied(status, i)} \/ (t = Emptied(sent.s, i) /\ ~(m.n_txq[i] > 0))
  <2>1. \A u, p, x : Relay(u, p, x).s = u
    BY DEF Relay
  <2>2. Sent(sent, i).s = Emptied(sent.s, i)
    BY DEF Sent, Relay
  <2>3. Handled(m, i, fresh)
          = IF b = NoMsg THEN Relay(m, FALSE, FALSE)
            ELSE IF fresh /\ Consumes(i, b) THEN Relay(Emptied(status, i), TRUE, TRUE)
            ELSE IF m.n_txq[i] > 0 THEN Relay(m, FALSE, FALSE) ELSE Sent(sent, i)
    BY Zenon DEF Handled
  <2> HIDE DEF status, sent, b
  <2>4. CASE b = NoMsg
    BY Zenon, <2>1, <2>3, <2>4
  <2>5. CASE b # NoMsg /\ fresh /\ Consumes(i, b)
    BY ZenonT(40), <2>1, <2>3, <2>5
  <2>6. CASE b # NoMsg /\ ~(fresh /\ Consumes(i, b)) /\ m.n_txq[i] > 0
    BY Zenon, <2>1, <2>3, <2>6
  <2>7. CASE b # NoMsg /\ ~(fresh /\ Consumes(i, b)) /\ ~(m.n_txq[i] > 0)
    BY Zenon, <2>2, <2>3, <2>7
  <2> QED
    BY Zenon, <2>4, <2>5, <2>6, <2>7
<1> SUFFICES MemInv(t)
  BY Zenon
<1> HIDE DEF t
<1>2. MemInv(status)
  <2>1. "remote" \in Halves /\ MayQueue(m, "remote", "none")
    BY DEF Halves, MayQueue
  <2>2. status = rconn_send(m, "remote", Msg("EXPERIMENTER", b.xid), "none").s
    BY Zenon DEF switch_status_remote_packet_cb
  <2> QED
    BY Zenon, <2>1, <2>2, SendKeeps DEF Works
<1>3. ASSUME ~(m.n_txq[i] > 0) PROVE MemInv(sent.s)
  <2>1. m.n_txq[i] = 0
    <3>1. m.n_txq[i] \in Nat
      BY Zenon, CountsAre
    <3> QED
      BY <1>3, <3>1
  <2>2. Other(i) \in Halves /\ MayQueue(m, Other(i), i)
    BY Zenon, <2>1, OtherIs DEF MayQueue
  <2> QED
    BY Zenon, <2>2, SendKeeps DEF Works
<1> HIDE DEF status, sent
<1>4. \A u : MemInv(u) => MemInv(Emptied(u, i))
  BY Zenon, RxbufIs DEF Emptied
<1> QED
  BY Zenon, <1>1, <1>2, <1>3, <1>4

\* The body of the inner loop of relay_run
LEMMA RelayHalfKeeps ==
    ASSUME NEW m, MemInv(m), NEW i \in Halves
    PROVE  MemInv(RelayHalf(m, i).s) /\ IsRelay(RelayHalf(m, i))
<1> DEFINE got == rconn_recv(m, i)
           t == [got.s EXCEPT !.rxbuf[i] = got.msg]
<1>1. RelayHalf(m, i) = IF m.rxbuf[i] = NoMsg THEN Handled(t, i, TRUE) ELSE Handled(m, i, FALSE)
  BY Zenon DEF RelayHalf, Taken
<1>2. MemInv(got.s)
  BY Zenon, RecvKeeps
<1> HIDE DEF got
<1>3. MemInv(t)
  BY Zenon, <1>2, RxbufIs
<1> HIDE DEF t
<1> QED
  BY Zenon, <1>1, <1>3, HandledKeeps, HandledIs

\* The body of the outer loop
LEMMA TurnKeeps ==
    ASSUME NEW m, MemInv(m)
    PROVE  MemInv(Second(RelayHalf(m, "local")).s)
<1> DEFINE one == RelayHalf(m, "local")
           two == RelayHalf(one.s, "remote")
<1>1. "local" \in Halves /\ "remote" \in Halves
  BY DEF Halves
<1>2. MemInv(one.s)
  BY Zenon, <1>1, RelayHalfKeeps
<1> HIDE DEF one
<1>3. MemInv(two.s) /\ IsRelay(two)
  BY Zenon, <1>1, <1>2, RelayHalfKeeps
<1> HIDE DEF two
<1>4. Both(one, two).s = two.s
  BY <1>3 DEF Both, IsRelay
<1>5. Second(one) = IF one.stop THEN one ELSE Both(one, two)
  BY Zenon DEF Second, two
<1>6. MemInv(Second(one).s)
  BY Zenon, <1>2, <1>3, <1>4, <1>5
<1> QED
  BY Zenon, <1>6 DEF one

---------------------------------------------------------------------------
\* The loops of do_tx_work and of relay_run.

\* The bodies of the loops of do_tx_work and of relay_run
Step(kind, r, a) ==
    IF kind = "drain"
    THEN IF a.ret = "OK" /\ a.s.rc[r].txq # <<>> THEN try_send(a.s, r) ELSE a
    ELSE IF a.progress THEN Second(RelayHalf(a.s, "local")) ELSE a

\* What these keep, beginning in m
StepInv(kind, m, r, a) == IF kind = "drain" THEN Works(m, a.s, r) ELSE MemInv(a.s)

\* A step keeps what the loop keeps.
LEMMA StepKeeps ==
    ASSUME NEW kind, NEW m, NEW r \in Halves, NEW a, StepInv(kind, m, r, a)
    PROVE  StepInv(kind, m, r, Step(kind, r, a))
<1>1. CASE kind = "drain"
  <2>1. Works(m, a.s, r)
    BY Zenon, <1>1 DEF StepInv
  <2>2. a.s.rc[r].txq # <<>> => Works(a.s, try_send(a.s, r).s, r)
    BY Zenon, <2>1, TrySendKeeps DEF Works
  <2>3. Works(m, Step(kind, r, a).s, r)
    BY Zenon, <1>1, <2>1, <2>2, WorksOn DEF Step
  <2> QED
    BY Zenon, <1>1, <2>3 DEF StepInv
<1>2. CASE kind # "drain"
  BY Zenon, <1>2, TurnKeeps DEF StepInv, Step
<1> QED
  BY Zenon, <1>1, <1>2

\* The function g makes m turns of such a loop, which begins with base.
Loop(g, kind, r, base, m) ==
    \A x \in SUBSET (1..m) : g[x] = IF x = {} THEN base ELSE Step(kind, r, g[x \ {Max(x)}])

\* Such a function exists, whatever the loop does.
LEMMA LoopExists ==
    ASSUME NEW kind, NEW r, NEW base, NEW m \in Nat
    PROVE  \E g : g = [x \in SUBSET (1..m) |-> g[x]] /\ Loop(g, kind, r, base, m)
<1> DEFINE P == SUBSET (1..m)
           next(g, x) == IF x = {} THEN base ELSE Step(kind, r, g[x \ {Max(x)}])
           Made(g) == DOMAIN g = P /\ g = [x \in P |-> g[x]]
           T == {n \in 0..m : \E g : Made(g) /\ \A x \in SUBSET (1..n) : g[x] = next(g, x)}
<1>2. 0 \in T
  <2> DEFINE g == [x \in P |-> base]
  <2>1. Made(g) /\ 0 \in 0..m
    OBVIOUS
  <2>2. \A x \in SUBSET (1..0) : x = {} /\ x \in P
    OBVIOUS
  <2>3. \A x \in SUBSET (1..0) : g[x] = next(g, x)
    BY <2>2
  <2> HIDE DEF g, next, P, Made
  <2> QED
    BY Zenon, <2>1, <2>3
<1>3. ASSUME NEW n \in 1..m, n - 1 \in T
      PROVE  n \in T
  <2> HIDE DEF next
  <2>1. PICK g : Made(g) /\ \A x \in SUBSET (1..(n - 1)) : g[x] = next(g, x)
    BY Zenon, <1>3
  <2> DEFINE h == [x \in P |-> next(g, x)]
  <2>2. Made(h)
    OBVIOUS
  <2>3. ASSUME NEW x \in SUBSET (1..(n - 1)) PROVE h[x] = g[x]
    <3>1. x \in P
      OBVIOUS
    <3>2. h[x] = next(g, x)
      BY <3>1
    <3> QED
      BY Zenon, <2>1, <3>2
  <2>4. ASSUME NEW x \in SUBSET (1..n) PROVE h[x] = next(h, x)
    <3>1. x \in P /\ n \in Nat
      OBVIOUS
    <3>2. h[x] = next(g, x)
      BY <3>1
    <3>3. x # {} => h[x \ {Max(x)}] = g[x \ {Max(x)}]
      BY Zenon, <2>3, <3>1, BeforeLast
    <3> HIDE DEF h
    <3> QED
      BY Zenon, <3>2, <3>3 DEF next
  <2>5. n \in 0..m
    OBVIOUS
  <2> HIDE DEF h, P, Made
  <2> QED
    BY Zenon, <2>2, <2>4, <2>5
<1>4. \A n \in 1..m : n - 1 \in T => n \in T
  BY Zenon, <1>3
<1> HIDE DEF T
<1>5. \A n \in 0..m : n \in T
  BY <1>2, <1>4, LoopInduction, Zenon
<1>6. m \in T
  BY <1>5
<1> QED
  BY Zenon, <1>6 DEF T, Loop

\* The loop keeps what its body keeps.
LEMMA LoopKeeps ==
    ASSUME NEW kind, NEW m, NEW r \in Halves, NEW base, StepInv(kind, m, r, base),
           NEW n \in Nat, NEW g, Loop(g, kind, r, base, n)
    PROVE  StepInv(kind, m, r, g[1..n])
<1> DEFINE X == {a \in {g[x] : x \in SUBSET (1..n)} : StepInv(kind, m, r, a)}
<1>1. g[{}] \in X
  <2>1. {} \in SUBSET (1..n)
    OBVIOUS
  <2>2. g[{}] = base
    BY Zenon, <2>1 DEF Loop
  <2> QED
    BY Zenon, <2>1, <2>2
<1>2. ASSUME NEW x \in SUBSET (1..n), x # {}, g[x \ {Max(x)}] \in X PROVE g[x] \in X
  <2>1. g[x] = Step(kind, r, g[x \ {Max(x)}])
    BY Zenon, <1>2 DEF Loop
  <2>2. StepInv(kind, m, r, g[x])
    BY Zenon, <1>2, <2>1, StepKeeps
  <2> QED
    BY Zenon, <2>2
<1> HIDE DEF X
<1>3. \A x \in SUBSET (1..n) : x # {} /\ g[x \ {Max(x)}] \in X => g[x] \in X
  BY Zenon, <1>2
<1>4. g[1..n] \in X
  BY Zenon, <1>1, <1>3, FoldKeeps
<1> QED
  BY Zenon, <1>4 DEF X

\* The loop of do_tx_work
LEMMA DrainedKeeps ==
    ASSUME NEW m, MemInv(m), NEW r \in Halves
    PROVE  Works(m, Drained(m, r), r)
<1> DEFINE q == m.rc[r].txq
           n == Len(q)
           P == SUBSET (1..n)
           base == [ret |-> "OK", s |-> m]
           Sends(sent, b) == IF sent.ret = "OK" /\ sent.s.rc[r].txq # <<>>
                             THEN try_send(sent.s, r) ELSE sent
           Body(g) == [x \in P |-> IF x = {} THEN base ELSE Sends(g[x \ {Max(x)}], q[Max(x)])]
           iter == CHOOSE g : g = Body(g)
<1>1. DOMAIN q = 1..n /\ n \in Nat
  <2>1. IsQueue(q)
    BY Zenon, CountsAre
  <2> HIDE DEF q
  <2> QED
    BY <2>1 DEF IsQueue
<1>2. Drained(m, r) = iter[1..n].s
  <2>1. Drained(m, r) = FoldLeft(Sends, base, q).s
    BY Zenon DEF Drained
  <2>2. FoldLeft(Sends, base, q) = iter[1..n]
    BY <1>1 DEF FoldLeft, MapThenFoldSet
  <2> QED
    BY Zenon, <2>1, <2>2
<1>3. \A a, b : Sends(a, b) = Step("drain", r, a)
  BY Zenon DEF Step
<1>4. StepInv("drain", m, r, base)
  <2>1. base.s = m
    OBVIOUS
  <2> HIDE DEF base
  <2>2. Works(m, m, r)
    BY Zenon DEF Works, Beside, MemInv
  <2> QED
    BY Zenon, <2>1, <2>2 DEF StepInv
<1> HIDE DEF Sends, q, n, base
<1>5. iter = Body(iter)
  <2>1. PICK g : g = [x \in P |-> g[x]] /\ Loop(g, "drain", r, base, n)
    BY Zenon, <1>1, LoopExists
  <2>2. ASSUME NEW x \in P
        PROVE  g[x] = IF x = {} THEN base ELSE Sends(g[x \ {Max(x)}], q[Max(x)])
    BY Zenon, <1>3, <2>1 DEF Loop
  <2>3. [x \in P |-> g[x]] = Body(g)
    BY Zenon, <2>2
  <2>4. g = Body(g)
    BY Zenon, <2>1, <2>3
  <2> HIDE DEF Body
  <2> QED
    BY Zenon, <2>4
<1> HIDE DEF iter
<1>6. Loop(iter, "drain", r, base, n)
  <2>1. ASSUME NEW x \in P
        PROVE  iter[x] = IF x = {} THEN base ELSE Step("drain", r, iter[x \ {Max(x)}])
    <3>1. iter[x] = IF x = {} THEN base ELSE Sends(iter[x \ {Max(x)}], q[Max(x)])
      BY Zenon, <1>5
    <3> QED
      BY Zenon, <1>3, <3>1
  <2> QED
    BY Zenon, <2>1 DEF Loop
<1>7. StepInv("drain", m, r, iter[1..n])
  BY Zenon, <1>1, <1>4, <1>6, LoopKeeps
<1> QED
  BY Zenon, <1>2, <1>7 DEF StepInv

\* do_tx_work
LEMMA TxWorkKeeps ==
    ASSUME NEW m, MemInv(m), NEW r \in Halves
    PROVE  Works(m, do_tx_work(m, r), r) /\ (m.rc[r].txq = <<>> => do_tx_work(m, r) = m)
<1> DEFINE t == Drained(m, r)
           w == [t EXCEPT !.wake = TRUE]
<1>1. do_tx_work(m, r) = IF m.rc[r].txq = <<>> THEN m ELSE IF t.rc[r].txq = <<>> THEN w ELSE t
  BY Zenon DEF do_tx_work
<1>2. Works(m, t, r)
  BY Zenon, DrainedKeeps
<1> HIDE DEF t
<1>3. DOMAIN w = MemFields /\ w.rc = t.rc /\ w.n_txq = t.n_txq
  <2>1. DOMAIN t = MemFields
    BY Zenon, <1>2 DEF Works, MemInv, IsMem
  <2> QED
    BY <2>1 DEF MemFields
<1> HIDE DEF w
<1>4. Works(m, w, r)
  BY Zenon, <1>2, <1>3, RxbufKeeps DEF Works, Beside, IsMem
<1>5. Works(m, m, r)
  BY Zenon DEF Works, Beside, MemInv
<1> QED
  BY Zenon, <1>1, <1>2, <1>4, <1>5

---------------------------------------------------------------------------
\* The rounds of rconn_run.

\* A state that run functions leave alone: a connection that has just begun to
\* back off, or has just come up and has nothing to send
Calm(c) == c.entered = 0 /\ (c.state = "BACKOFF" \/ (c.state = "ACTIVE" /\ c.txq = <<>>))

\* A state that leads to a calm one, if anywhere
Soon(c) == c.entered = 0 /\ c.state \in {"CONNECTING", "IDLE"}

\* What a round of rconn_run makes of the memory m
Ran(m, t, r) ==
    /\ MemInv(t) /\ Beside(m, t, r)
    /\ t.rc[r].state = m.rc[r].state \/ Calm(t.rc[r]) \/ Soon(t.rc[r])
    /\ Soon(m.rc[r]) => t.rc[r].state = m.rc[r].state \/ Calm(t.rc[r])
    /\ Calm(m.rc[r]) => t.rc[r].state = m.rc[r].state

\* What vconn_connect returns.
LEMMA ConnectReturns ==
    ASSUME NEW v, NEW reply
    PROVE  Returned(vconn_connect(v, reply))
BY DEF Returned, vconn_connect

\* A round that changes nothing, or gives the connection up
LEMMA RanIdly ==
    ASSUME NEW m, MemInv(m), NEW r \in Halves
    PROVE  Ran(m, m, r)
BY Zenon DEF Ran, Beside, MemInv

\* A round that ends in a back-off
LEMMA RanBack ==
    ASSUME NEW m, NEW t, NEW r, BacksOff(m, t, r), m.rc[r].state \notin {"BACKOFF", "ACTIVE"}
    PROVE  Ran(m, t, r)
BY Zenon DEF Ran, BacksOff, Calm

\* A connection is being made.
LEMMA RunConnecting ==
    ASSUME NEW m, MemInv(m), NEW r \in Halves, m.rc[r].state = "CONNECTING", NEW env
    PROVE  Ran(m, run_CONNECTING(m, r, env), r)
<1> DEFINE c == vconn_connect(m.rc[r].vconn, env.connect)
           put == [m EXCEPT !.rc[r].vconn = c.vconn]
           up == [put EXCEPT !.rc[r] = state_transition(put.rc[r], "ACTIVE")]
           never == [put EXCEPT !.rc[r].deadline = Never]
           t == run_CONNECTING(m, r, env)
<1>1. Returned(c)
  BY Zenon, ConnectReturns
<1>2. t = ConnectReturned(put, r, c.ret)
  BY Zenon DEF run_CONNECTING, Connecting
<1> SUFFICES Ran(m, t, r)
  BY Zenon
<1> HIDE DEF t, c
<1>3. Touched(m, put, r)
  BY Zenon, TouchedKeeps
<1> HIDE DEF put
<1>4. MemInv(put) /\ Beside(m, put, r) /\ put.rc[r].state = "CONNECTING" /\ put.rc[r].txq = <<>>
  <2>1. MemInv(put) /\ Beside(m, put, r) /\ put.rc[r].state = "CONNECTING"
    BY Zenon, <1>3 DEF Touched, Same
  <2>2. ~is_connected_state(put.rc[r].state)
    BY <2>1 DEF is_connected_state
  <2> QED
    BY Zenon, <2>1, <2>2 DEF MemInv, ConnInv, Counted
<1>5. /\ c.ret = "OK" => t = up
      /\ c.ret = "ERROR" => t = disconnect(put, r)
      /\ c.ret = "EAGAIN" => t \in {put, disconnect(never, r)}
  BY <1>2 DEF ConnectReturned
<1>6. CASE c.ret = "OK"
  <2>1. Enters(put, up, r, "ACTIVE")
    <3>1. "ACTIVE" # "IDLE"
      OBVIOUS
    <3> QED
      BY Zenon, <1>4, <3>1, TransitionKeeps
  <2> HIDE DEF up
  <2>3. Beside(m, up, r) /\ Calm(up.rc[r])
    BY Zenon, <1>4, <2>1 DEF Enters, Beside, Calm
  <2>4. ~Calm(m.rc[r])
    BY DEF Calm
  <2> QED
    BY Zenon, <1>5, <1>6, <2>1, <2>3, <2>4 DEF Enters, Ran
<1>7. CASE c.ret = "ERROR"
  <2>1. BacksOff(put, disconnect(put, r), r)
    BY Zenon, <1>4, DisconnectKeeps
  <2>2. BacksOff(m, disconnect(put, r), r)
    BY Zenon, <1>4, <2>1 DEF BacksOff, Beside
  <2>3. m.rc[r].state \notin {"BACKOFF", "ACTIVE"}
    OBVIOUS
  <2> QED
    BY Zenon, <1>5, <1>7, <2>2, <2>3, RanBack
<1>8. CASE c.ret = "EAGAIN" /\ t = put
  BY Zenon, <1>3, <1>4, <1>8 DEF Ran, Calm, Same, Touched
<1>9. CASE c.ret = "EAGAIN" /\ t = disconnect(never, r)
  <2>1. Touched(put, never, r)
    BY Zenon, <1>4, TouchedKeeps
  <2> HIDE DEF never
  <2>2. BacksOff(never, disconnect(never, r), r)
    BY Zenon, <2>1, DisconnectKeeps DEF Touched
  <2>3. BacksOff(m, disconnect(never, r), r)
    BY Zenon, <1>4, <2>1, <2>2 DEF BacksOff, Beside, Touched
  <2>4. m.rc[r].state \notin {"BACKOFF", "ACTIVE"}
    OBVIOUS
  <2> QED
    BY Zenon, <1>9, <2>3, <2>4, RanBack
<1> QED
  BY Zenon, <1>1, <1>5, <1>6, <1>7, <1>8, <1>9 DEF Returned

\* A connection that has just entered a state is not due.
LEMMA NotDue ==
    ASSUME NEW c, Timed(c)
    PROVE  /\ c.entered = 0 /\ c.state \in {"BACKOFF", "ACTIVE", "IDLE"} => ~timed_out(c)
           /\ timed_out(c) /\ c.state = "ACTIVE" => c.probe_interval > 0
BY DEF Timed, ConnStates, timed_out, Least, AtLeast

\* Work on a connection that is up
LEMMA RanWorks ==
    ASSUME NEW m, NEW t, NEW r, Works(m, t, r), Calm(m.rc[r]) => t = m
    PROVE  Ran(m, t, r)
BY Zenon DEF Ran, Works, Calm

\* A connection that is up
LEMMA RunActive ==
    ASSUME NEW m, MemInv(m), NEW r \in Halves, m.rc[r].state = "ACTIVE", NEW env
    PROVE  Ran(m, run_ACTIVE(m, r, env), r)
<1> DEFINE idle == [m EXCEPT !.rc[r] = state_transition(m.rc[r], "IDLE")]
           probed == rconn_send(idle, r, Msg("ECHO_REQUEST", env.xid), "none").s
<1>1. run_ACTIVE(m, r, env) = IF timed_out(m.rc[r]) THEN probed ELSE do_tx_work(m, r)
  BY Zenon DEF run_ACTIVE
<1>2. Timed(m.rc[r])
  BY Zenon DEF MemInv, ConnInv
<1>3. CASE timed_out(m.rc[r])
  <2>1. m.rc[r].probe_interval > 0 /\ m.rc[r].entered # 0
    BY <1>2, <1>3, NotDue
  <2>2. Enters(m, idle, r, "IDLE")
    BY Zenon, <2>1, TransitionKeeps
  <2> HIDE DEF idle
  <2>3. Works(idle, probed, r)
    BY Zenon, <2>2, SendKeeps DEF Enters, MayQueue
  <2> HIDE DEF probed
  <2>4. MemInv(probed) /\ Beside(m, probed, r)
    BY Zenon, <2>2, <2>3 DEF Works, Enters, Beside
  <2>5. Soon(probed.rc[r]) \/ Calm(probed.rc[r])
    BY Zenon, <2>2, <2>3 DEF Works, Enters, Soon, Calm
  <2>6. ~Soon(m.rc[r]) /\ ~Calm(m.rc[r])
    BY <2>1 DEF Soon, Calm
  <2> QED
    BY Zenon, <1>1, <1>3, <2>4, <2>5, <2>6 DEF Ran
<1>4. CASE ~timed_out(m.rc[r])
  <2>1. Works(m, do_tx_work(m, r), r) /\ (m.rc[r].txq = <<>> => do_tx_work(m, r) = m)
    BY Zenon, TxWorkKeeps
  <2>2. Calm(m.rc[r]) => m.rc[r].txq = <<>>
    BY DEF Calm
  <2> QED
    BY Zenon, <1>1, <1>4, <2>1, <2>2, RanWorks
<1> QED
  BY Zenon, <1>3, <1>4

\* A connection that is up and has been probed
LEMMA RunIdle ==
    ASSUME NEW m, MemInv(m), NEW r \in Halves, m.rc[r].state = "IDLE"
    PROVE  Ran(m, run_IDLE(m, r), r)
<1>1. run_IDLE(m, r) = IF timed_out(m.rc[r]) THEN disconnect(m, r) ELSE do_tx_work(m, r)
  BY Zenon DEF run_IDLE
<1>2. ~Calm(m.rc[r]) /\ m.rc[r].state \notin {"BACKOFF", "ACTIVE"}
  BY DEF Calm
<1>3. BacksOff(m, disconnect(m, r), r) /\ Works(m, do_tx_work(m, r), r)
  BY Zenon, DisconnectKeeps, TxWorkKeeps
<1> QED
  BY Zenon, <1>1, <1>2, <1>3, RanBack, RanWorks

\* A round of rconn_run
LEMMA RunKeeps ==
    ASSUME NEW m, MemInv(m), NEW r \in Halves, NEW env
    PROVE  Ran(m, Run(m, r, env), r)
<1> DEFINE c == m.rc[r]
<1>1. Timed(c) /\ c.state \in ConnStates
  BY Zenon DEF MemInv, ConnInv, Timed
<1>2. Ran(m, m, r)
  BY Zenon, RanIdly
<1>3. CASE c.state = "VOID"
  <2>1. Run(m, r, env) = m
    BY <1>3 DEF Run
  <2> QED
    BY Zenon, <1>2, <2>1
<1>4. CASE c.state = "BACKOFF"
  <2>1. Run(m, r, env) = IF timed_out(c) THEN reconnect(m, r, env.open) ELSE m
    BY <1>4 DEF Run
  <2>2. CASE timed_out(c)
    <3>1. c.entered # 0 /\ ~rconn_is_connected(m, r)
      BY <1>1, <1>4, <2>2, NotDue DEF rconn_is_connected, is_connected_state
    <3>2. Tries(m, reconnect(m, r, env.open), r)
      BY Zenon, <3>1, ReconnectKeeps
    <3>3. ~Calm(c) /\ ~Soon(c)
      BY <3>1 DEF Calm, Soon
    <3> QED
      BY Zenon, <1>4, <2>1, <2>2, <3>2, <3>3 DEF Tries, Ran, Soon
  <2> QED
    BY Zenon, <1>2, <2>1, <2>2
<1>5. CASE c.state = "CONNECTING"
  <2>1. Run(m, r, env) = run_CONNECTING(m, r, env)
    BY <1>5 DEF Run
  <2> QED
    BY Zenon, <1>5, <2>1, RunConnecting
<1>6. CASE c.state = "ACTIVE"
  <2>1. Run(m, r, env) = run_ACTIVE(m, r, env)
    BY <1>6 DEF Run
  <2> QED
    BY Zenon, <1>6, <2>1, RunActive
<1>7. CASE c.state = "IDLE"
  <2>1. Run(m, r, env) = run_IDLE(m, r)
    BY <1>7 DEF Run
  <2> QED
    BY Zenon, <1>7, <2>1, RunIdle
<1> QED
  BY <1>1, <1>3, <1>4, <1>5, <1>6, <1>7 DEF ConnStates

\* The rounds of rconn_run: three suffice, for whatever the peers do.
LEMMA RoundsKeep ==
    ASSUME NEW m, MemInv(m), NEW r \in Halves, NEW env,
           NEW one, one = Again([s |-> m, done |-> FALSE], r, env),
           NEW two, two = Again(one, r, env), NEW three, three = Again(two, r, env)
    PROVE  MemInv(three.s) /\ Beside(m, three.s, r) /\ three.done
<1> DEFINE t == Run(m, r, env)
           u == Run(t, r, env)
           w == Run(u, r, env)
<1>1. one.s = t /\ one.done = (t.rc[r].state = m.rc[r].state)
  BY DEF Again
<1>2. Ran(m, t, r)
  BY ZenonT(40), RunKeeps
<1>3. /\ one.done => two = one
      /\ ~one.done => two.s = u /\ two.done = (u.rc[r].state = t.rc[r].state)
  <2> HIDE DEF t
  <2> QED
    BY <1>1 DEF Again
<1> HIDE DEF t
<1>4. Ran(t, u, r)
  BY ZenonT(40), <1>2, RunKeeps DEF Ran
<1>5. /\ two.done => three = two
      /\ ~two.done /\ ~one.done => three.s = w /\ three.done = (w.rc[r].state = u.rc[r].state)
  <2> HIDE DEF u
  <2> QED
    BY Zenon, <1>3 DEF Again
<1> HIDE DEF u
<1>6. Ran(u, w, r)
  BY Zenon, <1>4, RunKeeps DEF Ran
<1> HIDE DEF w
<1>7. CASE one.done
  BY Zenon, <1>1, <1>2, <1>3, <1>5, <1>7 DEF Ran
<1>8. CASE ~one.done /\ two.done
  BY Zenon, <1>2, <1>3, <1>4, <1>5, <1>8 DEF Ran, Beside
<1>9. CASE ~one.done /\ ~two.done
  <2>1. Calm(t.rc[r]) \/ Soon(t.rc[r])
    BY Zenon, <1>1, <1>2, <1>9 DEF Ran
  <2>2. Calm(u.rc[r])
    BY Zenon, <1>3, <1>4, <1>9, <2>1 DEF Ran
  <2>3. w.rc[r].state = u.rc[r].state
    BY Zenon, <1>6, <2>2 DEF Ran
  <2> QED
    BY Zenon, <1>2, <1>4, <1>5, <1>6, <1>9, <2>3 DEF Ran, Beside
<1> QED
  BY ZenonT(40), <1>3, <1>7, <1>8, <1>9

\* rconn_run
LEMMA RconnRunKeeps ==
    ASSUME NEW m, MemInv(m), NEW r \in Halves, NEW env
    PROVE  MemInv(rconn_run(m, r, env)) /\ Beside(m, rconn_run(m, r, env), r)
BY Zenon, RoundsKeep DEF rconn_run

---------------------------------------------------------------------------
\* relay_run, and a turn of the loop of main.

\* relay_run
LEMMA RelayRunKeeps ==
    ASSUME NEW m, MemInv(m), NEW env
    PROVE  MemInv(relay_run(m, env))
<1> DEFINE one == rconn_run(m, "local", env.local)
           two == rconn_run(one, "remote", env.remote)
           base == Relay(two, TRUE, FALSE)
           n == Iterations
           q == [iteration \in 1..n |-> iteration]
           P == SUBSET (1..n)
           Goes(a, iteration) == IF a.progress THEN Second(RelayHalf(a.s, "local")) ELSE a
           Body(g) == [x \in P |-> IF x = {} THEN base ELSE Goes(g[x \ {Max(x)}], q[Max(x)])]
           iter == CHOOSE g : g = Body(g)
           r == "local"
<1>1. n \in Nat /\ DOMAIN q = 1..n /\ r \in Halves /\ "remote" \in Halves
  BY SecureChannelAssumption DEF Halves
<1>2. relay_run(m, env) = iter[1..n].s
  <2>1. relay_run(m, env) = FoldLeft(Goes, base, q).s
    BY Zenon DEF relay_run
  <2> HIDE DEF base
  <2>2. FoldLeft(Goes, base, q) = iter[1..n]
    BY <1>1 DEF FoldLeft, MapThenFoldSet
  <2> QED
    BY Zenon, <2>1, <2>2
<1>3. \A a, b : Goes(a, b) = Step("relay", r, a)
  BY DEF Step
<1>4. StepInv("relay", m, r, base)
  <2>1. base.s = two
    BY DEF Relay
  <2>2. MemInv(one)
    BY Zenon, <1>1, RconnRunKeeps
  <2> HIDE DEF one
  <2>3. MemInv(two)
    BY Zenon, <1>1, <2>2, RconnRunKeeps
  <2> HIDE DEF base, two
  <2> QED
    BY <2>1, <2>3 DEF StepInv
<1> HIDE DEF Goes, q, n, base, r
<1>5. iter = Body(iter)
  <2>1. PICK g : g = [x \in P |-> g[x]] /\ Loop(g, "relay", r, base, n)
    BY Zenon, <1>1, LoopExists
  <2>2. ASSUME NEW x \in P
        PROVE  g[x] = IF x = {} THEN base ELSE Goes(g[x \ {Max(x)}], q[Max(x)])
    BY Zenon, <1>3, <2>1 DEF Loop
  <2>3. [x \in P |-> g[x]] = Body(g)
    BY Zenon, <2>2
  <2>4. g = Body(g)
    BY Zenon, <2>1, <2>3
  <2> HIDE DEF Body
  <2> QED
    BY Zenon, <2>4
<1> HIDE DEF iter
<1>6. Loop(iter, "relay", r, base, n)
  <2>1. ASSUME NEW x \in P
        PROVE  iter[x] = IF x = {} THEN base ELSE Step("relay", r, iter[x \ {Max(x)}])
    <3>1. iter[x] = IF x = {} THEN base ELSE Goes(iter[x \ {Max(x)}], q[Max(x)])
      BY Zenon, <1>5
    <3> QED
      BY Zenon, <1>3, <3>1
  <2> QED
    BY Zenon, <2>1 DEF Loop
<1>7. StepInv("relay", m, r, iter[1..n])
  BY Zenon, <1>1, <1>4, <1>6, LoopKeeps
<1>8. "relay" # "drain"
  OBVIOUS
<1> QED
  BY Zenon, <1>2, <1>7, <1>8 DEF StepInv

\* failover_periodic_cb
LEMMA FailoverKeeps ==
    ASSUME NEW m, MemInv(m), NEW open
    PROVE  MemInv(failover_periodic_cb(m, open))
<1> DEFINE index == (m.index % Len(settings.controllers)) + 1
           c == settings.controllers[index]
           void == rconn_disconnect(m, "remote")
           next == rconn_connect(void, "remote", c, open[c])
           t == [next EXCEPT !.index = index, !.epoch[index] = 0]
<1>1. failover_periodic_cb(m, open)
        = IF rconn_is_connected(m, "remote") \/ ~is_timed_out(m) THEN m ELSE t
  BY Zenon DEF failover_periodic_cb
<1>2. CASE ~rconn_is_connected(m, "remote")
  <2>1. "remote" \in Halves
    BY DEF Halves
  <2>2. MemInv(void) /\ ~rconn_is_connected(void, "remote")
    BY Zenon, <1>2, <2>1, RconnDisconnectKeeps
  <2> HIDE DEF void, c, index
  <2>3. MemInv(next)
    BY Zenon, <2>1, <2>2, RconnConnectKeeps DEF Tries
  <2> HIDE DEF next
  <2>4. DOMAIN t = MemFields /\ t.rc = next.rc /\ t.n_txq = next.n_txq
    <3>1. DOMAIN next = MemFields
      BY Zenon, <2>3 DEF MemInv, IsMem
    <3> QED
      BY <3>1 DEF MemFields
  <2> HIDE DEF t
  <2>5. MemInv(t)
    BY Zenon, <2>3, <2>4, RxbufKeeps
  <2> QED
    BY Zenon, <1>1, <2>5
<1> QED
  BY Zenon, <1>1, <1>2

\* The loop of main
LEMMA MainKeeps ==
    ASSUME MemInv(s), main
    PROVE  MemInv(s')
<1> DEFINE awake == [s EXCEPT !.wake = FALSE]
<1>1. \E open, l, r, xid : s' = Turn(open, l, r, xid)
  BY DEF main, Turns
<1>2. MemInv(awake)
  <2>1. DOMAIN s = MemFields
    BY Zenon DEF MemInv, IsMem
  <2>2. DOMAIN awake = MemFields /\ awake.rc = s.rc /\ awake.n_txq = s.n_txq
    BY <2>1 DEF MemFields
  <2> HIDE DEF awake
  <2> QED
    BY Zenon, <2>2, RxbufKeeps
<1> HIDE DEF awake
<1>3. ASSUME NEW open, NEW l, NEW r, NEW xid
      PROVE  MemInv(Turn(open, l, r, xid))
  <2> DEFINE t == relay_run(awake, [local |-> Env("local", l, open, xid),
                                    remote |-> Env("remote", r, open, xid)])
  <2>1. MemInv(t)
    BY Zenon, <1>2, RelayRunKeeps
  <2> HIDE DEF t
  <2>2. MemInv(IF Len(settings.controllers) > 1 THEN failover_periodic_cb(t, open) ELSE t)
    BY Zenon, <2>1, FailoverKeeps
  <2> QED
    BY Zenon, <2>2 DEF t, awake, Turn
<1> QED
  BY Zenon, <1>1, <1>3

---------------------------------------------------------------------------
\* What else happens in a second, and the second itself.

\* Where only what else changes changes, the memory stays in order.
LEMMA AllKeep ==
    ASSUME NEW m, MemInv(m), NEW t, IsMem(t), t.n_txq = m.n_txq,
           \A i \in Halves : DOMAIN t.rc[i] = ConnFields /\ Timed(t.rc[i])
                             /\ t.rc[i].txq = m.rc[i].txq /\ t.rc[i].state = m.rc[i].state
    PROVE  MemInv(t)
<1>1. ASSUME NEW i \in Halves
      PROVE  ConnInv(t.rc[i], t.n_txq[Other(i)], i)
  BY Zenon DEF MemInv, ConnInv
<1> QED
  BY Zenon, <1>1 DEF MemInv

\* What a peer does to the sockets
LEMMA PeersKeep ==
    ASSUME MemInv(s), NEW i \in Halves, PeerGreets(i) \/ PeerReads(i) \/ PeerSends(i) \/ Reset(i)
    PROVE  MemInv(s')
<1>1. ASSUME NEW m, MemInv(m), NEW v
      PROVE  MemInv([m EXCEPT !.rc[i].vconn = v])
  BY Zenon, <1>1, TouchedKeeps DEF Touched
<1>2. CASE PeerGreets(i)
  <2> DEFINE one == [s EXCEPT !.rc[i].vconn = [@ EXCEPT !.greeted = TRUE]]
  <2>1. PICK rx : s' = [s EXCEPT !.rc[i].vconn.greeted = TRUE, !.rc[i].vconn.rx = rx]
    BY Zenon, <1>2 DEF PeerGreets
  <2>2. s' = [one EXCEPT !.rc[i].vconn = [@ EXCEPT !.rx = rx]]
    BY Zenon, <2>1
  <2>3. MemInv(one)
    BY Zenon, <1>1
  <2> HIDE DEF one
  <2> QED
    BY ZenonT(40), <1>1, <2>2, <2>3
<1>3. CASE PeerReads(i)
  <2>1. PICK rx, tx : s' = [s EXCEPT !.rc[i].vconn.rx = rx, !.rc[i].vconn.tx = tx]
    BY Zenon, <1>3 DEF PeerReads
  <2> DEFINE one == [s EXCEPT !.rc[i].vconn = [@ EXCEPT !.rx = rx]]
  <2>2. s' = [one EXCEPT !.rc[i].vconn = [@ EXCEPT !.tx = tx]]
    BY Zenon, <2>1
  <2>3. MemInv(one)
    BY Zenon, <1>1
  <2> HIDE DEF one
  <2> QED
    BY ZenonT(40), <1>1, <2>2, <2>3
<1>4. CASE PeerSends(i)
  <2>1. PICK rx : s' = [s EXCEPT !.rc[i].vconn.rx = rx]
    BY Zenon, <1>4 DEF PeerSends, Arrives
  <2>2. s' = [s EXCEPT !.rc[i].vconn = [@ EXCEPT !.rx = rx]]
    BY <2>1
  <2> QED
    BY ZenonT(40), <1>1, <2>2
<1>5. CASE Reset(i)
  <2>1. s' = [s EXCEPT !.rc[i].vconn = [@ EXCEPT !.reset = TRUE]]
    BY <1>5 DEF Reset
  <2> QED
    BY Zenon, <1>1, <2>1
<1> QED
  BY Zenon, <1>2, <1>3, <1>4, <1>5

\* A host that disappears
LEMMA FailKeeps ==
    ASSUME MemInv(s), NEW p, Fail(p)
    PROVE  MemInv(s')
<1> DEFINE Lost(c, i) == IF c.vconn # NoVconn /\ c.name = p
                         THEN [c EXCEPT !.vconn.dead = TRUE, !.vconn.reset = i = "local"] ELSE c
           rc == [i \in Halves |-> Lost(s.rc[i], i)]
<1>1. s' = [s EXCEPT !.rc = rc]
  BY Zenon DEF Fail
<1>2. ASSUME NEW c, DOMAIN c = ConnFields, NEW i
      PROVE  Same(c, Lost(c, i))
  BY <1>2 DEF ConnFields, Same
<1>3. \A i \in Halves : DOMAIN s.rc[i] = ConnFields /\ Timed(s.rc[i])
  BY Zenon DEF MemInv, ConnInv
<1>4. IsMem(s') /\ s'.n_txq = s.n_txq /\ s'.rc = rc
  <2>1. IsMem(s)
    BY Zenon DEF MemInv
  <2> HIDE DEF Lost
  <2> QED
    BY <1>1, <2>1 DEF IsMem, MemFields
<1>5. \A i \in Halves : s'.rc[i] = Lost(s.rc[i], i)
  BY Zenon, <1>4
<1> HIDE DEF Lost, rc
<1>6. ASSUME NEW i \in Halves
      PROVE  DOMAIN s'.rc[i] = ConnFields /\ Timed(s'.rc[i])
             /\ s'.rc[i].txq = s.rc[i].txq /\ s'.rc[i].state = s.rc[i].state
  <2> DEFINE c == s.rc[i]
             d == s'.rc[i]
  <2>1. Same(c, d)
    BY Zenon, <1>2, <1>3, <1>5
  <2>2. Timed(c)
    BY Zenon, <1>3
  <2> HIDE DEF c, d
  <2>3. Timed(d)
    BY Zenon, <2>1, <2>2 DEF Timed, Same
  <2> QED
    BY Zenon, <2>1, <2>3 DEF c, d, Same
<1> QED
  BY ZenonT(40), <1>4, <1>6, AllKeep

\* A second passes.
LEMMA TickKeeps ==
    ASSUME MemInv(s), Tick
    PROVE  MemInv(s')
<1> DEFINE rc == [i \in Halves |-> Aged(s.rc[i])]
<1>1. PICK e : s' = [s EXCEPT !.rc = rc, !.epoch = e]
  BY Zenon DEF Tick
<1>2. ASSUME NEW c, DOMAIN c = ConnFields, Timed(c)
      PROVE  DOMAIN Aged(c) = ConnFields /\ Aged(c).state = c.state /\ Aged(c).txq = c.txq
             /\ Timed(Aged(c))
  <2> DEFINE d == Aged(c)
  <2>1. /\ DOMAIN d = ConnFields /\ d.state = c.state /\ d.txq = c.txq /\ d.backoff = c.backoff
        /\ d.max_backoff = c.max_backoff /\ d.probe_interval = c.probe_interval
        /\ d.entered = Least(LastAge, c.entered + 1) /\ d.received = Least(LastAge, c.received + 1)
    BY <1>2 DEF ConnFields, Aged
  <2>2. c.entered \in Nat /\ c.received \in Nat
    BY Zenon, <1>2 DEF Timed
  <2>3. d.entered \in Nat /\ d.received \in Nat
    BY <2>1, <2>2, RconnAssumption DEF Least
  <2> HIDE DEF d
  <2>4. Timed(d)
    BY Zenon, <1>2, <2>1, <2>3 DEF Timed
  <2> QED
    BY Zenon, <2>1, <2>4 DEF d
<1>3. \A i \in Halves : DOMAIN s.rc[i] = ConnFields /\ Timed(s.rc[i])
  BY Zenon DEF MemInv, ConnInv
<1>4. IsMem(s') /\ s'.n_txq = s.n_txq /\ s'.rc = rc
  <2>1. IsMem(s)
    BY Zenon DEF MemInv
  <2> QED
    BY <1>1, <2>1 DEF IsMem, MemFields
<1>5. \A i \in Halves : s'.rc[i] = Aged(s.rc[i])
  BY Zenon, <1>4
<1> HIDE DEF rc
<1>6. ASSUME NEW i \in Halves
      PROVE  DOMAIN s'.rc[i] = ConnFields /\ Timed(s'.rc[i])
             /\ s'.rc[i].txq = s.rc[i].txq /\ s'.rc[i].state = s.rc[i].state
  BY Zenon, <1>2, <1>3, <1>5
<1> QED
  BY ZenonT(40), <1>4, <1>6, AllKeep

\* rconn_create
LEMMA CreatedKeeps ==
    ASSUME NEW p \in Nat, NEW b \in Nat \ {0}, NEW i \in Halves
    PROVE  ConnInv(rconn_create(p, b), 0, i) /\ ~is_connected_state(rconn_create(p, b).state)
<1> DEFINE c == rconn_create(p, b)
<1>1. /\ DOMAIN c = ConnFields /\ c.state = "VOID" /\ c.entered = 0 /\ c.received = 0
      /\ c.backoff = 0 /\ c.max_backoff = b /\ c.probe_interval = p /\ c.txq = <<>>
  BY DEF ConnFields, rconn_create
<1> HIDE DEF c
<1>2. Timed(c)
  BY <1>1 DEF Timed, ConnStates
<1>3. Counted(c.txq, c.state, 0, i)
  BY Zenon, <1>1, CountedNone
<1>4. ~is_connected_state(c.state)
  BY <1>1 DEF is_connected_state
<1> QED
  BY Zenon, <1>1, <1>2, <1>3, <1>4 DEF ConnInv, c

---------------------------------------------------------------------------
\* The inductive invariant: the counters and the queues, with what the state
\* of each connection says of its timers.
ChannelInv == settings \in Settings /\ MemInv(s)

\* main has created both connections and has begun to connect them.
LEMMA ChannelInit == ASSUME Init PROVE ChannelInv
<1> DEFINE l == rconn_create(0, settings.max_backoff)
           r == rconn_create(settings.probe_interval, settings.max_backoff)
           started == [rc |-> [local |-> l, remote |-> r],
                       rxbuf |-> [i \in Halves |-> NoMsg], n_txq |-> [i \in Halves |-> 0],
                       wake |-> FALSE, index |-> 1,
                       epoch |-> [k \in DOMAIN settings.controllers |-> 0]]
           one == rconn_connect(started, "local", Datapath, "OK")
           two == rconn_connect(one, "remote", settings.controllers[1], "OK")
<1>1. s = two /\ settings \in Settings
  BY Zenon DEF Init
<1>2. settings.probe_interval \in Nat /\ settings.max_backoff \in Nat \ {0}
  BY <1>1, SecureChannelAssumption, RconnAssumption
<1>3. /\ ConnInv(l, 0, "local") /\ ~is_connected_state(l.state)
      /\ ConnInv(r, 0, "remote") /\ ~is_connected_state(r.state)
  <2>1. 0 \in Nat /\ "local" \in Halves /\ "remote" \in Halves
    BY DEF Halves
  <2> QED
    BY Zenon, <1>2, <2>1, CreatedKeeps
<1> HIDE DEF l, r
<1>4. /\ IsMem(started) /\ started.rc["local"] = l /\ started.rc["remote"] = r
      /\ \A i \in Halves : started.n_txq[i] = 0
  BY DEF IsMem, MemFields, Halves
<1>5. /\ "local" \in Halves /\ "remote" \in Halves /\ Other("local") = "remote"
      /\ \A i \in Halves : Other(i) \in Halves /\ (i = "local" \/ i = "remote")
  BY DEF Halves, Other
<1> HIDE DEF started
<1>6. MemInv(started)
  BY Zenon, <1>3, <1>4, <1>5 DEF MemInv
<1>7. Tries(started, one, "local")
  BY Zenon, <1>3, <1>4, <1>5, <1>6, RconnConnectKeeps DEF rconn_is_connected
<1> HIDE DEF one
<1>8. MemInv(one) /\ one.rc["remote"] = r
  BY Zenon, <1>4, <1>5, <1>7 DEF Tries, Beside
<1>9. Tries(one, two, "remote")
  BY Zenon, <1>3, <1>5, <1>8, RconnConnectKeeps DEF rconn_is_connected
<1> HIDE DEF two
<1> QED
  BY Zenon, <1>1, <1>9 DEF Tries, ChannelInv

\* Whatever happens keeps it.
LEMMA ChannelStep == ASSUME ChannelInv, [Next]_vars PROVE ChannelInv'
<1>1. settings' = settings
  BY Zenon DEF Next, vars, main, Tick, PeerGreets, PeerReads, PeerSends, Reset, Stall, Fail, Return
<1>2. MemInv(s')
  <2>1. MemInv(s)
    BY Zenon DEF ChannelInv
  <2>2. CASE main
    BY Zenon, <2>1, <2>2, MainKeeps
  <2>3. CASE Tick
    BY Zenon, <2>1, <2>3, TickKeeps
  <2>4. CASE \E i \in Halves : PeerGreets(i) \/ PeerReads(i) \/ PeerSends(i) \/ Reset(i)
    BY Zenon, <2>1, <2>4, PeersKeep
  <2>5. CASE \E p \in Named : Fail(p)
    BY Zenon, <2>1, <2>5, FailKeeps
  <2>6. CASE (\E p \in Named : Stall(p) \/ Return(p)) \/ UNCHANGED vars
    <3>1. s' = s
      BY <2>6 DEF Stall, Return, vars
    <3> QED
      BY Zenon, <2>1, <3>1
  <2> QED
    BY Zenon, <2>2, <2>3, <2>4, <2>5, <2>6 DEF Next
<1> QED
  BY ZenonT(40), <1>1, <1>2 DEF ChannelInv

\* So it always holds.
LEMMA ChannelKeeps == Spec => []ChannelInv
<1>1. Init => ChannelInv
  BY Zenon, ChannelInit
<1>2. ChannelInv /\ [Next]_vars => ChannelInv'
  BY Zenon, ChannelStep
<1> QED
  BY <1>1, <1>2, PTL DEF Spec

\* Whatever the peers, their failures and the order of the calls, the counter
\* of each half of the relay is the number of its messages in the other's send
\* queue, at most one, and the queue of a connection that is not up is empty:
\* flush_queue and try_send (lib/rconn.c) give back what rconn_send took.
THEOREM QueuesCounted == Spec => []QueuedExact
<1>1. ChannelInv => QueuedExact
  <2> SUFFICES ASSUME ChannelInv, NEW i \in Halves
               PROVE  /\ s.n_txq[i] = Owned(s.rc[Other(i)].txq, i)
                      /\ s.n_txq[i] <= 1
                      /\ ~rconn_is_connected(s, i) => s.rc[i].txq = <<>>
    BY Zenon DEF QueuedExact
  <2>1. ConnInv(s.rc[i], s.n_txq[Other(i)], i)
        /\ ConnInv(s.rc[Other(i)], s.n_txq[i], Other(i)) /\ Other(Other(i)) = i
    BY Zenon, OtherIs DEF ChannelInv, MemInv
  <2> QED
    BY Zenon, <2>1 DEF ConnInv, Counted, rconn_is_connected
<1> QED
  BY <1>1, ChannelKeeps, PTL

\* rconn_run's loop ends with its third round at the latest: whatever the
\* socket returns, a connection that has just begun to back off, come up or
\* gone idle is not due for anything in the same second.
RunStops ==
    \A i \in Halves, open \in {"OK", "ERROR"}, connect \in {"OK", "EAGAIN", "ERROR"},
       xid \in ProbeXids :
        LET env == [open |-> open, connect |-> connect, xid |-> xid]
        IN  Again(Again(Again([s |-> s, done |-> FALSE], i, env), i, env), i, env).done

\* The do-while loop of rconn_run (lib/rconn.c) does not spin.
THEOREM RconnRunStops == Spec => []RunStops
<1>1. ChannelInv => RunStops
  <2> SUFFICES ASSUME ChannelInv, NEW i \in Halves, NEW open, NEW connect, NEW xid, NEW env,
                      env = [open |-> open, connect |-> connect, xid |-> xid]
               PROVE  Again(Again(Again([s |-> s, done |-> FALSE], i, env), i, env), i, env).done
    BY Zenon DEF RunStops
  <2> QED
    BY Zenon, RoundsKeep DEF ChannelInv
<1> QED
  BY <1>1, ChannelKeeps, PTL
===========================================================================
