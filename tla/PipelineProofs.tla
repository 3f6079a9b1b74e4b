--------------------------- MODULE PipelineProofs ---------------------------
(***************************************************************************)
(* Proofs about Pipeline: for any tables, flow entries, groups and number  *)
(* of buffers, every packet has one owner, action sets stay canonical,     *)
(* instructions are executed in the documented order and SELECT groups     *)
(* spread packets by weight. First the inductive invariant, and that each  *)
(* of the functions that process a packet keeps it; then the events, and   *)
(* the theorems.                                                           *)
(***************************************************************************)
EXTENDS Pipeline, DataProofs

---------------------------------------------------------------------------
\* The action set.

\* Every action has its place in the order of execution.
LEMMA OrderIsNumber ==
    ASSUME NEW a \in Action
    PROVE  action_set_order(a) \in Nat
<1>1. \A t \in DOMAIN Order : Order[t] \in Nat
  BY DEF Order
<1>2. a.type \in DOMAIN Order
  BY MessageAssumption
<1> QED
  BY <1>1, <1>2 DEF action_set_order

\* The entry where the walk through the set stops, or 0,
StopPos(set, a) ==
    LET I == {i \in 1..Len(set) : StopsAt(a, set[i])}
    IN  IF I # {} THEN Min(I) ELSE 0

\* which is the first that a replaces or precedes.
LEMMA WalkStops ==
    ASSUME NEW set \in Seq(Action), NEW a
    PROVE  /\ StopPos(set, a) \in 0..Len(set)
           /\ StopPos(set, a) = 0 => \A i \in 1..Len(set) : ~StopsAt(a, set[i])
           /\ StopPos(set, a) > 0 =>
                 /\ StopsAt(a, set[StopPos(set, a)])
                 /\ \A i \in 1..(StopPos(set, a) - 1) : ~StopsAt(a, set[i])
<1> DEFINE I == {i \in 1..Len(set) : StopsAt(a, set[i])}
           at == StopPos(set, a)
<1>1. at = IF I # {} THEN Min(I) ELSE 0
  BY DEF StopPos
<1> HIDE DEF at
<1>2. CASE I = {}
  BY <1>1, <1>2 DEF at
<1>3. CASE I # {}
  <2>1. I \in SUBSET Nat
    OBVIOUS
  <2>2. Min(I) \in I /\ \A y \in I : Min(I) <= y
    BY <1>3, <2>1, MinIs, Zenon
  <2>3. at = Min(I)
    BY <1>1, <1>3
  <2>4. at \in 1..Len(set) /\ StopsAt(a, set[at])
    BY <2>2, <2>3
  <2>5. \A i \in 1..(at - 1) : ~StopsAt(a, set[i])
    BY <2>2, <2>3, <2>4
  <2> QED
    BY <2>4, <2>5 DEF at
<1> QED
  BY <1>2, <1>3

\* Writing an action, by where the walk stops.
LEMMA WriteIs ==
    ASSUME NEW set, NEW a
    PROVE  /\ StopPos(set, a) = 0 => action_set_write_action(set, a) = Append(set, a)
           /\ StopPos(set, a) # 0 /\ SameKind(a, set[StopPos(set, a)]) =>
                action_set_write_action(set, a) = ReplaceAt(set, StopPos(set, a), a)
           /\ StopPos(set, a) # 0 /\ ~SameKind(a, set[StopPos(set, a)]) =>
                action_set_write_action(set, a) = InsertAt(set, StopPos(set, a), a)
BY Zenon DEF action_set_write_action, SelectInSeq, StopPos, SameKind

\* An action that is written keeps the set in order, with one action of a kind.
LEMMA WriteKeeps ==
    ASSUME NEW set \in Seq(Action), Canonical(set), NEW a \in Action
    PROVE  /\ action_set_write_action(set, a) \in Seq(Action)
           /\ Canonical(action_set_write_action(set, a))
<1> DEFINE at == StopPos(set, a)
           n == Len(set)
           ord(b) == action_set_order(b)
           t == action_set_write_action(set, a)
<1>1. /\ n \in Nat /\ ord(a) \in Nat /\ DOMAIN set = 1..n
      /\ \A i \in 1..n : set[i] \in Action /\ ord(set[i]) \in Nat
  BY OrderIsNumber
<1>2. /\ at \in 0..n
      /\ at = 0 => \A i \in 1..n : ~StopsAt(a, set[i])
      /\ at > 0 => StopsAt(a, set[at]) /\ \A i \in 1..(at - 1) : ~StopsAt(a, set[i])
  BY WalkStops
<1>a. at \in Nat /\ at <= n
  BY <1>1, <1>2
<1>3. \A i, j \in 1..n : i < j => ord(set[i]) <= ord(set[j]) /\ ~SameKind(set[i], set[j])
  BY <1>1 DEF Canonical
<1>4. \A b, c : SameKind(b, c) => ord(b) = ord(c) /\ SameKind(c, b)
  BY DEF SameKind, action_set_order
<1>5. \A b, c, d : SameKind(b, c) /\ SameKind(b, d) => SameKind(c, d)
  BY DEF SameKind
<1>6. \A b : ~StopsAt(a, b) => ~SameKind(a, b) /\ ~(ord(a) < ord(b))
  BY DEF StopsAt
<1>7. SUFFICES /\ t \in Seq(Action) /\ Len(t) \in Nat
               /\ \A i, j \in 1..Len(t) :
                     i < j => ord(t[i]) <= ord(t[j]) /\ ~SameKind(t[i], t[j])
  BY DEF Canonical
<1> HIDE DEF at, ord, n, t
<1>8. CASE at = 0
  <2>1. t = Append(set, a)
    BY <1>8, WriteIs, Zenon DEF at, t
  <2>2. /\ t \in Seq(Action) /\ Len(t) = n + 1 /\ t[n + 1] = a
        /\ \A i \in 1..n : t[i] = set[i]
    BY <2>1 DEF n
  <2>3. \A i \in 1..n : ord(set[i]) <= ord(a) /\ ~SameKind(set[i], a)
    BY <1>1, <1>2, <1>4, <1>6, <1>8
  <2>4. ASSUME NEW i \in 1..Len(t), NEW j \in 1..Len(t), i < j
        PROVE  ord(t[i]) <= ord(t[j]) /\ ~SameKind(t[i], t[j])
    <3>1. i \in 1..n /\ t[i] = set[i]
      BY <1>1, <2>2, <2>4
    <3>2. CASE j = n + 1
      BY <2>2, <2>3, <3>1, <3>2
    <3>3. CASE j # n + 1
      <4>1. j \in 1..n /\ t[j] = set[j]
        BY <1>1, <2>2, <3>3
      <4> QED
        BY <1>3, <2>4, <3>1, <4>1
    <3> QED
      BY <3>2, <3>3
  <2> QED
    BY <1>1, <2>2, <2>4
<1>9. CASE at > 0 /\ SameKind(a, set[at])
  <2>1. t = ReplaceAt(set, at, a)
    BY <1>2, <1>9, WriteIs DEF at, t
  <2>2. at \in 1..n
    BY <1>1, <1>a, <1>9
  <2>3. /\ t \in Seq(Action) /\ Len(t) = n /\ t[at] = a
        /\ \A i \in 1..n : i # at => t[i] = set[i]
    BY <1>1, <2>1, <2>2 DEF ReplaceAt, n
  <2>4. ord(a) = ord(set[at])
    BY <1>4, <1>9
  <2>5. \A i \in 1..n : ord(t[i]) = ord(set[i])
    BY <2>3, <2>4
  <2>6. ASSUME NEW i \in 1..n, i # at PROVE ~SameKind(a, set[i]) /\ ~SameKind(set[i], a)
    <3>1. ~SameKind(set[at], set[i])
      BY <1>1, <1>3, <1>4, <2>2, <2>6
    <3> QED
      BY <1>4, <1>5, <1>9, <3>1
  <2>7. ASSUME NEW i \in 1..n, NEW j \in 1..n, i < j
        PROVE  ord(t[i]) <= ord(t[j]) /\ ~SameKind(t[i], t[j])
    <3>1. ord(t[i]) <= ord(t[j])
      BY <1>3, <2>5, <2>7
    <3>2. ~SameKind(t[i], t[j])
      BY <1>1, <1>3, <2>3, <2>6, <2>7
    <3> QED
      BY <3>1, <3>2
  <2> QED
    BY <1>1, <2>3, <2>7
<1>10. CASE at > 0 /\ ~SameKind(a, set[at])
  <2>1. t = InsertAt(set, at, a)
    BY <1>2, <1>10, WriteIs DEF at, t
  <2>2. at \in 1..n /\ at \in 1..(n + 1)
    BY <1>1, <1>a, <1>10
  <2>3. /\ t \in Seq(Action) /\ Len(t) = n + 1 /\ t[at] = a
        /\ \A i \in 1..(at - 1) : t[i] = set[i]
        /\ \A i \in (at + 1)..(n + 1) : t[i] = set[i - 1]
    BY SMTT(20), <2>1, <2>2, InsertAtIs DEF n
  <2>4. \A i \in 1..(at - 1) : ord(set[i]) <= ord(a) /\ ~SameKind(set[i], a)
    BY <1>1, <1>2, <1>4, <1>6, <2>2
  <2>5. ord(a) < ord(set[at])
    BY <1>2, <1>10 DEF StopsAt, ord
  <2>6. ASSUME NEW i \in at..n PROVE ord(a) <= ord(set[i]) /\ ~SameKind(a, set[i])
    <3>1. i \in 1..n /\ ord(set[at]) <= ord(set[i])
      BY <1>1, <1>3, <2>2
    <3>2. ord(a) < ord(set[i])
      BY <1>1, <2>2, <2>5, <3>1
    <3> QED
      BY <1>1, <1>4, <3>1, <3>2
  <2>7. ASSUME NEW i \in 1..Len(t), NEW j \in 1..Len(t), i < j
        PROVE  ord(t[i]) <= ord(t[j]) /\ ~SameKind(t[i], t[j])
    <3>0. i \in 1..(n + 1) /\ j \in 1..(n + 1)
      BY <2>3
    <3>1. CASE j < at
      <4>1. t[i] = set[i] /\ t[j] = set[j] /\ i \in 1..n /\ j \in 1..n
        BY <1>1, <2>2, <2>3, <2>7, <3>0, <3>1
      <4> QED
        BY <1>3, <2>7, <4>1
    <3>2. CASE j = at
      <4>1. t[i] = set[i] /\ t[j] = a /\ i \in 1..(at - 1)
        BY <1>1, <2>2, <2>3, <2>7, <3>0, <3>2
      <4> QED
        BY <2>4, <4>1
    <3>3. CASE i < at /\ j > at
      <4>1. t[i] = set[i] /\ t[j] = set[j - 1] /\ i \in 1..n /\ j - 1 \in 1..n /\ i < j - 1
        BY <1>1, <2>2, <2>3, <3>0, <3>3
      <4> QED
        BY <1>3, <4>1
    <3>4. CASE i = at
      <4>1. t[i] = a /\ t[j] = set[j - 1] /\ j - 1 \in at..n
        BY <1>1, <2>2, <2>3, <2>7, <3>0, <3>4
      <4> QED
        BY <2>6, <4>1
    <3>5. CASE i > at
      <4>1. /\ t[i] = set[i - 1] /\ t[j] = set[j - 1]
            /\ i - 1 \in 1..n /\ j - 1 \in 1..n /\ i - 1 < j - 1
        BY <1>1, <2>2, <2>3, <2>7, <3>0, <3>5
      <4> QED
        BY <1>3, <4>1
    <3> QED
      BY <1>1, <2>2, <2>7, <3>0, <3>1, <3>2, <3>3, <3>4, <3>5
  <2> QED
    BY <1>1, <2>3, <2>7
<1> QED
  BY <1>a, <1>8, <1>9, <1>10

\* The sets in order, with one action of a kind
CanonicalSet == {s \in Seq(Action) : Canonical(s)}

\* Packets.  The group a packet is to go to is in the table.
PacketType ==
    [action_set : CanonicalSet, out_port : {a.arg : a \in Action} \union {ANY},
     out_group : DOMAIN groups \union {ANY}, packet_out : BOOLEAN]

\* However many actions are written, the set keeps its form.
LEMMA WriteActionsKeep ==
    ASSUME NEW set \in CanonicalSet, NEW actions \in Seq(Action)
    PROVE  action_set_write_actions(set, actions) \in CanonicalSet
<1> DEFINE m == Len(actions)
           P == SUBSET (1..m)
           F == [z \in CanonicalSet \X Action |-> action_set_write_action(z[1], z[2])]
           Body(g) == [s \in P |->
                         IF s = {} THEN set
                         ELSE action_set_write_action(g[s \ {Max(s)}], actions[Max(s)])]
           iter == CHOOSE g : g = Body(g)
<1>1. actions \in Seq(Action) /\ m \in Nat /\ DOMAIN actions = 1..m
  OBVIOUS
<1>2. action_set_write_actions(set, actions) = iter[1..m]
  BY <1>1 DEF action_set_write_actions, FoldLeft, MapThenFoldSet
<1>3. \A x \in CanonicalSet, b \in Action : action_set_write_action(x, b) \in CanonicalSet
  BY WriteKeeps DEF CanonicalSet
<1>4. F \in [CanonicalSet \X Action -> CanonicalSet] /\ \A x \in CanonicalSet, b \in Action : F[<<x, b>>] = action_set_write_action(x, b)
  BY <1>3
<1>5. \A s \in P : s # {} => s \ {Max(s)} \in P /\ Max(s) \in 1..m
  BY Zenon, <1>1, MaxIs
<1>6. iter = Body(iter)
  <2>1. PICK g \in [P -> CanonicalSet] : IsFold(g, F, set, actions)
    <3>1. F \in [CanonicalSet \X Action -> CanonicalSet] /\ set \in CanonicalSet /\ actions \in Seq(Action)
      BY <1>1, <1>4
    <3> HIDE DEF F
    <3> QED
      BY <3>1, FoldExists, Zenon
  <2>2. ASSUME NEW s \in P, s # {}
        PROVE  g[s] = action_set_write_action(g[s \ {Max(s)}], actions[Max(s)])
    <3>1. g[s \ {Max(s)}] \in CanonicalSet /\ actions[Max(s)] \in Action
      BY <1>1, <1>5, <2>1, <2>2
    <3> HIDE DEF F
    <3> QED
      BY Zenon, <1>4, <2>1, <2>2, <3>1 DEF IsFold
  <2>3. g = Body(g)
    BY Zenon, <2>1, <2>2 DEF IsFold
  <2> HIDE DEF Body
  <2> QED
    BY <2>3
<1> HIDE DEF iter
<1>7. /\ iter[{}] = set
      /\ \A s \in P : s # {} => iter[s] = action_set_write_action(iter[s \ {Max(s)}], actions[Max(s)])
  BY Zenon, <1>6
<1>8. \A s \in SUBSET (1..m) : s # {} /\ iter[s \ {Max(s)}] \in CanonicalSet => iter[s] \in CanonicalSet
  <2>1. ASSUME NEW s \in P, s # {}, iter[s \ {Max(s)}] \in CanonicalSet PROVE iter[s] \in CanonicalSet
    <3>1. actions[Max(s)] \in Action
      BY <1>1, <1>5, <2>1
    <3> QED
      BY Zenon, <1>3, <1>7, <2>1, <3>1
  <2> QED
    BY Zenon, <2>1
<1> HIDE DEF m
<1>9. iter[1..m] \in CanonicalSet
  <2>1. iter[{}] \in CanonicalSet /\ m \in Nat
    BY <1>1, <1>7
  <2> QED
    BY <1>8, <2>1, FoldKeeps, Zenon
<1> QED
  BY <1>2, <1>9

\* An action leaves a packet a packet.
LEMMA ActionKeeps ==
    ASSUME groups \in GroupTables, NEW pkt \in PacketType, NEW a \in Action
    PROVE  dp_execute_action(pkt, a) \in PacketType
<1>1. a.type = "GROUP" => a.arg \in DOMAIN groups
  BY MessageAssumption
<1> QED
  BY <1>1 DEF dp_execute_action, PacketType

\* So do all the actions of its set.
LEMMA ExecuteKeeps ==
    ASSUME groups \in GroupTables, NEW pkt \in PacketType
    PROVE  ExecuteSet(pkt) \in PacketType
<1> DEFINE m == Len(pkt.action_set)
           P == SUBSET (1..m)
           F == [z \in PacketType \X Action |-> dp_execute_action(z[1], z[2])]
           Body(g) == [s \in P |->
                         IF s = {} THEN pkt
                         ELSE dp_execute_action(g[s \ {Max(s)}], pkt.action_set[Max(s)])]
           iter == CHOOSE g : g = Body(g)
<1>1. pkt.action_set \in Seq(Action) /\ m \in Nat /\ DOMAIN pkt.action_set = 1..m
  BY DEF PacketType, CanonicalSet
<1>2. ExecuteSet(pkt) = iter[1..m]
  BY <1>1 DEF ExecuteSet, FoldLeft, MapThenFoldSet
<1>3. \A x \in PacketType, b \in Action : dp_execute_action(x, b) \in PacketType
  BY ActionKeeps
<1>4. F \in [PacketType \X Action -> PacketType] /\ \A x \in PacketType, b \in Action : F[<<x, b>>] = dp_execute_action(x, b)
  BY <1>3
<1>5. \A s \in P : s # {} => s \ {Max(s)} \in P /\ Max(s) \in 1..m
  BY Zenon, <1>1, MaxIs
<1>6. iter = Body(iter)
  <2>1. PICK g \in [P -> PacketType] : IsFold(g, F, pkt, pkt.action_set)
    <3>1. F \in [PacketType \X Action -> PacketType] /\ pkt \in PacketType /\ pkt.action_set \in Seq(Action)
      BY <1>1, <1>4
    <3> HIDE DEF F
    <3> QED
      BY <3>1, FoldExists, Zenon
  <2>2. ASSUME NEW s \in P, s # {}
        PROVE  g[s] = dp_execute_action(g[s \ {Max(s)}], pkt.action_set[Max(s)])
    <3>1. g[s \ {Max(s)}] \in PacketType /\ pkt.action_set[Max(s)] \in Action
      BY <1>1, <1>5, <2>1, <2>2
    <3> HIDE DEF F
    <3> QED
      BY Zenon, <1>4, <2>1, <2>2, <3>1 DEF IsFold
  <2>3. g = Body(g)
    BY Zenon, <2>1, <2>2 DEF IsFold
  <2> HIDE DEF Body
  <2> QED
    BY <2>3
<1> HIDE DEF iter
<1>7. /\ iter[{}] = pkt
      /\ \A s \in P : s # {} => iter[s] = dp_execute_action(iter[s \ {Max(s)}], pkt.action_set[Max(s)])
  BY Zenon, <1>6
<1>8. \A s \in SUBSET (1..m) : s # {} /\ iter[s \ {Max(s)}] \in PacketType => iter[s] \in PacketType
  <2>1. ASSUME NEW s \in P, s # {}, iter[s \ {Max(s)}] \in PacketType PROVE iter[s] \in PacketType
    <3>1. pkt.action_set[Max(s)] \in Action
      BY <1>1, <1>5, <2>1
    <3> QED
      BY <1>3, <1>7, <2>1, <3>1
  <2> QED
    BY <2>1
<1> HIDE DEF m
<1>9. iter[1..m] \in PacketType
  <2>1. iter[{}] \in PacketType /\ m \in Nat
    BY <1>1, <1>7
  <2> QED
    BY <1>8, <2>1, FoldKeeps, Zenon
<1> QED
  BY <1>2, <1>9

---------------------------------------------------------------------------
\* The inductive invariant.

Instruction == UNION InstructionSets

\* Calls, by what they keep between two of their steps
CallType ==
    [fn : {"process", "set", "destroy"}, pkt : Packet]
      \union [fn : {"lookup"}, pkt : Packet, table : Table]
      \union [fn : {"entry"}, pkt : Packet, insts : Seq(Instruction),
              next_table : Table \union {NoTable}]
      \union [fn : {"list"}, pkt : Packet, actions : Seq(Action)]
      \union [fn : {"group"}, pkt : Packet, group : DOMAIN groups]
      \union [fn : {"all"}, pkt : Packet, group : DOMAIN groups, bucket : Nat]

MemoryInv ==
    /\ DOMAIN packets \subseteq Packet /\ IsFiniteSet(DOMAIN packets)
    /\ \A p \in DOMAIN packets : packets[p] \in PacketType
    /\ calls \in Seq(CallType)
    /\ Sound(calls, DOMAIN packets, saved)

SelectInv ==
    \A g \in SelectGroups :
       g \in DOMAIN wrr /\ g \in DOMAIN picks /\ RoundInv(Weights(g), wrr[g], picks[g])

TablesInv == \A t \in DOMAIN tables : tables[t] \in Seq(Instruction)

PipelineInv == groups \in GroupTables /\ MemoryInv /\ SelectInv /\ TablesInv

---------------------------------------------------------------------------
\* What the steps do to the memory.

\* The part of the invariant that is about packets and calls, after a step
Moved ==
    /\ DOMAIN packets' \subseteq Packet /\ IsFiniteSet(DOMAIN packets')
    /\ \A p \in DOMAIN packets' : packets'[p] \in PacketType
    /\ calls' \in Seq(CallType)
    /\ Sound(calls', DOMAIN packets', saved')

\* It is the invariant again, as the groups are fixed.
LEMMA MovedIsInvariant ==
    ASSUME groups' = groups, Moved
    PROVE  MemoryInv'
<1>1. PacketType' = PacketType /\ CallType' = CallType
  BY DEF PacketType, CallType
<1> QED
  BY <1>1 DEF Moved, MemoryInv

\* There is always an address not in use.
LEMMA Fresh ==
    ASSUME ~IsFiniteSet(Packet), MemoryInv
    PROVE  NewAddress \in Packet /\ NewAddress \notin DOMAIN packets
<1> DEFINE F == Packet \ DOMAIN packets
<1>1. F # {}
  <2> SUFFICES ASSUME F = {} PROVE FALSE
    OBVIOUS
  <2>1. Packet \subseteq DOMAIN packets
    OBVIOUS
  <2> QED
    BY <2>1, FS_Subset DEF MemoryInv
<1>2. F \in SUBSET Nat
  BY Zenon, PipelineAssumption
<1>3. Min(F) \in F
  BY <1>1, <1>2, MinIs, Zenon
<1> QED
  BY <1>3 DEF NewAddress

\* The innermost call works on a packet in memory.
LEMMA TopIs ==
    ASSUME MemoryInv, calls # <<>>
    PROVE  Top \in CallType /\ Top.pkt \in DOMAIN packets /\ TopPacket \in PacketType
<1>1. Top \in CallType
  BY PopIs DEF MemoryInv, Top
<1>2. Top.pkt \in DOMAIN packets
  BY TopInMemory DEF MemoryInv, Top
<1> QED
  BY <1>1, <1>2 DEF MemoryInv, TopPacket

\* The innermost call destroys its packet and returns.
LEMMA Destroyed ==
    ASSUME MemoryInv, calls # <<>>, Top.fn # "list", ReturnDestroying
    PROVE  Moved
<1> DEFINE p == Top.pkt
           D == DOMAIN packets
           E == IF Top.fn = "list" \/ p \in saved THEN D ELSE D \ {p}
<1>1. DOMAIN packets' = E /\ \A q \in E : packets'[q] = packets[q]
  BY DEF ReturnDestroying, packet_destroy, Restrict
<1>2. E \subseteq D /\ D \subseteq Packet /\ IsFiniteSet(D)
  BY DEF MemoryInv
<1>3. IsFiniteSet(E)
  BY <1>2, FS_Subset
<1>4. Tail(calls) \in Seq(CallType)
  BY PopIs DEF MemoryInv
<1>5. Sound(Tail(calls), E, saved)
  BY ReturnSound, Zenon DEF MemoryInv, Top
<1> QED
  BY <1>1, <1>2, <1>3, <1>4, <1>5 DEF Moved, MemoryInv, ReturnDestroying

\* A list returns the packet it borrowed.
LEMMA Returned ==
    ASSUME MemoryInv, calls # <<>>, Top.fn = "list", calls' = Tail(calls),
           UNCHANGED <<packets, saved>>
    PROVE  Moved
<1>1. Tail(calls) \in Seq(CallType)
  BY PopIs DEF MemoryInv
<1>2. Sound(Tail(calls), IF Top.fn = "list" \/ Top.pkt \in saved
                         THEN DOMAIN packets ELSE DOMAIN packets \ {Top.pkt}, saved)
  BY ReturnSound, Zenon DEF MemoryInv, Top
<1> QED
  BY <1>1, <1>2 DEF Moved, MemoryInv

\* Call c goes on in place of the innermost call.
GoesOn(c) ==
    c \in CallType /\ c.pkt = Top.pkt /\ (c.fn = "list" <=> Top.fn = "list")

\* The packets after a step that changes some but neither allocates nor
\* frees one
SamePackets(pkts) ==
    DOMAIN pkts = DOMAIN packets /\ \A p \in DOMAIN pkts : pkts[p] \in PacketType

\* The innermost call goes on, and may have its packet saved.
LEMMA Continued ==
    ASSUME MemoryInv, calls # <<>>, NEW c, GoesOn(c), Become(c), SamePackets(packets'),
           saved' = saved \/ saved' = saved \union {Top.pkt}
    PROVE  Moved
<1>1. /\ <<c>> \o Tail(calls) \in Seq(CallType)
      /\ Sound(<<c>> \o Tail(calls), DOMAIN packets, saved)
  BY BecomeSound, Zenon DEF MemoryInv, Top, GoesOn
<1>2. Sound(<<c>> \o Tail(calls), DOMAIN packets, saved')
  BY <1>1, TopIs, SaveSound
<1> QED
  BY <1>1, <1>2 DEF Moved, MemoryInv, SamePackets, Become

\* The innermost call goes on as top, after call c with a packet of its own.
LEMMA Called ==
    ASSUME ~IsFiniteSet(Packet), MemoryInv, calls # <<>>, NEW top, GoesOn(top),
           NEW c \in CallType, c.fn # "list", c.pkt = NewAddress, CallThen(c, top),
           NEW pkts, SamePackets(pkts), NEW pkt \in PacketType,
           packets' = With(pkts, NewAddress, pkt), saved' = saved
    PROVE  Moved
<1> DEFINE cs == <<top>> \o Tail(calls)
           D == DOMAIN packets
<1>1. cs \in Seq(CallType) /\ Sound(cs, D, saved)
  BY BecomeSound, Zenon DEF MemoryInv, Top, GoesOn
<1>2. c.pkt \in Packet /\ c.pkt \notin D
  BY Fresh
<1>3. <<c>> \o cs \in Seq(CallType) /\ Sound(<<c>> \o cs, D \union {c.pkt}, saved)
  <2> HIDE DEF cs, D
  <2> QED
    BY <1>1, <1>2, CallSound
<1>4. calls' = <<c>> \o cs
  <2>1. Tail(calls) \in Seq(CallType) /\ top \in CallType
    BY PopIs DEF MemoryInv, GoesOn
  <2> QED
    BY <2>1, PushTwo DEF CallThen
<1>5. /\ DOMAIN packets' = D \union {c.pkt}
      /\ \A p \in DOMAIN packets' : packets'[p] \in PacketType
  BY DEF With, SamePackets
<1>6. IsFiniteSet(D \union {c.pkt}) /\ D \union {c.pkt} \subseteq Packet
  BY <1>2, FS_AddElement DEF MemoryInv
<1> QED
  BY <1>3, <1>4, <1>5, <1>6 DEF Moved

\* The innermost call goes on as top, after a list that borrows its packet.
LEMMA Borrowed ==
    ASSUME MemoryInv, calls # <<>>, Top.fn # "list", NEW top, GoesOn(top),
           NEW c \in CallType, c.fn = "list", c.pkt = Top.pkt, CallThen(c, top),
           UNCHANGED <<packets, saved>>
    PROVE  Moved
<1> DEFINE cs == <<top>> \o Tail(calls)
           D == DOMAIN packets
<1>1. cs \in Seq(CallType) /\ Sound(cs, D, saved)
  BY BecomeSound, Zenon DEF MemoryInv, Top, GoesOn
<1>2. Tail(calls) \in Seq(CallType) /\ top \in CallType
  BY PopIs DEF MemoryInv, GoesOn
<1>3. cs # <<>> /\ Head(cs) = top
  BY <1>2
<1>4. top.fn # "list" /\ c.pkt = top.pkt
  BY DEF GoesOn
<1>5. <<c>> \o cs \in Seq(CallType) /\ Sound(<<c>> \o cs, D, saved)
  <2> HIDE DEF cs, D
  <2> QED
    BY SMTT(20), <1>1, <1>3, <1>4, BorrowSound
<1>6. calls' = <<c>> \o cs
  BY <1>2, PushTwo DEF CallThen
<1> QED
  BY <1>5, <1>6 DEF Moved, MemoryInv

\* The calls that take over the packet of the innermost call
LEMMA CallsGoOn ==
    ASSUME MemoryInv, calls # <<>>
    PROVE  /\ Top.pkt \in Packet
           /\ Top.fn # "list" =>
                /\ \A fn \in {"process", "set", "destroy"} : GoesOn(Call(fn, Top.pkt))
                /\ \A t \in Table : GoesOn(CallLookup(Top.pkt, t))
                /\ \A insts \in Seq(Instruction) : GoesOn(CallEntry(Top.pkt, insts))
                /\ \A g \in DOMAIN groups : GoesOn(CallGroup(Top.pkt, g))
                /\ \A g \in DOMAIN groups : GoesOn(CallAll(Top.pkt, g))
<1>1. Top.pkt \in Packet
  BY TopIs DEF MemoryInv
<1>2. ASSUME Top.fn # "list", NEW fn \in {"process", "set", "destroy"}
      PROVE  GoesOn(Call(fn, Top.pkt))
  BY <1>1, <1>2 DEF GoesOn, Call, CallType
<1>3. ASSUME Top.fn # "list", NEW t \in Table PROVE GoesOn(CallLookup(Top.pkt, t))
  BY <1>1, <1>3 DEF GoesOn, CallLookup, CallType
<1>4. ASSUME Top.fn # "list", NEW insts \in Seq(Instruction)
      PROVE  GoesOn(CallEntry(Top.pkt, insts))
  BY <1>1, <1>4 DEF GoesOn, CallEntry, CallType
<1>5. ASSUME Top.fn # "list", NEW g \in DOMAIN groups
      PROVE  GoesOn(CallGroup(Top.pkt, g)) /\ GoesOn(CallAll(Top.pkt, g))
  <2>1. GoesOn(CallGroup(Top.pkt, g))
    BY <1>1, <1>5 DEF GoesOn, CallGroup, CallType
  <2>2. GoesOn(CallAll(Top.pkt, g))
    BY <1>1, <1>5 DEF GoesOn, CallAll, CallType
  <2> QED
    BY <2>1, <2>2
<1> QED
  BY SMTT(20), <1>1, <1>2, <1>3, <1>4, <1>5

\* A new packet is a packet, with an empty set.
LEMMA CreatedIs ==
    /\ <<>> \in CanonicalSet
    /\ \A b \in BOOLEAN : packet_create(b) \in PacketType
<1>1. <<>> \in CanonicalSet
  BY DEF CanonicalSet, Canonical
<1> QED
  BY <1>1 DEF PacketType, packet_create

\* The packet of the innermost call is given another value.
LEMMA TopReplaced ==
    ASSUME MemoryInv, NEW pkt \in PacketType
    PROVE  SamePackets([packets EXCEPT ![Top.pkt] = pkt])
BY DEF MemoryInv, SamePackets

\* The output of a packet, by the innermost call, which goes on as top
LEMMA OutputMoves ==
    ASSUME ~IsFiniteSet(Packet), MemoryInv, calls # <<>>, NEW top, GoesOn(top),
           NEW pkts, SamePackets(pkts), NEW port,
           dp_actions_output_port(pkts, Top.pkt, port, top)
    PROVE  Moved
<1>1. CASE /\ packets' = With(pkts, NewAddress,
                             [packet_clone(pkts[Top.pkt]) EXCEPT !.packet_out = FALSE])
           /\ CallThen(Call("process", NewAddress), top)
           /\ UNCHANGED saved
  <2>1. pkts[Top.pkt] \in PacketType
    BY TopIs DEF SamePackets
  <2>2. packet_clone(pkts[Top.pkt]) \in PacketType
    BY <2>1, CreatedIs DEF packet_clone, PacketType
  <2>3. [packet_clone(pkts[Top.pkt]) EXCEPT !.packet_out = FALSE] \in PacketType
    BY Zenon, <2>2 DEF PacketType
  <2>4. /\ Call("process", NewAddress) \in CallType
        /\ Call("process", NewAddress).fn # "list"
        /\ Call("process", NewAddress).pkt = NewAddress
    BY Fresh DEF Call, CallType
  <2> QED
    BY Zenon, <1>1, <2>3, <2>4, Called
<1>2. CASE packets' = pkts /\ Become(top) /\ UNCHANGED saved
  BY <1>2, Continued
<1>3. CASE packets' = pkts /\ Become(top) /\ dp_buffers_save(Top.pkt)
  BY <1>3, Continued DEF dp_buffers_save
<1> QED
  BY <1>1, <1>2, <1>3 DEF dp_actions_output_port

\* A step of an action list
LEMMA ListMoves ==
    ASSUME ~IsFiniteSet(Packet), groups \in GroupTables, MemoryInv, dp_execute_action_list
    PROVE  Moved
<1> DEFINE pkt == dp_execute_action(TopPacket, Head(Top.actions))
           rest == [Top EXCEPT !.actions = Tail(@)]
<1>1. calls # <<>> /\ Top.fn = "list"
  BY DEF dp_execute_action_list, Running
<1>2. Top \in CallType /\ TopPacket \in PacketType
  BY <1>1, TopIs
<1>3. Top \in [fn : {"list"}, pkt : Packet, actions : Seq(Action)]
  BY <1>1, <1>2 DEF CallType
<1>4. CASE Top.actions = <<>>
  <2>1. calls' = Tail(calls) /\ UNCHANGED <<packets, saved>>
    BY <1>4 DEF dp_execute_action_list
  <2> QED
    BY <1>1, <2>1, Returned
<1>5. CASE Top.actions # <<>>
  <2>1. Head(Top.actions) \in Action /\ Tail(Top.actions) \in Seq(Action)
    BY <1>3, <1>5
  <2>2. pkt \in PacketType
    BY <1>2, <2>1, ActionKeeps
  <2>3. rest \in [fn : {"list"}, pkt : Packet, actions : Seq(Action)] /\ rest.pkt = Top.pkt
    BY Zenon, <1>3, <2>1
  <2>4. GoesOn(rest)
    BY <1>1, <2>3 DEF GoesOn, CallType
  <2> HIDE DEF pkt, rest
  <2>5. \/ pkt.out_group # ANY /\ GroupOnClone(pkt, rest)
        \/ /\ pkt.out_group = ANY /\ pkt.out_port # ANY
           /\ dp_actions_output_port(
                [packets EXCEPT ![Top.pkt] = [pkt EXCEPT !.out_port = ANY]],
                Top.pkt, pkt.out_port, rest)
        \/ /\ packets' = [packets EXCEPT ![Top.pkt] = pkt]
           /\ Become(rest) /\ UNCHANGED saved
    BY <1>5 DEF dp_execute_action_list, pkt, rest
  <2>6. CASE pkt.out_group # ANY /\ GroupOnClone(pkt, rest)
    <3> DEFINE c == CallGroup(NewAddress, pkt.out_group)
               old == [packets EXCEPT ![Top.pkt] = [pkt EXCEPT !.out_group = ANY]]
    <3>1. pkt.out_group \in DOMAIN groups /\ [pkt EXCEPT !.out_group = ANY] \in PacketType
      BY <2>2, <2>6 DEF PacketType
    <3>2. c \in CallType /\ c.fn # "list" /\ c.pkt = NewAddress
      BY <3>1, Fresh DEF CallGroup, CallType
    <3>3. SamePackets(old)
      BY <3>1, TopReplaced
    <3>4. packet_clone(pkt) \in PacketType
      BY <2>2, CreatedIs DEF packet_clone, PacketType
    <3>5. packets' = With(old, NewAddress, packet_clone(pkt)) /\ CallThen(c, rest) /\ saved' = saved
      BY <2>6 DEF GroupOnClone
    <3> HIDE DEF c, old
    <3> QED
      BY <1>1, <2>4, <3>2, <3>3, <3>4, <3>5, Called, Zenon
  <2>7. CASE dp_actions_output_port(
                [packets EXCEPT ![Top.pkt] = [pkt EXCEPT !.out_port = ANY]],
                Top.pkt, pkt.out_port, rest)
    <3>1. [pkt EXCEPT !.out_port = ANY] \in PacketType
      BY <2>2 DEF PacketType
    <3>2. SamePackets([packets EXCEPT ![Top.pkt] = [pkt EXCEPT !.out_port = ANY]])
      BY <3>1, TopReplaced
    <3> QED
      BY <1>1, <2>4, <2>7, <3>2, OutputMoves, Zenon
  <2>8. CASE packets' = [packets EXCEPT ![Top.pkt] = pkt] /\ Become(rest) /\ UNCHANGED saved
    <3>1. SamePackets(packets')
      BY Zenon, <2>2, <2>8, TopReplaced
    <3> QED
      BY Zenon, <1>1, <2>4, <2>8, <3>1, Continued
  <2> QED
    BY SMTT(20), <2>5, <2>6, <2>7, <2>8
<1> QED
  BY <1>4, <1>5

\* The execution of an action set
LEMMA SetMoves ==
    ASSUME ~IsFiniteSet(Packet), groups \in GroupTables, MemoryInv, action_set_execute
    PROVE  Moved
<1> DEFINE pkt == [ExecuteSet(TopPacket) EXCEPT !.action_set = <<>>]
<1>1. calls # <<>> /\ Top.fn = "set" /\ Top.fn # "list"
  BY DEF action_set_execute, Running
<1>2. ExecuteSet(TopPacket) \in PacketType
  BY <1>1, TopIs, ExecuteKeeps
<1>3. pkt \in PacketType
  BY <1>2, CreatedIs DEF PacketType
<1> HIDE DEF pkt
<1>4. \/ /\ pkt.out_group # ANY
         /\ packets' = [packets EXCEPT ![Top.pkt] = HandOver(pkt)]
         /\ Become(CallGroup(Top.pkt, pkt.out_group))
         /\ UNCHANGED saved
      \/ dp_actions_output_port(
              [packets EXCEPT ![Top.pkt] = [pkt EXCEPT !.out_port = ANY]],
              Top.pkt, pkt.out_port, Call("destroy", Top.pkt))
      \/ ReturnDestroying
  BY DEF action_set_execute, pkt
<1>5. CASE /\ pkt.out_group # ANY
           /\ packets' = [packets EXCEPT ![Top.pkt] = HandOver(pkt)]
           /\ Become(CallGroup(Top.pkt, pkt.out_group))
           /\ UNCHANGED saved
  <2>1. pkt.out_group \in DOMAIN groups /\ HandOver(pkt) \in PacketType
    BY <1>3, <1>5 DEF PacketType, HandOver
  <2>2. SamePackets(packets') /\ GoesOn(CallGroup(Top.pkt, pkt.out_group))
    BY Zenon, <1>1, <1>5, <2>1, TopReplaced, CallsGoOn
  <2> QED
    BY Zenon, <1>1, <1>5, <2>2, Continued
<1>6. CASE dp_actions_output_port(
              [packets EXCEPT ![Top.pkt] = [pkt EXCEPT !.out_port = ANY]],
              Top.pkt, pkt.out_port, Call("destroy", Top.pkt))
  <2>1. [pkt EXCEPT !.out_port = ANY] \in PacketType
    BY <1>3 DEF PacketType
  <2>2. SamePackets([packets EXCEPT ![Top.pkt] = [pkt EXCEPT !.out_port = ANY]])
    BY <2>1, TopReplaced
  <2>3. GoesOn(Call("destroy", Top.pkt))
    BY <1>1, CallsGoOn
  <2> QED
    BY <1>1, <1>6, <2>2, <2>3, OutputMoves, Zenon
<1>7. CASE ReturnDestroying
  BY <1>1, <1>7, Destroyed
<1> QED
  BY SMTT(20), <1>4, <1>5, <1>6, <1>7

\* A packet's set is written to.
LEMMA SetReplaced ==
    ASSUME MemoryInv, calls # <<>>, NEW set \in CanonicalSet
    PROVE  SamePackets([packets EXCEPT ![Top.pkt].action_set = set])
<1>1. TopPacket \in PacketType /\ Top.pkt \in DOMAIN packets
  BY TopIs
<1>2. [packets[Top.pkt] EXCEPT !.action_set = set] \in PacketType
  BY <1>1 DEF PacketType, TopPacket
<1> QED
  BY <1>2, TopReplaced

\* The buckets of a group, which the decoder has checked
LEMMA BucketsAre ==
    ASSUME groups \in GroupTables, NEW g \in DOMAIN groups
    PROVE  LET bs == groups[g].buckets
           IN  /\ Len(bs) \in Nat /\ DOMAIN bs = 1..Len(bs)
               /\ \A i \in 1..Len(bs) : bs[i].weight \in Nat /\ bs[i].actions \in Seq(Action)
<1> DEFINE bs == groups[g].buckets
           B == [weight : Nat, actions : Seq(Action)]
<1>1. bs \in Seq(B)
  BY Zenon, MessageAssumption
<1>2. \A b \in B : b.weight \in Nat /\ b.actions \in Seq(Action)
  OBVIOUS
<1> HIDE DEF bs, B
<1>3. Len(bs) \in Nat /\ DOMAIN bs = 1..Len(bs) /\ \A i \in 1..Len(bs) : bs[i] \in B
  BY <1>1
<1>4. \A i \in 1..Len(bs) : bs[i].weight \in Nat /\ bs[i].actions \in Seq(Action)
  BY <1>2, <1>3
<1> QED
  BY <1>3, <1>4 DEF bs

\* The execution of a bucket of group g
LEMMA BucketMoves ==
    ASSUME MemoryInv, groups \in GroupTables, calls # <<>>, Top.fn = "group",
           NEW g \in DOMAIN groups, NEW b \in -1..(Len(groups[g].buckets) - 1),
           ExecuteBucket(g, b)
    PROVE  Moved
<1>1. Top.fn # "list"
  OBVIOUS
<1>2. CASE b = -1 /\ ReturnDestroying
  BY <1>1, <1>2, Destroyed
<1>3. CASE /\ b # -1
           /\ packets' = [packets EXCEPT ![Top.pkt].action_set =
                            action_set_write_actions(@, groups[g].buckets[b + 1].actions)]
           /\ Become(Call("set", Top.pkt))
           /\ UNCHANGED saved
  <2> DEFINE actions == groups[g].buckets[b + 1].actions
             set == action_set_write_actions(TopPacket.action_set, actions)
  <2>2. b + 1 \in 1..Len(groups[g].buckets)
    BY <1>3, BucketsAre
  <2>3. actions \in Seq(Action)
    BY <2>2, BucketsAre
  <2>4. TopPacket.action_set \in CanonicalSet
    BY TopIs DEF PacketType
  <2> HIDE DEF actions
  <2>5. set \in CanonicalSet
    BY <2>3, <2>4, WriteActionsKeep
  <2>6. packets' = [packets EXCEPT ![Top.pkt].action_set = set]
    BY <1>3 DEF TopPacket, actions
  <2> HIDE DEF set
  <2>7. SamePackets(packets')
    BY Zenon, <2>5, <2>6, SetReplaced
  <2>8. GoesOn(Call("set", Top.pkt))
    BY <1>1, CallsGoOn
  <2> QED
    BY Zenon, <1>3, <2>7, <2>8, Continued
<1> QED
  BY <1>2, <1>3 DEF ExecuteBucket

\* The weights of a group are those of its buckets.
LEMMA WeightsAre ==
    ASSUME groups \in GroupTables, NEW g \in SelectGroups
    PROVE  /\ Weights(g) \in Seq(Nat) /\ Len(Weights(g)) = Len(groups[g].buckets)
           /\ Weights(g) = <<>> <=> groups[g].buckets = <<>>
<1> DEFINE bs == groups[g].buckets
           weights == Weights(g)
<1>1. g \in DOMAIN groups
  BY DEF SelectGroups
<1>2. Len(bs) \in Nat /\ DOMAIN bs = 1..Len(bs) /\ \A i \in 1..Len(bs) : bs[i].weight \in Nat
  BY <1>1, BucketsAre
<1>3. weights = [i \in 1..Len(bs) |-> bs[i].weight]
  BY <1>2 DEF Weights
<1>4. bs = <<>> <=> Len(bs) = 0
  BY <1>1, BucketsAre
<1> HIDE DEF bs, weights
<1>5. weights \in Seq(Nat) /\ Len(weights) = Len(bs)
  BY <1>2, <1>3
<1>6. weights = <<>> <=> Len(weights) = 0
  BY <1>5
<1> QED
  BY <1>4, <1>5, <1>6 DEF bs, weights

\* The round robin of a group selects a bucket of its own, if it has any, and
\* keeps its data and its picks in step.
LEMMA SelectedIs ==
    ASSUME groups \in GroupTables, SelectInv, NEW g \in SelectGroups,
           NEW s, s = select_from_select_group(Weights(g), wrr[g])
    PROVE  /\ s.bucket \in -1..(Len(groups[g].buckets) - 1)
           /\ groups[g].buckets # <<>> => s.bucket # -1
           /\ RoundInv(Weights(g), s.data, Picked(g, s.bucket))
<1> DEFINE weights == Weights(g)
           data == wrr[g]
           n == Len(weights)
<1>1. /\ weights \in Seq(Nat) /\ n = Len(groups[g].buckets)
      /\ weights = <<>> <=> groups[g].buckets = <<>>
  BY WeightsAre
<1>2. RoundInv(weights, data, picks[g])
  BY DEF SelectInv
<1>3. CASE weights = <<>>
  <2>1. s.bucket = -1 /\ s.data = data
    BY Zenon, <1>3, NoneSelected
  <2>2. Picked(g, s.bucket) = picks[g]
    BY Zenon, <2>1 DEF Picked
  <2>3. n = 0
    BY <1>3
  <2> QED
    BY <1>1, <1>2, <1>3, <2>1, <2>2, <2>3
<1>4. CASE weights # <<>>
  <2> DEFINE old == IF \A c \in DOMAIN picks[g] : picks[g][c] = Share(weights, data, c)
                    THEN NoPicks(g) ELSE picks[g]
  <2>1. Anew(n, Shares(weights, data), picks[g], old)
    <3>1. DOMAIN picks[g] = 0..(n - 1)
      BY Zenon, <1>2, <1>4 DEF RoundInv, Round
    <3>2. NoPicks(g) = [x \in 0..(n - 1) |-> 0]
      BY Zenon, <1>1 DEF NoPicks
    <3> QED
      BY Zenon, <3>1, <3>2 DEF Anew, Shares
  <2> HIDE DEF old
  <2>2. /\ s.bucket \in 0..(n - 1)
        /\ RoundInv(weights, s.data, [old EXCEPT ![s.bucket] = @ + 1])
    BY Zenon, <1>1, <1>2, <1>4, <2>1, RoundGoesOn
  <2>3. n \in Nat
    BY <1>1
  <2>4. s.bucket # -1 /\ s.bucket \in -1..(n - 1)
    <3> HIDE DEF n
    <3> QED
      BY <2>2, <2>3
  <2>5. Picked(g, s.bucket) = [old EXCEPT ![s.bucket] = @ + 1]
    BY Zenon, <2>4 DEF Picked, old
  <2> QED
    BY Zenon, <1>1, <2>2, <2>4, <2>5
<1> QED
  BY <1>3, <1>4

\* Other steps leave the round robins alone.
LEMMA SelectKept ==
    ASSUME SelectInv, groups' = groups, UNCHANGED <<wrr, picks>>
    PROVE  SelectInv'
BY Zenon DEF SelectInv, SelectGroups, Weights

\* The execution of a group
LEMMA GroupMoves ==
    ASSUME groups \in GroupTables, MemoryInv, SelectInv, group_entry_execute
    PROVE  Moved /\ SelectInv'
<1> DEFINE g == Top.group
           n == Len(groups[g].buckets)
<1>1. calls # <<>> /\ Top.fn = "group" /\ Top.fn # "list"
  BY DEF group_entry_execute, Running
<1>2. Top \in CallType
  BY <1>1, TopIs
<1>3. g \in DOMAIN groups
  BY <1>1, <1>2 DEF CallType
<1>4. n \in Nat
  BY <1>3, BucketsAre
<1>5. groups' = groups /\ SelectGroups' = SelectGroups
  BY DEF group_entry_execute, SelectGroups
<1> HIDE DEF n
<1>6. CASE groups[g].type = "SELECT" /\ execute_select(g)
  <2> DEFINE s == select_from_select_group(Weights(g), wrr[g])
  <2>1. g \in SelectGroups
    BY <1>3, <1>6 DEF SelectGroups
  <2>2. /\ s.bucket \in -1..(Len(groups[g].buckets) - 1)
        /\ RoundInv(Weights(g), s.data, Picked(g, s.bucket))
    BY <2>1, SelectedIs
  <2>3. /\ wrr' = [wrr EXCEPT ![g] = s.data]
        /\ picks' = [picks EXCEPT ![g] = Picked(g, s.bucket)]
        /\ ExecuteBucket(g, s.bucket)
    BY <1>6 DEF execute_select
  <2> HIDE DEF s
  <2>4. Moved
    BY <1>1, <1>3, <2>2, <2>3, BucketMoves
  <2>5. SelectInv'
    <3>1. ASSUME NEW i \in SelectGroups
          PROVE  /\ i \in DOMAIN wrr' /\ i \in DOMAIN picks' /\ Weights(i)' = Weights(i)
                 /\ RoundInv(Weights(i), wrr'[i], picks'[i])
      <4>1. i \in DOMAIN wrr /\ i \in DOMAIN picks /\ RoundInv(Weights(i), wrr[i], picks[i])
        BY DEF SelectInv
      <4>2. Weights(i)' = Weights(i)
        BY Zenon, <1>5 DEF Weights
      <4> QED
        BY Zenon, <2>2, <2>3, <4>1, <4>2
    <3> QED
      BY Zenon, <1>5, <3>1 DEF SelectInv
  <2> QED
    BY <2>4, <2>5
<1>7. CASE UNCHANGED <<wrr, picks>> /\ Become(CallAll(Top.pkt, g)) /\ UNCHANGED <<packets, saved>>
  <2>1. GoesOn(CallAll(Top.pkt, g)) /\ SamePackets(packets')
    BY <1>1, <1>3, <1>7, CallsGoOn DEF SamePackets, MemoryInv
  <2>2. Moved
    BY SMTT(20), <1>1, <1>7, <2>1, Continued
  <2> QED
    BY <1>5, <1>7, <2>2, SelectKept
<1>8. CASE UNCHANGED <<wrr, picks>> /\ ExecuteBucket(g, IF n > 0 THEN 0 ELSE -1)
  <2>1. (IF n > 0 THEN 0 ELSE -1) \in -1..(n - 1)
    BY <1>4
  <2>2. Moved
    BY <1>1, <1>3, <1>8, <2>1, BucketMoves DEF n
  <2> QED
    BY <1>5, <1>8, <2>2, SelectKept
<1>9. CASE UNCHANGED <<wrr, picks>> /\ \E live \in SUBSET (0 .. n - 1) :
              ExecuteBucket(g, select_from_ff_group(live))
  <2>1. PICK live \in SUBSET (0 .. n - 1) : ExecuteBucket(g, select_from_ff_group(live))
    BY <1>9
  <2>2. select_from_ff_group(live) \in -1..(n - 1)
    <3>1. live \in SUBSET Nat
      OBVIOUS
    <3>2. live # {} => Min(live) \in 0 .. n - 1
      BY Zenon, <3>1, MinIs
    <3>3. \A x \in 0 .. n - 1 : x \in -1..(n - 1)
      BY <1>4
    <3>4. -1 \in -1..(n - 1)
      BY <1>4
    <3> QED
      BY <3>2, <3>3, <3>4 DEF select_from_ff_group
  <2>3. Moved
    BY SMTT(20), <1>1, <1>3, <2>1, <2>2, BucketMoves DEF n
  <2> QED
    BY <1>5, <1>9, <2>3, SelectKept
<1> QED
  BY SMTT(20), <1>6, <1>7, <1>8, <1>9 DEF group_entry_execute, n

\* A bucket of an ALL group, or its end
LEMMA AllMoves ==
    ASSUME ~IsFiniteSet(Packet), groups \in GroupTables, MemoryInv, execute_all
    PROVE  Moved
<1> DEFINE buckets == groups[Top.group].buckets
           b == Top.bucket
           clone == packet_clone(TopPacket)
           top == [Top EXCEPT !.bucket = @ + 1]
           c == Call("set", NewAddress)
<1>1. calls # <<>> /\ Top.fn = "all" /\ Top.fn # "list"
  BY DEF execute_all, Running
<1>2. Top \in CallType /\ TopPacket \in PacketType
  BY <1>1, TopIs
<1>3. Top \in [fn : {"all"}, pkt : Packet, group : DOMAIN groups, bucket : Nat]
  BY <1>1, <1>2 DEF CallType
<1>4. CASE ReturnDestroying
  BY <1>1, <1>4, Destroyed
<1>5. CASE /\ b < Len(buckets)
           /\ packets' = With(packets, NewAddress,
                              [clone EXCEPT !.action_set =
                                 action_set_write_actions(@, buckets[b + 1].actions)])
           /\ CallThen(c, top)
           /\ UNCHANGED saved
  <2> DEFINE actions == buckets[b + 1].actions
             set == action_set_write_actions(<<>>, actions)
             pkt == [clone EXCEPT !.action_set = set]
  <2>1. Len(buckets) \in Nat /\ \A i \in 1..Len(buckets) : buckets[i].actions \in Seq(Action)
    BY <1>3, BucketsAre
  <2>2. b + 1 \in 1..Len(buckets)
    BY <1>3, <1>5, <2>1
  <2>3. actions \in Seq(Action)
    BY <2>1, <2>2
  <2>4. set \in CanonicalSet
    <3> HIDE DEF actions
    <3> QED
      BY SMTT(20), <2>3, CreatedIs, WriteActionsKeep
  <2>5. clone \in PacketType /\ clone.action_set = <<>>
    BY <1>2, CreatedIs DEF packet_clone, packet_create, PacketType
  <2>6. packets' = With(packets, NewAddress, pkt)
    BY <1>5, <2>5
  <2>7. pkt \in PacketType
    <3> HIDE DEF set, clone
    <3> QED
      BY <2>4, <2>5 DEF PacketType
  <2>8. GoesOn(top)
    <3>1. top \in [fn : {"all"}, pkt : Packet, group : DOMAIN groups, bucket : Nat]
      BY <1>3
    <3>2. top.pkt = Top.pkt /\ top.fn = "all"
      BY <1>3
    <3> QED
      BY <1>1, <3>1, <3>2 DEF GoesOn, CallType
  <2>9. c \in CallType /\ c.fn # "list" /\ c.pkt = NewAddress
    BY Fresh DEF Call, CallType
  <2>10. SamePackets(packets) /\ CallThen(c, top) /\ saved' = saved
    BY <1>5 DEF SamePackets, MemoryInv
  <2> HIDE DEF pkt, top, c
  <2> QED
    BY <1>1, <2>6, <2>7, <2>8, <2>9, <2>10, Called, Zenon
<1> QED
  BY <1>4, <1>5 DEF execute_all

\* The steps of the tables
LEMMA TableMoves ==
    ASSUME groups \in GroupTables, MemoryInv, TablesInv,
           pipeline_process_packet \/ flow_table_lookup \/ Destroy
    PROVE  Moved
<1>1. calls # <<>> /\ Top.fn # "list"
  BY DEF pipeline_process_packet, flow_table_lookup, Destroy, Running
<1>2. SamePackets(packets)
  BY DEF SamePackets, MemoryInv
<1>3. CASE pipeline_process_packet
  <2>1. 0 \in Table
    BY PipelineAssumption DEF Table
  <2>2. GoesOn(CallLookup(Top.pkt, 0)) /\ GoesOn(Call("destroy", Top.pkt))
    BY <1>1, <2>1, CallsGoOn
  <2>3. /\ packets' = packets
        /\ \/ Become(CallLookup(Top.pkt, 0)) /\ saved' = saved
           \/ /\ Become(Call("destroy", Top.pkt))
              /\ saved' = saved \/ saved' = saved \union {Top.pkt}
    BY <1>3 DEF pipeline_process_packet, dp_buffers_save
  <2> QED
    BY <1>1, <1>2, <2>2, <2>3, Continued
<1>4. CASE flow_table_lookup
  <2>1. CASE ReturnDestroying
    BY <1>1, <2>1, Destroyed
  <2>2. CASE /\ Top.table \in DOMAIN tables
             /\ Become(CallEntry(Top.pkt, tables[Top.table]))
             /\ UNCHANGED <<packets, saved>>
    <3>1. tables[Top.table] \in Seq(Instruction)
      BY <2>2 DEF TablesInv
    <3>2. GoesOn(CallEntry(Top.pkt, tables[Top.table]))
      BY <1>1, <3>1, CallsGoOn
    <3> QED
      BY <1>1, <1>2, <2>2, <3>2, Continued
  <2> QED
    BY <1>4, <2>1, <2>2 DEF flow_table_lookup
<1>5. CASE Destroy
  BY <1>1, <1>5, Destroyed DEF Destroy
<1> QED
  BY SMTT(20), <1>3, <1>4, <1>5

\* An instruction of an entry, or its end
LEMMA EntryMoves ==
    ASSUME MemoryInv, execute_entry
    PROVE  Moved
<1> DEFINE p == Top.pkt
           inst == Head(Top.insts)
           rest == [Top EXCEPT !.insts = Tail(@)]
           Entry == [fn : {"entry"}, pkt : Packet, insts : Seq(Instruction),
                     next_table : Table \union {NoTable}]
<1>1. calls # <<>> /\ Top.fn = "entry" /\ Top.fn # "list"
  BY DEF execute_entry, Running
<1>2. Top \in CallType /\ TopPacket \in PacketType
  BY <1>1, TopIs
<1>3. Top \in Entry
  BY <1>1, <1>2 DEF CallType
<1>4. SamePackets(packets)
  BY DEF SamePackets, MemoryInv
<1>5. CASE Top.insts = <<>>
  <2> DEFINE c == IF Top.next_table = NoTable THEN Call("set", p)
                                              ELSE CallLookup(p, Top.next_table)
  <2>1. GoesOn(c)
    BY <1>1, <1>3, CallsGoOn
  <2>2. Become(c) /\ UNCHANGED <<packets, saved>>
    BY <1>5 DEF execute_entry
  <2> HIDE DEF c
  <2> QED
    BY SMTT(20), <1>1, <1>4, <2>1, <2>2, Continued
<1>6. CASE Top.insts # <<>>
  <2>1. inst \in Instruction /\ Tail(Top.insts) \in Seq(Instruction)
    BY <1>3, <1>6
  <2>2. rest \in Entry /\ rest.pkt = p
    BY <1>3, <2>1
  <2>3. GoesOn(rest)
    BY <1>1, <2>2 DEF GoesOn, CallType
  <2>4. /\ inst.type \in {"APPLY_ACTIONS", "WRITE_ACTIONS"} => inst.actions \in Seq(Action)
        /\ inst.type = "GOTO_TABLE" => inst.table \in Table
    BY <2>1, MessageAssumption DEF Instruction
  <2> HIDE DEF rest, inst
  <2>5. \/ ReturnDestroying
        \/ Become(rest) /\ UNCHANGED <<packets, saved>>
        \/ /\ inst.type = "APPLY_ACTIONS"
           /\ CallThen(CallList(p, inst.actions), rest)
           /\ UNCHANGED <<packets, saved>>
        \/ /\ packets' = [packets EXCEPT ![p].action_set = <<>>]
           /\ Become(rest) /\ UNCHANGED saved
        \/ /\ inst.type = "WRITE_ACTIONS"
           /\ packets' = [packets EXCEPT ![p].action_set =
                            action_set_write_actions(TopPacket.action_set, inst.actions)]
           /\ Become(rest) /\ UNCHANGED saved
        \/ /\ inst.type = "GOTO_TABLE"
           /\ Become([rest EXCEPT !.next_table = inst.table])
           /\ UNCHANGED <<packets, saved>>
    BY <1>6 DEF execute_entry, MeterDrops, inst, rest
  <2>6. CASE ReturnDestroying
    BY <1>1, <2>6, Destroyed
  <2>7. CASE Become(rest) /\ UNCHANGED <<packets, saved>>
    BY SMTT(20), <1>1, <1>4, <2>3, <2>7, Continued
  <2>8. CASE /\ inst.type = "APPLY_ACTIONS"
             /\ CallThen(CallList(p, inst.actions), rest)
             /\ UNCHANGED <<packets, saved>>
    <3> DEFINE c == CallList(p, inst.actions)
    <3>1. c \in CallType /\ c.fn = "list" /\ c.pkt = Top.pkt
      BY SMTT(20), <1>1, <2>4, <2>8, CallsGoOn DEF CallList, CallType
    <3> HIDE DEF c
    <3>2. CallThen(c, rest)
      BY <2>8 DEF c
    <3> QED
      BY <1>1, <2>3, <2>8, <3>1, <3>2, Borrowed
  <2>9. CASE /\ packets' = [packets EXCEPT ![p].action_set = <<>>]
             /\ Become(rest) /\ UNCHANGED saved
    <3>1. SamePackets(packets')
      BY Zenon, <1>1, <2>9, CreatedIs, SetReplaced
    <3> QED
      BY Zenon, <1>1, <2>3, <2>9, <3>1, Continued
  <2>10. CASE /\ inst.type = "WRITE_ACTIONS"
              /\ packets' = [packets EXCEPT ![p].action_set =
                               action_set_write_actions(TopPacket.action_set, inst.actions)]
              /\ Become(rest) /\ UNCHANGED saved
    <3> DEFINE set == action_set_write_actions(TopPacket.action_set, inst.actions)
    <3>1. TopPacket.action_set \in CanonicalSet /\ inst.actions \in Seq(Action)
      BY <1>2, <2>4, <2>10 DEF PacketType
    <3>2. set \in CanonicalSet
      BY <3>1, WriteActionsKeep
    <3> HIDE DEF set
    <3>3. SamePackets(packets')
      BY Zenon, <1>1, <2>10, <3>2, SetReplaced DEF set
    <3> QED
      BY Zenon, <1>1, <2>3, <2>10, <3>3, Continued
  <2>11. CASE /\ inst.type = "GOTO_TABLE"
              /\ Become([rest EXCEPT !.next_table = inst.table])
              /\ UNCHANGED <<packets, saved>>
    <3> DEFINE c == [rest EXCEPT !.next_table = inst.table]
    <3>1. c \in Entry /\ c.pkt = p
      BY SMTT(20), <2>2, <2>4, <2>11
    <3> HIDE DEF c
    <3>2. GoesOn(c)
      BY <1>1, <3>1 DEF GoesOn, CallType
    <3>3. Become(c)
      BY <2>11 DEF c
    <3> QED
      BY SMTT(20), <1>1, <1>4, <2>11, <3>2, <3>3, Continued
  <2> QED
    BY SMTT(20), <2>5, <2>6, <2>7, <2>8, <2>9, <2>10, <2>11
<1> QED
  BY <1>5, <1>6

---------------------------------------------------------------------------
\* What the events do to the memory.

\* A packet is allocated for call c.
LEMMA FirstMoves ==
    ASSUME ~IsFiniteSet(Packet), MemoryInv, Idle, NEW pkt \in PacketType,
           packets' = With(packets, NewAddress, pkt), saved' = saved,
           calls' \in Seq(CallType),
           Sound(calls', saved \union {NewAddress}, saved)
    PROVE  Moved
<1>1. DOMAIN packets = saved
  BY IdleSound DEF MemoryInv, Idle
<1>2. NewAddress \in Packet /\ NewAddress \notin DOMAIN packets
  BY Fresh
<1>3. /\ DOMAIN packets' = DOMAIN packets \union {NewAddress}
      /\ \A p \in DOMAIN packets' : packets'[p] \in PacketType
  BY DEF With, MemoryInv
<1>4. IsFiniteSet(DOMAIN packets \union {NewAddress})
  BY FS_AddElement DEF MemoryInv
<1> QED
  BY <1>1, <1>2, <1>3, <1>4 DEF Moved, MemoryInv

\* A packet is taken out of the buffers for a call.
LEMMA RetrieveMoves ==
    ASSUME MemoryInv, Idle, NEW p \in saved, dp_buffers_retrieve(p),
           calls' \in Seq(CallType),
           Sound(calls', (saved \ {p}) \union {p}, saved \ {p})
    PROVE  Moved
<1>1. DOMAIN packets = saved /\ (saved \ {p}) \union {p} = saved
  BY IdleSound DEF MemoryInv, Idle
<1>2. packets[p] \in PacketType
  BY <1>1 DEF MemoryInv
<1>3. [packets[p] EXCEPT !.packet_out = FALSE] \in PacketType
  BY Zenon, <1>2 DEF PacketType
<1>4. /\ DOMAIN packets' = DOMAIN packets
      /\ \A q \in DOMAIN packets' : packets'[q] \in PacketType
  BY <1>3 DEF dp_buffers_retrieve, MemoryInv
<1>5. saved' = saved \ {p}
  BY DEF dp_buffers_retrieve
<1> QED
  BY Zenon, <1>1, <1>4, <1>5 DEF Moved, MemoryInv

\* A packet arrives from a port.
LEMMA ArrivalMoves ==
    ASSUME ~IsFiniteSet(Packet), MemoryInv, process_buffer
    PROVE  Moved
<1> DEFINE c == Call("process", NewAddress)
<1>1. c \in CallType /\ c.fn # "list" /\ c.pkt = NewAddress
  BY Fresh DEF Call, CallType
<1>2. DOMAIN packets = saved
  BY IdleSound DEF MemoryInv, process_buffer, Idle
<1>3. c.pkt \notin saved
  BY <1>1, <1>2, Fresh
<1>4. calls' = <<c>>
  BY DEF process_buffer
<1> HIDE DEF c
<1>5. <<c>> \in Seq(CallType) /\ Sound(<<c>>, saved \union {c.pkt}, saved)
  BY <1>1, <1>3, FirstSound
<1>6. packet_create(FALSE) \in PacketType
  BY Zenon, CreatedIs
<1> QED
  BY Zenon, <1>1, <1>4, <1>5, <1>6, FirstMoves DEF process_buffer

\* A packet_out arrives.
LEMMA PacketOutMoves ==
    ASSUME ~IsFiniteSet(Packet), MemoryInv, NEW actions \in OutActions,
           handle_control_packet_out(actions)
    PROVE  Moved
<1>1. PICK p \in saved \union {NewAddress} :
         /\ IF p \in saved
            THEN dp_buffers_retrieve(p)
            ELSE packets' = With(packets, p, packet_create(TRUE)) /\ UNCHANGED saved
         /\ calls' = <<CallList(p, actions), Call("destroy", p)>>
  BY Zenon DEF handle_control_packet_out
<1>2. Idle /\ DOMAIN packets = saved
  BY IdleSound DEF MemoryInv, handle_control_packet_out, Idle
<1> DEFINE c == Call("destroy", p)
           l == CallList(p, actions)
<1>3. p \in Packet
  BY <1>2, Fresh DEF MemoryInv
<1>4. actions \in Seq(Action)
  BY MessageAssumption
<1>5. /\ c \in CallType /\ c.fn # "list" /\ c.pkt = p
      /\ l \in CallType /\ l.fn = "list" /\ l.pkt = c.pkt
  BY <1>3, <1>4 DEF Call, CallList, CallType
<1>6. calls' = <<l, c>>
  BY <1>1
<1> HIDE DEF l, c
<1>7. CASE p \in saved
  <2>1. c.pkt \notin saved \ {p}
    BY <1>5
  <2>2. <<l, c>> \in Seq(CallType) /\ Sound(<<l, c>>, (saved \ {p}) \union {c.pkt}, saved \ {p})
    BY <1>5, <2>1, FirstListSound
  <2> QED
    BY <1>1, <1>2, <1>5, <1>6, <1>7, <2>2, RetrieveMoves
<1>8. CASE p \notin saved
  <2>1. p = NewAddress /\ c.pkt \notin saved
    BY <1>5, <1>8
  <2>2. <<l, c>> \in Seq(CallType) /\ Sound(<<l, c>>, saved \union {c.pkt}, saved)
    BY <1>5, <2>1, FirstListSound
  <2>3. packet_create(TRUE) \in PacketType
    BY Zenon, CreatedIs
  <2> QED
    BY Zenon, <1>1, <1>2, <1>5, <1>6, <1>8, <2>1, <2>2, <2>3, FirstMoves
<1> QED
  BY <1>7, <1>8

\* A flow_mod arrives, with a packet of the buffers or without.
LEMMA FlowModMoves ==
    ASSUME MemoryInv, NEW t, NEW insts, pipeline_handle_flow_mod(t, insts)
    PROVE  Moved
<1>1. CASE UNCHANGED <<packets, saved, calls>>
  BY <1>1 DEF Moved, MemoryInv
<1>2. CASE \E p \in saved : dp_buffers_retrieve(p) /\ calls' = <<Call("process", p)>>
  <2>1. PICK p \in saved : dp_buffers_retrieve(p) /\ calls' = <<Call("process", p)>>
    BY <1>2
  <2>2. Idle /\ DOMAIN packets = saved
    BY IdleSound DEF MemoryInv, pipeline_handle_flow_mod, Idle
  <2> DEFINE c == Call("process", p)
  <2>3. c \in CallType /\ c.fn # "list" /\ c.pkt = p
    BY <2>2 DEF Call, CallType, MemoryInv
  <2>4. c.pkt \notin saved \ {p}
    BY <2>3
  <2> HIDE DEF c
  <2>5. <<c>> \in Seq(CallType) /\ Sound(<<c>>, (saved \ {p}) \union {c.pkt}, saved \ {p})
    BY <2>3, <2>4, FirstSound
  <2>6. calls' = <<c>>
    BY <2>1 DEF c
  <2> QED
    BY <2>1, <2>2, <2>3, <2>5, <2>6, RetrieveMoves
<1> QED
  BY <1>1, <1>2 DEF pipeline_handle_flow_mod

\* A buffer is used again.
LEMMA ReuseMoves ==
    ASSUME MemoryInv, BufferReused
    PROVE  Moved
<1>1. PICK p \in saved : /\ saved' = saved \ {p}
                         /\ packets' = Restrict(packets, DOMAIN packets \ {p})
  BY DEF BufferReused
<1>2. calls = <<>> /\ calls' = calls /\ DOMAIN packets = saved
  BY IdleSound DEF MemoryInv, BufferReused, Idle
<1>3. /\ DOMAIN packets' = saved \ {p}
      /\ \A q \in DOMAIN packets' : packets'[q] = packets[q]
  BY <1>1, <1>2 DEF Restrict
<1>4. IsFiniteSet(saved \ {p})
  BY <1>2, FS_RemoveElement DEF MemoryInv
<1>5. Sound(<<>>, saved \ {p}, saved \ {p})
  BY IdleSound
<1> QED
  BY Zenon, <1>1, <1>2, <1>3, <1>4, <1>5 DEF Moved, MemoryInv

---------------------------------------------------------------------------
\* The instructions of the entries.

\* Two instructions of which the first need not come after the second
\* are in the documented order.
LEMMA ComparedIs ==
    ASSUME NEW a, NEW b, a.type \in DOMAIN InstructionType, b.type \in DOMAIN InstructionType,
           ~inst_compare(a, b)
    PROVE  Documented[a.type] <= Documented[b.type]
<1> DEFINE Kinds == {"GOTO_TABLE", "WRITE_METADATA", "WRITE_ACTIONS", "APPLY_ACTIONS",
                     "CLEAR_ACTIONS", "METER", "EXPERIMENTER"}
           s == a.type
           t == b.type
<1>1. s \in Kinds /\ t \in Kinds
  BY DEF InstructionType
<1>2. /\ {s, t} = {"APPLY_ACTIONS", "CLEAR_ACTIONS"} =>
            ~(InstructionType[s] > InstructionType[t])
      /\ {s, t} # {"APPLY_ACTIONS", "CLEAR_ACTIONS"} =>
            ~(InstructionType[s] < InstructionType[t])
  BY DEF inst_compare
<1> HIDE DEF s, t
<1>3. {s, t} = {"APPLY_ACTIONS", "CLEAR_ACTIONS"} <=>
         \/ s = "APPLY_ACTIONS" /\ t = "CLEAR_ACTIONS"
         \/ s = "CLEAR_ACTIONS" /\ t = "APPLY_ACTIONS"
  BY <1>1
<1>4. Documented[s] <= Documented[t]
  <2>1. CASE s = "GOTO_TABLE"
    BY <1>1, <1>2, <1>3, <2>1 DEF Documented, InstructionType
  <2>2. CASE s = "WRITE_METADATA"
    BY <1>1, <1>2, <1>3, <2>2 DEF Documented, InstructionType
  <2>3. CASE s = "WRITE_ACTIONS"
    BY <1>1, <1>2, <1>3, <2>3 DEF Documented, InstructionType
  <2>4. CASE s = "APPLY_ACTIONS"
    BY <1>1, <1>2, <1>3, <2>4 DEF Documented, InstructionType
  <2>5. CASE s = "CLEAR_ACTIONS"
    BY <1>1, <1>2, <1>3, <2>5 DEF Documented, InstructionType
  <2>6. CASE s = "METER"
    BY <1>1, <1>2, <1>3, <2>6 DEF Documented, InstructionType
  <2>7. CASE s = "EXPERIMENTER"
    BY <1>1, <1>2, <1>3, <2>7 DEF Documented, InstructionType
  <2> QED
    BY <1>1, <2>1, <2>2, <2>3, <2>4, <2>5, <2>6, <2>7
<1> QED
  BY <1>4 DEF s, t

\* The instructions of one entry are in the documented order.
InOrder(s) ==
    \A i, j \in DOMAIN s : i < j => Documented[s[i].type] <= Documented[s[j].type]

\* Whatever qsort leaves is in the documented order.
LEMMA SortedIs ==
    ASSUME NEW insts \in InstructionSets, NEW s \in Sorted(insts)
    PROVE  s \in Seq(Instruction) /\ InOrder(s)
<1>1. IsFiniteSet(insts) /\ \A x \in insts : x.type \in DOMAIN InstructionType
  BY MessageAssumption
<1>2. Cardinality(insts) \in Nat
  BY <1>1, FS_CardinalityType
<1>3. /\ s \in [1..Cardinality(insts) -> insts]
      /\ \A i, j \in DOMAIN s : i < j => ~inst_compare(s[i], s[j])
  BY DEF Sorted, SetToSeqs
<1>4. insts \subseteq Instruction
  BY DEF Instruction
<1>5. s \in Seq(Instruction)
  BY SMTT(20), <1>2, <1>3, <1>4
<1>6. InOrder(s)
  BY <1>1, <1>3, ComparedIs DEF InOrder
<1> QED
  BY <1>5, <1>6

\* The tables of a step that changes them
LEMMA TablesStep ==
    ASSUME TablesInv, InstructionsOrdered, [Next]_vars
    PROVE  TablesInv' /\ InstructionsOrdered'
<1>0. /\ InstructionsOrdered <=> \A t \in DOMAIN tables : InOrder(tables[t])
      /\ InstructionsOrdered' <=> \A t \in DOMAIN tables' : InOrder(tables'[t])
  BY DEF InstructionsOrdered, InOrder
<1>1. CASE tables' = tables
  BY <1>1 DEF TablesInv, InstructionsOrdered
<1>2. ASSUME NEW t \in Table, NEW insts \in InstructionSets, NEW s \in Sorted(insts),
             tables' = With(tables, t, s)
      PROVE  TablesInv' /\ InstructionsOrdered'
  <2>1. s \in Seq(Instruction) /\ InOrder(s)
    BY SortedIs
  <2>2. /\ DOMAIN tables' = DOMAIN tables \union {t}
        /\ \A u \in DOMAIN tables' : tables'[u] = IF u = t THEN s ELSE tables[u]
    BY <1>2 DEF With
  <2>3. TablesInv'
    BY SMTT(20), <2>1, <2>2 DEF TablesInv
  <2>4. \A u \in DOMAIN tables' : InOrder(tables'[u])
    BY <1>0, <2>1, <2>2
  <2> QED
    BY <1>0, <2>3, <2>4
<1>3. CASE FlowsDeleted
  <2>1. PICK T : tables' = Restrict(tables, DOMAIN tables \ T)
    BY Zenon, <1>3 DEF FlowsDeleted
  <2>2. /\ DOMAIN tables' \subseteq DOMAIN tables
        /\ \A u \in DOMAIN tables' : tables'[u] = tables[u]
    BY <2>1 DEF Restrict
  <2>3. TablesInv'
    BY <2>2 DEF TablesInv
  <2>4. \A u \in DOMAIN tables' : InOrder(tables'[u])
    BY <1>0, <2>2
  <2> QED
    BY <1>0, <2>3, <2>4
<1>4. CASE \E t \in Table, insts \in InstructionSets : pipeline_handle_flow_mod(t, insts)
  BY SMTT(20), <1>1, <1>2, <1>4 DEF pipeline_handle_flow_mod
<1>5. CASE Step
  BY <1>1, <1>5 DEF Step, pipeline_process_packet, flow_table_lookup, execute_entry,
     dp_execute_action_list, action_set_execute, group_entry_execute, execute_all, Destroy
<1>6. CASE process_buffer \/ BufferReused \/ UNCHANGED vars
  BY Zenon, <1>1, <1>6 DEF process_buffer, BufferReused, vars
<1>7. CASE \E actions \in OutActions : handle_control_packet_out(actions)
  BY <1>1, <1>7 DEF handle_control_packet_out
<1> QED
  BY <1>3, <1>4, <1>5, <1>6, <1>7 DEF Next

---------------------------------------------------------------------------
\* The invariant, and the theorems.

\* No packet, no call and no entry at first
LEMMA PipelineInitial ==
    ASSUME Init
    PROVE  PipelineInv /\ InstructionsOrdered
<1>1. groups \in GroupTables
  BY DEF Init
<1>2. MemoryInv
  <2>1. packets = <<>> /\ saved = {} /\ calls = <<>>
    BY DEF Init
  <2>2. DOMAIN packets = {} /\ calls \in Seq(CallType)
    BY <2>1
  <2>3. IsFiniteSet({})
    BY FS_EmptySet
  <2>4. Sound(calls, DOMAIN packets, saved)
    BY <2>1, <2>2, IdleSound
  <2> QED
    BY SMTT(20), <2>2, <2>3, <2>4 DEF MemoryInv
<1>3. SelectInv
  <2> SUFFICES ASSUME NEW g \in SelectGroups
               PROVE  /\ g \in DOMAIN wrr /\ g \in DOMAIN picks
                      /\ RoundInv(Weights(g), wrr[g], picks[g])
    BY Zenon DEF SelectInv
  <2>1. /\ g \in DOMAIN wrr /\ wrr[g] = init_select_group(Weights(g))
        /\ g \in DOMAIN picks /\ picks[g] = NoPicks(g)
    BY Zenon DEF Init
  <2>2. Weights(g) \in Seq(Nat) /\ Len(Weights(g)) = Len(groups[g].buckets)
    BY <1>1, WeightsAre
  <2>3. NoPicks(g) = [b \in 0..(Len(Weights(g)) - 1) |-> 0]
    BY Zenon, <2>2 DEF NoPicks
  <2> QED
    BY Zenon, <2>1, <2>2, <2>3, RoundBegins
<1>4. TablesInv /\ InstructionsOrdered
  BY DEF Init, TablesInv, InstructionsOrdered
<1> QED
  BY SMTT(20), <1>1, <1>2, <1>3, <1>4 DEF PipelineInv

\* Every step keeps the memory sound and the round robin data defined.
LEMMA MemoryStep ==
    ASSUME ~IsFiniteSet(Packet), PipelineInv, [Next]_vars
    PROVE  groups' \in GroupTables /\ MemoryInv' /\ SelectInv'
<1>1. groups \in GroupTables /\ MemoryInv /\ SelectInv /\ TablesInv
  BY DEF PipelineInv
<1>2. groups' = groups /\ (UNCHANGED <<wrr, picks>> \/ group_entry_execute)
  BY Zenon DEF Next, Step, vars, pipeline_process_packet, flow_table_lookup, execute_entry,
     dp_execute_action_list, action_set_execute, group_entry_execute, execute_all, Destroy,
     process_buffer, BufferReused, handle_control_packet_out, pipeline_handle_flow_mod,
     FlowsDeleted
<1>3. UNCHANGED <<wrr, picks>> => SelectInv'
  BY <1>1, <1>2, SelectKept
<1>4. group_entry_execute => Moved /\ SelectInv'
  BY <1>1, GroupMoves
<1>5. Moved
  <2>1. CASE Step
    BY <1>1, <1>4, <2>1, TableMoves, EntryMoves, ListMoves, SetMoves, AllMoves DEF Step
  <2>2. CASE process_buffer
    BY <1>1, <2>2, ArrivalMoves
  <2>3. CASE \E actions \in OutActions : handle_control_packet_out(actions)
    BY <1>1, <2>3, PacketOutMoves
  <2>4. CASE \E t \in Table, insts \in InstructionSets : pipeline_handle_flow_mod(t, insts)
    BY <1>1, <2>4, FlowModMoves
  <2>5. CASE BufferReused
    BY <1>1, <2>5, ReuseMoves
  <2>6. CASE FlowsDeleted \/ UNCHANGED vars
    <3>1. UNCHANGED <<packets, saved, calls>>
      BY <2>6 DEF FlowsDeleted, vars
    <3> QED
      BY <1>1, <3>1 DEF Moved, MemoryInv
  <2> QED
    BY SMTT(20), <2>1, <2>2, <2>3, <2>4, <2>5, <2>6 DEF Next
<1>6. MemoryInv'
  BY <1>2, <1>5, MovedIsInvariant
<1> QED
  BY <1>1, <1>2, <1>3, <1>4, <1>6

\* The inductive invariant holds, whatever the tables, the entries, the
\* groups and the packets, as long as there is memory.
LEMMA PipelineInvariant ==
    ASSUME ~IsFiniteSet(Packet)
    PROVE  Spec => [](PipelineInv /\ InstructionsOrdered)
<1>1. Init => PipelineInv /\ InstructionsOrdered
  BY PipelineInitial
<1>2. PipelineInv /\ InstructionsOrdered /\ [Next]_vars => (PipelineInv /\ InstructionsOrdered)'
  <2> SUFFICES ASSUME PipelineInv, InstructionsOrdered, [Next]_vars
               PROVE  (PipelineInv /\ InstructionsOrdered)'
    OBVIOUS
  <2>1. groups' \in GroupTables /\ MemoryInv' /\ SelectInv'
    BY MemoryStep
  <2>2. TablesInv' /\ InstructionsOrdered'
    BY TablesStep DEF PipelineInv
  <2> QED
    BY <2>1, <2>2 DEF PipelineInv
<1> QED
  BY <1>1, <1>2, PTL DEF Spec

\* Every packet in memory has one owner, a call or the buffers, and no call
\* works on a packet that is gone, however calls of tables, entries, lists,
\* sets and groups nest (packet_destroy in pipeline.c, action_set.c,
\* dp_actions.c, group_entry.c), as long as there is memory for clones.
THEOREM EveryPacketIsOwned ==
    ASSUME ~IsFiniteSet(Packet)
    PROVE  Spec => []PacketsOwned
<1>1. PipelineInv => PacketsOwned
  <2> SUFFICES ASSUME PipelineInv PROVE PacketsOwned
    OBVIOUS
  <2>1. Sound(calls, DOMAIN packets, saved)
    BY SMTT(20) DEF PipelineInv, MemoryInv
  <2> QED
    BY <2>1 DEF Sound, PacketsOwned, Owned, Owners
<1> QED
  BY <1>1, PipelineInvariant, PTL

\* The action set of every packet is in execution order and has one action
\* of a kind, whatever entries and buckets write to it
\* (action_set_write_action).
THEOREM ActionSetsStayCanonical ==
    ASSUME ~IsFiniteSet(Packet)
    PROVE  Spec => []ActionSetsCanonical
<1>1. PipelineInv => ActionSetsCanonical
  BY DEF PipelineInv, MemoryInv, ActionSetsCanonical, PacketType, CanonicalSet
<1> QED
  BY <1>1, PipelineInvariant, PTL

\* A SELECT group with buckets always selects one, and no bucket is ahead of its
\* share of the cycle, whatever the number of the buckets and their weights
\* (select_from_select_group).
THEOREM SelectionStaysProportional ==
    ASSUME ~IsFiniteSet(Packet)
    PROVE  Spec => []SelectProportional
<1>1. PipelineInv => SelectProportional
  <2> SUFFICES ASSUME PipelineInv, NEW g \in SelectGroups
               PROVE  /\ groups[g].buckets # <<>> =>
                            select_from_select_group(Weights(g), wrr[g]).bucket # -1
                      /\ \A b \in DOMAIN picks[g] : picks[g][b] <= Share(Weights(g), wrr[g], b)
    BY Zenon DEF SelectProportional
  <2>1. groups \in GroupTables /\ SelectInv
    BY SMTT(20) DEF PipelineInv
  <2>2. Weights(g) \in Seq(Nat) /\ RoundInv(Weights(g), wrr[g], picks[g])
    BY Zenon, <2>1, WeightsAre DEF SelectInv
  <2> QED
    BY Zenon, <2>1, <2>2, SelectedIs, RoundMeans
<1> QED
  BY <1>1, PipelineInvariant, PTL

\* The instructions of every entry are in the order execute_entry documents,
\* whatever their number and the order of the flow_mod (inst_compare).
THEOREM InstructionsStayOrdered == Spec => []InstructionsOrdered
<1>1. Init => TablesInv /\ InstructionsOrdered
  BY PipelineInitial DEF PipelineInv
<1>2. TablesInv /\ InstructionsOrdered /\ [Next]_vars => (TablesInv /\ InstructionsOrdered)'
  BY TablesStep
<1> QED
  BY <1>1, <1>2, PTL DEF Spec
===========================================================================
