------------------------ MODULE SpanningTreeProofs ------------------------
(***************************************************************************)
(* Proofs about SpanningTree: in any network, a port that follows a        *)
(* neighbour has a running timer on what it follows. A bridge elects often *)
(* and in several steps; the invariant of a bridge is what holds between   *)
(* the calls of its owner, and each function of stp.c keeps it.            *)
(***************************************************************************)
EXTENDS SpanningTree, FiniteSetTheorems, WellFoundedInduction, TLAPS

---------------------------------------------------------------------------
\* Loops over the ports.  The library applies an operator to the ports from the
\* first to the last: a set of ports is folded by folding all but the greatest
\* of them first.

\* Of any natural numbers one is the least: where an induction begins.
LEMMA LeastNatural ==
    ASSUME NEW T \in SUBSET Nat, T # {}
    PROVE  \E n \in T : \A m \in T : n <= m
<1>1. PICK n \in T : \A m \in T : ~(<<m, n>> \in OpToRel(<, Nat))
  BY WFMin, NatLessThanWellFounded, Zenon
<1>2. \A m \in T : ~(m < n)
  BY <1>1, Zenon DEF OpToRel
<1>3. \A m \in T : n <= m
  BY <1>2
<1> QED
  BY <1>3

\* Induction over the first m steps of a loop, for a set of steps.
LEMMA LoopInduction ==
    ASSUME NEW m \in Nat, NEW T, 0 \in T, \A n \in 1..m : n - 1 \in T => n \in T
    PROVE  \A n \in 0..m : n \in T
<1> DEFINE Bad == {n \in 0..m : n \notin T}
<1> SUFFICES ASSUME Bad # {} PROVE FALSE
  OBVIOUS
<1>1. Bad \in SUBSET Nat
  OBVIOUS
<1>2. PICK n \in Bad : \A k \in Bad : n <= k
  BY <1>1, LeastNatural, Zenon
<1>3. n \in 1..m /\ n - 1 \in 0..m /\ n - 1 \notin Bad
  BY <1>2
<1> QED
  BY <1>2, <1>3

\* The greatest of a set of positions.
LEMMA MaxIs ==
    ASSUME NEW m \in Nat, NEW s \in SUBSET (1..m), s # {}
    PROVE  Max(s) \in s /\ \A y \in s : Max(s) >= y
<1> DEFINE T == {m - x : x \in s}
<1>1. T \in SUBSET Nat /\ T # {}
  <2>1. \A x \in s : m - x \in Nat
    OBVIOUS
  <2> QED
    BY Zenon, <2>1
<1>2. PICK n \in T : \A k \in T : n <= k
  BY <1>1, LeastNatural, Zenon
<1>3. PICK x \in s : n = m - x
  BY <1>2
<1>4. \A y \in s : x >= y
  BY <1>2, <1>3
<1> QED
  BY Zenon, <1>4 DEF Max

\* The sets of positions with those that are folded before the last
LEMMA BeforeLast ==
    ASSUME NEW n \in Nat, NEW s \in SUBSET (1..n), s # {}
    PROVE  Max(s) \in 1..n /\ s \ {Max(s)} \in SUBSET (1..(n - 1))
<1>1. Max(s) \in s /\ \A y \in s : Max(s) >= y
  BY MaxIs
<1>2. \A y \in s \ {Max(s)} : y \in 1..(n - 1)
  <2> DEFINE x == Max(s)
  <2>1. x \in 1..n /\ \A y \in s : x >= y
    BY Zenon, <1>1
  <2> HIDE DEF x
  <2>2. \A y \in s \ {x} : y \in 1..(n - 1)
    BY <2>1
  <2> QED
    BY <2>2 DEF x
<1> QED
  BY Zenon, <1>1, <1>2

\* What each step of a fold keeps, the fold keeps.
LEMMA FoldKeeps ==
    ASSUME NEW X, NEW m \in Nat, NEW g, g[{}] \in X,
           \A s \in SUBSET (1..m) : s # {} /\ g[s \ {Max(s)}] \in X => g[s] \in X
    PROVE  g[1..m] \in X
<1> DEFINE T == {n \in 0..m : \A s \in SUBSET (1..n) : g[s] \in X}
<1>1. 0 \in T
  <2>1. \A s \in SUBSET (1..0) : s = {}
    OBVIOUS
  <2>2. \A s \in SUBSET (1..0) : g[s] \in X
    BY Zenon, <2>1
  <2>3. 0 \in 0..m
    OBVIOUS
  <2> QED
    BY <2>2, <2>3
<1>2. ASSUME NEW n \in 1..m, n - 1 \in T
      PROVE  n \in T
  <2>1. ASSUME NEW s \in SUBSET (1..n), s # {} PROVE g[s] \in X
    <3>1. s \ {Max(s)} \in SUBSET (1..(n - 1))
      BY <2>1, BeforeLast
    <3>2. g[s \ {Max(s)}] \in X
      BY <1>2, <3>1
    <3>3. s \in SUBSET (1..m)
      OBVIOUS
    <3> QED
      BY <2>1, <3>2, <3>3
  <2> QED
    BY <2>1
<1>3. \A n \in 1..m : n - 1 \in T => n \in T
  BY Zenon, <1>2
<1> HIDE DEF T
<1>4. \A n \in 0..m : n \in T
  BY <1>1, <1>3, LoopInduction, Zenon
<1>5. m \in T
  BY <1>4
<1> QED
  BY <1>5 DEF T

---------------------------------------------------------------------------
\* Bridges, and the steps that elect nothing.

\* The fields of struct stp_port and of struct stp
PortFields == {"state", "path_cost", "droot", "dcost", "dbridge", "dport", "ack", "pending",
               "changed", "message_age", "forward_delay", "hold"}
BridgeFields == {"id", "own_times", "times", "remainder", "root", "cost", "root_port", "detected",
                 "topology_change", "hello_timer", "tcn_timer", "topology_change_timer",
                 "first_changed", "out", "port"}

\* What timers, times and messages hold
Timer == Nat \union {Off}
Times == [hello : Nat, max_age : Nat, forward : Nat]
Config == [type : {"CONFIG"}, age : Nat, times : Times, flags : SUBSET Nat, root : Nat,
           cost : Nat, bridge : Nat, port : Nat]
Bpdu == {[type |-> "TCN"]} \union Config

\* struct stp_port and struct stp, as far as the election needs them; the delay runs
\* for the ports on their way to forwarding.
IsPort(r) ==
    /\ DOMAIN r = PortFields
    /\ r.path_cost \in Nat \ {0} /\ r.droot \in Nat /\ r.dcost \in Nat
    /\ r.dbridge \in Nat /\ r.dport \in Nat /\ r.message_age \in Timer
    /\ r.forward_delay \in Timer
    /\ r.forward_delay # Off <=> r.state \in {"LISTENING", "LEARNING"}

\* A bridge, with what its ports have on the wire
IsBridge(s) ==
    /\ DOMAIN s = BridgeFields
    /\ s.id \in Nat /\ s.root \in Nat /\ s.cost \in Nat /\ s.remainder \in Nat
    /\ s.root_port \in Ports \union {NoPort} /\ s.own_times \in Times /\ s.times \in Times
    /\ DOMAIN s.port = Ports /\ \A p \in Ports : IsPort(s.port[p])
    /\ DOMAIN s.out = Ports /\ \A p \in Ports : s.out[p] \in Seq(Bpdu)

\* What sending and the hold timer leave alone
SamePort(r, q) ==
    /\ DOMAIN r = PortFields
    /\ r.path_cost = q.path_cost /\ r.droot = q.droot /\ r.dcost = q.dcost
    /\ r.dbridge = q.dbridge /\ r.dport = q.dport /\ r.message_age = q.message_age
    /\ r.state = q.state /\ r.forward_delay = q.forward_delay

\* The bridge does not elect, and no port gains or loses its neighbour.
Quiet(s, t) ==
    /\ DOMAIN t = BridgeFields
    /\ t.id = s.id /\ t.root = s.root /\ t.cost = s.cost /\ t.remainder = s.remainder
    /\ t.root_port = s.root_port /\ t.own_times = s.own_times /\ t.times \in Times
    /\ DOMAIN t.port = Ports /\ \A p \in Ports : SamePort(t.port[p], s.port[p])
    /\ DOMAIN t.out = Ports /\ \A p \in Ports : t.out[p] \in Seq(Bpdu)

\* It stays a bridge.
LEMMA QuietBridge ==
    ASSUME NEW s, IsBridge(s), NEW t, Quiet(s, t)
    PROVE  IsBridge(t)
<1>1. ASSUME NEW p \in Ports PROVE IsPort(t.port[p])
  <2>1. IsPort(s.port[p]) /\ SamePort(t.port[p], s.port[p])
    BY Zenon DEF IsBridge, Quiet
  <2> QED
    BY Zenon, <2>1 DEF IsPort, SamePort
<1> QED
  BY Zenon, <1>1 DEF IsBridge, Quiet

\* Two quiet steps are one.
LEMMA QuietThen ==
    ASSUME NEW s, NEW t, NEW u, Quiet(s, t), Quiet(t, u)
    PROVE  Quiet(s, u)
<1>1. ASSUME NEW p \in Ports PROVE SamePort(u.port[p], s.port[p])
  <2>1. SamePort(t.port[p], s.port[p]) /\ SamePort(u.port[p], t.port[p])
    BY Zenon DEF Quiet
  <2> QED
    BY Zenon, <2>1 DEF SamePort
<1> QED
  BY Zenon, <1>1 DEF Quiet

\* Nothing at all is quiet.
LEMMA QuietSelf ==
    ASSUME NEW s, IsBridge(s)
    PROVE  Quiet(s, s)
BY Zenon DEF Quiet, IsBridge, IsPort, SamePort

\* A port is never taken for no port.
LEMMA PortNumbers == NoPort \notin Ports /\ Ports \subseteq Nat \ {0}
<1>1. Cardinality(Ports) \in Nat
  BY StpAssumption, FS_CardinalityType
<1> QED
  BY <1>1, StpAssumption DEF NoPort

\* The age of what a bridge sends is a number, as is the flags' value.
LEMMA ConfigIs ==
    ASSUME NEW s, IsBridge(s), NEW p \in Ports, stp_is_root_bridge(s) \/ s.root_port # NoPort
    PROVE  ConfigBpdu(s, p) \in Bpdu
<1>1. Age(s) \in Nat
  <2>1. CASE stp_is_root_bridge(s)
    BY <2>1 DEF Age
  <2>2. CASE ~stp_is_root_bridge(s)
    <3>1. s.root_port \in Ports
      BY Zenon, <2>2 DEF IsBridge
    <3>2. s.port[s.root_port].message_age \in Timer
      BY Zenon, <3>1 DEF IsBridge, IsPort
    <3> QED
      BY <2>2, <3>2 DEF Age, Timer, Off, MESSAGE_AGE_INCREMENT
  <2> QED
    BY <2>1, <2>2
<1>2. ACK \subseteq Nat /\ CHANGE \subseteq Nat
  BY DEF ACK, CHANGE, htons
<1> DEFINE flags == Byte((IF s.port[p].ack THEN ACK ELSE {})
                        \union (IF s.topology_change THEN CHANGE ELSE {}))
<1>3. flags \in SUBSET Nat
  BY Zenon, <1>2 DEF Byte
<1>4. /\ s.times \in Times /\ s.root \in Nat /\ s.cost \in Nat /\ s.id \in Nat /\ p \in Nat
  BY PortNumbers DEF IsBridge
<1>5. ConfigBpdu(s, p) = [type |-> "CONFIG", age |-> Age(s), times |-> s.times, flags |-> flags,
                          root |-> s.root, cost |-> s.cost, bridge |-> s.id, port |-> p]
  BY Zenon DEF ConfigBpdu
<1> HIDE DEF flags
<1>6. ConfigBpdu(s, p) \in Config
  BY <1>1, <1>3, <1>4, <1>5 DEF Config
<1> QED
  BY <1>6 DEF Bpdu

\* Sending a message changes flags, the hold timer and what is on the wire.
LEMMA TransmitQuiet ==
    ASSUME NEW s, IsBridge(s), NEW P
    PROVE  Quiet(s, stp_transmit_config(s, P))
<1> DEFINE held == {p \in P : s.port[p].hold # Off}
           sends == {p \in P \ held : Age(s) < s.times.max_age}
           port == [p \in Ports |->
                      IF p \in held THEN [s.port[p] EXCEPT !.pending = TRUE]
                      ELSE IF p \in sends
                      THEN [s.port[p] EXCEPT !.ack = FALSE, !.pending = FALSE, !.hold = 0]
                      ELSE s.port[p]]
           out == [p \in Ports |-> IF p \in sends THEN Append(s.out[p], ConfigBpdu(s, p))
                                   ELSE s.out[p]]
           t == [s EXCEPT !.port = port, !.out = out]
<1>1. CASE ~stp_is_root_bridge(s) /\ s.root_port = NoPort
  <2>1. stp_transmit_config(s, P) = s
    BY Zenon, <1>1 DEF stp_transmit_config
  <2> QED
    BY Zenon, <2>1, QuietSelf
<1>2. CASE ~(~stp_is_root_bridge(s) /\ s.root_port = NoPort)
  <2>1. stp_transmit_config(s, P) = t
    BY Zenon, <1>2 DEF stp_transmit_config
  <2>2. ASSUME NEW p \in Ports PROVE SamePort(port[p], s.port[p])
    <3> DEFINE r == s.port[p]
    <3>1. DOMAIN r = PortFields
      BY Zenon DEF IsBridge, IsPort
    <3> HIDE DEF r
    <3>2. /\ SamePort([r EXCEPT !.pending = TRUE], r) /\ SamePort(r, r)
          /\ SamePort([r EXCEPT !.ack = FALSE, !.pending = FALSE, !.hold = 0], r)
      BY <3>1 DEF SamePort, PortFields
    <3> QED
      BY Zenon, <3>2 DEF r
  <2>3. ASSUME NEW p \in Ports PROVE out[p] \in Seq(Bpdu)
    <3>1. s.out[p] \in Seq(Bpdu) /\ ConfigBpdu(s, p) \in Bpdu
      BY Zenon, <1>2, ConfigIs DEF IsBridge
    <3> DEFINE q == s.out[p]
               c == ConfigBpdu(s, p)
    <3> HIDE DEF q, c
    <3>2. Append(q, c) \in Seq(Bpdu)
      BY <3>1 DEF q, c
    <3> QED
      BY Zenon, <3>1, <3>2 DEF q, c
  <2>4. DOMAIN port = Ports /\ DOMAIN out = Ports
    BY Zenon
  <2> HIDE DEF port, out
  <2>5. /\ DOMAIN t = BridgeFields /\ t.port = port /\ t.out = out
        /\ t.id = s.id /\ t.root = s.root /\ t.cost = s.cost /\ t.remainder = s.remainder
        /\ t.root_port = s.root_port /\ t.own_times = s.own_times /\ t.times = s.times
        /\ s.times \in Times
    BY DEF IsBridge, BridgeFields
  <2> HIDE DEF t
  <2> QED
    BY Zenon, <2>1, <2>2, <2>3, <2>4, <2>5 DEF Quiet
<1> QED
  BY <1>1, <1>2

\* stp_config_bpdu_generation only sends.
LEMMA GenerationQuiet ==
    ASSUME NEW s, IsBridge(s)
    PROVE  Quiet(s, stp_config_bpdu_generation(s))
BY Zenon, TransmitQuiet DEF stp_config_bpdu_generation

\* Only flags, timers and times of the bridge itself differ.
SameFields(s, t) ==
    /\ DOMAIN t = BridgeFields /\ t.port = s.port /\ t.out = s.out
    /\ t.id = s.id /\ t.root = s.root /\ t.cost = s.cost /\ t.remainder = s.remainder
    /\ t.root_port = s.root_port /\ t.own_times = s.own_times /\ t.times \in Times

\* A bridge that sets flags and timers of its own is quiet.
LEMMA FieldsQuiet ==
    ASSUME NEW s, IsBridge(s), NEW t, SameFields(s, t)
    PROVE  Quiet(s, t)
<1>1. Quiet(s, s)
  BY QuietSelf
<1> QED
  BY Zenon, <1>1 DEF Quiet, SameFields

\* stp_transmit_tcn only sends.
LEMMA TcnQuiet ==
    ASSUME NEW s, IsBridge(s)
    PROVE  Quiet(s, stp_transmit_tcn(s))
<1> DEFINE q == s.root_port
           m == [type |-> "TCN"]
           out == [s.out EXCEPT ![q] = Append(@, m)]
           t == [s EXCEPT !.out = out]
<1>1. CASE q = NoPort
  <2>1. stp_transmit_tcn(s) = s
    BY Zenon, <1>1 DEF stp_transmit_tcn
  <2> QED
    BY Zenon, <2>1, QuietSelf
<1>2. CASE q # NoPort
  <2>1. stp_transmit_tcn(s) = t
    BY <1>2 DEF stp_transmit_tcn
  <2>2. q \in Ports /\ s.out[q] \in Seq(Bpdu) /\ DOMAIN s.out = Ports
    BY Zenon, <1>2 DEF IsBridge
  <2>3. ASSUME NEW p \in Ports PROVE out[p] \in Seq(Bpdu)
    <3>1. s.out[p] \in Seq(Bpdu) /\ m \in Bpdu
      BY Zenon DEF IsBridge, Bpdu
    <3>2. Append(s.out[q], m) \in Seq(Bpdu)
      <4> DEFINE o == s.out[q]
      <4> HIDE DEF o, m
      <4> QED
        BY <2>2, <3>1 DEF o
    <3> HIDE DEF m
    <3> QED
      BY Zenon, <2>2, <3>1, <3>2
  <2>4. DOMAIN out = Ports
    BY Zenon, <2>2
  <2> HIDE DEF out, q
  <2>5. /\ DOMAIN t = BridgeFields /\ t.port = s.port /\ t.out = out
        /\ t.id = s.id /\ t.root = s.root /\ t.cost = s.cost /\ t.remainder = s.remainder
        /\ t.root_port = s.root_port /\ t.own_times = s.own_times /\ t.times = s.times
    BY DEF IsBridge, BridgeFields
  <2> HIDE DEF t
  <2>6. Quiet(s, s)
    BY QuietSelf
  <2> QED
    BY Zenon, <2>1, <2>3, <2>4, <2>5, <2>6 DEF Quiet
<1> QED
  BY <1>1, <1>2

\* stp_topology_change_detection sets flags, and sends.
LEMMA DetectionQuiet ==
    ASSUME NEW s, IsBridge(s)
    PROVE  Quiet(s, stp_topology_change_detection(s))
<1> DEFINE t == stp_transmit_tcn(s)
           a == [s EXCEPT !.topology_change = TRUE, !.topology_change_timer = 0, !.detected = TRUE]
           b == [t EXCEPT !.tcn_timer = 0, !.detected = TRUE]
<1>1. Quiet(s, t) /\ IsBridge(t)
  BY Zenon, TcnQuiet, QuietBridge
<1> HIDE DEF t
<1>2. SameFields(s, a)
  BY DEF IsBridge, SameFields, BridgeFields
<1>3. SameFields(t, b)
  BY <1>1 DEF IsBridge, SameFields, BridgeFields
<1> HIDE DEF a, b
<1>4. Quiet(s, a) /\ Quiet(s, b) /\ Quiet(s, s)
  BY Zenon, <1>1, <1>2, <1>3, FieldsQuiet, QuietThen, QuietSelf
<1> QED
  BY Zenon, <1>4 DEF stp_topology_change_detection, a, b, t

\* stp_become_root_bridge, and the loss of the root
LEMMA BecomeRootQuiet ==
    ASSUME NEW s, IsBridge(s)
    PROVE  Quiet(s, stp_become_root_bridge(s))
<1> DEFINE a == [s EXCEPT !.times = s.own_times]
           b == stp_topology_change_detection(a)
           c == [b EXCEPT !.tcn_timer = Off]
           d == stp_config_bpdu_generation(c)
           e == [d EXCEPT !.hello_timer = 0]
<1>1. SameFields(s, a)
  BY DEF IsBridge, SameFields, BridgeFields
<1> HIDE DEF a
<1>2. Quiet(s, a) /\ IsBridge(a)
  BY Zenon, <1>1, FieldsQuiet, QuietBridge
<1>3. Quiet(s, b) /\ IsBridge(b)
  BY Zenon, <1>2, DetectionQuiet, QuietThen, QuietBridge
<1> HIDE DEF b
<1>4. SameFields(b, c)
  BY <1>3 DEF IsBridge, SameFields, BridgeFields
<1> HIDE DEF c
<1>5. Quiet(s, c) /\ IsBridge(c)
  BY Zenon, <1>3, <1>4, FieldsQuiet, QuietThen, QuietBridge
<1>6. Quiet(s, d) /\ IsBridge(d)
  BY Zenon, <1>5, GenerationQuiet, QuietThen, QuietBridge
<1> HIDE DEF d
<1>7. SameFields(d, e)
  BY <1>6 DEF IsBridge, SameFields, BridgeFields
<1>8. stp_become_root_bridge(s) = e
  BY Zenon DEF stp_become_root_bridge, a, b, c, d
<1> HIDE DEF e
<1> QED
  BY Zenon, <1>6, <1>7, <1>8, FieldsQuiet, QuietThen

\* What a bridge does that no longer is the root changes no port.
LEMMA DethronedQuiet ==
    ASSUME NEW s, IsBridge(s)
    PROVE  Quiet(s, Dethroned(s))
<1> DEFINE a == [s EXCEPT !.hello_timer = Off]
           b == stp_transmit_tcn(a)
           c == [b EXCEPT !.topology_change_timer = Off, !.tcn_timer = 0]
<1>1. SameFields(s, a)
  BY DEF IsBridge, SameFields, BridgeFields
<1>2. Dethroned(s) = IF ~s.detected THEN a ELSE c
  BY Zenon DEF Dethroned
<1> HIDE DEF a
<1>3. Quiet(s, a) /\ IsBridge(a)
  BY Zenon, <1>1, FieldsQuiet, QuietBridge
<1>4. Quiet(s, b) /\ IsBridge(b)
  BY Zenon, <1>3, TcnQuiet, QuietThen, QuietBridge
<1> HIDE DEF b
<1>5. SameFields(b, c)
  BY <1>4 DEF IsBridge, SameFields, BridgeFields
<1> HIDE DEF c
<1>6. Quiet(s, c)
  BY Zenon, <1>4, <1>5, FieldsQuiet, QuietThen
<1> QED
  BY Zenon, <1>2, <1>3, <1>6

\* A change of port states: the record of it is no more than that.
LEMMA SetStateQuiet ==
    ASSUME NEW s, NEW f, DOMAIN s = BridgeFields, NEW t, t = [s EXCEPT !.port = f], IsBridge(t)
    PROVE  Quiet(t, stp_set_port_state(s, f))
<1> DEFINE new == {p \in Ports : f[p].state # s.port[p].state /\ ~s.port[p].changed}
           port == [p \in Ports |-> [f[p] EXCEPT !.changed = @ \/ p \in new]]
           first == CHOOSE q \in new \union {s.first_changed} :
                        \A r \in new \union {s.first_changed} : q <= r
           u == [s EXCEPT !.port = port, !.first_changed = first]
<1>1. stp_set_port_state(s, f) = u
  BY Zenon DEF stp_set_port_state
<1> HIDE DEF new, first
<1>2. t.port = f
  BY DEF BridgeFields
<1>3. ASSUME NEW p \in Ports PROVE SamePort(port[p], f[p])
  <2> DEFINE r == f[p]
             v == r.changed \/ p \in new
  <2>1. DOMAIN r = PortFields
    BY Zenon, <1>2 DEF IsBridge, IsPort
  <2> HIDE DEF r, v
  <2>2. SamePort([r EXCEPT !.changed = v], r)
    BY <2>1 DEF SamePort, PortFields
  <2> QED
    BY Zenon, <2>2 DEF r, v
<1>4. DOMAIN port = Ports
  BY Zenon
<1> HIDE DEF port
<1>5. /\ DOMAIN u = BridgeFields /\ u.port = port /\ u.out = t.out
      /\ u.id = t.id /\ u.root = t.root /\ u.cost = t.cost /\ u.remainder = t.remainder
      /\ u.root_port = t.root_port /\ u.own_times = t.own_times /\ u.times = t.times
  BY DEF BridgeFields
<1> HIDE DEF u
<1>6. Quiet(t, t)
  BY QuietSelf
<1> QED
  BY Zenon, <1>1, <1>2, <1>3, <1>4, <1>5, <1>6 DEF Quiet

---------------------------------------------------------------------------
\* The invariant of a bridge.

\* The timer of a port is off only if the port is designated.
Untimed(s) ==
    \A p \in Enabled(s) : s.port[p].message_age = Off => stp_is_designated_port(s, p)

\* The root port is in use and follows another bridge.
RootFollows(s) ==
    s.root_port # NoPort =>
        s.root_port \in Enabled(s) /\ ~stp_is_designated_port(s, s.root_port)

\* The timer of a designated port is off.
DesignatedOff(s) ==
    \A p \in Enabled(s) : stp_is_designated_port(s, p) => s.port[p].message_age = Off

\* The ports that are blocked are those that are neither designated nor the root port.
RolesShown(s) ==
    \A p \in Enabled(s) :
        s.port[p].state = "BLOCKING" <=> p # s.root_port /\ ~stp_is_designated_port(s, p)

\* The inductive invariant of a bridge. FollowersAge is its second and fourth
\* conjunct; the election keeps them because of the third.
BridgeInv(s) ==
    IsBridge(s) /\ Untimed(s) /\ RootFollows(s) /\ DesignatedOff(s) /\ RolesShown(s)

\* A quiet step leaves what the invariant is about.
LEMMA QuietPorts ==
    ASSUME NEW s, NEW t, Quiet(s, t)
    PROVE  /\ Enabled(t) = Enabled(s) /\ t.root_port = s.root_port
           /\ \A p \in Ports : /\ t.port[p].message_age = s.port[p].message_age
                               /\ t.port[p].state = s.port[p].state
                               /\ stp_is_designated_port(t, p) <=> stp_is_designated_port(s, p)
<1>1. t.root_port = s.root_port /\ t.id = s.id /\ \A p \in Ports : SamePort(t.port[p], s.port[p])
  BY Zenon DEF Quiet
<1>2. ASSUME NEW p \in Ports
      PROVE  /\ t.port[p].message_age = s.port[p].message_age
             /\ t.port[p].state = s.port[p].state
             /\ stp_is_designated_port(t, p) <=> stp_is_designated_port(s, p)
             /\ p \in Enabled(t) <=> p \in Enabled(s)
  BY Zenon, <1>1 DEF SamePort, stp_is_designated_port, Enabled
<1>3. Enabled(t) = Enabled(s)
  <2>1. Enabled(t) \subseteq Ports /\ Enabled(s) \subseteq Ports
    BY DEF Enabled
  <2> QED
    BY Zenon, <1>2, <2>1
<1> QED
  BY Zenon, <1>1, <1>2, <1>3

\* It keeps the invariant.
LEMMA QuietInv ==
    ASSUME NEW s, BridgeInv(s), NEW t, Quiet(s, t)
    PROVE  BridgeInv(t)
<1>1. IsBridge(t)
  BY QuietBridge DEF BridgeInv
<1>2. /\ Enabled(t) = Enabled(s) /\ t.root_port = s.root_port
      /\ \A p \in Ports : /\ t.port[p].message_age = s.port[p].message_age
                          /\ t.port[p].state = s.port[p].state
                          /\ stp_is_designated_port(t, p) <=> stp_is_designated_port(s, p)
  BY QuietPorts
<1>3. Enabled(s) \subseteq Ports
  BY DEF Enabled
<1>4. Untimed(t)
  BY Zenon, <1>2, <1>3 DEF BridgeInv, Untimed
<1>5. DesignatedOff(t)
  BY Zenon, <1>2, <1>3 DEF BridgeInv, DesignatedOff
<1>6. RootFollows(t)
  BY Zenon, <1>2, <1>3 DEF BridgeInv, RootFollows
<1>7. RolesShown(t)
  BY Zenon, <1>2, <1>3 DEF BridgeInv, RolesShown
<1> QED
  BY <1>1, <1>4, <1>5, <1>6, <1>7 DEF BridgeInv

\* The port x has what r has, but for its state and its timer of the delay.
Choice(x, r) ==
    /\ IsPort(x) /\ x.dbridge = r.dbridge /\ x.dport = r.dport
    /\ x.message_age = r.message_age /\ x.state # "DISABLED"

\* What stp_make_forwarding and stp_make_blocking do to a port
LEMMA MakeState ==
    ASSUME NEW r, IsPort(r), r.state # "DISABLED"
    PROVE  /\ Choice(stp_make_forwarding(r), r) /\ Choice(stp_make_blocking(r), r)
           /\ stp_make_forwarding(r).state # "BLOCKING" /\ stp_make_blocking(r).state = "BLOCKING"
<1> DEFINE a == [r EXCEPT !.state = "LISTENING", !.forward_delay = 0]
           b == [r EXCEPT !.state = "BLOCKING", !.forward_delay = Off]
<1>1. Choice(a, r) /\ a.state # "BLOCKING"
  BY DEF Choice, IsPort, PortFields, Timer, Off
<1>2. Choice(b, r) /\ b.state = "BLOCKING"
  BY DEF Choice, IsPort, PortFields, Timer, Off
<1>3. Choice(r, r)
  BY Zenon DEF Choice
<1> HIDE DEF a, b
<1> QED
  BY Zenon, <1>1, <1>2, <1>3 DEF stp_make_forwarding, stp_make_blocking, a, b

\* The port states are chosen: a designated port stops its timer.
LEMMA StateSelection ==
    ASSUME NEW s, IsBridge(s), Untimed(s), RootFollows(s)
    PROVE  BridgeInv(stp_port_state_selection(s))
<1> DEFINE quiet(p) == [s.port[p] EXCEPT !.pending = FALSE, !.ack = FALSE]
           off(p) == [s.port[p] EXCEPT !.message_age = Off]
           Chosen(p) == IF s.port[p].state = "DISABLED" THEN s.port[p]
                        ELSE IF p = s.root_port THEN stp_make_forwarding(quiet(p))
                        ELSE IF stp_is_designated_port(s, p) THEN stp_make_forwarding(off(p))
                        ELSE stp_make_blocking(quiet(p))
           f == [p \in Ports |-> Chosen(p)]
           t == [s EXCEPT !.port = f]
           u == stp_set_port_state(s, f)
           v == stp_topology_change_detection(u)
<1>1. stp_port_state_selection(s) = u \/ stp_port_state_selection(s) = v
  BY Zenon DEF stp_port_state_selection
<1>2. ASSUME NEW p \in Ports
      PROVE  /\ IsPort(f[p]) /\ f[p].dbridge = s.port[p].dbridge /\ f[p].dport = s.port[p].dport
             /\ f[p].state = "DISABLED" <=> s.port[p].state = "DISABLED"
             /\ s.port[p].state # "DISABLED" =>
                   (f[p].state = "BLOCKING" <=> p # s.root_port /\ ~stp_is_designated_port(s, p))
             /\ f[p].message_age = IF /\ s.port[p].state # "DISABLED" /\ p # s.root_port
                                      /\ stp_is_designated_port(s, p)
                                   THEN Off ELSE s.port[p].message_age
  <2> DEFINE r == s.port[p]
             q == quiet(p)
             o == off(p)
  <2>1. IsPort(r)
    BY Zenon DEF IsBridge
  <2>2. /\ IsPort(q) /\ q.dbridge = r.dbridge /\ q.dport = r.dport
        /\ q.message_age = r.message_age /\ q.state = r.state
    <3> HIDE DEF r
    <3>1. q = [r EXCEPT !.pending = FALSE, !.ack = FALSE]
      BY Zenon DEF r
    <3> HIDE DEF q
    <3> QED
      BY <2>1, <3>1 DEF IsPort, PortFields
  <2>3. /\ IsPort(o) /\ o.dbridge = r.dbridge /\ o.dport = r.dport
        /\ o.message_age = Off /\ o.state = r.state
    <3> HIDE DEF r
    <3>1. o = [r EXCEPT !.message_age = Off]
      BY Zenon DEF r
    <3> HIDE DEF o
    <3> QED
      BY <2>1, <3>1 DEF IsPort, PortFields, Timer
  <2>4. f[p] = IF r.state = "DISABLED" THEN r
               ELSE IF p = s.root_port THEN stp_make_forwarding(q)
               ELSE IF stp_is_designated_port(s, p) THEN stp_make_forwarding(o)
               ELSE stp_make_blocking(q)
    BY Zenon
  <2> HIDE DEF r, q, o, f
  <2>5. CASE r.state = "DISABLED"
    BY Zenon, <2>1, <2>4, <2>5 DEF r
  <2>6. CASE r.state # "DISABLED"
    <3>1. /\ Choice(stp_make_forwarding(q), q) /\ stp_make_forwarding(q).state # "BLOCKING"
          /\ Choice(stp_make_blocking(q), q) /\ stp_make_blocking(q).state = "BLOCKING"
          /\ Choice(stp_make_forwarding(o), o) /\ stp_make_forwarding(o).state # "BLOCKING"
      BY Zenon, <2>2, <2>3, <2>6, MakeState
    <3>2. CASE p = s.root_port
      BY Zenon, <2>2, <2>4, <2>6, <3>1, <3>2 DEF Choice, r
    <3>3. CASE p # s.root_port /\ stp_is_designated_port(s, p)
      BY Zenon, <2>3, <2>4, <2>6, <3>1, <3>3 DEF Choice, r
    <3>4. CASE p # s.root_port /\ ~stp_is_designated_port(s, p)
      BY Zenon, <2>2, <2>4, <2>6, <3>1, <3>4 DEF Choice, r
    <3> QED
      BY <3>2, <3>3, <3>4
  <2> QED
    BY <2>5, <2>6
<1>3. DOMAIN f = Ports
  BY Zenon
<1> HIDE DEF f
<1>4. /\ DOMAIN t = BridgeFields /\ t.port = f /\ t.out = s.out
      /\ t.id = s.id /\ t.root = s.root /\ t.cost = s.cost /\ t.remainder = s.remainder
      /\ t.root_port = s.root_port /\ t.own_times = s.own_times /\ t.times = s.times
      /\ DOMAIN s = BridgeFields
  BY DEF IsBridge, BridgeFields
<1> HIDE DEF t
<1>5. IsBridge(t)
  BY Zenon, <1>2, <1>3, <1>4 DEF IsBridge
<1>6. Enabled(t) = Enabled(s) /\ Enabled(s) \subseteq Ports
      /\ \A p \in Ports : stp_is_designated_port(t, p) <=> stp_is_designated_port(s, p)
  <2>1. \A p \in Ports : t.port[p].state = "DISABLED" <=> s.port[p].state = "DISABLED"
    BY Zenon, <1>2, <1>4
  <2>2. \A p \in Ports : stp_is_designated_port(t, p) <=> stp_is_designated_port(s, p)
    BY Zenon, <1>2, <1>4 DEF stp_is_designated_port
  <2> QED
    BY Zenon, <2>1, <2>2 DEF Enabled
<1>7. \A p \in Enabled(s) : s.port[p].state # "DISABLED" /\ p \in Ports
  BY Zenon DEF Enabled
<1>8. Untimed(t)
  BY Zenon, <1>2, <1>4, <1>6, <1>7 DEF Untimed
<1>9. RootFollows(t)
  BY Zenon, <1>4, <1>6 DEF RootFollows
<1>10. DesignatedOff(t)
  <2> SUFFICES ASSUME NEW p \in Enabled(s), stp_is_designated_port(s, p)
               PROVE  f[p].message_age = Off
    BY Zenon, <1>4, <1>6 DEF DesignatedOff
  <2>1. p # s.root_port
    BY Zenon, <1>7, PortNumbers DEF RootFollows
  <2> QED
    BY Zenon, <1>2, <1>7, <2>1
<1>11. RolesShown(t)
  BY ZenonT(40), <1>2, <1>4, <1>6, <1>7 DEF RolesShown
<1>12. BridgeInv(t)
  BY Zenon, <1>5, <1>8, <1>9, <1>10, <1>11 DEF BridgeInv
<1>13. Quiet(t, u)
  BY Zenon, <1>4, <1>5, SetStateQuiet DEF t
<1> HIDE DEF u
<1>14. BridgeInv(u) /\ IsBridge(u)
  BY Zenon, <1>12, <1>13, QuietInv DEF BridgeInv
<1>15. BridgeInv(v)
  BY Zenon, <1>14, DetectionQuiet, QuietInv
<1> QED
  BY Zenon, <1>1, <1>14, <1>15

\* Those of S with the least f
LeastBy(S, f) == {x \in S : \A y \in S : f[x] <= f[y]}

\* They are of one f, which is less than that of the others.
Leads(U, S, f) ==
    /\ U # {} /\ U \subseteq S
    /\ \A x \in U : (\A y \in U : f[x] = f[y]) /\ (\A y \in S : y \in U \/ f[x] < f[y])

\* A set of ports has some that are least.
LEMMA LeastByExists ==
    ASSUME NEW S, S # {}, NEW f, \A x \in S : f[x] \in Nat
    PROVE  Leads(LeastBy(S, f), S, f)
<1> DEFINE T == {f[x] : x \in S}
<1>1. T \in SUBSET Nat /\ T # {}
  BY Zenon
<1>2. PICK n \in T : \A m \in T : n <= m
  BY Zenon, <1>1, LeastNatural
<1>3. PICK x \in S : n = f[x]
  BY Zenon
<1>4. \A y \in S : f[x] <= f[y]
  BY Zenon, <1>2, <1>3
<1>5. x \in LeastBy(S, f)
  BY Zenon, <1>4 DEF LeastBy
<1>6. LeastBy(S, f) \subseteq S
  BY Zenon DEF LeastBy
<1>7. ASSUME NEW u \in LeastBy(S, f) PROVE /\ \A y \in LeastBy(S, f) : f[u] = f[y]
                                           /\ \A y \in S \ LeastBy(S, f) : f[u] < f[y]
  <2>1. u \in S /\ \A y \in S : f[u] <= f[y]
    BY Zenon DEF LeastBy
  <2>2. ASSUME NEW y \in LeastBy(S, f) PROVE f[u] = f[y]
    <3>1. y \in S /\ f[y] <= f[u] /\ f[u] <= f[y]
      BY Zenon, <2>1 DEF LeastBy
    <3>2. f[y] \in Nat /\ f[u] \in Nat
      BY Zenon, <2>1, <3>1
    <3> QED
      BY <3>1, <3>2
  <2>3. ASSUME NEW y \in S \ LeastBy(S, f) PROVE f[u] < f[y]
    <3>1. PICK z \in S : ~(f[y] <= f[z])
      BY Zenon DEF LeastBy
    <3>2. f[u] <= f[z] /\ f[y] \in Nat /\ f[z] \in Nat /\ f[u] \in Nat
      BY Zenon, <2>1
    <3> QED
      BY <3>1, <3>2
  <2> QED
    BY Zenon, <2>2, <2>3
<1> QED
  BY Zenon, <1>5, <1>6, <1>7 DEF Leads

\* What decides between two candidates for the root port: the first of five
\* numbers in which they differ
LEMMA BeforeBy ==
    ASSUME NEW a1 \in Nat, NEW a2 \in Nat, NEW a3 \in Nat, NEW a4 \in Nat, NEW a5 \in Nat,
           NEW b1 \in Nat, NEW b2 \in Nat, NEW b3 \in Nat, NEW b4 \in Nat, NEW b5 \in Nat,
           \/ a1 < b1
           \/ a1 = b1 /\ a2 < b2
           \/ a1 = b1 /\ a2 = b2 /\ a3 < b3
           \/ a1 = b1 /\ a2 = b2 /\ a3 = b3 /\ a4 < b4
           \/ a1 = b1 /\ a2 = b2 /\ a3 = b3 /\ a4 = b4 /\ a5 < b5
    PROVE  Before(<<a1, a2, a3, a4, a5>>, <<b1, b2, b3, b4, b5>>)
<1> DEFINE a == <<a1, a2, a3, a4, a5>>
           b == <<b1, b2, b3, b4, b5>>
<1>1. /\ a[1] = a1 /\ a[2] = a2 /\ a[3] = a3 /\ a[4] = a4 /\ a[5] = a5
      /\ b[1] = b1 /\ b[2] = b2 /\ b[3] = b3 /\ b[4] = b4 /\ b[5] = b5
      /\ DOMAIN a = 1..5
  OBVIOUS
<1>2. /\ 1..(1 - 1) = {} /\ 1..(2 - 1) = {1} /\ 1..(3 - 1) = {1, 2} /\ 1..(4 - 1) = {1, 2, 3}
      /\ 1..(5 - 1) = {1, 2, 3, 4}
      /\ 1 \in 1..5 /\ 2 \in 1..5 /\ 3 \in 1..5 /\ 4 \in 1..5 /\ 5 \in 1..5
  OBVIOUS
<1> HIDE DEF a, b
<1>3. \E i \in 1..5 : a[i] < b[i] /\ \A j \in 1..(i - 1) : a[j] = b[j]
  <2>1. CASE a1 < b1
    BY <1>1, <1>2, <2>1
  <2>2. CASE a1 = b1 /\ a2 < b2
    BY <1>1, <1>2, <2>2
  <2>3. CASE a1 = b1 /\ a2 = b2 /\ a3 < b3
    BY <1>1, <1>2, <2>3
  <2>4. CASE a1 = b1 /\ a2 = b2 /\ a3 = b3 /\ a4 < b4
    BY <1>1, <1>2, <2>4
  <2>5. CASE a1 = b1 /\ a2 = b2 /\ a3 = b3 /\ a4 = b4 /\ a5 < b5
    BY <1>1, <1>2, <2>5
  <2> QED
    BY <2>1, <2>2, <2>3, <2>4, <2>5
<1> QED
  BY Zenon, <1>1, <1>3 DEF Before, a, b

\* One candidate for the root port supersedes all others, so that the loop of
\* stp_root_selection ends with it.
LEMMA BestCandidate ==
    ASSUME NEW s, IsBridge(s), NEW C \in SUBSET Ports, C # {}
    PROVE  \E p \in C : \A q \in C \ {p} : stp_supersedes_root(s, q, p)
<1> DEFINE f1 == [p \in Ports |-> s.port[p].droot]
           f2 == [p \in Ports |-> s.port[p].dcost + s.port[p].path_cost]
           f3 == [p \in Ports |-> s.port[p].dbridge]
           f4 == [p \in Ports |-> s.port[p].dport]
           f5 == [p \in Ports |-> p]
           S1 == LeastBy(C, f1)
           S2 == LeastBy(S1, f2)
           S3 == LeastBy(S2, f3)
           S4 == LeastBy(S3, f4)
           S5 == LeastBy(S4, f5)
<1>1. ASSUME NEW p \in Ports
      PROVE  /\ f1[p] \in Nat /\ f2[p] \in Nat /\ f3[p] \in Nat /\ f4[p] \in Nat /\ f5[p] \in Nat
  <2> DEFINE r == s.port[p]
  <2>1. /\ r.droot \in Nat /\ r.dcost \in Nat /\ r.path_cost \in Nat /\ r.dbridge \in Nat
        /\ r.dport \in Nat /\ p \in Nat
    BY Zenon, PortNumbers DEF IsBridge, IsPort
  <2>2. /\ f1[p] = r.droot /\ f2[p] = r.dcost + r.path_cost /\ f3[p] = r.dbridge
        /\ f4[p] = r.dport /\ f5[p] = p
    BY Zenon
  <2> HIDE DEF r, f1, f2, f3, f4, f5
  <2> QED
    BY <2>1, <2>2
<1>2. ASSUME NEW p \in Ports, NEW q \in Ports,
             \/ f1[p] < f1[q]
             \/ f1[p] = f1[q] /\ f2[p] < f2[q]
             \/ f1[p] = f1[q] /\ f2[p] = f2[q] /\ f3[p] < f3[q]
             \/ f1[p] = f1[q] /\ f2[p] = f2[q] /\ f3[p] = f3[q] /\ f4[p] < f4[q]
             \/ f1[p] = f1[q] /\ f2[p] = f2[q] /\ f3[p] = f3[q] /\ f4[p] = f4[q] /\ f5[p] < f5[q]
      PROVE  stp_supersedes_root(s, q, p)
  <2>1. Before(<<f1[p], f2[p], f3[p], f4[p], f5[p]>>, <<f1[q], f2[q], f3[q], f4[q], f5[q]>>)
    <3> HIDE DEF f1, f2, f3, f4, f5
    <3> QED
      BY ZenonT(40), <1>1, <1>2, BeforeBy
  <2> QED
    BY Zenon, <2>1 DEF stp_supersedes_root
<1>3. \A p \in Ports : f5[p] = p
  BY Zenon
<1> HIDE DEF f1, f2, f3, f4, f5
<1>4. Leads(S1, C, f1)
  BY Zenon, <1>1, LeastByExists
<1> HIDE DEF S1
<1>5. Leads(S2, S1, f2) /\ S1 \subseteq Ports
  <2>1. S1 # {} /\ S1 \subseteq Ports
    BY Zenon, <1>4 DEF Leads
  <2> QED
    BY Zenon, <1>1, <2>1, LeastByExists
<1> HIDE DEF S2
<1>6. Leads(S3, S2, f3) /\ S2 \subseteq Ports
  <2>1. S2 # {} /\ S2 \subseteq Ports
    BY Zenon, <1>5 DEF Leads
  <2> QED
    BY Zenon, <1>1, <2>1, LeastByExists
<1> HIDE DEF S3
<1>7. Leads(S4, S3, f4) /\ S3 \subseteq Ports
  <2>1. S3 # {} /\ S3 \subseteq Ports
    BY Zenon, <1>6 DEF Leads
  <2> QED
    BY Zenon, <1>1, <2>1, LeastByExists
<1> HIDE DEF S4
<1>8. Leads(S5, S4, f5) /\ S4 \subseteq Ports
  <2>1. S4 # {} /\ S4 \subseteq Ports
    BY Zenon, <1>7 DEF Leads
  <2> QED
    BY Zenon, <1>1, <2>1, LeastByExists
<1> HIDE DEF S5
<1>9. PICK p \in S5 : TRUE
  BY Zenon, <1>8 DEF Leads
<1>10. p \in S1 /\ p \in S2 /\ p \in S3 /\ p \in S4 /\ p \in C /\ p \in Ports
  BY Zenon, <1>4, <1>5, <1>6, <1>7, <1>8 DEF Leads
<1>11. ASSUME NEW q \in C \ {p} PROVE stp_supersedes_root(s, q, p)
  <2>1. q \in Ports /\ q # p /\ p \in Ports
    BY Zenon, <1>10
  <2>2. q \in S1 \/ f1[p] < f1[q]
    BY Zenon, <1>4, <1>10 DEF Leads
  <2>3. q \in S1 => f1[p] = f1[q] /\ (q \in S2 \/ f2[p] < f2[q])
    BY Zenon, <1>4, <1>5, <1>10 DEF Leads
  <2>4. q \in S2 => f2[p] = f2[q] /\ (q \in S3 \/ f3[p] < f3[q])
    BY Zenon, <1>5, <1>6, <1>10 DEF Leads
  <2>5. q \in S3 => f3[p] = f3[q] /\ (q \in S4 \/ f4[p] < f4[q])
    BY Zenon, <1>6, <1>7, <1>10 DEF Leads
  <2>6. q \in S4 => f4[p] = f4[q] /\ (q \in S5 \/ f5[p] < f5[q])
    BY Zenon, <1>7, <1>8, <1>10 DEF Leads
  <2>7. q \notin S5
    <3>1. q \in S5 => f5[p] = f5[q]
      BY Zenon, <1>8 DEF Leads
    <3> QED
      BY Zenon, <1>3, <2>1, <3>1
  <2> QED
    BY Zenon, <1>2, <2>1, <2>2, <2>3, <2>4, <2>5, <2>6, <2>7
<1> QED
  BY Zenon, <1>10, <1>11

\* The root is chosen: the port to it follows another bridge, whose cost is less
\* than the one the bridge has by it.
RootChosen(s) ==
    s.root_port # NoPort =>
        /\ s.root_port \in Enabled(s) /\ ~stp_is_designated_port(s, s.root_port)
        /\ s.root = s.port[s.root_port].droot /\ s.cost > s.port[s.root_port].dcost

\* stp_root_selection: the root port is in use and follows a better bridge.
LEMMA RootSelection ==
    ASSUME NEW s, IsBridge(s), Untimed(s), NEW t, t = stp_root_selection(s)
    PROVE  IsBridge(t) /\ Untimed(t) /\ RootChosen(t)
<1> DEFINE C == {p \in Enabled(s) : ~stp_is_designated_port(s, p) /\ s.port[p].droot < s.id}
           q == CHOOSE p \in C : \A x \in C \ {p} : stp_supersedes_root(s, x, p)
           u == [s EXCEPT !.root_port = NoPort, !.root = s.id, !.cost = 0]
           v == [s EXCEPT !.root_port = q, !.root = s.port[q].droot,
                          !.cost = s.port[q].dcost + s.port[q].path_cost]
           Fits(x) == /\ DOMAIN x = BridgeFields /\ x.port = s.port /\ x.out = s.out
                      /\ x.id = s.id /\ x.remainder = s.remainder
                      /\ x.own_times = s.own_times /\ x.times = s.times
<1>1. t = IF C = {} THEN u ELSE v
  BY Zenon DEF stp_root_selection
<1>2. C \subseteq Ports
  BY Zenon DEF Enabled
<1>3. ASSUME NEW x, Fits(x)
      PROVE  /\ Enabled(x) = Enabled(s)
             /\ \A p \in Ports : stp_is_designated_port(x, p) <=> stp_is_designated_port(s, p)
             /\ Untimed(x)
  BY Zenon, <1>3 DEF Enabled, stp_is_designated_port, Untimed
<1>4. ASSUME NEW x, Fits(x), x.root \in Nat, x.cost \in Nat, x.root_port \in Ports \union {NoPort}
      PROVE  IsBridge(x)
  BY Zenon, <1>4 DEF IsBridge
<1>5. CASE C = {}
  <2>1. Fits(u) /\ u.root = s.id /\ u.cost = 0 /\ u.root_port = NoPort
    BY DEF IsBridge, BridgeFields
  <2>2. s.id \in Nat /\ 0 \in Nat
    BY DEF IsBridge
  <2>3. t = u
    BY Zenon, <1>1, <1>5
  <2> HIDE DEF u, Fits
  <2>4. IsBridge(u)
    BY Zenon, <1>4, <2>1, <2>2
  <2> QED
    BY Zenon, <1>3, <2>1, <2>3, <2>4 DEF RootChosen
<1>6. CASE C # {}
  <2>1. q \in C
    <3>1. \E p \in C : \A x \in C \ {p} : stp_supersedes_root(s, x, p)
      <4> HIDE DEF C
      <4> QED
        BY Zenon, <1>2, <1>6, BestCandidate
    <3> HIDE DEF C
    <3> QED
      BY Zenon, <3>1
  <2>2. q \in Enabled(s) /\ ~stp_is_designated_port(s, q) /\ q \in Ports
    BY Zenon, <1>2, <2>1
  <2> HIDE DEF q
  <2> DEFINE root == s.port[q].droot
             dcost == s.port[q].dcost
             path == s.port[q].path_cost
             cost == dcost + path
  <2>3. root \in Nat /\ dcost \in Nat /\ path \in Nat \ {0}
    BY Zenon, <2>2 DEF IsBridge, IsPort
  <2>4. v = [s EXCEPT !.root_port = q, !.root = root, !.cost = cost]
    BY Zenon
  <2> HIDE DEF v, root, dcost, path
  <2>5. cost \in Nat /\ cost > dcost
    BY <2>3
  <2> HIDE DEF cost
  <2>6. Fits(v) /\ v.root = root /\ v.cost = cost /\ v.root_port = q
    BY <2>4 DEF IsBridge, BridgeFields
  <2>7. t = v
    BY Zenon, <1>1, <1>6
  <2> HIDE DEF Fits
  <2>8. IsBridge(v)
    BY Zenon, <1>4, <2>2, <2>3, <2>5, <2>6
  <2>9. v.port = s.port
    BY Zenon, <2>6 DEF Fits
  <2>10. RootChosen(v)
    BY Zenon, <1>3, <2>2, <2>5, <2>6, <2>9 DEF RootChosen, root, dcost
  <2> QED
    BY Zenon, <1>3, <2>6, <2>7, <2>8, <2>10
<1> QED
  BY <1>5, <1>6

\* A larger first number does not come before.
LEMMA NotBefore ==
    ASSUME NEW a \in Nat, NEW b, NEW c, NEW d \in Nat, NEW e, NEW f, a > d
    PROVE  ~Before(<<a, b, c>>, <<d, e, f>>)
<1> DEFINE x == <<a, b, c>>
           y == <<d, e, f>>
<1>1. x[1] = a /\ y[1] = d /\ DOMAIN x = 1..3
  OBVIOUS
<1> HIDE DEF x, y
<1>2. ASSUME NEW i \in 1..3, x[i] < y[i], \A j \in 1..(i - 1) : x[j] = y[j]
      PROVE  FALSE
  <2>1. CASE i = 1
    BY <1>1, <1>2, <2>1
  <2>2. CASE i # 1
    <3>1. 1 \in 1..(i - 1)
      BY <2>2
    <3> QED
      BY <1>1, <1>2, <3>1
  <2> QED
    BY <2>1, <2>2
<1> QED
  BY Zenon, <1>1, <1>2 DEF Before, x, y

\* A port that becomes designated
LEMMA BecomesDesignated ==
    ASSUME NEW s, IsBridge(s), NEW p \in Ports
    PROVE  LET r == stp_become_designated_port(s, p).port[p]
           IN  /\ IsPort(r) /\ r.dbridge = s.id /\ r.dport = p
               /\ r.state = s.port[p].state /\ r.message_age = s.port[p].message_age
               /\ stp_become_designated_port(s, p) = [s EXCEPT !.port = [s.port EXCEPT ![p] = r]]
<1> DEFINE q == s.port[p]
           r == [q EXCEPT !.droot = s.root, !.dcost = s.cost, !.dbridge = s.id, !.dport = p]
           u == [s EXCEPT !.port = [s.port EXCEPT ![p] = r]]
<1>1. /\ DOMAIN s = BridgeFields /\ DOMAIN s.port = Ports /\ IsPort(q)
      /\ s.root \in Nat /\ s.cost \in Nat /\ s.id \in Nat /\ p \in Nat
  BY PortNumbers DEF IsBridge
<1>2. stp_become_designated_port(s, p) = u
  BY Zenon, <1>1 DEF stp_become_designated_port, BridgeFields
<1>3. /\ IsPort(r) /\ r.dbridge = s.id /\ r.dport = p
      /\ r.state = q.state /\ r.message_age = q.message_age
  <2> HIDE DEF q
  <2> QED
    BY <1>1 DEF IsPort, PortFields
<1> HIDE DEF r
<1>4. u.port[p] = r
  BY <1>1 DEF BridgeFields
<1> QED
  BY Zenon, <1>2, <1>3, <1>4

\* stp_designated_port_selection never makes the root port designated: the
\* bridge has its cost by that port, which is more than the neighbour's.
LEMMA DesignatedSelection ==
    ASSUME NEW s, IsBridge(s), Untimed(s), RootChosen(s),
           NEW t, t = stp_designated_port_selection(s)
    PROVE  IsBridge(t) /\ Untimed(t) /\ RootFollows(t)
<1> DEFINE Chosen(p) == LET r == s.port[p]
                        IN  /\ r.state # "DISABLED"
                            /\ \/ stp_is_designated_port(s, p)
                               \/ r.droot # s.root
                               \/ Before(<<s.cost, s.id, p>>, <<r.dcost, r.dbridge, r.dport + 1>>)
           f == [p \in Ports |-> IF Chosen(p) THEN stp_become_designated_port(s, p).port[p]
                                 ELSE s.port[p]]
<1>1. t = [s EXCEPT !.port = f]
  BY Zenon DEF stp_designated_port_selection
<1>2. ASSUME NEW p \in Ports
      PROVE  /\ IsPort(f[p]) /\ f[p].state = s.port[p].state
             /\ f[p].message_age = s.port[p].message_age
             /\ stp_is_designated_port(s, p) => f[p].dbridge = s.id /\ f[p].dport = p
             /\ ~Chosen(p) => f[p] = s.port[p]
  <2>1. IsPort(s.port[p])
    BY Zenon DEF IsBridge
  <2> HIDE DEF Chosen
  <2> QED
    BY ZenonT(40), <2>1, BecomesDesignated DEF stp_is_designated_port
<1>3. s.root_port # NoPort => s.root_port \in Ports /\ ~Chosen(s.root_port)
  <2> SUFFICES ASSUME s.root_port # NoPort
               PROVE  s.root_port \in Ports /\ ~Chosen(s.root_port)
    OBVIOUS
  <2> DEFINE q == s.root_port
             r == s.port[q]
  <2>1. /\ q \in Ports /\ ~stp_is_designated_port(s, q) /\ s.root = r.droot
        /\ s.cost > r.dcost /\ s.cost \in Nat /\ r.dcost \in Nat
    BY Zenon DEF RootChosen, Enabled, IsBridge, IsPort
  <2>2. ~Before(<<s.cost, s.id, q>>, <<r.dcost, r.dbridge, r.dport + 1>>)
    BY Zenon, <2>1, NotBefore
  <2> QED
    BY Zenon, <2>1, <2>2
<1>4. DOMAIN f = Ports
  BY Zenon
<1> HIDE DEF f, Chosen
<1>5. /\ DOMAIN t = BridgeFields /\ t.port = f /\ t.out = s.out
      /\ t.id = s.id /\ t.root = s.root /\ t.cost = s.cost /\ t.remainder = s.remainder
      /\ t.root_port = s.root_port /\ t.own_times = s.own_times /\ t.times = s.times
  BY <1>1 DEF IsBridge, BridgeFields
<1>6. IsBridge(t)
  BY Zenon, <1>2, <1>4, <1>5 DEF IsBridge
<1>7. Enabled(t) = Enabled(s) /\ Enabled(s) \subseteq Ports
  BY Zenon, <1>2, <1>5 DEF Enabled
<1>8. Untimed(t)
  <2> SUFFICES ASSUME NEW p \in Enabled(s), f[p].message_age = Off
               PROVE  f[p].dbridge = s.id /\ f[p].dport = p
    BY Zenon, <1>5, <1>7 DEF Untimed, stp_is_designated_port
  <2> QED
    BY Zenon, <1>2, <1>7 DEF Untimed
<1>9. RootFollows(t)
  <2> SUFFICES ASSUME s.root_port # NoPort
               PROVE  s.root_port \in Enabled(t) /\ ~stp_is_designated_port(t, s.root_port)
    BY Zenon, <1>5 DEF RootFollows
  <2>1. f[s.root_port] = s.port[s.root_port]
    BY Zenon, <1>2, <1>3
  <2>2. s.root_port \in Enabled(s) /\ ~stp_is_designated_port(s, s.root_port)
    BY Zenon DEF RootChosen
  <2> QED
    BY Zenon, <1>5, <1>7, <2>1, <2>2 DEF stp_is_designated_port
<1> QED
  BY <1>6, <1>8, <1>9

\* An election, from any bridge whose ports without a timer are designated
LEMMA ConfigurationUpdate ==
    ASSUME NEW s, IsBridge(s), Untimed(s)
    PROVE  LET t == stp_configuration_update(s)
           IN  IsBridge(t) /\ Untimed(t) /\ RootFollows(t)
BY Zenon, RootSelection, DesignatedSelection DEF stp_configuration_update

\* From any bridge whose ports without a timer are designated, an election and the
\* choice of the port states give the invariant.
LEMMA Elected ==
    ASSUME NEW s, IsBridge(s), Untimed(s)
    PROVE  BridgeInv(stp_port_state_selection(stp_configuration_update(s)))
BY Zenon, ConfigurationUpdate, StateSelection

\* So do the functions that may make the bridge the root.
LEMMA Reelected ==
    ASSUME NEW s, IsBridge(s), Untimed(s), NEW was_root
    PROVE  BridgeInv(Reelect(s, was_root))
<1> DEFINE t == stp_port_state_selection(stp_configuration_update(s))
<1>1. BridgeInv(t) /\ IsBridge(t)
  BY Zenon, Elected DEF BridgeInv
<1> HIDE DEF t
<1>2. BridgeInv(stp_become_root_bridge(t))
  BY Zenon, <1>1, BecomeRootQuiet, QuietInv
<1> QED
  BY Zenon, <1>1, <1>2 DEF Reelect, t

\* One port is given the record r.
Put(s, p, r) == [s EXCEPT !.port = [s.port EXCEPT ![p] = r]]

\* The rest of the bridge is as it was.
Only(s, p, r, t) ==
    /\ IsBridge(t) /\ t.port[p] = r
    /\ \A q \in Ports \ {p} : t.port[q] = s.port[q]
    /\ t.id = s.id /\ t.root = s.root /\ t.cost = s.cost
    /\ t.root_port = s.root_port /\ t.times = s.times

\* Giving a port a record leaves a bridge.
LEMMA PutIs ==
    ASSUME NEW s, IsBridge(s), NEW p \in Ports, NEW r, IsPort(r), NEW t, t = Put(s, p, r)
    PROVE  Only(s, p, r, t)
<1> DEFINE f == [s.port EXCEPT ![p] = r]
<1>1. DOMAIN s.port = Ports
  BY Zenon DEF IsBridge
<1>2. DOMAIN f = Ports /\ f[p] = r /\ \A q \in Ports \ {p} : f[q] = s.port[q]
  BY <1>1
<1>3. t = [s EXCEPT !.port = f]
  BY Zenon DEF Put
<1> HIDE DEF f
<1>4. /\ DOMAIN t = BridgeFields /\ t.port = f /\ t.out = s.out
      /\ t.id = s.id /\ t.root = s.root /\ t.cost = s.cost /\ t.remainder = s.remainder
      /\ t.root_port = s.root_port /\ t.own_times = s.own_times /\ t.times = s.times
  BY <1>3 DEF IsBridge, BridgeFields
<1>5. \A q \in Ports : IsPort(f[q])
  BY Zenon, <1>2 DEF IsBridge
<1>6. IsBridge(t)
  BY Zenon, <1>2, <1>4, <1>5 DEF IsBridge
<1> QED
  BY Zenon, <1>2, <1>4, <1>6 DEF Only

\* A port without a timer is designated.
Excused(s, p, r) ==
    r.state # "DISABLED" /\ r.message_age = Off => r.dbridge = s.id /\ r.dport = p

\* A port that has a timer, or is designated, may be given.
LEMMA PutUntimed ==
    ASSUME NEW s, IsBridge(s), Untimed(s), NEW p \in Ports, NEW r, IsPort(r), Excused(s, p, r),
           NEW t, t = Put(s, p, r)
    PROVE  IsBridge(t) /\ Untimed(t)
<1>1. /\ IsBridge(t) /\ t.port[p] = r /\ t.id = s.id
      /\ \A q \in Ports \ {p} : t.port[q] = s.port[q]
  <2>1. Only(s, p, r, t)
    BY Zenon, PutIs
  <2> QED
    BY Zenon, <2>1 DEF Only
<1>2. ASSUME NEW q \in Ports, t.port[q].state # "DISABLED", t.port[q].message_age = Off
      PROVE  t.port[q].dbridge = t.id /\ t.port[q].dport = q
  <2>1. CASE q = p
    BY Zenon, <1>1, <1>2, <2>1 DEF Excused
  <2>2. CASE q # p
    BY Zenon, <1>1, <1>2, <2>2 DEF Untimed, Enabled, stp_is_designated_port
  <2> QED
    BY <2>1, <2>2
<1>3. Untimed(t)
  BY Zenon, <1>2 DEF Untimed, Enabled, stp_is_designated_port
<1> QED
  BY Zenon, <1>1, <1>3

\* A port that is the same but for its state and its other timers is quiet.
LEMMA PutQuiet ==
    ASSUME NEW s, IsBridge(s), NEW p \in Ports, NEW r, SamePort(r, s.port[p])
    PROVE  Quiet(s, Put(s, p, r))
<1> DEFINE f == [s.port EXCEPT ![p] = r]
           t == Put(s, p, r)
<1>1. DOMAIN s.port = Ports
  BY Zenon DEF IsBridge
<1>2. DOMAIN f = Ports /\ f[p] = r /\ \A q \in Ports \ {p} : f[q] = s.port[q]
  BY <1>1
<1>3. t = [s EXCEPT !.port = f]
  BY Zenon DEF Put
<1> HIDE DEF f, t
<1>4. /\ DOMAIN t = BridgeFields /\ t.port = f /\ t.out = s.out
      /\ t.id = s.id /\ t.root = s.root /\ t.cost = s.cost /\ t.remainder = s.remainder
      /\ t.root_port = s.root_port /\ t.own_times = s.own_times /\ t.times = s.times
  BY <1>3 DEF IsBridge, BridgeFields
<1>5. \A q \in Ports : SamePort(s.port[q], s.port[q])
  BY Zenon, QuietSelf DEF Quiet
<1>6. \A q \in Ports : SamePort(f[q], s.port[q])
  BY Zenon, <1>2, <1>5
<1> QED
  BY Zenon, <1>2, <1>4, <1>6 DEF Quiet, IsBridge, t

\* A port that is blocked or not, disabled or not and with or without a timer as before
Like(r, q) ==
    /\ IsPort(r) /\ r.dbridge = q.dbridge /\ r.dport = q.dport
    /\ r.message_age = Off <=> q.message_age = Off
    /\ r.state = "DISABLED" <=> q.state = "DISABLED"
    /\ r.state = "BLOCKING" <=> q.state = "BLOCKING"

\* Giving such a port keeps the invariant.
LEMMA PutLike ==
    ASSUME NEW s, BridgeInv(s), NEW p \in Ports, NEW r, Like(r, s.port[p])
    PROVE  BridgeInv(Put(s, p, r))
<1> DEFINE t == Put(s, p, r)
<1>1. IsBridge(s) /\ Untimed(s) /\ RootFollows(s) /\ DesignatedOff(s) /\ RolesShown(s)
  BY Zenon DEF BridgeInv
<1>2. Only(s, p, r, t)
  BY Zenon, <1>1, PutIs DEF Like
<1> HIDE DEF t
<1>3. \A q \in Ports : Like(t.port[q], s.port[q])
  BY Zenon, <1>1, <1>2 DEF Only, Like, IsBridge
<1>4. IsBridge(t) /\ t.root_port = s.root_port /\ t.id = s.id
  BY Zenon, <1>2 DEF Only
<1>5. ASSUME NEW q \in Ports
      PROVE  /\ q \in Enabled(t) <=> q \in Enabled(s)
             /\ t.port[q].message_age = Off <=> s.port[q].message_age = Off
             /\ t.port[q].state = "BLOCKING" <=> s.port[q].state = "BLOCKING"
             /\ stp_is_designated_port(t, q) <=> stp_is_designated_port(s, q)
  BY Zenon, <1>3, <1>4 DEF Like, Enabled, stp_is_designated_port
<1>6. Enabled(t) \subseteq Ports /\ Enabled(s) \subseteq Ports
  BY Zenon DEF Enabled
<1>7. Untimed(t)
  BY Zenon, <1>1, <1>5, <1>6 DEF Untimed
<1>8. DesignatedOff(t)
  BY Zenon, <1>1, <1>5, <1>6 DEF DesignatedOff
<1>9. RootFollows(t)
  BY Zenon, <1>1, <1>4, <1>5, <1>6 DEF RootFollows
<1>10. RolesShown(t)
  BY Zenon, <1>1, <1>4, <1>5, <1>6 DEF RolesShown
<1> QED
  BY Zenon, <1>4, <1>7, <1>8, <1>9, <1>10 DEF BridgeInv, t

\* A quiet step starts and stops no timer of a neighbour.
LEMMA QuietUntimed ==
    ASSUME NEW s, Untimed(s), NEW t, Quiet(s, t)
    PROVE  Untimed(t)
<1>1. /\ Enabled(t) = Enabled(s)
      /\ \A p \in Ports : /\ t.port[p].message_age = s.port[p].message_age
                          /\ stp_is_designated_port(t, p) <=> stp_is_designated_port(s, p)
  BY QuietPorts
<1>2. Enabled(s) \subseteq Ports
  BY DEF Enabled
<1> QED
  BY Zenon, <1>1, <1>2 DEF Untimed

\* stp_become_designated_port, as a Put
LEMMA DesignatedIs ==
    ASSUME NEW s, IsBridge(s), NEW p \in Ports
    PROVE  \E r : /\ IsPort(r) /\ r.dbridge = s.id /\ r.dport = p
                  /\ r.state = s.port[p].state /\ r.message_age = s.port[p].message_age
                  /\ stp_become_designated_port(s, p) = Put(s, p, r)
<1> DEFINE r == stp_become_designated_port(s, p).port[p]
<1>1. /\ IsPort(r) /\ r.dbridge = s.id /\ r.dport = p
      /\ r.state = s.port[p].state /\ r.message_age = s.port[p].message_age
      /\ stp_become_designated_port(s, p) = Put(s, p, r)
  BY Zenon, BecomesDesignated DEF Put
<1> QED
  BY Zenon, <1>1

\* A port that is not on its way to forwarding
Undelayed(r) == r.forward_delay = Off /\ r.state \notin {"LISTENING", "LEARNING"}

\* A port becomes designated and loses its timers, in one of two states.
LEMMA PortReset ==
    ASSUME NEW s, IsBridge(s), NEW p \in Ports,
           NEW d, d = stp_become_designated_port(s, p),
           NEW x, x = d.port[p],
           NEW y, DOMAIN y = PortFields, y.message_age = Off, y.path_cost = x.path_cost,
           Undelayed(y),
           y.droot = x.droot, y.dcost = x.dcost, y.dbridge = x.dbridge, y.dport = x.dport,
           NEW f, f = [d.port EXCEPT ![p] = y]
    PROVE  /\ IsPort(y) /\ y.dbridge = s.id /\ y.dport = p /\ IsBridge(Put(s, p, y))
           /\ Quiet(Put(s, p, y), stp_set_port_state(d, f))
<1>1. PICK r : /\ IsPort(r) /\ r.dbridge = s.id /\ r.dport = p /\ d = Put(s, p, r)
  BY Zenon, DesignatedIs
<1>2. d.port[p] = r /\ IsBridge(d)
  <2>1. Only(s, p, r, d)
    BY Zenon, <1>1, PutIs
  <2> QED
    BY Zenon, <2>1 DEF Only
<1>3. Off \in Timer
  BY Zenon DEF Timer
<1>4. IsPort(y) /\ y.dbridge = s.id /\ y.dport = p
  BY Zenon, <1>1, <1>2, <1>3 DEF IsPort, Undelayed
<1>5. IsBridge(Put(s, p, y))
  BY Zenon, <1>4, PutIs DEF Only
<1>6. [d EXCEPT !.port = f] = Put(s, p, y)
  <2>1. DOMAIN s = BridgeFields /\ DOMAIN s.port = Ports
    BY Zenon DEF IsBridge
  <2>2. d.port = [s.port EXCEPT ![p] = r] /\ d = [s EXCEPT !.port = [s.port EXCEPT ![p] = r]]
    BY <1>1, <2>1 DEF Put, BridgeFields
  <2>3. f = [s.port EXCEPT ![p] = y]
    BY <2>1, <2>2
  <2> DEFINE g == [s.port EXCEPT ![p] = r]
  <2>4. d = [s EXCEPT !.port = g]
    BY Zenon, <2>2
  <2> HIDE DEF g
  <2>5. [d EXCEPT !.port = f] = [s EXCEPT !.port = f]
    BY Zenon, <2>1, <2>4 DEF BridgeFields
  <2> QED
    BY Zenon, <2>3, <2>5 DEF Put
<1>7. DOMAIN d = BridgeFields
  BY Zenon, <1>2 DEF IsBridge
<1> QED
  BY Zenon, <1>4, <1>5, <1>6, <1>7, SetStateQuiet

\* A port comes into use: it is designated, and it is not the root port.
LEMMA PortEnabled ==
    ASSUME NEW s, BridgeInv(s), NEW p \in Ports
    PROVE  BridgeInv(stp_port_enable(s, p))
<1>1. CASE s.port[p].state # "DISABLED"
  BY Zenon, <1>1 DEF stp_port_enable
<1>2. CASE s.port[p].state = "DISABLED"
  <2> DEFINE d == stp_become_designated_port(s, p)
             x == d.port[p]
             y == [x EXCEPT !.state = "BLOCKING", !.ack = FALSE, !.pending = FALSE,
                            !.message_age = Off, !.forward_delay = Off, !.hold = Off]
             f == [d.port EXCEPT ![p] = y]
             t == Put(s, p, y)
             u == stp_set_port_state(d, f)
  <2>1. IsBridge(s) /\ Untimed(s) /\ RootFollows(s)
    BY Zenon DEF BridgeInv
  <2>2. stp_port_enable(s, p) = stp_port_state_selection(u)
    <3>1. stp_initialize_port(s, p, "BLOCKING") = u
      <4>1. p \in DOMAIN d.port
        <5>1. PICK r : IsPort(r) /\ d = Put(s, p, r)
          BY Zenon, <2>1, DesignatedIs
        <5>2. Only(s, p, r, d)
          BY Zenon, <2>1, <5>1, PutIs
        <5> QED
          BY Zenon, <5>2 DEF Only, IsBridge
      <4> HIDE DEF d
      <4>2. [d.port EXCEPT ![p] = [@ EXCEPT !.state = "BLOCKING", !.ack = FALSE,
                !.pending = FALSE, !.message_age = Off, !.forward_delay = Off, !.hold = Off]] = f
        BY <4>1
      <4> HIDE DEF f
      <4> QED
        BY Zenon, <4>2 DEF stp_initialize_port, d
    <3> HIDE DEF u
    <3> QED
      BY Zenon, <1>2, <3>1 DEF stp_port_enable
  <2>3. IsPort(x)
    BY Zenon, <2>1, BecomesDesignated
  <2> HIDE DEF x
  <2>4. /\ DOMAIN y = PortFields /\ y.message_age = Off /\ y.path_cost = x.path_cost
        /\ Undelayed(y)
        /\ y.droot = x.droot /\ y.dcost = x.dcost /\ y.dbridge = x.dbridge /\ y.dport = x.dport
    BY <2>3 DEF IsPort, PortFields, Undelayed
  <2> HIDE DEF y, d
  <2>5. /\ IsPort(y) /\ y.dbridge = s.id /\ y.dport = p /\ IsBridge(t) /\ Quiet(t, u)
    BY Zenon, <2>1, <2>4, PortReset DEF x, d
  <2>6. Only(s, p, y, t)
    BY Zenon, <2>1, <2>5, PutIs
  <2> HIDE DEF t, u
  <2>7. ASSUME NEW q \in Ports \ {p}
        PROVE  /\ q \in Enabled(t) <=> q \in Enabled(s)
               /\ t.port[q].message_age = s.port[q].message_age
               /\ stp_is_designated_port(t, q) <=> stp_is_designated_port(s, q)
    BY Zenon, <2>6 DEF Only, Enabled, stp_is_designated_port
  <2>8. t.port[p].message_age = Off /\ stp_is_designated_port(t, p) /\ t.root_port = s.root_port
    BY Zenon, <2>4, <2>5, <2>6 DEF Only, stp_is_designated_port
  <2>9. Enabled(t) \subseteq Ports /\ p \notin Enabled(s) /\ Enabled(s) \subseteq Ports
    BY Zenon, <1>2 DEF Enabled
  <2>10. Untimed(t)
    BY Zenon, <2>1, <2>7, <2>8, <2>9 DEF Untimed
  <2>11. RootFollows(t)
    BY Zenon, <2>1, <2>7, <2>8, <2>9 DEF RootFollows
  <2>12. IsBridge(u) /\ Untimed(u)
    BY Zenon, <2>5, <2>10, QuietBridge, QuietUntimed
  <2>13. RootFollows(u)
    <3>1. /\ Enabled(u) = Enabled(t) /\ u.root_port = t.root_port
          /\ \A q \in Ports : stp_is_designated_port(u, q) <=> stp_is_designated_port(t, q)
      BY Zenon, <2>5, QuietPorts
    <3> QED
      BY Zenon, <2>9, <2>11, <3>1 DEF RootFollows
  <2> QED
    BY Zenon, <2>2, <2>12, <2>13, StateSelection
<1> QED
  BY <1>1, <1>2

\* A port goes out of use.
LEMMA PortDisabled ==
    ASSUME NEW s, BridgeInv(s), NEW p \in Ports
    PROVE  BridgeInv(stp_port_disable(s, p))
<1> DEFINE d == stp_become_designated_port(s, p)
           x == d.port[p]
           y == [x EXCEPT !.state = "DISABLED", !.ack = FALSE, !.pending = FALSE,
                          !.message_age = Off, !.forward_delay = Off]
           f == [d.port EXCEPT ![p] = y]
           t == Put(s, p, y)
           u == stp_set_port_state(d, f)
<1>1. IsBridge(s) /\ Untimed(s)
  BY Zenon DEF BridgeInv
<1>2. stp_port_disable(s, p) = s \/ stp_port_disable(s, p) = Reelect(u, stp_is_root_bridge(s))
  <2>1. p \in DOMAIN d.port
    <3>1. PICK r : IsPort(r) /\ d = Put(s, p, r)
      BY Zenon, <1>1, DesignatedIs
    <3>2. Only(s, p, r, d)
      BY Zenon, <1>1, <3>1, PutIs
    <3> QED
      BY Zenon, <3>2 DEF Only, IsBridge
  <2> HIDE DEF d
  <2>2. [d.port EXCEPT ![p] = [@ EXCEPT !.state = "DISABLED", !.ack = FALSE,
            !.pending = FALSE, !.message_age = Off, !.forward_delay = Off]] = f
    BY <2>1
  <2> HIDE DEF f
  <2> QED
    BY Zenon, <2>2 DEF stp_port_disable, d
<1>3. IsPort(x)
  BY Zenon, <1>1, BecomesDesignated
<1> HIDE DEF x
<1>4. /\ DOMAIN y = PortFields /\ y.message_age = Off /\ y.path_cost = x.path_cost
      /\ Undelayed(y)
      /\ y.droot = x.droot /\ y.dcost = x.dcost /\ y.dbridge = x.dbridge /\ y.dport = x.dport
      /\ y.state = "DISABLED"
  BY <1>3 DEF IsPort, PortFields, Undelayed
<1> HIDE DEF y, d
<1>5. /\ IsPort(y) /\ y.dbridge = s.id /\ y.dport = p /\ IsBridge(t) /\ Quiet(t, u)
  BY Zenon, <1>1, <1>4, PortReset DEF x, d
<1>6. IsBridge(t) /\ Untimed(t)
  BY Zenon, <1>1, <1>4, <1>5, PutUntimed DEF Excused
<1> HIDE DEF t, u
<1>7. IsBridge(u) /\ Untimed(u)
  BY Zenon, <1>5, <1>6, QuietBridge, QuietUntimed
<1> QED
  BY Zenon, <1>2, <1>7, Reelected

\* The bridge takes another identifier, and so do the ports it is designated on.
LEMMA Renamed ==
    ASSUME NEW s, BridgeInv(s), NEW id \in Nat
    PROVE  BridgeInv(set_bridge_id(s, id))
<1> DEFINE Mine(p) == p \in Enabled(s) /\ stp_is_designated_port(s, p)
           f == [p \in Ports |-> IF Mine(p) THEN [s.port[p] EXCEPT !.dbridge = id]
                                 ELSE s.port[p]]
           t == [s EXCEPT !.id = id, !.port = f]
<1>1. IsBridge(s) /\ Untimed(s) /\ DOMAIN s = BridgeFields
  BY Zenon DEF BridgeInv, IsBridge
<1>2. set_bridge_id(s, id) = IF id = s.id THEN s ELSE Reelect(t, stp_is_root_bridge(s))
  <2>1. [s EXCEPT !.id = id,
                  !.port = [p \in Ports |->
                      IF p \in Enabled(s) /\ stp_is_designated_port(s, p)
                      THEN [@[p] EXCEPT !.dbridge = id] ELSE @[p]]] = t
    <3> HIDE DEF f
    <3>1. f = [p \in Ports |-> IF p \in Enabled(s) /\ stp_is_designated_port(s, p)
                               THEN [s.port[p] EXCEPT !.dbridge = id] ELSE s.port[p]]
      BY Zenon DEF f
    <3> QED
      BY <1>1, <3>1 DEF BridgeFields
  <2> HIDE DEF t
  <2> QED
    BY Zenon, <2>1 DEF set_bridge_id
<1>3. ASSUME NEW p \in Ports
      PROVE  /\ IsPort(f[p]) /\ f[p].state = s.port[p].state /\ f[p].dport = s.port[p].dport
             /\ f[p].message_age = s.port[p].message_age
             /\ Mine(p) => f[p].dbridge = id
  <2> DEFINE r == s.port[p]
             q == [r EXCEPT !.dbridge = id]
  <2>1. IsPort(r)
    BY Zenon, <1>1 DEF IsBridge
  <2> HIDE DEF r
  <2>2. /\ IsPort(q) /\ q.state = r.state /\ q.dport = r.dport /\ q.message_age = r.message_age
        /\ q.dbridge = id
    BY <2>1 DEF IsPort, PortFields
  <2>3. f[p] = IF Mine(p) THEN q ELSE r
    BY Zenon DEF r
  <2> HIDE DEF q, f, Mine
  <2> QED
    BY Zenon, <2>1, <2>2, <2>3 DEF r
<1>4. DOMAIN f = Ports
  BY Zenon
<1> HIDE DEF f
<1>5. /\ DOMAIN t = BridgeFields /\ t.port = f /\ t.out = s.out
      /\ t.id = id /\ t.root = s.root /\ t.cost = s.cost /\ t.remainder = s.remainder
      /\ t.root_port = s.root_port /\ t.own_times = s.own_times /\ t.times = s.times
  BY <1>1 DEF BridgeFields
<1> HIDE DEF t
<1>6. IsBridge(t)
  BY Zenon, <1>1, <1>3, <1>4, <1>5 DEF IsBridge
<1>7. Untimed(t)
  <2> SUFFICES ASSUME NEW p \in Ports, f[p].state # "DISABLED", f[p].message_age = Off
               PROVE  f[p].dbridge = id /\ f[p].dport = p
    BY Zenon, <1>5 DEF Untimed, Enabled, stp_is_designated_port
  <2>1. Mine(p)
    BY Zenon, <1>1, <1>3 DEF Untimed, Enabled
  <2> QED
    BY Zenon, <1>3, <2>1 DEF stp_is_designated_port
<1> QED
  BY Zenon, <1>2, <1>6, <1>7, Reelected

\* Another speed of the link
LEMMA PathCostSet ==
    ASSUME NEW s, BridgeInv(s), NEW p \in Ports, NEW c \in Nat \ {0}
    PROVE  BridgeInv(stp_port_set_path_cost(s, p, c))
<1> DEFINE r == s.port[p]
           q == [r EXCEPT !.path_cost = c]
           t == Put(s, p, q)
<1>1. IsBridge(s) /\ Untimed(s) /\ DOMAIN s = BridgeFields /\ DOMAIN s.port = Ports
  BY Zenon DEF BridgeInv, IsBridge
<1>2. IsPort(r)
  BY Zenon, <1>1 DEF IsBridge
<1>3. [s EXCEPT !.port[p].path_cost = c] = t
  BY <1>1 DEF Put, BridgeFields
<1>4. Excused(s, p, r)
  BY Zenon, <1>1 DEF Excused, Untimed, Enabled, stp_is_designated_port
<1> HIDE DEF r, t
<1>5. /\ IsPort(q) /\ q.state = r.state /\ q.dport = r.dport /\ q.message_age = r.message_age
      /\ q.dbridge = r.dbridge
  BY <1>2 DEF IsPort, PortFields
<1> HIDE DEF q
<1>6. Excused(s, p, q)
  BY Zenon, <1>4, <1>5 DEF Excused
<1>7. IsBridge(t) /\ Untimed(t)
  BY Zenon, <1>1, <1>5, <1>6, PutUntimed DEF t
<1> QED
  BY Zenon, <1>3, <1>7, Elected DEF stp_port_set_path_cost

\* What a configuration message holds
LEMMA ConfigFields ==
    ASSUME NEW c \in Config
    PROVE  /\ c.age \in Nat /\ c.times \in Times /\ c.root \in Nat /\ c.cost \in Nat
           /\ c.bridge \in Nat /\ c.port \in Nat
BY DEF Config

\* What a neighbour sent is kept, with a timer that runs.
LEMMA Recorded ==
    ASSUME NEW s, BridgeInv(s), NEW p \in Ports, NEW c \in Config
    PROVE  LET t == stp_record_config_information(s, p, c) IN IsBridge(t) /\ Untimed(t)
<1> DEFINE r == s.port[p]
           q == [r EXCEPT !.droot = c.root, !.dcost = c.cost, !.dbridge = c.bridge,
                          !.dport = c.port, !.message_age = c.age]
           t == Put(s, p, q)
<1>1. IsBridge(s) /\ Untimed(s) /\ DOMAIN s = BridgeFields /\ DOMAIN s.port = Ports
  BY Zenon DEF BridgeInv, IsBridge
<1>2. IsPort(r)
  BY Zenon, <1>1 DEF IsBridge
<1>3. stp_record_config_information(s, p, c) = t
  <2>1. [s.port EXCEPT ![p] = [@ EXCEPT !.droot = c.root, !.dcost = c.cost,
            !.dbridge = c.bridge, !.dport = c.port, !.message_age = c.age]]
        = [s.port EXCEPT ![p] = q]
    BY <1>1
  <2> HIDE DEF q
  <2> QED
    BY Zenon, <2>1 DEF stp_record_config_information, Put
<1> HIDE DEF r, t
<1>4. IsPort(q) /\ q.message_age # Off
  <2> DEFINE root == c.root
             cost == c.cost
             bridge_ == c.bridge
             port == c.port
             age == c.age
  <2>1. root \in Nat /\ cost \in Nat /\ bridge_ \in Nat /\ port \in Nat /\ age \in Nat
    BY Zenon, ConfigFields
  <2>2. q = [r EXCEPT !.droot = root, !.dcost = cost, !.dbridge = bridge_,
                      !.dport = port, !.message_age = age]
    BY Zenon
  <2> HIDE DEF root, cost, bridge_, port, age, q
  <2>3. age # Off /\ age \in Timer
    BY <2>1 DEF Off, Timer
  <2> QED
    BY <1>2, <2>1, <2>2, <2>3 DEF IsPort, PortFields
<1> HIDE DEF q
<1>5. IsBridge(t) /\ Untimed(t)
  BY Zenon, <1>1, <1>4, PutUntimed DEF Excused, t
<1> QED
  BY Zenon, <1>3, <1>5

\* A configuration message (stp_received_config_bpdu)
LEMMA ConfigReceived ==
    ASSUME NEW s, BridgeInv(s), NEW p \in Ports, NEW c \in Config
    PROVE  BridgeInv(stp_received_config_bpdu(s, p, c))
<1> DEFINE updated == stp_port_state_selection(
                          stp_configuration_update(stp_record_config_information(s, p, c)))
           t == IF stp_is_root_bridge(s) /\ ~stp_is_root_bridge(updated)
                THEN Dethroned(updated) ELSE updated
           kept == stp_record_config_timeout_values(t, c)
           relayed == stp_config_bpdu_generation(kept)
           ended == [relayed EXCEPT !.detected = FALSE, !.tcn_timer = Off]
           result == stp_received_config_bpdu(s, p, c)
<1>1. \/ result = s \/ result = stp_transmit_config(s, {p}) \/ result = t
      \/ result = ended \/ result = relayed
  BY Zenon DEF stp_received_config_bpdu
<1>2. BridgeInv(updated)
  BY Zenon, Recorded, Elected
<1> HIDE DEF updated
<1>3. BridgeInv(t)
  BY Zenon, <1>2, DethronedQuiet, QuietInv DEF BridgeInv
<1> HIDE DEF t
<1>4. IsBridge(t)
  BY Zenon, <1>3 DEF BridgeInv
<1>5. SameFields(t, kept)
  <2> DEFINE times == c.times
             change == CHANGE \subseteq c.flags
  <2>1. times \in Times
    BY Zenon, ConfigFields
  <2>2. kept = [t EXCEPT !.times = times, !.topology_change = change]
    BY Zenon DEF stp_record_config_timeout_values
  <2> HIDE DEF kept, times, change
  <2> QED
    BY <1>4, <2>1, <2>2 DEF IsBridge, SameFields, BridgeFields
<1> HIDE DEF kept
<1>6. BridgeInv(kept)
  BY Zenon, <1>3, <1>4, <1>5, FieldsQuiet, QuietInv
<1>7. BridgeInv(relayed) /\ IsBridge(relayed)
  BY Zenon, <1>6, GenerationQuiet, QuietInv DEF BridgeInv
<1> HIDE DEF relayed
<1>8. SameFields(relayed, ended)
  BY <1>7 DEF IsBridge, SameFields, BridgeFields
<1> HIDE DEF ended
<1>9. BridgeInv(ended)
  BY Zenon, <1>7, <1>8, FieldsQuiet, QuietInv
<1>10. BridgeInv(stp_transmit_config(s, {p}))
  BY Zenon, TransmitQuiet, QuietInv DEF BridgeInv
<1> QED
  BY Zenon, <1>1, <1>3, <1>7, <1>9, <1>10

\* A topology change notification (stp_received_tcn_bpdu)
LEMMA TcnReceived ==
    ASSUME NEW s, BridgeInv(s), NEW p \in Ports
    PROVE  BridgeInv(stp_received_tcn_bpdu(s, p))
<1> DEFINE t == stp_topology_change_detection(s)
           r == t.port[p]
           q == [r EXCEPT !.ack = TRUE]
           u == Put(t, p, q)
<1>1. BridgeInv(t) /\ IsBridge(t)
  BY Zenon, DetectionQuiet, QuietInv DEF BridgeInv
<1> HIDE DEF t
<1>2. IsPort(r) /\ DOMAIN t = BridgeFields /\ DOMAIN t.port = Ports
  BY Zenon, <1>1 DEF IsBridge
<1>3. [t EXCEPT !.port[p].ack = TRUE] = u
  BY <1>2 DEF Put, BridgeFields
<1>4. stp_received_tcn_bpdu(s, p) = s \/ stp_received_tcn_bpdu(s, p) = stp_transmit_config(u, {p})
  BY Zenon, <1>3 DEF stp_received_tcn_bpdu, t
<1>5. SamePort(q, r)
  <2> HIDE DEF r
  <2> QED
    BY <1>2 DEF IsPort, SamePort, PortFields
<1> HIDE DEF q
<1>6. BridgeInv(u) /\ IsBridge(u)
  BY Zenon, <1>1, <1>5, PutQuiet, QuietInv DEF BridgeInv
<1> HIDE DEF u
<1> QED
  BY Zenon, <1>4, <1>6, TransmitQuiet, QuietInv

\* Any message
LEMMA Received ==
    ASSUME NEW s, BridgeInv(s), NEW p \in Ports, NEW bpdu \in Bpdu
    PROVE  BridgeInv(stp_received_bpdu(s, p, bpdu))
<1>1. bpdu.type = "CONFIG" => bpdu \in Config
  BY DEF Bpdu
<1> QED
  BY Zenon, <1>1, ConfigReceived, TcnReceived DEF stp_received_bpdu

\* What is on the wire arrives, or is lost.
LEMMA OutTaken ==
    ASSUME NEW s, BridgeInv(s), NEW p \in Ports, s.out[p] # <<>>
    PROVE  /\ Head(s.out[p]) \in Bpdu
           /\ BridgeInv([s EXCEPT !.out[p] = Tail(@)])
<1> DEFINE q == s.out[p]
           out == [s.out EXCEPT ![p] = Tail(q)]
           t == [s EXCEPT !.out = out]
<1>1. IsBridge(s) /\ DOMAIN s = BridgeFields /\ DOMAIN s.out = Ports /\ s.times \in Times
      /\ \A x \in Ports : s.out[x] \in Seq(Bpdu)
  BY Zenon DEF BridgeInv, IsBridge
<1>2. q \in Seq(Bpdu) /\ q # <<>>
  BY Zenon, <1>1
<1>3. [s EXCEPT !.out[p] = Tail(@)] = t
  BY <1>1 DEF BridgeFields
<1> HIDE DEF q
<1>4. Head(q) \in Bpdu /\ Tail(q) \in Seq(Bpdu)
  <2> HIDE DEF Bpdu
  <2> QED
    BY <1>2
<1>5. DOMAIN out = Ports /\ \A x \in Ports : out[x] \in Seq(Bpdu)
  BY <1>1, <1>4
<1> HIDE DEF out
<1>6. /\ DOMAIN t = BridgeFields /\ t.port = s.port /\ t.out = out
      /\ t.id = s.id /\ t.root = s.root /\ t.cost = s.cost /\ t.remainder = s.remainder
      /\ t.root_port = s.root_port /\ t.own_times = s.own_times /\ t.times = s.times
  BY <1>1 DEF BridgeFields
<1> HIDE DEF t
<1>7. DOMAIN s.port = Ports /\ \A x \in Ports : SamePort(s.port[x], s.port[x])
  BY Zenon, <1>1, QuietSelf DEF Quiet
<1>8. Quiet(s, t)
  BY Zenon, <1>1, <1>5, <1>6, <1>7 DEF Quiet
<1>9. BridgeInv(t)
  BY Zenon, <1>8, QuietInv
<1> QED
  BY Zenon, <1>3, <1>4, <1>9 DEF q

\* Flags and timers of the bridge itself do not matter.
LEMMA FieldsInv ==
    ASSUME NEW s, BridgeInv(s), NEW t, SameFields(s, t)
    PROVE  BridgeInv(t)
BY Zenon, FieldsQuiet, QuietInv DEF BridgeInv

\* The three timers of the bridge itself
LEMMA BridgeTimers ==
    ASSUME NEW s, BridgeInv(s), NEW elapsed
    PROVE  /\ BridgeInv(HelloTimer(s, elapsed)) /\ BridgeInv(TcnTimer(s, elapsed))
           /\ BridgeInv(TopologyChangeTimer(s, elapsed))
<1> DEFINE g == stp_config_bpdu_generation(s)
           c == stp_transmit_tcn(s)
           later(v, n) == Advance(v, elapsed, n)
           timeout == s.times.max_age + s.times.forward
           over == stp_timer_expired(s.topology_change_timer, elapsed, timeout)
           g0 == [g EXCEPT !.hello_timer = 0]
           h == [s EXCEPT !.hello_timer = later(s.hello_timer, s.times.hello)]
           c0 == [c EXCEPT !.tcn_timer = 0]
           d == [s EXCEPT !.tcn_timer = later(s.tcn_timer, s.own_times.hello)]
           e == [s EXCEPT !.topology_change_timer = later(s.topology_change_timer, timeout),
                          !.detected = s.detected /\ ~over,
                          !.topology_change = s.topology_change /\ ~over]
<1>1. IsBridge(s) /\ DOMAIN s = BridgeFields
  BY Zenon DEF BridgeInv, IsBridge
<1>2. BridgeInv(g) /\ BridgeInv(c) /\ IsBridge(g) /\ IsBridge(c)
  BY Zenon, <1>1, GenerationQuiet, TcnQuiet, QuietInv DEF BridgeInv
<1>3. HelloTimer(s, elapsed) = g0 \/ HelloTimer(s, elapsed) = h
  <2>1. [s EXCEPT !.hello_timer = Advance(@, elapsed, s.times.hello)] = h
    BY <1>1 DEF BridgeFields
  <2> HIDE DEF h
  <2> QED
    BY Zenon, <2>1 DEF HelloTimer
<1>4. TcnTimer(s, elapsed) = c0 \/ TcnTimer(s, elapsed) = d
  <2>1. [s EXCEPT !.tcn_timer = Advance(@, elapsed, s.own_times.hello)] = d
    BY <1>1 DEF BridgeFields
  <2> HIDE DEF d
  <2> QED
    BY Zenon, <2>1 DEF TcnTimer
<1>5. TopologyChangeTimer(s, elapsed) = e
  <2> HIDE DEF over, timeout
  <2>1. [s EXCEPT !.topology_change_timer = Advance(@, elapsed, timeout),
                  !.detected = @ /\ ~over, !.topology_change = @ /\ ~over] = e
    BY <1>1 DEF BridgeFields
  <2> HIDE DEF e
  <2> QED
    BY Zenon, <2>1 DEF TopologyChangeTimer, over, timeout
<1> HIDE DEF g, c, later, timeout, over
<1>6. SameFields(g, g0)
  BY <1>2 DEF IsBridge, SameFields, BridgeFields
<1>7. SameFields(c, c0)
  BY <1>2 DEF IsBridge, SameFields, BridgeFields
<1>8. SameFields(s, h)
  BY <1>1 DEF IsBridge, SameFields, BridgeFields
<1>9. SameFields(s, d)
  BY <1>1 DEF IsBridge, SameFields, BridgeFields
<1>10. SameFields(s, e)
  BY <1>1 DEF IsBridge, SameFields, BridgeFields
<1> HIDE DEF g0, h, c0, d, e
<1>11. BridgeInv(g0) /\ BridgeInv(c0) /\ BridgeInv(h) /\ BridgeInv(d) /\ BridgeInv(e)
  BY Zenon, <1>2, <1>6, <1>7, <1>8, <1>9, <1>10, FieldsInv
<1> QED
  BY Zenon, <1>3, <1>4, <1>5, <1>11

\* A timer that runs goes on running until it expires (stp_timer_expired).
LEMMA AdvanceIs ==
    ASSUME NEW v \in Timer, NEW elapsed \in Nat, NEW timeout \in Nat
    PROVE  /\ Advance(v, elapsed, timeout) \in Timer
           /\ v = Off => Advance(v, elapsed, timeout) = Off
           /\ ~stp_timer_expired(v, elapsed, timeout) /\ v # Off
                  => Advance(v, elapsed, timeout) # Off
           /\ stp_timer_expired(v, elapsed, timeout) => Advance(v, elapsed, timeout) = Off
BY DEF Advance, stp_timer_expired, Timer, Off

\* The information of a neighbour grows older; when its time is over, the port is
\* designated and the bridge elects again.
LEMMA MessageAged ==
    ASSUME NEW s, BridgeInv(s), NEW p \in Ports, NEW elapsed \in Nat
    PROVE  BridgeInv(MessageAgeTimer(s, p, elapsed))
<1> DEFINE r == s.port[p]
           v == r.message_age
           n == s.times.max_age
           age == Advance(v, elapsed, n)
           q == [r EXCEPT !.message_age = age]
           t == Put(s, p, q)
<1>1. IsBridge(s) /\ Untimed(s)
      /\ DOMAIN s = BridgeFields /\ DOMAIN s.port = Ports /\ s.times \in Times
  BY Zenon DEF BridgeInv, IsBridge
<1>2. IsPort(r) /\ v \in Timer
  BY Zenon, <1>1 DEF IsBridge, IsPort
<1>3. n \in Nat
  BY <1>1 DEF Times
<1>4. [s EXCEPT !.port[p].message_age = Advance(@, elapsed, s.times.max_age)] = t
  BY <1>1 DEF Put, BridgeFields
<1>5. MessageAgeTimer(s, p, elapsed)
          = IF stp_timer_expired(v, elapsed, n)
            THEN Reelect(stp_become_designated_port(t, p), stp_is_root_bridge(s)) ELSE t
  BY Zenon, <1>4 DEF MessageAgeTimer
<1> HIDE DEF n, t
<1>6. /\ age \in Timer /\ (v = Off => age = Off)
      /\ ~stp_timer_expired(v, elapsed, n) /\ v # Off => age # Off
  BY Zenon, <1>2, <1>3, AdvanceIs
<1> HIDE DEF age
<1>7. /\ IsPort(q) /\ q.state = r.state /\ q.dport = r.dport /\ q.dbridge = r.dbridge
      /\ q.message_age = age
  <2> HIDE DEF r
  <2> QED
    BY <1>2, <1>6 DEF IsPort, PortFields
<1> HIDE DEF q
<1>8. Only(s, p, q, t)
  BY Zenon, <1>1, <1>7, PutIs DEF t
<1>9. IsBridge(t) /\ \A x \in Ports : x \in Enabled(t) <=> x \in Enabled(s)
  BY Zenon, <1>7, <1>8 DEF Only, Enabled
<1>10. \A x \in Ports : stp_is_designated_port(t, x) <=> stp_is_designated_port(s, x)
  BY Zenon, <1>7, <1>8 DEF Only, stp_is_designated_port
<1>11. /\ t.port[p].message_age = age /\ t.root_port = s.root_port
       /\ \A x \in Ports \ {p} : t.port[x].message_age = s.port[x].message_age
  BY Zenon, <1>7, <1>8 DEF Only
<1>12. Enabled(t) \subseteq Ports /\ Enabled(s) \subseteq Ports
  BY Zenon DEF Enabled
<1>13. CASE stp_timer_expired(v, elapsed, n)
  <2> DEFINE u == stp_become_designated_port(t, p)
  <2>1. PICK x : IsPort(x) /\ x.dbridge = t.id /\ x.dport = p /\ u = Put(t, p, x)
    BY Zenon, <1>9, DesignatedIs
  <2> HIDE DEF u
  <2>2. Only(t, p, x, u)
    BY Zenon, <1>9, <2>1, PutIs
  <2>3. IsBridge(u) /\ Untimed(u)
    <3>1. IsBridge(u) /\ stp_is_designated_port(u, p)
      BY Zenon, <2>1, <2>2 DEF Only, stp_is_designated_port
    <3>2. ASSUME NEW y \in Ports \ {p}, y \in Enabled(u), u.port[y].message_age = Off
          PROVE  stp_is_designated_port(u, y)
      <4>1. y \in Enabled(t) /\ t.port[y].message_age = Off
        <5>1. u.port[y] = t.port[y]
          BY Zenon, <2>2 DEF Only
        <5> QED
          BY <3>2, <5>1 DEF Enabled
      <4>2. stp_is_designated_port(t, y)
        BY Zenon, <1>1, <1>9, <1>10, <1>11, <4>1 DEF Untimed
      <4> QED
        BY Zenon, <2>2, <4>2 DEF Only, stp_is_designated_port
    <3> QED
      BY Zenon, <3>1, <3>2 DEF Untimed, Enabled
  <2> QED
    BY Zenon, <1>5, <1>13, <2>3, Reelected DEF u
<1>14. CASE ~stp_timer_expired(v, elapsed, n)
  <2>1. Like(q, s.port[p])
    BY Zenon, <1>6, <1>7, <1>14 DEF Like
  <2> QED
    BY Zenon, <1>5, <1>14, <2>1, PutLike DEF t
<1> QED
  BY <1>13, <1>14

\* A port whose delay is over: one that listens learns, and one that learns
\* forwards. No other port has a delay.
LEMMA Delayed ==
    ASSUME NEW r, IsPort(r), r.forward_delay # Off,
           NEW a, a = [r EXCEPT !.forward_delay = Off],
           NEW q, q = CASE a.state = "LISTENING" ->
                             [a EXCEPT !.state = "LEARNING", !.forward_delay = 0]
                        [] a.state = "LEARNING" -> [a EXCEPT !.state = "FORWARDING"]
                        [] OTHER -> a
    PROVE  Like(q, r)
<1>1. DOMAIN r = PortFields /\ r.state \in {"LISTENING", "LEARNING"}
  BY Zenon DEF IsPort
<1>2. a.state = r.state
  BY <1>1 DEF PortFields
<1>3. CASE r.state = "LISTENING"
  <2>1. q = [r EXCEPT !.state = "LEARNING", !.forward_delay = 0]
    BY <1>1, <1>2, <1>3 DEF PortFields
  <2> QED
    BY <1>3, <2>1 DEF IsPort, Like, PortFields, Timer, Off
<1>4. CASE r.state = "LEARNING"
  <2>1. q = [r EXCEPT !.state = "FORWARDING", !.forward_delay = Off]
    BY <1>1, <1>2, <1>4 DEF PortFields
  <2> QED
    BY <1>4, <2>1 DEF IsPort, Like, PortFields, Timer, Off
<1> QED
  BY <1>1, <1>3, <1>4

\* The forward delay of a port
LEMMA DelayTimed ==
    ASSUME NEW s, BridgeInv(s), NEW p \in Ports, NEW elapsed \in Nat
    PROVE  BridgeInv(ForwardDelayTimer(s, p, elapsed))
<1> DEFINE r == s.port[p]
           v == r.forward_delay
           n == s.times.forward
           x == Advance(v, elapsed, n)
           a == [r EXCEPT !.forward_delay = x]
           t == Put(s, p, a)
<1>1. /\ IsBridge(s) /\ DOMAIN s = BridgeFields /\ DOMAIN s.port = Ports
      /\ s.times \in Times /\ DOMAIN s.times = {"hello", "max_age", "forward"}
  BY DEF BridgeInv, IsBridge, Times
<1>2. IsPort(r) /\ DOMAIN r = PortFields /\ v \in Timer
  BY Zenon, <1>1 DEF IsBridge, IsPort
<1>3. n \in Nat
  BY <1>1 DEF Times
<1>4. [s EXCEPT !.port[p].forward_delay = Advance(@, elapsed, s.times.forward)] = t
  BY <1>1, <1>2 DEF Put, BridgeFields, PortFields
<1>5. ForwardDelayTimer(s, p, elapsed)
          = IF stp_timer_expired(v, elapsed, n) THEN stp_forward_delay_timer_expiry(t, p) ELSE t
  BY Zenon, <1>4 DEF ForwardDelayTimer
<1> HIDE DEF n, t
<1>6. /\ x \in Timer /\ (v = Off => x = Off)
      /\ ~stp_timer_expired(v, elapsed, n) /\ v # Off => x # Off
      /\ stp_timer_expired(v, elapsed, n) => x = Off
  BY Zenon, <1>2, <1>3, AdvanceIs
<1> HIDE DEF x
<1>7. CASE ~stp_timer_expired(v, elapsed, n)
  <2>1. v = Off <=> x = Off
    BY Zenon, <1>6, <1>7
  <2>2. Like(a, r)
    <3> HIDE DEF r
    <3> QED
      BY <1>2, <1>6, <2>1 DEF IsPort, Like, PortFields
  <2> QED
    BY Zenon, <1>5, <1>7, <2>2, PutLike DEF t
<1>8. CASE stp_timer_expired(v, elapsed, n)
  <2> DEFINE q == CASE a.state = "LISTENING" ->
                         [a EXCEPT !.state = "LEARNING", !.forward_delay = 0]
                    [] a.state = "LEARNING" -> [a EXCEPT !.state = "FORWARDING"]
                    [] OTHER -> a
             f == [t.port EXCEPT ![p] = q]
             w == Put(s, p, q)
             u == stp_set_port_state(t, f)
             c == stp_topology_change_detection(u)
  <2>1. v # Off /\ x = Off
    BY Zenon, <1>6, <1>8 DEF stp_timer_expired
  <2>2. Like(q, r)
    <3>1. a = [r EXCEPT !.forward_delay = Off]
      BY Zenon, <2>1
    <3> HIDE DEF a, r
    <3> QED
      BY Zenon, <1>2, <2>1, <3>1, Delayed DEF v
  <2> HIDE DEF a
  <2>3. DOMAIN t = BridgeFields /\ t.port = [s.port EXCEPT ![p] = a]
        /\ t.port[p] = a
    BY <1>1 DEF t, Put, BridgeFields
  <2>4. stp_forward_delay_timer_expiry(t, p) = u \/ stp_forward_delay_timer_expiry(t, p) = c
    BY Zenon, <2>3 DEF stp_forward_delay_timer_expiry
  <2> HIDE DEF q
  <2>5. BridgeInv(w) /\ IsBridge(w)
    BY Zenon, <2>2, PutLike DEF BridgeInv
  <2>6. w = [t EXCEPT !.port = f]
    <3>1. f = [s.port EXCEPT ![p] = q]
      BY <1>1, <2>3
    <3> HIDE DEF f
    <3>2. [t EXCEPT !.port = f] = [s EXCEPT !.port = f]
      <4> DEFINE g == [s.port EXCEPT ![p] = a]
      <4>1. t = [s EXCEPT !.port = g]
        BY Zenon DEF t, Put
      <4> HIDE DEF g
      <4> QED
        BY Zenon, <1>1, <4>1 DEF BridgeFields
    <3> QED
      BY Zenon, <3>1, <3>2 DEF Put
  <2> HIDE DEF w, f
  <2>7. Quiet(w, u)
    BY Zenon, <2>3, <2>5, <2>6, SetStateQuiet
  <2> HIDE DEF u
  <2>8. BridgeInv(u) /\ IsBridge(u)
    BY Zenon, <2>5, <2>7, QuietInv DEF BridgeInv
  <2>9. BridgeInv(c)
    BY Zenon, <2>8, DetectionQuiet, QuietInv
  <2> QED
    BY Zenon, <1>5, <1>8, <2>4, <2>8, <2>9
<1> QED
  BY <1>7, <1>8

\* The hold timer of a port
LEMMA HoldTimed ==
    ASSUME NEW s, BridgeInv(s), NEW p \in Ports, NEW elapsed
    PROVE  BridgeInv(HoldTimer(s, p, elapsed))
<1> DEFINE r == s.port[p]
           y == Advance(r.hold, elapsed, HoldTime)
           b == [r EXCEPT !.hold = y]
           u == Put(s, p, b)
<1>1. IsBridge(s) /\ DOMAIN s = BridgeFields /\ DOMAIN s.port = Ports
  BY Zenon DEF BridgeInv, IsBridge
<1>2. IsPort(r) /\ DOMAIN r = PortFields
  BY Zenon, <1>1 DEF IsBridge, IsPort
<1>3. [s EXCEPT !.port[p].hold = Advance(@, elapsed, HoldTime)] = u
  BY <1>1, <1>2 DEF Put, BridgeFields, PortFields
<1>4. HoldTimer(s, p, elapsed) = stp_transmit_config(u, {p}) \/ HoldTimer(s, p, elapsed) = u
  BY Zenon, <1>3 DEF HoldTimer
<1> HIDE DEF y
<1>5. SamePort(b, r)
  <2> HIDE DEF r
  <2> QED
    BY <1>2 DEF SamePort, PortFields
<1> HIDE DEF b
<1>6. BridgeInv(u) /\ IsBridge(u)
  BY Zenon, <1>1, <1>5, PutQuiet, QuietInv DEF BridgeInv
<1> HIDE DEF u
<1> QED
  BY Zenon, <1>4, <1>6, TransmitQuiet, QuietInv

\* The owner is told of the changes.
LEMMA ChangesTold ==
    ASSUME NEW s, BridgeInv(s)
    PROVE  BridgeInv(stp_get_changed_ports(s))
<1> DEFINE f == [p \in Ports |->
                    [s.port[p] EXCEPT !.changed = s.port[p].changed /\ p < s.first_changed]]
           t == [s EXCEPT !.port = f]
           u == [s EXCEPT !.port = f, !.first_changed = EndPort]
<1>1. IsBridge(s) /\ DOMAIN s = BridgeFields /\ DOMAIN s.port = Ports
  BY Zenon DEF BridgeInv, IsBridge
<1>2. stp_get_changed_ports(s) = u
  <2>1. \A p \in Ports : DOMAIN s.port[p] = PortFields
    BY Zenon, <1>1 DEF IsBridge, IsPort
  <2>2. [p \in Ports |-> [s.port[p] EXCEPT !.changed = @ /\ p < s.first_changed]] = f
    BY <2>1 DEF PortFields
  <2> HIDE DEF f
  <2> QED
    BY Zenon, <2>2 DEF stp_get_changed_ports
<1>3. ASSUME NEW p \in Ports PROVE SamePort(f[p], s.port[p])
  <2> DEFINE r == s.port[p]
             c == r.changed /\ p < s.first_changed
  <2>1. IsPort(r)
    BY Zenon, <1>1 DEF IsBridge
  <2>2. f[p] = [r EXCEPT !.changed = c]
    BY Zenon
  <2> HIDE DEF r, c, f
  <2>3. SamePort(f[p], r)
    BY <2>1, <2>2 DEF IsPort, SamePort, PortFields
  <2> QED
    BY Zenon, <2>3 DEF r
<1>4. DOMAIN f = Ports
  BY Zenon
<1> HIDE DEF f
<1>5. /\ DOMAIN u = BridgeFields /\ u.port = f /\ u.out = s.out
      /\ u.id = s.id /\ u.root = s.root /\ u.cost = s.cost /\ u.remainder = s.remainder
      /\ u.root_port = s.root_port /\ u.own_times = s.own_times /\ u.times = s.times
  BY <1>1 DEF BridgeFields
<1> HIDE DEF u
<1>6. DOMAIN s.out = Ports /\ s.times \in Times /\ \A p \in Ports : s.out[p] \in Seq(Bpdu)
  BY Zenon, <1>1 DEF IsBridge
<1>7. Quiet(s, u)
  BY Zenon, <1>3, <1>4, <1>5, <1>6 DEF Quiet
<1> QED
  BY Zenon, <1>2, <1>7, QuietInv

\* The bodies of the loops over the ports: of stp_start and of stp_tick
Visit(kind, c, s, p) ==
    CASE kind = "enable" -> IF p \in c THEN stp_port_enable(s, p) ELSE s
      [] kind = "age" -> IF p \in Enabled(s) THEN MessageAgeTimer(s, p, c) ELSE s
      [] kind = "move" -> IF p \in Enabled(s)
                          THEN HoldTimer(ForwardDelayTimer(s, p, c), p, c) ELSE s

\* What c is: ports there are, or the time that has passed
Visits(kind, c) == kind = "enable" \/ (kind \in {"age", "move"} /\ c \in Nat)

\* A turn of these loops keeps the invariant.
LEMMA Visited ==
    ASSUME NEW kind, NEW c, Visits(kind, c), NEW s, BridgeInv(s), NEW p \in Ports
    PROVE  BridgeInv(Visit(kind, c, s, p))
<1>1. CASE kind = "enable"
  <2>1. Visit(kind, c, s, p) = IF p \in c THEN stp_port_enable(s, p) ELSE s
    BY <1>1 DEF Visit
  <2> QED
    BY Zenon, <2>1, PortEnabled
<1>2. CASE kind = "age" /\ c \in Nat
  <2>1. Visit(kind, c, s, p) = IF p \in Enabled(s) THEN MessageAgeTimer(s, p, c) ELSE s
    BY <1>2 DEF Visit
  <2> QED
    BY Zenon, <1>2, <2>1, MessageAged
<1>3. CASE kind = "move" /\ c \in Nat
  <2>1. Visit(kind, c, s, p) = IF p \in Enabled(s)
                               THEN HoldTimer(ForwardDelayTimer(s, p, c), p, c) ELSE s
    BY <1>3 DEF Visit
  <2> QED
    BY Zenon, <1>3, <2>1, DelayTimed, HoldTimed
<1> QED
  BY <1>1, <1>2, <1>3 DEF Visits

\* There is a function that makes such a loop.
Loop(g, kind, c, base) ==
    \A s \in SUBSET Ports :
       g[s] = IF s = {} THEN base ELSE Visit(kind, c, g[s \ {Max(s)}], Max(s))

\* The ports are the first numbers, and so are taken in order.
LEMMA PortPlaces ==
    \E m \in Nat : /\ Ports = 1..m
                   /\ \A s \in SUBSET Ports :
                         s # {} => Max(s) \in Ports /\ s \ {Max(s)} \in SUBSET Ports
<1> DEFINE m == Cardinality(Ports)
<1>1. m \in Nat /\ Ports = 1..m
  BY StpAssumption, FS_CardinalityType
<1> HIDE DEF m
<1>2. \A s \in SUBSET (1..m) : s # {} => Max(s) \in 1..m /\ s \ {Max(s)} \in SUBSET (1..m)
  BY Zenon, <1>1, MaxIs
<1> QED
  BY Zenon, <1>1, <1>2

\* Such a function exists, whatever the loop does.
LEMMA LoopExists ==
    ASSUME NEW kind, NEW c, NEW base
    PROVE  \E g : DOMAIN g = SUBSET Ports /\ g = [s \in SUBSET Ports |-> g[s]]
                  /\ Loop(g, kind, c, base)
<1>1. PICK m \in Nat : Ports = 1..m
  BY Zenon, PortPlaces
<1> DEFINE P == SUBSET (1..m)
           next(g, s) == IF s = {} THEN base ELSE Visit(kind, c, g[s \ {Max(s)}], Max(s))
           Made(g) == DOMAIN g = P /\ g = [s \in P |-> g[s]]
           T == {n \in 0..m : \E g : Made(g) /\ \A s \in SUBSET (1..n) : g[s] = next(g, s)}
<1>2. 0 \in T
  <2> DEFINE g == [s \in P |-> base]
  <2>1. Made(g) /\ 0 \in 0..m
    OBVIOUS
  <2>2. \A s \in SUBSET (1..0) : s = {} /\ s \in P
    OBVIOUS
  <2>3. \A s \in SUBSET (1..0) : g[s] = next(g, s)
    BY <2>2
  <2> HIDE DEF g, next, P, Made
  <2> QED
    BY Zenon, <2>1, <2>3
<1>3. ASSUME NEW n \in 1..m, n - 1 \in T
      PROVE  n \in T
  <2> HIDE DEF next
  <2>1. PICK g : Made(g) /\ \A s \in SUBSET (1..(n - 1)) : g[s] = next(g, s)
    BY Zenon, <1>3
  <2> DEFINE h == [s \in P |-> next(g, s)]
  <2>2. Made(h)
    OBVIOUS
  <2>3. ASSUME NEW s \in SUBSET (1..(n - 1)) PROVE h[s] = g[s]
    <3>1. s \in P
      OBVIOUS
    <3>2. h[s] = next(g, s)
      BY <3>1
    <3> QED
      BY Zenon, <2>1, <3>2
  <2>4. ASSUME NEW s \in SUBSET (1..n) PROVE h[s] = next(h, s)
    <3>1. s \in P /\ n \in Nat
      OBVIOUS
    <3>2. h[s] = next(g, s)
      BY <3>1
    <3>3. s # {} => h[s \ {Max(s)}] = g[s \ {Max(s)}]
      BY Zenon, <2>3, <3>1, BeforeLast
    <3> HIDE DEF h
    <3> QED
      BY Zenon, <3>2, <3>3 DEF next
  <2>5. n \in 0..m
    OBVIOUS
  <2> HIDE DEF h, P, Made
  <2> QED
    BY Zenon, <2>2, <2>4, <2>5
<1>4. \A n \in 1..m : n - 1 \in T => n \in T
  BY Zenon, <1>3
<1> HIDE DEF T
<1>5. \A n \in 0..m : n \in T
  BY <1>2, <1>4, LoopInduction, Zenon
<1>6. m \in T
  BY <1>5
<1> QED
  BY Zenon, <1>1, <1>6 DEF T, Loop

\* The loop keeps the invariant.
LEMMA LoopKeeps ==
    ASSUME NEW kind, NEW c, Visits(kind, c), NEW base, BridgeInv(base),
           NEW g, Loop(g, kind, c, base)
    PROVE  BridgeInv(g[Ports])
<1>1. PICK m \in Nat : /\ Ports = 1..m
                       /\ \A s \in SUBSET Ports :
                             s # {} => Max(s) \in Ports /\ s \ {Max(s)} \in SUBSET Ports
  BY Zenon, PortPlaces
<1> DEFINE X == {x \in {g[s] : s \in SUBSET Ports} : BridgeInv(x)}
<1>2. g[{}] \in X
  <2>1. {} \in SUBSET Ports
    OBVIOUS
  <2>2. g[{}] = base
    BY Zenon, <2>1 DEF Loop
  <2> QED
    BY Zenon, <2>1, <2>2
<1>3. ASSUME NEW s \in SUBSET Ports, s # {}, g[s \ {Max(s)}] \in X PROVE g[s] \in X
  <2>1. g[s] = Visit(kind, c, g[s \ {Max(s)}], Max(s))
    BY Zenon, <1>3 DEF Loop
  <2>2. Max(s) \in Ports /\ BridgeInv(g[s \ {Max(s)}])
    BY Zenon, <1>1, <1>3
  <2>3. BridgeInv(g[s])
    BY Zenon, <2>1, <2>2, Visited
  <2> QED
    BY Zenon, <2>3
<1> HIDE DEF X
<1>4. \A s \in SUBSET (1..m) : s # {} /\ g[s \ {Max(s)}] \in X => g[s] \in X
  BY Zenon, <1>1, <1>3
<1>5. g[1..m] \in X
  BY Zenon, <1>2, <1>4, FoldKeeps
<1> QED
  BY Zenon, <1>1, <1>5 DEF X

\* The loops of stp_tick over the ports keep the invariant.
LEMMA LoopAged ==
    ASSUME NEW s, BridgeInv(s), NEW elapsed \in Nat
    PROVE  LET Aged(t, p) == IF p \in Enabled(t) THEN MessageAgeTimer(t, p, elapsed) ELSE t
           IN  BridgeInv(FoldLeft(Aged, s, [p \in Ports |-> p]))
<1> DEFINE ports == [p \in Ports |-> p]
           Aged(t, p) == IF p \in Enabled(t) THEN MessageAgeTimer(t, p, elapsed) ELSE t
           P == SUBSET Ports
           Body(g) == [x \in P |-> IF x = {} THEN s
                                   ELSE Aged(g[x \ {Max(x)}], ports[Max(x)])]
           iter == CHOOSE g : g = Body(g)
<1>1. FoldLeft(Aged, s, ports) = iter[Ports]
  BY DEF FoldLeft, MapThenFoldSet
<1>2. ASSUME NEW x \in P, x # {} PROVE Max(x) \in Ports /\ ports[Max(x)] = Max(x)
  <2>1. Max(x) \in Ports
    BY Zenon, <1>2, PortPlaces
  <2> QED
    BY Zenon, <2>1
<1>3. \A t, p : Aged(t, p) = Visit("age", elapsed, t, p)
  BY DEF Visit
<1> HIDE DEF Aged, ports
<1>4. iter = Body(iter)
  <2>1. PICK g : g = [x \in P |-> g[x]] /\ Loop(g, "age", elapsed, s)
    BY Zenon, LoopExists
  <2>2. ASSUME NEW x \in P
        PROVE  g[x] = IF x = {} THEN s ELSE Aged(g[x \ {Max(x)}], ports[Max(x)])
    BY Zenon, <1>2, <1>3, <2>1 DEF Loop
  <2>3. [x \in P |-> g[x]] = Body(g)
    BY Zenon, <2>2
  <2>4. g = Body(g)
    BY Zenon, <2>1, <2>3
  <2> HIDE DEF Body
  <2> QED
    BY Zenon, <2>4
<1> HIDE DEF iter
<1>5. Loop(iter, "age", elapsed, s)
  <2>1. ASSUME NEW x \in P
        PROVE  iter[x] = IF x = {} THEN s ELSE Visit("age", elapsed, iter[x \ {Max(x)}], Max(x))
    <3>1. iter[x] = IF x = {} THEN s ELSE Aged(iter[x \ {Max(x)}], ports[Max(x)])
      BY Zenon, <1>4
    <3> QED
      BY Zenon, <1>2, <1>3, <3>1
  <2> QED
    BY Zenon, <2>1 DEF Loop
<1>6. Visits("age", elapsed)
  BY DEF Visits
<1>7. BridgeInv(iter[Ports])
  BY Zenon, <1>5, <1>6, LoopKeeps
<1> QED
  BY Zenon, <1>1, <1>7 DEF Aged, ports

\* The second loop: the forward delay and hold timers
LEMMA LoopMoved ==
    ASSUME NEW s, BridgeInv(s), NEW elapsed \in Nat
    PROVE  LET Moved(t, p) == IF p \in Enabled(t)
                           THEN HoldTimer(ForwardDelayTimer(t, p, elapsed), p, elapsed) ELSE t
           IN  BridgeInv(FoldLeft(Moved, s, [p \in Ports |-> p]))
<1> DEFINE ports == [p \in Ports |-> p]
           Moved(t, p) == IF p \in Enabled(t)
                          THEN HoldTimer(ForwardDelayTimer(t, p, elapsed), p, elapsed) ELSE t
           P == SUBSET Ports
           Body(g) == [x \in P |-> IF x = {} THEN s
                                   ELSE Moved(g[x \ {Max(x)}], ports[Max(x)])]
           iter == CHOOSE g : g = Body(g)
<1>1. FoldLeft(Moved, s, ports) = iter[Ports]
  BY DEF FoldLeft, MapThenFoldSet
<1>2. ASSUME NEW x \in P, x # {} PROVE Max(x) \in Ports /\ ports[Max(x)] = Max(x)
  <2>1. Max(x) \in Ports
    BY Zenon, <1>2, PortPlaces
  <2> QED
    BY Zenon, <2>1
<1>3. \A t, p : Moved(t, p) = Visit("move", elapsed, t, p)
  BY DEF Visit
<1> HIDE DEF Moved, ports
<1>4. iter = Body(iter)
  <2>1. PICK g : g = [x \in P |-> g[x]] /\ Loop(g, "move", elapsed, s)
    BY Zenon, LoopExists
  <2>2. ASSUME NEW x \in P
        PROVE  g[x] = IF x = {} THEN s ELSE Moved(g[x \ {Max(x)}], ports[Max(x)])
    BY Zenon, <1>2, <1>3, <2>1 DEF Loop
  <2>3. [x \in P |-> g[x]] = Body(g)
    BY Zenon, <2>2
  <2>4. g = Body(g)
    BY Zenon, <2>1, <2>3
  <2> HIDE DEF Body
  <2> QED
    BY Zenon, <2>4
<1> HIDE DEF iter
<1>5. Loop(iter, "move", elapsed, s)
  <2>1. ASSUME NEW x \in P
        PROVE  iter[x] = IF x = {} THEN s ELSE Visit("move", elapsed, iter[x \ {Max(x)}], Max(x))
    <3>1. iter[x] = IF x = {} THEN s ELSE Moved(iter[x \ {Max(x)}], ports[Max(x)])
      BY Zenon, <1>4
    <3> QED
      BY Zenon, <1>2, <1>3, <3>1
  <2> QED
    BY Zenon, <2>1 DEF Loop
<1>6. Visits("move", elapsed)
  BY DEF Visits
<1>7. BridgeInv(iter[Ports])
  BY Zenon, <1>5, <1>6, LoopKeeps
<1> QED
  BY Zenon, <1>1, <1>7 DEF Moved, ports

\* Time passes (stp_tick).
LEMMA Ticked ==
    ASSUME NEW s, BridgeInv(s), NEW ms \in Nat
    PROVE  BridgeInv(stp_tick(s, ms))
<1> DEFINE total == ms + s.remainder
           elapsed == ms_to_timer(total)
           rest == ms_to_timer_remainder(total)
           kept == [s EXCEPT !.remainder = rest]
           bridged == TopologyChangeTimer(TcnTimer(HelloTimer(kept, elapsed), elapsed), elapsed)
           ports == [p \in Ports |-> p]
           Aged(t, p) == IF p \in Enabled(t) THEN MessageAgeTimer(t, p, elapsed) ELSE t
           Moved(t, p) == IF p \in Enabled(t)
                          THEN HoldTimer(ForwardDelayTimer(t, p, elapsed), p, elapsed) ELSE t
           aged == FoldLeft(Aged, bridged, ports)
           moved == FoldLeft(Moved, aged, ports)
<1>1. stp_tick(s, ms) = IF elapsed = 0 THEN kept ELSE moved
  BY Zenon DEF stp_tick
<1>2. IsBridge(s) /\ s.remainder \in Nat
  BY Zenon DEF BridgeInv, IsBridge
<1>3. total \in Nat
  BY <1>2
<1> HIDE DEF total
<1>4. elapsed \in Nat /\ rest \in Nat
  BY <1>3 DEF ms_to_timer, ms_to_timer_remainder
<1> HIDE DEF elapsed, rest
<1>5. /\ DOMAIN kept = BridgeFields /\ kept.port = s.port /\ kept.out = s.out
      /\ kept.id = s.id /\ kept.root = s.root /\ kept.cost = s.cost /\ kept.remainder = rest
      /\ kept.root_port = s.root_port /\ kept.own_times = s.own_times /\ kept.times = s.times
  BY <1>2 DEF IsBridge, BridgeFields
<1> HIDE DEF kept
<1>6. BridgeInv(kept)
  <2>1. IsBridge(kept)
    BY Zenon, <1>2, <1>4, <1>5 DEF IsBridge
  <2>2. /\ Enabled(kept) = Enabled(s)
        /\ \A p \in Ports : stp_is_designated_port(kept, p) <=> stp_is_designated_port(s, p)
    BY Zenon, <1>5 DEF Enabled, stp_is_designated_port
  <2>3. /\ Enabled(s) \subseteq Ports /\ Untimed(s) /\ RootFollows(s) /\ DesignatedOff(s)
        /\ RolesShown(s)
    BY Zenon DEF Enabled, BridgeInv
  <2>4. Untimed(kept)
    BY Zenon, <1>5, <2>2, <2>3 DEF Untimed
  <2>5. DesignatedOff(kept)
    BY Zenon, <1>5, <2>2, <2>3 DEF DesignatedOff
  <2>6. RootFollows(kept)
    BY Zenon, <1>5, <2>2, <2>3 DEF RootFollows
  <2>7. RolesShown(kept)
    BY Zenon, <1>5, <2>2, <2>3 DEF RolesShown
  <2> QED
    BY Zenon, <2>1, <2>4, <2>5, <2>6, <2>7 DEF BridgeInv
<1>7. BridgeInv(bridged)
  BY Zenon, <1>6, BridgeTimers
<1> HIDE DEF bridged
<1>8. BridgeInv(aged)
  BY Zenon, <1>4, <1>7, LoopAged
<1> HIDE DEF aged
<1>9. BridgeInv(moved)
  BY Zenon, <1>4, <1>8, LoopMoved
<1> HIDE DEF moved
<1> QED
  BY Zenon, <1>1, <1>6, <1>9

\* A bridge whose ports are not in use yet (stp_create)
LEMMA Created ==
    ASSUME NEW b \in Nat
    PROVE  BridgeInv(stp_create(b, DefaultTimes))
<1> DEFINE s == stp_create(b, DefaultTimes)
<1>1. DefaultTimes \in Times
  BY DEF DefaultTimes, Times, ms_to_timer
<1>2. /\ DOMAIN s = BridgeFields /\ s.id = b /\ s.root = b /\ s.cost = 0 /\ s.remainder = 0
      /\ s.root_port = NoPort /\ s.own_times = DefaultTimes /\ s.times = DefaultTimes
  BY DEF stp_create, BridgeFields
<1>3. DOMAIN s.out = Ports /\ \A p \in Ports : s.out[p] \in Seq(Bpdu)
  BY DEF stp_create
<1>4. DOMAIN s.port = Ports /\ \A p \in Ports :
          /\ DOMAIN s.port[p] = PortFields /\ s.port[p].path_cost = 19
          /\ s.port[p].droot = b /\ s.port[p].dcost = 0 /\ s.port[p].dbridge = b
          /\ s.port[p].dport = p /\ s.port[p].message_age = Off /\ s.port[p].state = "DISABLED"
          /\ s.port[p].forward_delay = Off
  BY DEF stp_create, PortFields, DefaultCost
<1> HIDE DEF s
<1>5. 0 \in Nat /\ 19 \in Nat \ {0} /\ Off \in Timer
  BY DEF Timer
<1>6. \A p \in Ports : IsPort(s.port[p])
  <2> SUFFICES ASSUME NEW p \in Ports PROVE IsPort(s.port[p])
    OBVIOUS
  <2>1. p \in Nat
    BY PortNumbers
  <2> QED
    BY <1>4, <1>5, <2>1 DEF IsPort
<1>7. IsBridge(s)
  BY Zenon, <1>1, <1>2, <1>3, <1>4, <1>5, <1>6 DEF IsBridge
<1>8. Enabled(s) = {}
  BY Zenon, <1>4 DEF Enabled
<1> QED
  BY Zenon, <1>2, <1>7, <1>8 DEF BridgeInv, Untimed, RootFollows, DesignatedOff, RolesShown, s

\* So does the loop that starts a bridge.
LEMMA StartedInv ==
    ASSUME NEW n, NEW b \in Nat
    PROVE  BridgeInv(Started(n, b))
<1> DEFINE s == stp_create(b, DefaultTimes)
           ends == UNION n.links
           c == {p \in Ports : <<b, p>> \in ends}
           ports == [p \in Ports |-> p]
           Entered(t, p) == IF <<b, p>> \in ends THEN stp_port_enable(t, p) ELSE t
           P == SUBSET Ports
           Body(g) == [x \in P |-> IF x = {} THEN s
                                   ELSE Entered(g[x \ {Max(x)}], ports[Max(x)])]
           iter == CHOOSE g : g = Body(g)
<1>1. Started(n, b) = iter[Ports]
  BY DEF Started, FoldLeft, MapThenFoldSet
<1>2. ASSUME NEW x \in P, x # {} PROVE Max(x) \in Ports /\ ports[Max(x)] = Max(x)
  <2>1. Max(x) \in Ports
    BY Zenon, <1>2, PortPlaces
  <2> QED
    BY Zenon, <2>1
<1>3. \A t : \A p \in Ports : Entered(t, p) = Visit("enable", c, t, p)
  BY DEF Visit
<1> HIDE DEF Entered, ports, c, s, ends
<1>4. iter = Body(iter)
  <2>1. PICK g : g = [x \in P |-> g[x]] /\ Loop(g, "enable", c, s)
    BY Zenon, LoopExists
  <2>2. ASSUME NEW x \in P
        PROVE  g[x] = IF x = {} THEN s ELSE Entered(g[x \ {Max(x)}], ports[Max(x)])
    <3>1. x # {} => /\ ports[Max(x)] = Max(x)
                    /\ Entered(g[x \ {Max(x)}], Max(x))
                          = Visit("enable", c, g[x \ {Max(x)}], Max(x))
      BY Zenon, <1>2, <1>3
    <3> QED
      BY Zenon, <2>1, <3>1 DEF Loop
  <2>3. [x \in P |-> g[x]] = Body(g)
    BY Zenon, <2>2
  <2>4. g = Body(g)
    BY Zenon, <2>1, <2>3
  <2> HIDE DEF Body
  <2> QED
    BY Zenon, <2>4
<1> HIDE DEF iter
<1>5. Loop(iter, "enable", c, s)
  <2>1. ASSUME NEW x \in P
        PROVE  iter[x] = IF x = {} THEN s ELSE Visit("enable", c, iter[x \ {Max(x)}], Max(x))
    <3>1. iter[x] = IF x = {} THEN s ELSE Entered(iter[x \ {Max(x)}], ports[Max(x)])
      BY Zenon, <1>4
    <3> QED
      BY Zenon, <1>2, <1>3, <3>1
  <2> QED
    BY Zenon, <2>1 DEF Loop
<1>6. Visits("enable", c)
  BY DEF Visits
<1>7. BridgeInv(iter[Ports])
  BY Zenon, <1>5, <1>6, Created, LoopKeeps DEF s
<1> QED
  BY Zenon, <1>1, <1>7

\* Every bridge of the network is in order.
BridgesInv ==
    net \in Networks /\ DOMAIN bridge = Running /\ \A b \in Running : BridgeInv(bridge[b])

\* Every end of a link is a port of a bridge, and has a peer.
LEMMA EndsAre ==
    ASSUME net \in Networks
    PROVE  /\ Running \subseteq Nat
           /\ \A e \in Ends : e[1] \in Running /\ e[2] \in Ports /\ Peer(e) \in Ends
<1>1. /\ Links \subseteq SUBSET (Bridges \X Ports) /\ Bridges \subseteq Nat
      /\ \A l \in Links : IsFiniteSet(l) /\ Cardinality(l) = 2
  BY Zenon, SpanningTreeAssumption DEF Links
<1>2. ASSUME NEW e \in Ends PROVE e \in Bridges \X Ports
  BY Zenon, <1>1 DEF Ends
<1>3. \A e \in Ends : e[1] \in Nat /\ e[2] \in Ports
  BY Zenon, <1>1, <1>2
<1>4. ASSUME NEW e \in Ends PROVE Peer(e) \in Ends
  <2>1. PICK l \in Links : e \in l
    BY Zenon DEF Ends
  <2>2. LinkOf(e) \in Links
    BY Zenon, <2>1 DEF LinkOf
  <2> DEFINE m == LinkOf(e)
  <2> HIDE DEF m
  <2>3. m \in Links
    BY Zenon, <2>2 DEF m
  <2>4. \E f \in m : f # e
    <3> SUFFICES ASSUME \A f \in m : f = e PROVE FALSE
      OBVIOUS
    <3>1. m \subseteq {e}
      OBVIOUS
    <3>2. IsFiniteSet({e}) /\ Cardinality({e}) = 1
      BY Zenon, FS_Singleton
    <3>3. Cardinality(m) <= Cardinality({e}) /\ Cardinality(m) = 2
      BY <1>1, <2>3, <3>1, <3>2, FS_Subset
    <3> QED
      BY <3>2, <3>3
  <2>5. Peer(e) \in m
    BY Zenon, <2>4 DEF Peer, m
  <2> QED
    BY Zenon, <2>3, <2>5 DEF Ends
<1> QED
  BY Zenon, <1>3, <1>4 DEF Running

\* Bridges start in order.
LEMMA BridgesInitial == Init => BridgesInv
<1> SUFFICES ASSUME Init PROVE BridgesInv
  OBVIOUS
<1>1. net \in Networks /\ bridge = [b \in Running |-> Started(net, b)]
  BY Zenon DEF Init
<1>2. \A b \in Running : BridgeInv(Started(net, b))
  BY Zenon, <1>1, EndsAre, StartedInv
<1> QED
  BY Zenon, <1>1, <1>2 DEF BridgesInv

\* One bridge is given a state that is in order.
LEMMA BridgePut ==
    ASSUME NEW f, NEW R, DOMAIN f = R, \A b \in R : BridgeInv(f[b]), NEW a \in R,
           NEW s, BridgeInv(s), NEW g, g = [f EXCEPT ![a] = s]
    PROVE  DOMAIN g = R /\ \A b \in R : BridgeInv(g[b])
<1>1. DOMAIN g = R /\ \A b \in R : g[b] = IF b = a THEN s ELSE f[b]
  OBVIOUS
<1> QED
  BY Zenon, <1>1

\* What a port has on the wire is taken off it.
LEMMA TakenInv ==
    ASSUME BridgesInv, NEW e \in OnWire
    PROVE  /\ DOMAIN Taken(e) = Running /\ \A b \in Running : BridgeInv(Taken(e)[b])
           /\ Head(bridge[e[1]].out[e[2]]) \in Bpdu
<1> DEFINE s == bridge[e[1]]
           t == [s EXCEPT !.out[e[2]] = Tail(@)]
<1>1. e[1] \in Running /\ e[2] \in Ports /\ s.out[e[2]] # <<>>
  BY Zenon, EndsAre DEF OnWire, BridgesInv
<1>2. BridgeInv(s) /\ DOMAIN bridge = Running
  BY Zenon, <1>1 DEF BridgesInv
<1>3. BridgeInv(t) /\ Head(s.out[e[2]]) \in Bpdu
  BY Zenon, <1>1, <1>2, OutTaken
<1>4. Taken(e) = [bridge EXCEPT ![e[1]] = t]
  BY Zenon, <1>1, <1>2 DEF Taken
<1> HIDE DEF t
<1>5. DOMAIN Taken(e) = Running /\ \A b \in Running : BridgeInv(Taken(e)[b])
  BY Zenon, <1>1, <1>2, <1>3, <1>4, BridgePut DEF BridgesInv
<1> QED
  BY Zenon, <1>3, <1>5

\* No step of the network, an event among them, puts a bridge out of order.
LEMMA BridgesStep == BridgesInv /\ [Next]_vars => BridgesInv'
<1> SUFFICES ASSUME BridgesInv, [Next]_vars PROVE BridgesInv'
  OBVIOUS
<1> DEFINE Kept(g) == DOMAIN g = Running /\ \A b \in Running : BridgeInv(g[b])
<1>1. /\ net \in Networks /\ DOMAIN bridge = Running /\ \A b \in Running : BridgeInv(bridge[b])
      /\ \A e \in Ends : e[1] \in Running /\ e[2] \in Ports /\ Peer(e) \in Ends
  BY Zenon, EndsAre DEF BridgesInv
<1>2. SUFFICES net' = net /\ Kept(bridge')
  BY Zenon, <1>1, <1>2 DEF BridgesInv, Running, Ends, Links
<1>3. ASSUME NEW a \in Running, NEW s, BridgeInv(s), bridge' = [bridge EXCEPT ![a] = s]
      PROVE  Kept(bridge')
  BY Zenon, <1>1, <1>3, BridgePut
<1> HIDE DEF Kept
<1>4. ASSUME NEW b \in Running, stp_periodic_cb(b) PROVE net' = net /\ Kept(bridge')
  <2> DEFINE s == stp_get_changed_ports(stp_tick(bridge[b], TickMs))
  <2>1. net' = net /\ bridge' = [bridge EXCEPT ![b] = s]
    BY Zenon, <1>1, <1>4 DEF stp_periodic_cb
  <2>2. BridgeInv(s)
    <3>1. TickMs \in Nat
      BY SpanningTreeAssumption
    <3> QED
      BY Zenon, <1>1, <3>1, Ticked, ChangesTold
  <2> QED
    BY Zenon, <1>3, <2>1, <2>2
<1>5. ASSUME NEW b \in Running, NEW id \in NewIds, stp_local_port_changed_cb(b, id)
      PROVE  net' = net /\ Kept(bridge')
  <2> DEFINE s == set_bridge_id(bridge[b], id)
  <2>1. net' = net /\ bridge' = [bridge EXCEPT ![b] = s]
    BY Zenon, <1>1, <1>5 DEF stp_local_port_changed_cb, Event
  <2>2. BridgeInv(s)
    <3>1. id \in Nat
      BY SpanningTreeAssumption
    <3> QED
      BY Zenon, <1>1, <3>1, Renamed
  <2> QED
    BY Zenon, <1>3, <2>1, <2>2
<1>6. ASSUME NEW e \in Ends, Deliver(e) PROVE net' = net /\ Kept(bridge')
  <2> DEFINE t == Taken(e)
             a == Peer(e)[1]
             p == Peer(e)[2]
             s == stp_received_bpdu(t[a], p, Head(bridge[e[1]].out[e[2]]))
  <2>1. /\ DOMAIN t = Running /\ \A b \in Running : BridgeInv(t[b])
        /\ Head(bridge[e[1]].out[e[2]]) \in Bpdu
    BY Zenon, <1>6, TakenInv DEF Deliver
  <2>2. a \in Running /\ p \in Ports
    BY Zenon, <1>1
  <2> HIDE DEF t, a, p
  <2>3. BridgeInv(s)
    BY Zenon, <2>1, <2>2, Received
  <2>4. net' = net /\ (bridge' = t \/ bridge' = [t EXCEPT ![a] = s])
    BY Zenon, <1>6, <2>1, <2>2 DEF Deliver, t, a, p
  <2> HIDE DEF s
  <2> QED
    BY Zenon, <2>1, <2>2, <2>3, <2>4, BridgePut DEF Kept
<1>7. ASSUME NEW e \in Ends, Lose(e) PROVE net' = net /\ Kept(bridge')
  BY Zenon, <1>7, TakenInv DEF Lose, Event, Kept
<1>8. ASSUME NEW e \in Ends, PortGone(e) PROVE net' = net /\ Kept(bridge')
  <2> DEFINE s == stp_port_disable(bridge[e[1]], e[2])
  <2>1. net' = net /\ bridge' = [bridge EXCEPT ![e[1]] = s]
    BY Zenon, <1>1, <1>8 DEF PortGone, Event
  <2>2. BridgeInv(s)
    BY Zenon, <1>1, PortDisabled
  <2> QED
    BY Zenon, <1>1, <1>3, <2>1, <2>2
<1>9. ASSUME NEW e \in Ends, NEW c \in Costs, PortChanged(e, c) PROVE net' = net /\ Kept(bridge')
  <2> DEFINE s == stp_port_set_path_cost(stp_port_enable(bridge[e[1]], e[2]), e[2], c)
  <2>1. net' = net /\ bridge' = [bridge EXCEPT ![e[1]] = s]
    BY Zenon, <1>1, <1>9 DEF PortChanged, Event
  <2>2. BridgeInv(s)
    <3>1. c \in Nat \ {0}
      BY SpanningTreeAssumption
    <3> QED
      BY Zenon, <1>1, <3>1, PortEnabled, PathCostSet
  <2> QED
    BY Zenon, <1>1, <1>3, <2>1, <2>2
<1>10. ASSUME NEW l \in Links, Cut(l) PROVE net' = net /\ Kept(bridge')
  BY Zenon, <1>1, <1>10 DEF Cut, Event, Kept
<1>11. CASE UNCHANGED vars
  BY Zenon, <1>1, <1>11 DEF vars, Kept
<1> QED
  BY Zenon, <1>4, <1>5, <1>6, <1>7, <1>8, <1>9, <1>10, <1>11 DEF Next

\* A port in use that follows a neighbour has a running timer on what the
\* neighbour said (stp_record_config_information), and a designated port has none:
\* for any network, whatever is lost, cut, disabled, renamed or late, information
\* of a neighbour that has died expires (stp_message_age_timer_expiry).
THEOREM FollowersKeepTimers == Spec => []FollowersAge
<1>1. BridgesInv => FollowersAge
  <2> SUFFICES ASSUME BridgesInv, NEW b \in Running, NEW p \in Enabled(bridge[b])
               PROVE  stp_is_designated_port(bridge[b], p) <=> bridge[b].port[p].message_age = Off
    BY Zenon DEF FollowersAge
  <2>1. Untimed(bridge[b]) /\ DesignatedOff(bridge[b])
    BY Zenon DEF BridgesInv, BridgeInv
  <2> QED
    BY Zenon, <2>1 DEF Untimed, DesignatedOff
<1> QED
  BY <1>1, BridgesInitial, BridgesStep, PTL DEF Spec

\* The port to the root, of a bridge that has one
RootPortTimed ==
    \A b \in Running :
        LET s == bridge[b]
        IN  s.root_port # NoPort => /\ s.root_port \in Enabled(s)
                                    /\ s.port[s.root_port].message_age # Off

\* The root port of a bridge is in use and ages: after any event
\* (stp_port_disable, set_bridge_id, stp_port_set_path_cost, an expired timer) the
\* bridge has left a port that no longer leads to the root it believes in.
THEOREM RootPortsAge == Spec => []RootPortTimed
<1>1. BridgesInv => RootPortTimed
  <2> SUFFICES ASSUME BridgesInv, NEW b \in Running, bridge[b].root_port # NoPort
               PROVE  /\ bridge[b].root_port \in Enabled(bridge[b])
                      /\ bridge[b].port[bridge[b].root_port].message_age # Off
    BY Zenon DEF RootPortTimed
  <2>1. Untimed(bridge[b]) /\ RootFollows(bridge[b])
    BY Zenon DEF BridgesInv, BridgeInv
  <2> QED
    BY Zenon, <2>1 DEF Untimed, RootFollows
<1> QED
  BY <1>1, BridgesInitial, BridgesStep, PTL DEF Spec

\* What the port states say of the roles, and what the delay says of the states
StatesFollowRoles ==
    \A b \in Running : \A p \in Enabled(bridge[b]) :
        LET s == bridge[b]
        IN  /\ s.port[p].state = "BLOCKING"
                  <=> p # s.root_port /\ ~stp_is_designated_port(s, p)
            /\ s.port[p].forward_delay # Off
                  <=> s.port[p].state \in {"LISTENING", "LEARNING"}

\* After any event (stp_port_state_selection at the end of each), the blocked ports of
\* a bridge are those that are neither its root port nor designated, and a port is
\* delayed exactly while it listens or learns (stp_make_forwarding,
\* stp_make_blocking, stp_forward_delay_timer_expiry): none is left between two
\* states without the timer that takes it on.
THEOREM PortStates == Spec => []StatesFollowRoles
<1>1. BridgesInv => StatesFollowRoles
  <2> SUFFICES ASSUME BridgesInv, NEW b \in Running, NEW p \in Enabled(bridge[b])
               PROVE  /\ bridge[b].port[p].state = "BLOCKING"
                            <=> p # bridge[b].root_port /\ ~stp_is_designated_port(bridge[b], p)
                      /\ bridge[b].port[p].forward_delay # Off
                            <=> bridge[b].port[p].state \in {"LISTENING", "LEARNING"}
    BY Zenon DEF StatesFollowRoles
  <2>1. IsBridge(bridge[b]) /\ RolesShown(bridge[b]) /\ p \in Ports
    BY Zenon DEF BridgesInv, BridgeInv, Enabled
  <2>2. IsPort(bridge[b].port[p])
    BY Zenon, <2>1 DEF IsBridge
  <2> QED
    BY Zenon, <2>1, <2>2 DEF RolesShown, IsPort
<1> QED
  BY <1>1, BridgesInitial, BridgesStep, PTL DEF Spec
===========================================================================
