-------------------------------- MODULE Stp --------------------------------
(***************************************************************************)
(* One bridge of the spanning tree protocol (struct stp, lib/stp.c): its   *)
(* functions, each from a bridge record to the bridge record it leaves     *)
(* behind. Times are in timer ticks of 1/256 s, as in the code.            *)
(***************************************************************************)
EXTENDS Integers, Sequences, FiniteSets, SequencesExt

CONSTANTS Ports,        \* port ids of a bridge, 1 .. n
          LittleEndian  \* what htons does to a constant

ASSUME StpAssumption ==
    /\ IsFiniteSet(Ports) /\ Ports # {} /\ Ports = 1 .. Cardinality(Ports)
    /\ LittleEndian \in BOOLEAN

MESSAGE_AGE_INCREMENT == 1
Off == -1             \* a timer that is not active
NoPort == 0           \* a null root_port
EndPort == Cardinality(Ports) + 1

ms_to_timer(ms) == (ms * 256) \div 1000
ms_to_timer_remainder(ms) == (ms * 256) % 1000

(* stp_create: a 2 s hello time, 6 s max age, 4 s forward delay            *)
DefaultTimes == [hello |-> ms_to_timer(2000), max_age |-> ms_to_timer(6000),
                 forward |-> ms_to_timer(4000)]
HoldTime == ms_to_timer(1000)
DefaultCost == 19     \* of a 100 Mb/s link

(* The flags byte of a configuration message: what is or-ed into it, and   *)
(* what it is and-ed with, is a 16-bit constant in network byte order.     *)
htons(x) == IF LittleEndian THEN (x % 256) * 256 + x \div 256 ELSE x
ACK == {htons(128)}
CHANGE == {htons(1)}
Byte(bits) == {x \in bits : x < 256}

Enabled(s) == {p \in Ports : s.port[p].state # "DISABLED"}
stp_is_root_bridge(s) == s.id = s.root
stp_is_designated_port(s, p) == s.port[p].dbridge = s.id /\ s.port[p].dport = p

-----------------------------------------------------------------------------
(* Sending                                                                 *)

(* message_age of what the bridge sends                                    *)
Age(s) == IF stp_is_root_bridge(s) THEN 0
          ELSE s.port[s.root_port].message_age + MESSAGE_AGE_INCREMENT

ConfigBpdu(s, p) ==
    [type |-> "CONFIG", age |-> Age(s), times |-> s.times,
     flags |-> Byte((IF s.port[p].ack THEN ACK ELSE {})
                        \union (IF s.topology_change THEN CHANGE ELSE {})),
     root |-> s.root, cost |-> s.cost, bridge |-> s.id, port |-> p]

(* stp_transmit_config on every port of P                                  *)
stp_transmit_config(s, P) ==
    LET held == {p \in P : s.port[p].hold # Off}
        sends == {p \in P \ held : Age(s) < s.times.max_age}
    IN  IF ~stp_is_root_bridge(s) /\ s.root_port = NoPort THEN s
        ELSE [s EXCEPT
                !.port = [p \in Ports |->
                            IF p \in held THEN [@[p] EXCEPT !.pending = TRUE]
                            ELSE IF p \in sends
                            THEN [@[p] EXCEPT !.ack = FALSE, !.pending = FALSE, !.hold = 0]
                            ELSE @[p]],
                !.out = [p \in Ports |-> IF p \in sends THEN Append(@[p], ConfigBpdu(s, p))
                                         ELSE @[p]]]

stp_config_bpdu_generation(s) ==
    stp_transmit_config(s, {p \in Enabled(s) : stp_is_designated_port(s, p)})

stp_transmit_tcn(s) ==
    IF s.root_port = NoPort THEN s
    ELSE [s EXCEPT !.out[s.root_port] = Append(@, [type |-> "TCN"])]

stp_topology_change_detection(s) ==
    IF stp_is_root_bridge(s)
    THEN [s EXCEPT !.topology_change = TRUE, !.topology_change_timer = 0, !.detected = TRUE]
    ELSE IF s.detected THEN s
    ELSE [stp_transmit_tcn(s) EXCEPT !.tcn_timer = 0, !.detected = TRUE]

-----------------------------------------------------------------------------
(* Port states. stp_set_port_state on every port whose state differs in f, *)
(* with the record of the changes that stp_get_changed_port reads.         *)
stp_set_port_state(s, f) ==
    LET new == {p \in Ports : f[p].state # s.port[p].state /\ ~s.port[p].changed}
    IN  [s EXCEPT !.port = [p \in Ports |-> [f[p] EXCEPT !.changed = @ \/ p \in new]],
                  !.first_changed = CHOOSE q \in new \union {@} :
                                        \A r \in new \union {@} : q <= r]

(* Every port for which stp_get_changed_port returns true.                 *)
stp_get_changed_ports(s) ==
    [s EXCEPT !.port = [p \in Ports |->
                            [s.port[p] EXCEPT !.changed = @ /\ p < s.first_changed]],
              !.first_changed = EndPort]

stp_make_forwarding(r) ==
    IF r.state = "BLOCKING" THEN [r EXCEPT !.state = "LISTENING", !.forward_delay = 0] ELSE r

(* Mutant: only a port that forwards already is stopped.                   *)
BlockForwardingOnly(r) ==
    IF r.state # "FORWARDING" THEN r
    ELSE [r EXCEPT !.state = "BLOCKING", !.forward_delay = Off]

stp_make_blocking(r) ==
    IF r.state = "BLOCKING" THEN r
    ELSE [r EXCEPT !.state = "BLOCKING", !.forward_delay = Off]

(* Detecting a topology change twice is detecting it once.                 *)
stp_port_state_selection(s) ==
    LET Selected(p) ==
            LET r == s.port[p]
                quiet == [r EXCEPT !.pending = FALSE, !.ack = FALSE]
            IN  IF r.state = "DISABLED" THEN r
                ELSE IF p = s.root_port THEN stp_make_forwarding(quiet)
                ELSE IF stp_is_designated_port(s, p)
                THEN stp_make_forwarding([r EXCEPT !.message_age = Off])
                ELSE stp_make_blocking(quiet)
        selected == stp_set_port_state(s, [p \in Ports |-> Selected(p)])
    IN  IF \E p \in Ports : /\ s.port[p].state \in {"LEARNING", "FORWARDING"}
                            /\ selected.port[p].state = "BLOCKING"
        THEN stp_topology_change_detection(selected)
        ELSE selected

-----------------------------------------------------------------------------
(* The election                                                            *)

(* The first difference decides.                                           *)
Before(a, b) == \E i \in DOMAIN a : a[i] < b[i] /\ \A j \in 1 .. i - 1 : a[j] = b[j]

stp_supersedes_port_info(s, p, c) ==
    LET r == s.port[p]
        info == <<r.droot, r.dcost, r.dbridge>>
        news == <<c.root, c.cost, c.bridge>>
    IN  \/ Before(news, info)
        \/ news = info /\ (c.bridge # s.id \/ c.port <= r.dport)

stp_supersedes_root(s, root, p) ==
    LET Key(q) == <<s.port[q].droot, s.port[q].dcost + s.port[q].path_cost,
                    s.port[q].dbridge, s.port[q].dport, q>>
    IN  Before(Key(p), Key(root))

stp_root_selection(s) ==
    LET candidates == {p \in Enabled(s) : /\ ~stp_is_designated_port(s, p)
                                          /\ s.port[p].droot < s.id}
        root == CHOOSE p \in candidates :
                    \A q \in candidates \ {p} : stp_supersedes_root(s, q, p)
    IN  IF candidates = {}
        THEN [s EXCEPT !.root_port = NoPort, !.root = s.id, !.cost = 0]
        ELSE [s EXCEPT !.root_port = root, !.root = s.port[root].droot,
                       !.cost = s.port[root].dcost + s.port[root].path_cost]

stp_become_designated_port(s, p) ==
    [s EXCEPT !.port[p].droot = s.root, !.port[p].dcost = s.cost,
              !.port[p].dbridge = s.id, !.port[p].dport = p]

stp_designated_port_selection(s) ==
    LET Designated(p) ==
            LET r == s.port[p]
            IN  /\ r.state # "DISABLED"
                /\ \/ stp_is_designated_port(s, p)
                   \/ r.droot # s.root
                   \/ Before(<<s.cost, s.id, p>>, <<r.dcost, r.dbridge, r.dport + 1>>)
    IN  [s EXCEPT !.port = [p \in Ports |-> IF Designated(p)
                                            THEN stp_become_designated_port(s, p).port[p]
                                            ELSE s.port[p]]]

stp_configuration_update(s) == stp_designated_port_selection(stp_root_selection(s))

(* stp_become_root_bridge, which stp_message_age_timer_expiry repeats      *)
stp_become_root_bridge(s) ==
    LET changed == stp_topology_change_detection([s EXCEPT !.times = s.own_times])
    IN  [stp_config_bpdu_generation([changed EXCEPT !.tcn_timer = Off])
            EXCEPT !.hello_timer = 0]

(* The end of the functions that may make the bridge the root.             *)
Reelect(s, was_root) ==
    LET t == stp_port_state_selection(stp_configuration_update(s))
    IN  IF stp_is_root_bridge(t) /\ ~was_root THEN stp_become_root_bridge(t) ELSE t

-----------------------------------------------------------------------------
(* What the owner of the bridge calls                                      *)

stp_initialize_port(s, p, state) ==
    LET d == stp_become_designated_port(s, p)
    IN  stp_set_port_state(d, [d.port EXCEPT
            ![p] = [@ EXCEPT !.state = state, !.ack = FALSE, !.pending = FALSE,
                             !.message_age = Off, !.forward_delay = Off, !.hold = Off]])

stp_create(id, times) ==
    [id |-> id, own_times |-> times, times |-> times, remainder |-> 0,
     root |-> id, cost |-> 0, root_port |-> NoPort,
     detected |-> FALSE, topology_change |-> FALSE,
     hello_timer |-> 0, tcn_timer |-> Off, topology_change_timer |-> Off,
     first_changed |-> 1,
     out |-> [p \in Ports |-> <<>>],
     port |-> [p \in Ports |->
                 [state |-> "DISABLED", path_cost |-> DefaultCost, droot |-> id, dcost |-> 0,
                  dbridge |-> id, dport |-> p, ack |-> FALSE, pending |-> FALSE,
                  changed |-> TRUE, message_age |-> Off, forward_delay |-> Off,
                  hold |-> Off]]]

stp_port_enable(s, p) ==
    IF s.port[p].state # "DISABLED" THEN s
    ELSE stp_port_state_selection(stp_initialize_port(s, p, "BLOCKING"))

(* The hold timer is left alone.                                           *)
stp_port_disable(s, p) ==
    LET d == stp_become_designated_port(s, p)
        off == stp_set_port_state(d, [d.port EXCEPT
                   ![p] = [@ EXCEPT !.state = "DISABLED", !.ack = FALSE, !.pending = FALSE,
                                    !.message_age = Off, !.forward_delay = Off]])
    IN  IF s.port[p].state = "DISABLED" THEN s ELSE Reelect(off, stp_is_root_bridge(s))

set_bridge_id(s, id) ==
    LET renamed == [s EXCEPT !.id = id,
                      !.port = [p \in Ports |->
                          IF p \in Enabled(s) /\ stp_is_designated_port(s, p)
                          THEN [@[p] EXCEPT !.dbridge = id] ELSE @[p]]]
    IN  IF id = s.id THEN s ELSE Reelect(renamed, stp_is_root_bridge(s))

stp_port_set_path_cost(s, p, path_cost) ==
    IF s.port[p].path_cost = path_cost THEN s
    ELSE stp_port_state_selection(
             stp_configuration_update([s EXCEPT !.port[p].path_cost = path_cost]))

(* Mutant: the timer of the information is not started.                    *)
RecordUntimed(s, p, c) ==
    [s EXCEPT !.port[p] = [@ EXCEPT !.droot = c.root, !.dcost = c.cost, !.dbridge = c.bridge,
                                    !.dport = c.port]]

(* A configuration message received on port p                              *)
stp_record_config_information(s, p, c) ==
    [s EXCEPT !.port[p] = [@ EXCEPT !.droot = c.root, !.dcost = c.cost, !.dbridge = c.bridge,
                                    !.dport = c.port, !.message_age = c.age]]

stp_record_config_timeout_values(s, c) ==
    [s EXCEPT !.times = c.times, !.topology_change = CHANGE \subseteq c.flags]

(* The bridge was the root and no longer is.                               *)
Dethroned(s) ==
    LET quiet == [s EXCEPT !.hello_timer = Off]
    IN  IF ~s.detected THEN quiet
        ELSE [stp_transmit_tcn(quiet) EXCEPT !.topology_change_timer = Off, !.tcn_timer = 0]

stp_received_config_bpdu(s, p, c) ==
    LET updated == stp_port_state_selection(
                       stp_configuration_update(stp_record_config_information(s, p, c)))
        t == IF stp_is_root_bridge(s) /\ ~stp_is_root_bridge(updated)
             THEN Dethroned(updated) ELSE updated
        relayed == stp_config_bpdu_generation(stp_record_config_timeout_values(t, c))
    IN  IF c.age >= c.times.max_age THEN s
        ELSE IF ~stp_supersedes_port_info(s, p, c)
        THEN IF stp_is_designated_port(s, p) THEN stp_transmit_config(s, {p}) ELSE s
        ELSE IF p # t.root_port THEN t
        ELSE IF ACK \subseteq c.flags
        THEN [relayed EXCEPT !.detected = FALSE, !.tcn_timer = Off]
        ELSE relayed

stp_received_tcn_bpdu(s, p) ==
    LET noticed == stp_topology_change_detection(s)
    IN  IF stp_is_designated_port(s, p)
        THEN stp_transmit_config([noticed EXCEPT !.port[p].ack = TRUE], {p})
        ELSE s

stp_received_bpdu(s, p, bpdu) ==
    IF s.port[p].state = "DISABLED" THEN s
    ELSE IF bpdu.type = "CONFIG" THEN stp_received_config_bpdu(s, p, bpdu)
    ELSE stp_received_tcn_bpdu(s, p)

-----------------------------------------------------------------------------
(* Timers                                                                  *)

stp_timer_expired(v, elapsed, timeout) == v # Off /\ v + elapsed >= timeout
Advance(v, elapsed, timeout) ==
    IF v = Off \/ v + elapsed >= timeout THEN Off ELSE v + elapsed

HelloTimer(s, elapsed) ==
    IF stp_timer_expired(s.hello_timer, elapsed, s.times.hello)
    THEN [stp_config_bpdu_generation(s) EXCEPT !.hello_timer = 0]
    ELSE [s EXCEPT !.hello_timer = Advance(@, elapsed, s.times.hello)]

TcnTimer(s, elapsed) ==
    IF stp_timer_expired(s.tcn_timer, elapsed, s.own_times.hello)
    THEN [stp_transmit_tcn(s) EXCEPT !.tcn_timer = 0]
    ELSE [s EXCEPT !.tcn_timer = Advance(@, elapsed, s.own_times.hello)]

TopologyChangeTimer(s, elapsed) ==
    LET timeout == s.times.max_age + s.times.forward
        over == stp_timer_expired(s.topology_change_timer, elapsed, timeout)
    IN  [s EXCEPT !.topology_change_timer = Advance(@, elapsed, timeout),
                  !.detected = @ /\ ~over, !.topology_change = @ /\ ~over]

MessageAgeTimer(s, p, elapsed) ==
    LET timed == [s EXCEPT !.port[p].message_age = Advance(@, elapsed, s.times.max_age)]
    IN  IF stp_timer_expired(s.port[p].message_age, elapsed, s.times.max_age)
        THEN Reelect(stp_become_designated_port(timed, p), stp_is_root_bridge(s))
        ELSE timed

(* Mutant: the timer is not started again for the time of learning.        *)
LearningUntimed(s, p) ==
    LET r == s.port[p]
        moved == stp_set_port_state(s, [s.port EXCEPT ![p] =
                     CASE r.state = "LISTENING" -> [r EXCEPT !.state = "LEARNING"]
                       [] r.state = "LEARNING" -> [r EXCEPT !.state = "FORWARDING"]
                       [] OTHER -> r])
    IN  IF r.state = "LEARNING" /\ \E q \in Enabled(s) : s.port[q].dbridge = s.id
        THEN stp_topology_change_detection(moved)
        ELSE moved

stp_forward_delay_timer_expiry(s, p) ==
    LET r == s.port[p]
        moved == stp_set_port_state(s, [s.port EXCEPT ![p] =
                     CASE r.state = "LISTENING" ->
                            [r EXCEPT !.state = "LEARNING", !.forward_delay = 0]
                       [] r.state = "LEARNING" -> [r EXCEPT !.state = "FORWARDING"]
                       [] OTHER -> r])
    IN  IF r.state = "LEARNING" /\ \E q \in Enabled(s) : s.port[q].dbridge = s.id
        THEN stp_topology_change_detection(moved)
        ELSE moved

ForwardDelayTimer(s, p, elapsed) ==
    LET timed == [s EXCEPT !.port[p].forward_delay = Advance(@, elapsed, s.times.forward)]
    IN  IF stp_timer_expired(s.port[p].forward_delay, elapsed, s.times.forward)
        THEN stp_forward_delay_timer_expiry(timed, p)
        ELSE timed

HoldTimer(s, p, elapsed) ==
    LET timed == [s EXCEPT !.port[p].hold = Advance(@, elapsed, HoldTime)]
    IN  IF /\ stp_timer_expired(s.port[p].hold, elapsed, HoldTime)
           /\ s.port[p].pending
        THEN stp_transmit_config(timed, {p})
        ELSE timed

stp_tick(s, ms) ==
    LET total == ms + s.remainder
        elapsed == ms_to_timer(total)
        ports == [p \in Ports |-> p]
        Aged(t, p) == IF p \in Enabled(t) THEN MessageAgeTimer(t, p, elapsed) ELSE t
        Moved(t, p) == IF p \in Enabled(t)
                       THEN HoldTimer(ForwardDelayTimer(t, p, elapsed), p, elapsed) ELSE t
        kept == [s EXCEPT !.remainder = ms_to_timer_remainder(total)]
        bridged == TopologyChangeTimer(TcnTimer(HelloTimer(kept, elapsed), elapsed), elapsed)
    IN  IF elapsed = 0 THEN kept ELSE FoldLeft(Moved, FoldLeft(Aged, bridged, ports), ports)
=============================================================================
