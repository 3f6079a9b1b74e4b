---------------------------- MODULE SpanningTree ----------------------------
(***************************************************************************)
(* Bridges that run lib/stp.c, joined by links. Each bridge is owned by a  *)
(* poll loop that calls it (secchan/stp-secchan.c) as time passes, as      *)
(* BPDUs arrive and as its ports come, go and change.                      *)
(***************************************************************************)
EXTENDS Stp

CONSTANTS Bridges,    \* identifiers, smaller is better
          Networks,   \* records: links, sets of two <<bridge, port>> ends; the kinds
                      \* of events that are not time passing or a BPDU arriving, and
                      \* a bound on their number
          TickMs,     \* milliseconds between two calls of stp_periodic_cb
          Costs,      \* path costs that stp_port_set_speed chooses from
          NewIds      \* identifiers a bridge may take from its local port

Kinds == {"lose", "cut", "gone", "changed", "renamed"}

ASSUME SpanningTreeAssumption ==
    /\ Bridges \subseteq Nat /\ IsFiniteSet(Bridges) /\ NewIds \subseteq Nat \ Bridges
    /\ \A n \in Networks :
          /\ n.kinds \subseteq Kinds /\ n.bound \in Nat
          /\ n.links \subseteq SUBSET (Bridges \X Ports)
          /\ \A l \in n.links : /\ IsFiniteSet(l) /\ Cardinality(l) = 2
                               /\ Cardinality({e[1] : e \in l}) = 2
          /\ \A l, m \in n.links : l # m => l \intersect m = {}
    /\ TickMs \in Nat \ {0} /\ Costs \subseteq Nat \ {0}

VARIABLES net,      \* the network, which does not change
          bridge,   \* struct stp of each; .out is what its ports have on the wire
          cut,      \* links that lose everything
          ticked,   \* bridges that have run in the current period
          events,   \* how many so far
          demoted   \* history: a root has taken a worse identifier

vars == <<net, bridge, cut, ticked, events, demoted>>

Links == net.links
Ends == UNION Links
Running == {e[1] : e \in Ends}
LinkOf(e) == CHOOSE l \in Links : e \in l
Peer(e) == CHOOSE f \in LinkOf(e) : f # e

(* stp_start, and stp_port_changed_cb for each port there is               *)
Started(n, b) ==
    FoldLeft(LAMBDA s, p : IF <<b, p>> \in UNION n.links THEN stp_port_enable(s, p) ELSE s,
             stp_create(b, DefaultTimes), [p \in Ports |-> p])

Init ==
    /\ net \in Networks
    /\ bridge = [b \in Running |-> Started(net, b)]
    /\ cut = {}
    /\ ticked = {}
    /\ events = 0
    /\ demoted = FALSE

OnWire == {e \in Ends : bridge[e[1]].out[e[2]] # <<>>}

(* stp_periodic_cb. Periods of different bridges interleave; what is on    *)
(* the wire arrives before the next period.                                *)
Due(b) == b \in Running \ ticked /\ (ticked = {} => OnWire = {})

stp_periodic_cb(b) ==
    /\ Due(b)
    /\ bridge' = [bridge EXCEPT ![b] = stp_get_changed_ports(stp_tick(@, TickMs))]
    /\ ticked' = IF ticked \union {b} = Running THEN {} ELSE ticked \union {b}
    /\ UNCHANGED <<net, cut, events, demoted>>

Taken(e) == [bridge EXCEPT ![e[1]].out[e[2]] = Tail(@)]

(* The wire, and the owner of the bridge at its other end                  *)
Deliver(e) ==
    /\ e \in OnWire
    /\ bridge' = IF LinkOf(e) \in cut THEN Taken(e)
                 ELSE [Taken(e) EXCEPT ![Peer(e)[1]] =
                          stp_received_bpdu(@, Peer(e)[2], Head(bridge[e[1]].out[e[2]]))]
    /\ UNCHANGED <<net, cut, ticked, events, demoted>>

Event(kind) ==
    kind \in net.kinds /\ events < net.bound /\ events' = events + 1 /\ UNCHANGED <<net, ticked>>

Lose(e) ==
    /\ Event("lose") /\ e \in OnWire /\ LinkOf(e) \notin cut
    /\ bridge' = Taken(e)
    /\ UNCHANGED <<cut, demoted>>

Cut(l) ==
    /\ Event("cut") /\ l \notin cut
    /\ cut' = cut \union {l}
    /\ UNCHANGED <<bridge, demoted>>

PortGone(e) ==
    /\ Event("gone") /\ bridge[e[1]].port[e[2]].state # "DISABLED"
    /\ bridge' = [bridge EXCEPT ![e[1]] = stp_port_disable(@, e[2])]
    /\ UNCHANGED <<cut, demoted>>

(* stp_port_changed_cb for a port there is                                 *)
PortChanged(e, c) ==
    /\ Event("changed")
    /\ bridge' = [bridge EXCEPT ![e[1]] =
                     stp_port_set_path_cost(stp_port_enable(@, e[2]), e[2], c)]
    /\ bridge' # bridge
    /\ UNCHANGED <<cut, demoted>>

stp_local_port_changed_cb(b, id) ==
    /\ Event("renamed") /\ \A a \in Running : bridge[a].id # id
    /\ bridge' = [bridge EXCEPT ![b] = set_bridge_id(@, id)]
    /\ demoted' = (demoted \/ (stp_is_root_bridge(bridge[b]) /\ id > bridge[b].id))
    /\ UNCHANGED cut

Next ==
    \/ \E b \in Running : stp_periodic_cb(b) \/ \E id \in NewIds : stp_local_port_changed_cb(b, id)
    \/ \E e \in Ends : \/ Deliver(e) \/ Lose(e) \/ PortGone(e)
                       \/ \E c \in Costs : PortChanged(e, c)
    \/ \E l \in Links : Cut(l)

(* The poll loops keep running and the wires keep moving: weak fairness of *)
(* the two, with ENABLED written out and the steps told by what they alone *)
(* change and leave. A bridge is not passed over, since the next period    *)
(* waits for it.                                                           *)
Runs == ticked' # ticked
Moves == UNCHANGED <<ticked, events>>

Fairness ==
    /\ []<>(\A b \in Running : ~Due(b)) \/ []<><<Runs>>_vars
    /\ []<>(OnWire = {}) \/ []<><<Moves>>_vars

Spec == Init /\ [][Next]_vars /\ Fairness

-----------------------------------------------------------------------------
(* A link over which both ends forward frames                              *)
Active == {l \in Links \ cut : \A e \in l : bridge[e[1]].port[e[2]].state = "FORWARDING"}
Usable == {l \in Links \ cut : \A e \in l : bridge[e[1]].port[e[2]].state # "DISABLED"}

(* Bridges that links of L join to b, directly or over others              *)
Touches(l, b) == \E e \in l : e[1] = b
Joined(L, b) ==
    LET step[n \in Nat] == IF n = 0 THEN {b}
                           ELSE step[n - 1] \union
                                {a \in Running : \E l \in L, c \in step[n - 1] :
                                                    Touches(l, a) /\ Touches(l, c)}
    IN  step[Cardinality(Running) - 1]

(* The links that forward frames never close a ring: a set of links in     *)
(* which each bridge that has one has two is what a frame could circulate  *)
(* on for ever.  That needs every root to keep its identifier or to take a *)
(* better one: after set_bridge_id to a worse one, what the others said of *)
(* the old identifier goes round as that of a root nobody is, and the      *)
(* ports that follow it start to forward.                                  *)
NoRing ==
    ~demoted => \A ring \in SUBSET Active \ {{}} :
                    \E b \in Running : Cardinality({l \in ring : Touches(l, b)}) = 1

(* A bridge that follows another has a running timer on the information it *)
(* follows, on its root port and on every other port it leaves to a        *)
(* neighbour: when the neighbour dies the information does, too.           *)
FollowersAge ==
    \A b \in Running : \A p \in Enabled(bridge[b]) :
        stp_is_designated_port(bridge[b], p) <=> bridge[b].port[p].message_age = Off

(* Once the events are over, a root that took a worse identifier among     *)
(* them, every bridge takes the best bridge it can reach for the root, and *)
(* the links that forward reach as far as the usable ones.                 *)
Settled ==
    \A b \in Running :
        LET reach == Joined(Usable, b)
        IN  /\ \A a \in reach : bridge[b].root <= bridge[a].id
            /\ \E a \in reach : bridge[b].root = bridge[a].id
            /\ Joined(Active, b) = reach
Converges == <>[]Settled
=============================================================================
