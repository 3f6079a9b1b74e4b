------------------------------ MODULE Pipeline ------------------------------
(***************************************************************************)
(* The journey of a packet (udatapath/pipeline.c, action_set.c,            *)
(* dp_actions.c, group_entry.c): table lookups, the instructions of the    *)
(* entries, action lists, the action set, and groups, which call each      *)
(* other.  `calls' is the call stack, the innermost call first, and every  *)
(* step is one iteration of the innermost call's loop or its return.       *)
(*                                                                         *)
(* A packet is allocated memory that exactly one call must free.  Flow and *)
(* packet_out messages arrive between packets; a table holds at most one   *)
(* entry here (FlowTable models the choice), and the groups are fixed      *)
(* (GroupTable models their changes, and that they reach no cycle).        *)
(***************************************************************************)
EXTENDS ActionSet, GroupSelect, FiniteSets

CONSTANTS
    PIPELINE_TABLES,
    Packet,         \* addresses, natural numbers
    Action,         \* actions, of the types the decoder knows
    InstructionSets,\* the instructions of a flow_mod, as sets
    OutActions,     \* the action lists of a packet_out
    GroupTables,    \* group tables: groups to [type, buckets]
    MaxSaved        \* bound on the packets in the buffers

Table == 0 .. PIPELINE_TABLES - 1

(* The types of instructions, as numbered in the protocol                  *)
InstructionType ==
    [GOTO_TABLE |-> 1, WRITE_METADATA |-> 2, WRITE_ACTIONS |-> 3, APPLY_ACTIONS |-> 4,
     CLEAR_ACTIONS |-> 5, METER |-> 6, EXPERIMENTER |-> 65535]

ASSUME PipelineAssumption ==
    /\ PIPELINE_TABLES \in Nat \ {0}
    /\ Packet \subseteq Nat
    /\ MaxSaved \in Nat

(* What the decoder and the validation of messages let through: known      *)
(* types, tables of the pipeline (ofl-structs-unpack.c:76), and groups     *)
(* that are in the table (FlowRefs, GroupTable).                           *)
ASSUME MessageAssumption ==
    /\ \A a \in Action : /\ a.type \in DOMAIN Order
                         /\ a.type = "GROUP" =>
                              \A table \in GroupTables : a.arg \in DOMAIN table
    /\ \A insts \in InstructionSets :
          /\ IsFiniteSet(insts)
          /\ \A i \in insts : /\ i.type \in DOMAIN InstructionType
                              /\ i.type \in {"APPLY_ACTIONS", "WRITE_ACTIONS"} =>
                                   i.actions \in Seq(Action)
                              /\ i.type = "GOTO_TABLE" => i.table \in Table
    /\ OutActions \subseteq Seq(Action)
    /\ \A table \in GroupTables : \A g \in DOMAIN table :
          table[g].buckets \in Seq([weight : Nat, actions : Seq(Action)])

VARIABLES
    tables,         \* the instructions of the entry of each table that has one
    groups,
    wrr,            \* round robin data of the SELECT groups
    packets,        \* the packets allocated
    saved,          \* those in the packet buffers
    calls,          \* the call stack
    picks           \* buckets selected in each SELECT group's current cycle

vars == <<tables, groups, wrr, packets, saved, calls, picks>>

ANY == "ANY"
NoTable == -1
Weights(g) == [i \in DOMAIN groups[g].buckets |-> groups[g].buckets[i].weight]

SelectGroups == {g \in DOMAIN groups : groups[g].type = "SELECT"}

NoPicks(g) == [b \in 0 .. Len(groups[g].buckets) - 1 |-> 0]

Init ==
    /\ tables = <<>>
    /\ groups \in GroupTables
    /\ wrr = [g \in SelectGroups |-> init_select_group(Weights(g))]
    /\ packets = <<>>
    /\ saved = {}
    /\ calls = <<>>
    /\ picks = [g \in SelectGroups |-> NoPicks(g)]

-----------------------------------------------------------------------------
(* Packets.  A clone starts with an empty action set and no output; an     *)
(* address not in use is as good as another.                               *)

NewAddress == Min(Packet \ DOMAIN packets)

packet_create(packet_out) ==
    [action_set |-> <<>>, out_port |-> ANY, out_group |-> ANY, packet_out |-> packet_out]

With(pkts, p, pkt) == [q \in DOMAIN pkts \union {p} |-> IF q = p THEN pkt ELSE pkts[q]]

packet_clone(pkt) == packet_create(pkt.packet_out)

(* A packet in the buffers is left to them.                                *)
packet_destroy(pkts, p) ==
    IF p \in saved THEN pkts ELSE Restrict(pkts, DOMAIN pkts \ {p})

(* dp_buffers_save, which may find no buffer; a saved packet stays saved   *)
dp_buffers_save(p) ==
    \/ saved' = saved
    \/ Cardinality(saved \union {p}) <= MaxSaved /\ saved' = saved \union {p}

-----------------------------------------------------------------------------
(* The call stack                                                          *)

Call(fn, p) == [fn |-> fn, pkt |-> p]
CallLookup(p, t) == [fn |-> "lookup", pkt |-> p, table |-> t]
CallEntry(p, insts) == [fn |-> "entry", pkt |-> p, insts |-> insts, next_table |-> NoTable]
CallList(p, actions) == [fn |-> "list", pkt |-> p, actions |-> actions]
CallGroup(p, g) == [fn |-> "group", pkt |-> p, group |-> g]
CallAll(p, g) == [fn |-> "all", pkt |-> p, group |-> g, bucket |-> 0]

Top == Head(calls)
Running(fn) == calls # <<>> /\ Top.fn = fn
Idle == calls = <<>>

TopPacket == packets[Top.pkt]

ReturnDestroying ==
    /\ packets' = packet_destroy(packets, Top.pkt)
    /\ calls' = Tail(calls)
    /\ UNCHANGED saved

Become(call) == calls' = <<call>> \o Tail(calls)
CallThen(call, top) == calls' = <<call, top>> \o Tail(calls)

-----------------------------------------------------------------------------
(* Actions.  Header rewrites leave the journey of the packet alone.        *)

dp_execute_action(pkt, a) ==
    CASE a.type = "OUTPUT" -> [pkt EXCEPT !.out_port = a.arg]
      [] a.type = "GROUP"  -> [pkt EXCEPT !.out_group = a.arg]
      [] OTHER             -> pkt

(* The packet p of pkts goes to a port and the innermost call continues as *)
(* top: OFPP_TABLE sends a copy through the tables, if the packet came     *)
(* with a packet_out, and OFPP_CONTROLLER saves the packet.                *)
dp_actions_output_port(pkts, p, port, top) ==
    \/ /\ port = "TABLE" /\ pkts[p].packet_out
       /\ packets' = With(pkts, NewAddress,
                          [packet_clone(pkts[p]) EXCEPT !.packet_out = FALSE])
       /\ CallThen(Call("process", NewAddress), top)
       /\ UNCHANGED saved
    \/ /\ port = "CONTROLLER"
       /\ dp_buffers_save(p)
       /\ packets' = pkts /\ Become(top)
    \/ /\ port # "CONTROLLER" /\ ~(port = "TABLE" /\ pkts[p].packet_out)
       /\ packets' = pkts /\ Become(top)
       /\ UNCHANGED saved

(* Mutant: the group works on the packet itself.                           *)
GroupOnOriginal(pkt, rest) ==
    /\ packets' = [packets EXCEPT ![Top.pkt] = [pkt EXCEPT !.out_group = ANY]]
    /\ CallThen(CallGroup(Top.pkt, pkt.out_group), rest)
    /\ UNCHANGED saved

(* A group in an action list works on a clone.                             *)
GroupOnClone(pkt, rest) ==
    /\ packets' = With([packets EXCEPT ![Top.pkt] = [pkt EXCEPT !.out_group = ANY]],
                       NewAddress, packet_clone(pkt))
    /\ CallThen(CallGroup(NewAddress, pkt.out_group), rest)
    /\ UNCHANGED saved

(* One action of a list, and the output it asks for, or the return         *)
dp_execute_action_list ==
    /\ Running("list")
    /\ UNCHANGED <<tables, groups, wrr, picks>>
    /\ \/ /\ Top.actions = <<>>
          /\ calls' = Tail(calls)
          /\ UNCHANGED <<packets, saved>>
       \/ /\ Top.actions # <<>>
          /\ LET pkt == dp_execute_action(TopPacket, Head(Top.actions))
                 rest == [Top EXCEPT !.actions = Tail(@)]
             IN  \/ pkt.out_group # ANY /\ GroupOnClone(pkt, rest)
                 \/ /\ pkt.out_group = ANY /\ pkt.out_port # ANY
                    /\ dp_actions_output_port(
                         [packets EXCEPT ![Top.pkt] = [pkt EXCEPT !.out_port = ANY]],
                         Top.pkt, pkt.out_port, rest)
                 \/ /\ pkt.out_group = ANY /\ pkt.out_port = ANY
                    /\ packets' = [packets EXCEPT ![Top.pkt] = pkt]
                    /\ Become(rest)
                    /\ UNCHANGED saved

(* Mutant: the packet keeps the group it is handed to.                     *)
HandOverKept(pkt) == pkt

(* The packet a group receives from an action set                          *)
HandOver(pkt) == [pkt EXCEPT !.out_group = ANY]

(* The packet after all the actions of its set                             *)
ExecuteSet(pkt) == FoldLeft(dp_execute_action, pkt, pkt.action_set)

(* All actions of the set, which is then empty; the packet goes to the     *)
(* group or the port they chose, or is dropped.                            *)
action_set_execute ==
    /\ Running("set")
    /\ UNCHANGED <<tables, groups, wrr, picks>>
    /\ LET pkt == [ExecuteSet(TopPacket) EXCEPT !.action_set = <<>>]
       IN  \/ /\ pkt.out_group # ANY
              /\ packets' = [packets EXCEPT ![Top.pkt] = HandOver(pkt)]
              /\ Become(CallGroup(Top.pkt, pkt.out_group))
              /\ UNCHANGED saved
           \/ /\ pkt.out_group = ANY /\ pkt.out_port # ANY
              /\ dp_actions_output_port(
                   [packets EXCEPT ![Top.pkt] = [pkt EXCEPT !.out_port = ANY]],
                   Top.pkt, pkt.out_port, Call("destroy", Top.pkt))
           \/ /\ pkt.out_group = ANY /\ pkt.out_port = ANY
              /\ ReturnDestroying

-----------------------------------------------------------------------------
(* Groups                                                                  *)

(* A bucket's actions are written to the packet's set, which is executed;  *)
(* with no bucket the packet is dropped.                                   *)
ExecuteBucket(g, b) ==
    \/ b = -1 /\ ReturnDestroying
    \/ /\ b # -1
       /\ packets' = [packets EXCEPT ![Top.pkt].action_set =
                        action_set_write_actions(@, groups[g].buckets[b + 1].actions)]
       /\ Become(Call("set", Top.pkt))
       /\ UNCHANGED saved

(* The picks of a SELECT group, counted anew after a full cycle            *)
Picked(g, b) ==
    LET full == \A c \in DOMAIN picks[g] : picks[g][c] = Share(Weights(g), wrr[g], c)
        old == IF full THEN NoPicks(g) ELSE picks[g]
    IN  IF b = -1 THEN picks[g] ELSE [old EXCEPT ![b] = @ + 1]

execute_select(g) ==
    LET s == select_from_select_group(Weights(g), wrr[g])
    IN  /\ wrr' = [wrr EXCEPT ![g] = s.data]
        /\ picks' = [picks EXCEPT ![g] = Picked(g, s.bucket)]
        /\ ExecuteBucket(g, s.bucket)

(* group_table_execute and group_entry_execute, by the type of the group.  *)
(* Which buckets of a fast failover group are live is up to their ports.   *)
group_entry_execute ==
    /\ Running("group")
    /\ UNCHANGED <<tables, groups>>
    /\ LET g == Top.group
           n == Len(groups[g].buckets)
       IN  \/ groups[g].type = "SELECT" /\ execute_select(g)
           \/ /\ groups[g].type # "SELECT"
              /\ UNCHANGED <<wrr, picks>>
              /\ \/ /\ groups[g].type = "ALL"
                    /\ Become(CallAll(Top.pkt, g))
                    /\ UNCHANGED <<packets, saved>>
                 \/ groups[g].type = "INDIRECT" /\ ExecuteBucket(g, IF n > 0 THEN 0 ELSE -1)
                 \/ /\ groups[g].type = "FF"
                    /\ \E live \in SUBSET (0 .. n - 1) :
                          ExecuteBucket(g, select_from_ff_group(live))

(* Each bucket of an ALL group works on a clone; the packet itself is      *)
(* destroyed in the end.                                                   *)
execute_all ==
    /\ Running("all")
    /\ UNCHANGED <<tables, groups, wrr, picks>>
    /\ LET buckets == groups[Top.group].buckets
           b == Top.bucket
           clone == packet_clone(TopPacket)
       IN  \/ b = Len(buckets) /\ ReturnDestroying
           \/ /\ b < Len(buckets)
              /\ packets' = With(packets, NewAddress,
                                 [clone EXCEPT !.action_set =
                                    action_set_write_actions(@, buckets[b + 1].actions)])
              /\ CallThen(Call("set", NewAddress), [Top EXCEPT !.bucket = @ + 1])
              /\ UNCHANGED saved

-----------------------------------------------------------------------------
(* Tables                                                                  *)

(* pipeline_process_packet: a packet whose TTL is not valid goes to the    *)
(* controller, the others to the first table.                              *)
pipeline_process_packet ==
    /\ Running("process")
    /\ UNCHANGED <<tables, groups, wrr, picks, packets>>
    /\ \/ Become(CallLookup(Top.pkt, 0)) /\ UNCHANGED saved
       \/ Become(Call("destroy", Top.pkt)) /\ dp_buffers_save(Top.pkt)

(* The packet matches the table's entry, or it is dropped.                 *)
flow_table_lookup ==
    /\ Running("lookup")
    /\ UNCHANGED <<tables, groups, wrr, picks>>
    /\ \/ /\ Top.table \in DOMAIN tables
          /\ Become(CallEntry(Top.pkt, tables[Top.table]))
          /\ UNCHANGED <<packets, saved>>
       \/ ReturnDestroying

(* meter_entry_apply, when a drop band applies (MeterBands)                *)
MeterDrops == ReturnDestroying

(* One instruction of an entry; after the last, the next table or the      *)
(* action set.                                                             *)
execute_entry ==
    /\ Running("entry")
    /\ UNCHANGED <<tables, groups, wrr, picks>>
    /\ LET p == Top.pkt
           inst == Head(Top.insts)
           rest == [Top EXCEPT !.insts = Tail(@)]
           SetActions(set) == packets' = [packets EXCEPT ![p].action_set = set]
       IN  IF Top.insts = <<>>
           THEN /\ Become(IF Top.next_table = NoTable THEN Call("set", p)
                                                      ELSE CallLookup(p, Top.next_table))
                /\ UNCHANGED <<packets, saved>>
           ELSE \/ inst.type = "METER" /\ MeterDrops
                \/ /\ inst.type \in {"METER", "WRITE_METADATA", "EXPERIMENTER"}
                   /\ Become(rest) /\ UNCHANGED <<packets, saved>>
                \/ /\ inst.type = "APPLY_ACTIONS"
                   /\ CallThen(CallList(p, inst.actions), rest)
                   /\ UNCHANGED <<packets, saved>>
                \/ /\ inst.type = "CLEAR_ACTIONS"
                   /\ SetActions(<<>>) /\ Become(rest) /\ UNCHANGED saved
                \/ /\ inst.type = "WRITE_ACTIONS"
                   /\ SetActions(action_set_write_actions(TopPacket.action_set, inst.actions))
                   /\ Become(rest) /\ UNCHANGED saved
                \/ /\ inst.type = "GOTO_TABLE"
                   /\ Become([rest EXCEPT !.next_table = inst.table])
                   /\ UNCHANGED <<packets, saved>>

(* The packet_destroy that ends a packet_out, an output or a bad TTL       *)
Destroy ==
    /\ Running("destroy")
    /\ ReturnDestroying
    /\ UNCHANGED <<tables, groups, wrr, picks>>

Step ==
    \/ pipeline_process_packet \/ flow_table_lookup \/ execute_entry
    \/ dp_execute_action_list \/ action_set_execute
    \/ group_entry_execute \/ execute_all \/ Destroy

-----------------------------------------------------------------------------
(* Events, between packets                                                 *)

(* Mutant: the types alone decide.                                         *)
CompareTypes(i1, i2) == InstructionType[i1.type] < InstructionType[i2.type]

(* Must instruction i1 come after i2?                                      *)
inst_compare(i1, i2) ==
    IF {i1.type, i2.type} = {"APPLY_ACTIONS", "CLEAR_ACTIONS"}
    THEN InstructionType[i1.type] > InstructionType[i2.type]
    ELSE InstructionType[i1.type] < InstructionType[i2.type]

(* The orders a sort by inst_compare may leave: no instruction precedes    *)
(* one it must follow. (The code's comparison never says "before", only    *)
(* "after" or "equal"; that qsort sorts by it is assumed of the library.)  *)
Sorted(insts) ==
    {s \in SetToSeqs(insts) : \A i, j \in DOMAIN s : i < j => ~inst_compare(s[i], s[j])}

(* A packet_out, a flow_mod: the packet p of the buffers is taken out.     *)
dp_buffers_retrieve(p) ==
    /\ saved' = saved \ {p}
    /\ packets' = [packets EXCEPT ![p].packet_out = FALSE]

(* A packet from a port                                                    *)
process_buffer ==
    /\ Idle
    /\ packets' = With(packets, NewAddress, packet_create(FALSE))
    /\ calls' = <<Call("process", NewAddress)>>
    /\ UNCHANGED <<tables, groups, wrr, picks, saved>>

handle_control_packet_out(actions) ==
    /\ Idle
    /\ \E p \in saved \union {NewAddress} :
          /\ IF p \in saved
             THEN dp_buffers_retrieve(p)
             ELSE packets' = With(packets, p, packet_create(TRUE)) /\ UNCHANGED saved
          /\ calls' = <<CallList(p, actions), Call("destroy", p)>>
    /\ UNCHANGED <<tables, groups, wrr, picks>>

(* ADD and MODIFY, which may match no entry; a packet of the buffers then  *)
(* goes through the tables.  The last table takes no goto.                 *)
pipeline_handle_flow_mod(t, insts) ==
    /\ Idle
    /\ t = PIPELINE_TABLES - 1 => \A i \in insts : i.type # "GOTO_TABLE"
    /\ \/ tables' = tables
       \/ \E s \in Sorted(insts) : tables' = With(tables, t, s)
    /\ \/ UNCHANGED <<packets, saved, calls>>
       \/ \E p \in saved : /\ dp_buffers_retrieve(p)
                           /\ calls' = <<Call("process", p)>>
    /\ UNCHANGED <<groups, wrr, picks>>

(* DELETE, in one table or all; pipeline_timeout removes entries too.      *)
FlowsDeleted ==
    /\ Idle
    /\ \E T \in {{t} : t \in Table} \union {Table} :
          tables' = Restrict(tables, DOMAIN tables \ T)
    /\ UNCHANGED <<groups, wrr, picks, packets, saved, calls>>

(* A buffer whose time is over is used again, here by a packet of no       *)
(* interest and between two calls: a save that takes the buffer of the     *)
(* packet in hand is the subject of PacketBuffers.                         *)
BufferReused ==
    /\ Idle
    /\ \E p \in saved : /\ saved' = saved \ {p}
                        /\ packets' = Restrict(packets, DOMAIN packets \ {p})
    /\ UNCHANGED <<tables, groups, wrr, picks, calls>>

Next ==
    \/ Step
    \/ process_buffer
    \/ \E actions \in OutActions : handle_control_packet_out(actions)
    \/ \E t \in Table, insts \in InstructionSets : pipeline_handle_flow_mod(t, insts)
    \/ FlowsDeleted
    \/ BufferReused

(* The poll loop runs a call to its end before it looks at another event.  *)
Spec == Init /\ [][Next]_vars /\ WF_vars(Step)

-----------------------------------------------------------------------------
(* The calls that must free their packet: an action list only borrows it.  *)
Owners == {i \in DOMAIN calls : calls[i].fn # "list"}
Owned == {calls[i].pkt : i \in Owners}

(* Every packet in memory has one owner: a single call that will destroy   *)
(* it or pass it on, or the packet buffers.  No call works on a packet     *)
(* that is gone ("takes ownership of the packet and will destroy it",      *)
(* pipeline.c:116) and none is left behind when the calls have returned.   *)
PacketsOwned ==
    /\ DOMAIN packets = Owned \union saved
    /\ \A i, j \in Owners : calls[i].pkt = calls[j].pkt => i = j

(* However entries and buckets write to it, and across tables, groups and  *)
(* buffering, an action set is in execution order and has one action of a  *)
(* kind (action_set_write_action).                                         *)
ActionSetsCanonical == \A p \in DOMAIN packets : Canonical(packets[p].action_set)

(* The order execute_entry documents (pipeline.c:594)                      *)
Documented ==
    [EXPERIMENTER |-> 0, METER |-> 1, APPLY_ACTIONS |-> 2, CLEAR_ACTIONS |-> 3,
     WRITE_ACTIONS |-> 4, WRITE_METADATA |-> 5, GOTO_TABLE |-> 6]

(* The instructions of an entry are executed in the documented order,      *)
(* whatever order the flow_mod had them in (inst_compare).                 *)
InstructionsOrdered ==
    \A t \in DOMAIN tables : \A i, j \in DOMAIN tables[t] :
       i < j => Documented[tables[t][i].type] <= Documented[tables[t][j].type]

(* The round robin of a SELECT group always finds a bucket, and in every   *)
(* full cycle selects each in proportion to its weight                     *)
(* (select_from_select_group).                                             *)
SelectProportional ==
    \A g \in SelectGroups :
       /\ groups[g].buckets # <<>> => select_from_select_group(Weights(g), wrr[g]).bucket # -1
       /\ \A b \in DOMAIN picks[g] : picks[g][b] <= Share(Weights(g), wrr[g], b)

GotosForward ==
    \A t \in DOMAIN tables : \A i \in DOMAIN tables[t] :
       tables[t][i].type = "GOTO_TABLE" => tables[t][i].table > t

(* Every packet is done with: groups inside groups, clones and the packet  *)
(* resubmitted by OFPP_TABLE come to an end, if the gotos lead forward,    *)
(* which the switch leaves to the controller (ofl-structs-unpack.c:76).    *)
PacketsFinish == (~Idle /\ GotosForward) ~> Idle
=============================================================================
