----------------------------- MODULE FlowRefs -----------------------------
(***************************************************************************)
(* Flow entries and the references between them and the groups and meters  *)
(* (udatapath/flow_entry.c, group_entry.c, meter_entry.c).  An entry keeps *)
(* the ids it refers to, a group or meter keeps pointers to the entries    *)
(* that refer to it, and deleting a group or a meter removes those.  The   *)
(* order of entries, matching and timeouts are in FlowTable: here a flow   *)
(* entry is named by its place (table, priority, match).                   *)
(***************************************************************************)
EXTENDS GroupTable, MeterTable

CONSTANTS
    Flow,      \* places for flow entries
    CountMod   \* number of values of the 32-bit reference counters

ASSUME FlowRefsAssumption == IsFiniteSet(Flow) /\ CountMod \in Nat \ {0}

VARIABLES
    flows,        \* the entries: place -> [groups, meters, group_refs, meter_refs]
    group_flows,  \* group->flow_refs: the entries each group points to
    ref_count,    \* group->stats->ref_count
    meter_flows,  \* meter->flow_refs
    flow_count    \* meter->stats->flow_count

refVars == <<flows, group_flows, ref_count, meter_flows, flow_count>>
vars == <<groupVars, meterVars, refVars>>

\* groups and meters are what the instructions name; group_refs and meter_refs
\* the lists that init_group_refs and init_meter_refs made of them.
FlowEntry ==
    [groups : SUBSET GroupId, meters : SUBSET MeterId,
     group_refs : SUBSET GroupId, meter_refs : SUBSET MeterId]

NoFlows == [f \in {} |-> [groups |-> {}, meters |-> {}, group_refs |-> {}, meter_refs |-> {}]]

Init ==
    /\ GroupInit
    /\ MeterInit
    /\ flows = NoFlows
    /\ group_flows = [g \in GroupId |-> {}]
    /\ ref_count = [g \in GroupId |-> 0]
    /\ meter_flows = [m \in MeterId |-> {}]
    /\ flow_count = [m \in MeterId |-> 0]

---------------------------------------------------------------------------
\* group_entry_del_flow_ref for the entries of R whose lists name the group.
DelGroupRefs(refs, R) ==
    [g \in GroupId |-> refs[g] \ {f \in R : g \in flows[f].group_refs}]
DelMeterRefs(refs, R) ==
    [m \in MeterId |-> refs[m] \ {f \in R : m \in flows[f].meter_refs}]

\* The counters move by one for every reference added or deleted.
Recount(count, before, after) ==
    [x \in DOMAIN count |->
        (count[x] - Cardinality(before[x] \ after[x])
                  + Cardinality(after[x] \ before[x])) % CountMod]

\* Mutant: the entries are freed without taking them off the meters' lists.
RemoveFlowsNotMeters(R) ==
    /\ flows' = [f \in DOMAIN flows \ R |-> flows[f]]
    /\ group_flows' = DelGroupRefs(group_flows, R)
    /\ ref_count' = Recount(ref_count, group_flows, group_flows')
    /\ UNCHANGED <<meter_flows, flow_count>>

\* flow_entry_remove, and flow_entry_destroy in it, for every entry of R.
RemoveFlows(R) ==
    /\ flows' = [f \in DOMAIN flows \ R |-> flows[f]]
    /\ group_flows' = DelGroupRefs(group_flows, R)
    /\ ref_count' = Recount(ref_count, group_flows, group_flows')
    /\ meter_flows' = DelMeterRefs(meter_flows, R)
    /\ flow_count' = Recount(flow_count, meter_flows, meter_flows')

---------------------------------------------------------------------------
\* pipeline_handle_flow_mod up to the flow tables: slaves are refused, and so
\* are actions that name a group that does not exist.  Meters are not checked.
FlowModAccepted(gs, role) == role # "SLAVE" /\ gs \subseteq DOMAIN groups

FlowModRefused(gs, role) == ~FlowModAccepted(gs, role) /\ UNCHANGED vars

\* ADD at a free place, or in the place of an equal entry: flow_entry_create
\* links the new entry, then flow_entry_destroy unlinks the old one.  A meter
\* that does not exist is only warned about.
FlowAdd(f, gs, ms) ==
    LET old == {f} \cap DOMAIN flows
        unlinkedG == DelGroupRefs(group_flows, old)
        unlinkedM == DelMeterRefs(meter_flows, old)
    IN
    /\ flows' = [e \in DOMAIN flows \cup {f} |->
                    IF e = f THEN [groups |-> gs, meters |-> ms,
                                   group_refs |-> gs, meter_refs |-> ms]
                    ELSE flows[e]]
    /\ group_flows' = [g \in GroupId |->
                          unlinkedG[g] \cup (IF g \in gs THEN {f} ELSE {})]
    /\ ref_count' = Recount(ref_count, group_flows, group_flows')
    /\ meter_flows' = [m \in MeterId |->
                          unlinkedM[m] \cup (IF m \in ms \cap DOMAIN meters THEN {f} ELSE {})]
    /\ flow_count' = Recount(flow_count, meter_flows, meter_flows')
    /\ UNCHANGED <<groupVars, meterVars>>

\* Mutant: the new instructions are stored, their groups are not told.
FlowModifyUnlinked(F, gs, ms) ==
    /\ flows' = [e \in DOMAIN flows |->
                    IF e \in F THEN [flows[e] EXCEPT !.groups = gs, !.meters = ms]
                               ELSE flows[e]]
    /\ UNCHANGED <<group_flows, ref_count, meter_flows, flow_count>>
    /\ UNCHANGED <<groupVars, meterVars>>

\* MODIFY of the matching entries: flow_entry_replace_instructions renews the
\* group references of each and leaves its meter references as they were.
FlowModify(F, gs, ms) ==
    LET unlinked == DelGroupRefs(group_flows, F) IN
    /\ flows' = [e \in DOMAIN flows |->
                    IF e \in F THEN [groups |-> gs, meters |-> ms, group_refs |-> gs,
                                     meter_refs |-> flows[e].meter_refs]
                               ELSE flows[e]]
    /\ group_flows' = [g \in GroupId |->
                          unlinked[g] \cup (IF g \in gs THEN F ELSE {})]
    /\ ref_count' = Recount(ref_count, group_flows, group_flows')
    /\ UNCHANGED <<meter_flows, flow_count, groupVars, meterVars>>

\* DELETE of matching entries, and entries that time out.
FlowRemove(R) == RemoveFlows(R) /\ UNCHANGED <<groupVars, meterVars>>

---------------------------------------------------------------------------
\* group_mod, with what group_entry_destroy does to the flows.
AddGroup(mod, role) ==
    /\ group_table_add(mod, role)
    /\ ref_count' = [ref_count EXCEPT ![mod.group_id] = 0]
    /\ UNCHANGED <<flows, group_flows, meter_flows, flow_count, meterVars>>

\* The new entry takes over the list of flows; its counter starts at zero.
ModifyGroup(mod, role) ==
    /\ group_table_modify(mod, role)
    /\ ref_count' = [ref_count EXCEPT ![mod.group_id] = 0]
    /\ UNCHANGED <<flows, group_flows, meter_flows, flow_count, meterVars>>

\* Mutant: the group goes, the flows that forward to it stay.
DeleteGroupOnly(id, role) ==
    /\ group_table_delete(id, role)
    /\ UNCHANGED <<refVars, meterVars>>

DeleteGroup(id, role) ==
    /\ group_table_delete(id, role)
    /\ RemoveFlows(group_flows[id])
    /\ UNCHANGED meterVars

DeleteAllGroups(role) ==
    /\ group_table_delete_all(role)
    /\ RemoveFlows(UNION {group_flows[g] : g \in DOMAIN groups})
    /\ UNCHANGED meterVars

\* meter_mod, with what meter_entry_destroy does to the flows.
AddMeter(mod, role) ==
    /\ meter_table_add(mod, role)
    /\ flow_count' = [flow_count EXCEPT ![mod.meter_id] = 0]
    /\ UNCHANGED <<flows, group_flows, ref_count, meter_flows, groupVars>>

ModifyMeter(mod, role) ==
    /\ meter_table_modify(mod, role)
    /\ flow_count' = [flow_count EXCEPT ![mod.meter_id] = 0]
    /\ UNCHANGED <<flows, group_flows, ref_count, meter_flows, groupVars>>

DeleteMeter(id, role) ==
    /\ meter_table_delete(id, role)
    /\ RemoveFlows(meter_flows[id])
    /\ UNCHANGED groupVars

DeleteAllMeters(role) ==
    /\ meter_table_delete_all(role)
    /\ RemoveFlows(UNION {meter_flows[m] : m \in DOMAIN meters})
    /\ UNCHANGED groupVars

\* Messages that are answered with an error, or find nothing to delete.
Refused ==
    \/ GroupModUnchanged /\ UNCHANGED <<meterVars, refVars>>
    \/ MeterModUnchanged /\ UNCHANGED <<groupVars, refVars>>
    \/ \E gs \in SUBSET GroupId, role \in Role : FlowModRefused(gs, role)

\* Every message but the modification of a group.
OtherMessage ==
    \/ Refused
    \/ \E role \in Role, gs \in SUBSET GroupId, ms \in SUBSET MeterId :
          /\ FlowModAccepted(gs, role)
          /\ \/ \E f \in Flow : FlowAdd(f, gs, ms)
             \/ \E F \in SUBSET DOMAIN flows : FlowModify(F, gs, ms)
    \/ \E R \in SUBSET DOMAIN flows : FlowRemove(R)
    \/ \E role \in Role, mod \in GroupMod : AddGroup(mod, role)
    \/ \E role \in Role, id \in GroupId : DeleteGroup(id, role)
    \/ \E role \in Role : DeleteAllGroups(role)
    \/ \E role \in Role, mod \in MeterMod : AddMeter(mod, role) \/ ModifyMeter(mod, role)
    \/ \E role \in Role, id \in MeterId : DeleteMeter(id, role)
    \/ \E role \in Role : DeleteAllMeters(role)

Next == OtherMessage \/ \E role \in Role, mod \in GroupMod : ModifyGroup(mod, role)

Spec == Init /\ [][Next]_vars

---------------------------------------------------------------------------
\* The lists hold entries of the table's places; the counters are 32 bits wide.
TypeOK ==
    /\ GroupTypeOK
    /\ MeterTypeOK
    /\ DOMAIN flows \subseteq Flow
    /\ flows \in [DOMAIN flows -> FlowEntry]
    /\ group_flows \in [GroupId -> SUBSET Flow]
    /\ ref_count \in [GroupId -> 0..(CountMod - 1)]
    /\ meter_flows \in [MeterId -> SUBSET Flow]
    /\ flow_count \in [MeterId -> 0..(CountMod - 1)]

\* A group points to exactly the entries whose instructions name it, through
\* every ADD, replacement, MODIFY, timeout and group_mod: deleting the group
\* removes these entries and no others.
GroupRefsExact ==
    \A g \in GroupId :
        group_flows[g] = {f \in DOMAIN flows : g \in flows[f].groups}

\* A packet that matches an entry finds every group the entry's actions name.
FlowGroupsResolved == \A f \in DOMAIN flows : flows[f].groups \subseteq DOMAIN groups

\* No meter points to an entry that has been freed, and only meters of the
\* table point to entries: meter_entry_destroy never follows a stale pointer.
MeterRefsLive ==
    \A m \in MeterId : \A f \in meter_flows[m] :
        m \in DOMAIN meters /\ f \in DOMAIN flows /\ m \in flows[f].meter_refs

\* A group_mod or meter_mod costs an entry its place only when a group or
\* meter on the entry's lists has been deleted: modifying one keeps its flows.
FlowLossExplained ==
    [][\A f \in DOMAIN flows \ DOMAIN flows' :
          \/ groups' = groups /\ meters' = meters
          \/ \E g \in flows[f].groups : g \notin DOMAIN groups'
          \/ \E m \in flows[f].meter_refs : m \notin DOMAIN meters']_vars
===========================================================================
