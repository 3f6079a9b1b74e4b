---------------------------- MODULE GroupModify ----------------------------
(***************************************************************************)
(* group_table_modify as the code runs it (udatapath/group_table.c): the   *)
(* checks of the handler, then is_loop_free one turn of its loop at a      *)
(* time, then the exchange of the entries.  It implements FlowRefs, where  *)
(* the modification is one step guarded by what the search should answer.  *)
(***************************************************************************)
EXTENDS FlowRefs, LoopSearch

modifyVars == <<vars, searchVars>>

NoMod == [group_id |-> {}]

\* No search is under way.
Idle == pc = "idle"

ModifyInit ==
    /\ Init
    /\ table = groups /\ group_mod = NoMod
    /\ visited = {} /\ to_be_visited = {} /\ pc = "idle" /\ loop_free = FALSE

\* group_table_modify up to its call of is_loop_free.
Check(mod, role) ==
    /\ Idle
    /\ HandlerError(mod, role) = "OK"
    /\ mod.group_id \in DOMAIN groups /\ ModifiedBuckets(mod) <= MaxBuckets
    /\ group_mod' = mod /\ pc' = "visit_mod"
    /\ UNCHANGED <<vars, table, visited, to_be_visited, loop_free>>

Search == SearchNext /\ UNCHANGED vars

\* Mutant: the list of flows is not handed over, and the old entry's destruction
\* takes the flows with it.
FinishDropsFlows ==
    /\ pc = "done"
    /\ IF loop_free
       THEN /\ groups' = [groups EXCEPT ![group_mod.group_id] = NewEntry(group_mod)]
            /\ buckets_num' = ModifiedBuckets(group_mod)
            /\ RemoveFlows(group_flows[group_mod.group_id])
            /\ UNCHANGED <<entries_num, meterVars>>
       ELSE UNCHANGED vars
    /\ table' = groups' /\ group_mod' = NoMod
    /\ visited' = {} /\ to_be_visited' = {} /\ pc' = "idle" /\ loop_free' = FALSE

\* What follows the call: the error, or the new entry in the place of the old.
Finish ==
    /\ pc = "done"
    /\ IF loop_free
       THEN /\ groups' = [groups EXCEPT ![group_mod.group_id] = NewEntry(group_mod)]
            /\ buckets_num' = ModifiedBuckets(group_mod)
            /\ ref_count' = [ref_count EXCEPT ![group_mod.group_id] = 0]
            /\ UNCHANGED <<entries_num, meterVars, flows, group_flows, meter_flows, flow_count>>
       ELSE UNCHANGED vars
    /\ table' = groups' /\ group_mod' = NoMod
    /\ visited' = {} /\ to_be_visited' = {} /\ pc' = "idle" /\ loop_free' = FALSE

\* Every other message is handled in one step, and none during a search.
Other ==
    /\ Idle /\ OtherMessage /\ table' = groups'
    /\ UNCHANGED <<group_mod, visited, to_be_visited, pc, loop_free>>

ModifyNext ==
    \/ \E mod \in GroupMod, role \in Role : Check(mod, role)
    \/ Search
    \/ Finish
    \/ Other

ModifySpec == ModifyInit /\ [][ModifyNext]_modifyVars

---------------------------------------------------------------------------
\* The search and the exchange that follows it are the one step of FlowRefs:
\* a modification is carried out exactly if it leaves the groups free of loops.
ModifyIsAtomic == Spec
===========================================================================
