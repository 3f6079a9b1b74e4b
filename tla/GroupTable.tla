---------------------------- MODULE GroupTable ----------------------------
(***************************************************************************)
(* The group table of the datapath and its handler for group_mod messages  *)
(* (udatapath/group_table.c, with dp_actions_validate of dp_actions.c).    *)
(* Buckets are abstracted to how many there are, the groups they forward   *)
(* to and the ports they output to; flow references are in FlowRefs.       *)
(***************************************************************************)
EXTENDS OpenFlow, GroupGraph, Integers, FiniteSets, Functions

CONSTANTS
    Port,          \* ids of ports an output action may name
    ExistingPort,  \* those of them the datapath has; ports are never removed
    MaxEntries,    \* GROUP_TABLE_MAX_ENTRIES
    MaxBuckets,    \* GROUP_TABLE_MAX_BUCKETS
    ModBuckets     \* bound: buckets in one group_mod

ASSUME GroupTableAssumption ==
    /\ ExistingPort \subseteq Port
    /\ MaxEntries \in Nat
    /\ MaxBuckets \in Nat
    /\ ModBuckets \in Nat

VARIABLES
    groups,        \* table->entries: id -> entry
    entries_num,   \* table->entries_num
    buckets_num    \* table->buckets_num

groupVars == <<groups, entries_num, buckets_num>>

Entry == [buckets_num : 0..ModBuckets, out : SUBSET GroupId]

\* A decoded ADD or MODIFY message: what its buckets hold, if there are any.
GroupMod ==
    {m \in [group_id : GroupId, buckets_num : 0..ModBuckets,
            out : SUBSET GroupId, ports : SUBSET Port] :
        m.buckets_num = 0 => m.out = {} /\ m.ports = {}}

NoGroups == [g \in {} |-> [buckets_num |-> 0, out |-> {}]]

GroupInit ==
    /\ groups = NoGroups
    /\ entries_num = 0
    /\ buckets_num = 0

NewEntry(mod) == [buckets_num |-> mod.buckets_num, out |-> mod.out]

---------------------------------------------------------------------------
(* What the handlers return: "OK", or the error of the first check that fails. *)

\* dp_actions_validate; which error comes first depends on the order of the
\* actions when both kinds are bad.
ValidateError(mod) ==
    IF ~(mod.ports \subseteq ExistingPort) THEN "BAD_OUT_PORT"
    ELSE IF ~(mod.out \subseteq DOMAIN groups) THEN "BAD_OUT_GROUP"
    ELSE "OK"

\* The checks group_table_handle_group_mod makes before it looks at the command.
HandlerError(mod, role) == IF role = "SLAVE" THEN "IS_SLAVE" ELSE ValidateError(mod)

AddError(mod, role) ==
    IF HandlerError(mod, role) # "OK" THEN HandlerError(mod, role)
    ELSE IF mod.group_id \in DOMAIN groups THEN "GROUP_EXISTS"
    ELSE IF entries_num = MaxEntries THEN "OUT_OF_GROUPS"
    ELSE IF buckets_num + mod.buckets_num > MaxBuckets THEN "OUT_OF_BUCKETS"
    ELSE "OK"

\* Mutant: the buckets of the entry that is replaced are not given back.
ModifiedKeepsOld(mod) == buckets_num + mod.buckets_num

ModifiedBuckets(mod) == buckets_num - groups[mod.group_id].buckets_num + mod.buckets_num

ModifyError(mod, role) ==
    IF HandlerError(mod, role) # "OK" THEN HandlerError(mod, role)
    ELSE IF mod.group_id \notin DOMAIN groups THEN "UNKNOWN_GROUP"
    ELSE IF ModifiedBuckets(mod) > MaxBuckets THEN "OUT_OF_BUCKETS"
    ELSE IF ~LoopFree(groups, mod.group_id, mod.out) THEN "LOOP"
    ELSE "OK"

\* Mutant: no check that other groups still name the group.
DeleteErrorUnchecked(id, role) == IF role = "SLAVE" THEN "IS_SLAVE" ELSE "OK"

\* A DELETE carries no buckets (the unpacker refuses them), so none are
\* validated.  A group that is not there is no error.
DeleteError(id, role) ==
    IF role = "SLAVE" THEN "IS_SLAVE"
    ELSE IF id \in DOMAIN groups /\ \E g \in DOMAIN groups : id \in groups[g].out
         THEN "CHAINING_UNSUPPORTED"
    ELSE "OK"

---------------------------------------------------------------------------
(* The group_mod messages that are carried out. *)

group_table_add(mod, role) ==
    /\ AddError(mod, role) = "OK"
    /\ groups' = [g \in DOMAIN groups \cup {mod.group_id} |->
                     IF g = mod.group_id THEN NewEntry(mod) ELSE groups[g]]
    /\ entries_num' = entries_num + 1
    /\ buckets_num' = buckets_num + mod.buckets_num

group_table_modify(mod, role) ==
    /\ ModifyError(mod, role) = "OK"
    /\ groups' = [groups EXCEPT ![mod.group_id] = NewEntry(mod)]
    /\ buckets_num' = ModifiedBuckets(mod)
    /\ UNCHANGED entries_num

\* Mutant: deleting a group that is not there is counted too.
DeleteCountsAbsent(id, role) ==
    /\ DeleteError(id, role) = "OK"
    /\ groups' = [g \in DOMAIN groups \ {id} |-> groups[g]]
    /\ entries_num' = entries_num - 1
    /\ UNCHANGED buckets_num

group_table_delete(id, role) ==
    /\ DeleteError(id, role) = "OK"
    /\ id \in DOMAIN groups
    /\ groups' = [g \in DOMAIN groups \ {id} |-> groups[g]]
    /\ entries_num' = entries_num - 1
    /\ buckets_num' = buckets_num - groups[id].buckets_num

\* DELETE with the id OFPG_ALL: the whole loop, which no message interrupts.
group_table_delete_all(role) ==
    /\ role # "SLAVE"
    /\ groups' = NoGroups
    /\ entries_num' = 0
    /\ buckets_num' = 0

\* A group_mod that is answered with an error, or deletes a group that is not
\* there, leaves the table alone.
GroupModUnchanged ==
    /\ \E role \in Role :
          \/ \E mod \in GroupMod :
                AddError(mod, role) # "OK" \/ ModifyError(mod, role) # "OK"
          \/ \E id \in GroupId : DeleteError(id, role) # "OK" \/ id \notin DOMAIN groups
    /\ UNCHANGED groupVars

GroupNext ==
    \/ GroupModUnchanged
    \/ \E role \in Role, mod \in GroupMod :
          group_table_add(mod, role) \/ group_table_modify(mod, role)
    \/ \E role \in Role, id \in GroupId : group_table_delete(id, role)
    \/ \E role \in Role : group_table_delete_all(role)

GroupSpec == GroupInit /\ [][GroupNext]_groupVars

---------------------------------------------------------------------------
\* The table maps ids to entries; the counters are integers (that they never
\* go below zero is BucketsCounted and EntriesCounted).
GroupTypeOK ==
    /\ DOMAIN groups \subseteq GroupId
    /\ groups \in [DOMAIN groups -> Entry]
    /\ entries_num \in Int
    /\ buckets_num \in Int

\* Whatever sequence of group_mods is answered, executing a group comes to an
\* end: no chain of group actions leads back to where it was.  group_table_add
\* makes no loop check, group_table_modify makes one.
GroupsAcyclic == Acyclic(groups)

\* No bucket ever names a group that is not in the table: groups are checked
\* when the bucket is accepted (dp_actions_validate), and group_table_delete
\* refuses to remove one that is still named.
GroupsResolved == Resolved(groups)

\* The number checked against GROUP_TABLE_MAX_ENTRIES is the number of groups
\* in the table, and it respects the limit.
EntriesCounted ==
    /\ IsFiniteSet(DOMAIN groups)
    /\ entries_num = Cardinality(DOMAIN groups)
    /\ entries_num <= MaxEntries

\* The number checked against GROUP_TABLE_MAX_BUCKETS is the number of buckets
\* that the groups of the table hold together, and it respects the limit.
BucketsCounted ==
    /\ buckets_num = SumFunction([g \in DOMAIN groups |-> groups[g].buckets_num])
    /\ buckets_num <= MaxBuckets

\* The comment on is_loop_free: it "returns true if the table would remain
\* loop free after the modification".  In every reachable table and for every
\* modification that passes validation, its answer is exactly that.
LoopCheckExact ==
    \A id \in DOMAIN groups, out \in SUBSET DOMAIN groups :
        LoopFree(groups, id, out) <=> Acyclic([groups EXCEPT ![id].out = out])
===========================================================================
