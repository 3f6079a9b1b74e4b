---------------------------- MODULE TableProofs ----------------------------
(***************************************************************************)
(* Proofs about GroupTable, MeterTable, FlowRefs and GroupModify: for any  *)
(* groups, meters, flows and limits, and any width of size_t.              *)
(***************************************************************************)
EXTENDS GroupModify, DataProofs

---------------------------------------------------------------------------
(* The group table. *)

\* A modification that is_loop_free accepts leaves no loop behind.
LEMMA LoopFreeSound ==
    ASSUME NEW t, NEW id \in DOMAIN t, NEW out \in SUBSET GroupId, NEW t2,
           DOMAIN t \subseteq GroupId,
           Acyclic(t), LoopFree(t, id, out),
           DOMAIN t2 = DOMAIN t, t2[id].out = out,
           \A g \in DOMAIN t \ {id} : t2[g].out = t[g].out
    PROVE  Acyclic(t2)
<1>1. PICK C \in SUBSET GroupId :
          out \subseteq C /\ id \notin C /\ Closed(t, C)
  BY DEF LoopFree
<1> SUFFICES ASSUME NEW S \in SUBSET DOMAIN t, S # {}
             PROVE  \E g \in S : t2[g].out \cap S = {}
  BY DEF Acyclic
<1>2. CASE S \cap C # {}
  \* the search never leaves C, and there nothing has changed
  <2>1. PICK g \in S \cap C : t[g].out \cap (S \cap C) = {}
    BY Zenon, <1>2 DEF Acyclic
  <2>2. t2[g].out = t[g].out /\ t[g].out \subseteq C
    BY <1>1, <2>1 DEF Closed
  <2> QED
    BY <2>1, <2>2
<1>3. CASE S \cap C = {} /\ id \in S
  BY <1>1, <1>3
<1>4. CASE id \notin S
  BY <1>4 DEF Acyclic
<1> QED
  BY <1>2, <1>3, <1>4

\* A modification that is_loop_free refuses would close a loop.
LEMMA LoopFreeComplete ==
    ASSUME NEW t, NEW id \in DOMAIN t, NEW out \in SUBSET DOMAIN t, NEW t2,
           DOMAIN t \subseteq GroupId,
           Resolved(t), ~LoopFree(t, id, out),
           DOMAIN t2 = DOMAIN t, t2[id].out = out,
           \A g \in DOMAIN t \ {id} : t2[g].out = t[g].out
    PROVE  ~Acyclic(t2)
\* the groups from which id cannot be reached
<1> DEFINE Safe == UNION {C \in SUBSET GroupId : id \notin C /\ Closed(t, C)}
           S == DOMAIN t \ Safe
<1>1. Safe \in SUBSET GroupId /\ id \notin Safe
  OBVIOUS
<1>2. Closed(t, Safe)
  BY DEF Closed
<1>3. ~(out \subseteq Safe)
  BY <1>1, <1>2 DEF LoopFree
<1>4. ASSUME NEW g \in S, g # id
      PROVE  ~(t[g].out \subseteq Safe)
  <2> SUFFICES ASSUME t[g].out \subseteq Safe
               PROVE  FALSE
    OBVIOUS
  <2>1. Closed(t, Safe \cup {g})
    BY <1>2 DEF Closed
  <2>2. Safe \cup {g} \in {C \in SUBSET GroupId : id \notin C /\ Closed(t, C)}
    BY <1>1, <1>4, <2>1
  <2> QED
    BY <2>2
<1>5. \A g \in S : t2[g].out \cap S # {}
  <2> TAKE g \in S
  <2> HIDE DEF Safe
  <2>1. t2[g].out \subseteq DOMAIN t
    BY DEF Resolved
  <2>2. ~(t2[g].out \subseteq Safe)
    BY <1>3, <1>4
  <2> QED
    BY <2>1, <2>2
<1>6. id \in S
  BY <1>1
<1> QED
  BY Zenon, <1>5, <1>6 DEF Acyclic

---------------------------------------------------------------------------
\* What an accepted message has been checked for.
LEMMA AddOK ==
    ASSUME NEW mod, NEW role, AddError(mod, role) = "OK"
    PROVE  /\ mod.group_id \notin DOMAIN groups
           /\ mod.out \subseteq DOMAIN groups
           /\ entries_num # MaxEntries
BY DEF AddError, HandlerError, ValidateError

\* A MODIFY that is accepted names groups of the table and makes no loop.
LEMMA ModifyOK ==
    ASSUME NEW mod, NEW role, ModifyError(mod, role) = "OK"
    PROVE  /\ mod.group_id \in DOMAIN groups
           /\ mod.out \subseteq DOMAIN groups
           /\ LoopFree(groups, mod.group_id, mod.out)
BY DEF ModifyError, HandlerError, ValidateError

\* A group that may be deleted is in no other group's buckets.
LEMMA DeleteOK ==
    ASSUME NEW id \in DOMAIN groups, NEW role, DeleteError(id, role) = "OK"
    PROVE  \A g \in DOMAIN groups : id \notin groups[g].out
BY DEF DeleteError

\* Every group_mod leaves a map from ids to entries, and integers, behind.
LEMMA GroupTypeStep ==
    ASSUME GroupTypeOK, [GroupNext]_groupVars
    PROVE  GroupTypeOK'
<1> USE GroupTableAssumption
<1>1. \A mod \in GroupMod : NewEntry(mod) \in Entry /\ mod.group_id \in GroupId
                              /\ mod.buckets_num \in Int
  BY DEF GroupMod, NewEntry, Entry
<1>2. \A g \in DOMAIN groups : groups[g] \in Entry /\ groups[g].buckets_num \in Int
  BY DEF GroupTypeOK, Entry
<1>3. CASE UNCHANGED groupVars
  BY <1>3 DEF GroupTypeOK, groupVars
<1>4. ASSUME NEW role \in Role, NEW mod \in GroupMod, group_table_add(mod, role)
      PROVE  GroupTypeOK'
  BY <1>1, <1>2, <1>4 DEF group_table_add, GroupTypeOK
<1>5. ASSUME NEW role \in Role, NEW mod \in GroupMod, group_table_modify(mod, role)
      PROVE  GroupTypeOK'
  BY <1>1, <1>2, <1>5, ModifyOK DEF group_table_modify, ModifiedBuckets, GroupTypeOK
<1>6. ASSUME NEW role \in Role, NEW id \in GroupId, group_table_delete(id, role)
      PROVE  GroupTypeOK'
  BY <1>2, <1>6 DEF group_table_delete, GroupTypeOK
<1>7. ASSUME NEW role \in Role, group_table_delete_all(role)
      PROVE  GroupTypeOK'
  BY <1>7 DEF group_table_delete_all, GroupTypeOK, NoGroups
<1> QED
  BY Zenon, <1>3, <1>4, <1>5, <1>6, <1>7 DEF GroupNext, GroupModUnchanged

\* The empty table has its type,
LEMMA GroupTypeInitial == GroupInit => GroupTypeOK
BY DEF GroupInit, GroupTypeOK, NoGroups

\* The table stays a map from group ids to entries and the counters integers,
\* whatever group_mod messages group_table_handle_group_mod is given.
THEOREM GroupTypeCorrect == GroupSpec => []GroupTypeOK
BY GroupTypeInitial, GroupTypeStep, PTL DEF GroupSpec

\* The inductive invariant of the reference graph.  Neither half is inductive
\* alone: that an ADD closes no loop needs that nothing names the new group
\* yet, which is what GroupsResolved says.
GraphInv == GroupsAcyclic /\ GroupsResolved

\* and no chain of groups.
LEMMA GraphInitial == GroupInit => GraphInv
BY DEF GroupInit, NoGroups, GraphInv, GroupsAcyclic, GroupsResolved, Acyclic, Resolved

\* Every group_mod leaves the chains of groups acyclic and resolved.
LEMMA GraphStep ==
    ASSUME GroupTypeOK, GraphInv, [GroupNext]_groupVars
    PROVE  GraphInv'
<1>1. CASE UNCHANGED groupVars
  BY <1>1 DEF GraphInv, GroupsAcyclic, GroupsResolved, groupVars
<1>2. ASSUME NEW role \in Role, NEW mod \in GroupMod, group_table_add(mod, role)
      PROVE  GraphInv'
  <2> DEFINE id == mod.group_id
  <2>1. id \notin DOMAIN groups /\ mod.out \subseteq DOMAIN groups
    BY <1>2, AddOK DEF group_table_add
  <2>2. /\ DOMAIN groups' = DOMAIN groups \cup {id}
        /\ groups'[id].out = mod.out
        /\ \A g \in DOMAIN groups : groups'[g].out = groups[g].out
    BY <1>2, <2>1 DEF group_table_add, NewEntry
  <2>3. \A g \in DOMAIN groups : groups[g].out \subseteq DOMAIN groups
    BY DEF GraphInv, GroupsResolved, Resolved
  <2>4. GroupsResolved'
    BY <2>1, <2>2, <2>3 DEF GroupsResolved, Resolved
  <2>5. ASSUME NEW S \in SUBSET (DOMAIN groups \cup {id}), S # {}
        PROVE  \E g \in S : groups'[g].out \cap S = {}
    \* id is named by no group, so a minimal group of the rest is minimal in S
    <3>1. CASE S \cap DOMAIN groups # {}
      <4>1. PICK g \in S \cap DOMAIN groups : groups[g].out \cap (S \cap DOMAIN groups) = {}
        BY Zenon, <3>1 DEF GraphInv, GroupsAcyclic, Acyclic
      <4> QED
        BY <2>1, <2>2, <2>3, <4>1
    <3>2. CASE S = {id}
      BY <2>1, <2>2, <3>2
    <3> QED
      BY <2>5, <3>1, <3>2
  <2> QED
    BY <2>2, <2>4, <2>5 DEF GraphInv, GroupsAcyclic, Acyclic
<1>3. ASSUME NEW role \in Role, NEW mod \in GroupMod, group_table_modify(mod, role)
      PROVE  GraphInv'
  <2> DEFINE id == mod.group_id
  <2>1. /\ id \in DOMAIN groups
        /\ mod.out \subseteq DOMAIN groups
        /\ LoopFree(groups, id, mod.out)
    BY <1>3, ModifyOK DEF group_table_modify
  <2>2. /\ DOMAIN groups' = DOMAIN groups
        /\ groups'[id].out = mod.out
        /\ \A g \in DOMAIN groups \ {id} : groups'[g].out = groups[g].out
    BY <1>3, <2>1 DEF group_table_modify, NewEntry, GroupTypeOK
  <2>3. Acyclic(groups')
    <3>1. mod.out \in SUBSET GroupId /\ DOMAIN groups \subseteq GroupId
      BY <2>1 DEF GroupTypeOK
    <3>2. Acyclic(groups)
      BY DEF GraphInv, GroupsAcyclic
    <3>3. \A t2 : /\ DOMAIN t2 = DOMAIN groups
                  /\ t2[id].out = mod.out
                  /\ \A g \in DOMAIN groups \ {id} : t2[g].out = groups[g].out
                  => Acyclic(t2)
      <4> HIDE DEF id
      <4> QED
        BY <2>1, <3>1, <3>2, LoopFreeSound
    <3> QED
      BY <2>2, <3>3, Zenon
  <2>4. Resolved(groups')
    BY <2>1, <2>2 DEF GraphInv, GroupsResolved, Resolved
  <2> QED
    BY <2>3, <2>4 DEF GraphInv, GroupsAcyclic, GroupsResolved
<1>4. ASSUME NEW role \in Role, NEW id \in GroupId, group_table_delete(id, role)
      PROVE  GraphInv'
  <2>1. /\ DOMAIN groups' = DOMAIN groups \ {id}
        /\ \A g \in DOMAIN groups' : groups'[g] = groups[g]
        /\ \A g \in DOMAIN groups : id \notin groups[g].out
    BY <1>4, DeleteOK DEF group_table_delete
  <2> QED
    BY <2>1 DEF GraphInv, GroupsAcyclic, GroupsResolved, Acyclic, Resolved
<1>5. ASSUME NEW role \in Role, group_table_delete_all(role)
      PROVE  GraphInv'
  BY <1>5 DEF group_table_delete_all, NoGroups, GraphInv, GroupsAcyclic,
              GroupsResolved, Acyclic, Resolved
<1> QED
  BY Zenon, <1>1, <1>2, <1>3, <1>4, <1>5 DEF GroupNext, GroupModUnchanged

\* No sequence of group_mod messages builds a chain of groups that leads back
\* to itself, so group_table_execute always comes to an end.
THEOREM GroupsStayAcyclic == GroupSpec => []GroupsAcyclic
<1>1. GraphInv => GroupsAcyclic
  BY DEF GraphInv
<1> QED
  BY <1>1, GraphInitial, GraphStep, GroupTypeCorrect, PTL DEF GroupSpec

\* Every group named in a bucket is found when the bucket is executed.
THEOREM GroupsStayResolved == GroupSpec => []GroupsResolved
<1>1. GraphInv => GroupsResolved
  BY DEF GraphInv
<1> QED
  BY <1>1, GraphInitial, GraphStep, GroupTypeCorrect, PTL DEF GroupSpec

\* In every reachable table is_loop_free refuses a modification exactly when
\* the modified table would have a loop.
THEOREM LoopCheckIsExact == GroupSpec => []LoopCheckExact
<1>1. GroupTypeOK /\ GroupsAcyclic /\ GroupsResolved => LoopCheckExact
  <2> SUFFICES ASSUME GroupTypeOK, GroupsAcyclic, GroupsResolved,
                      NEW id \in DOMAIN groups, NEW out \in SUBSET DOMAIN groups
               PROVE  LoopFree(groups, id, out)
                        <=> Acyclic([groups EXCEPT ![id].out = out])
    BY DEF LoopCheckExact
  <2> DEFINE t2 == [groups EXCEPT ![id].out = out]
  <2>1. /\ DOMAIN t2 = DOMAIN groups
        /\ t2[id].out = out
        /\ \A g \in DOMAIN groups \ {id} : t2[g].out = groups[g].out
    BY DEF GroupTypeOK, Entry
  <2>2. /\ DOMAIN groups \subseteq GroupId
        /\ out \in SUBSET GroupId
        /\ Acyclic(groups)
        /\ Resolved(groups)
    BY DEF GroupTypeOK, GroupsAcyclic, GroupsResolved
  <2> HIDE DEF t2
  <2>3. LoopFree(groups, id, out) => Acyclic(t2)
    BY <2>1, <2>2, LoopFreeSound
  <2>4. ~LoopFree(groups, id, out) => ~Acyclic(t2)
    BY <2>1, <2>2, LoopFreeComplete
  <2> QED
    BY <2>3, <2>4 DEF t2
<1> QED
  BY <1>1, GroupTypeCorrect, GroupsStayAcyclic, GroupsStayResolved, PTL

\* entries_num is the number of groups in the table and stays within
\* GROUP_TABLE_MAX_ENTRIES.
THEOREM EntriesStayCounted == GroupSpec => []EntriesCounted
<1>1. GroupInit => EntriesCounted
  <2> SUFFICES ASSUME GroupInit PROVE EntriesCounted
    OBVIOUS
  <2>1. DOMAIN groups = {}
    BY DEF GroupInit, NoGroups
  <2> QED
    BY <2>1, FS_EmptySet, GroupTableAssumption DEF GroupInit, EntriesCounted
<1>2. ASSUME GroupTypeOK, EntriesCounted, [GroupNext]_groupVars
      PROVE  EntriesCounted'
  <2> USE GroupTableAssumption
  <2>0. IsFiniteSet(DOMAIN groups) /\ entries_num = Cardinality(DOMAIN groups)
            /\ entries_num <= MaxEntries /\ Cardinality(DOMAIN groups) \in Nat
    BY <1>2, FS_CardinalityType DEF EntriesCounted
  <2>1. CASE UNCHANGED groupVars
    BY <1>2, <2>1 DEF EntriesCounted, groupVars
  <2>2. ASSUME NEW role \in Role, NEW mod \in GroupMod, group_table_add(mod, role)
        PROVE  EntriesCounted'
    <3>1. mod.group_id \notin DOMAIN groups /\ entries_num # MaxEntries
      BY <2>2, AddOK DEF group_table_add
    <3>2. /\ IsFiniteSet(DOMAIN groups \cup {mod.group_id})
          /\ Cardinality(DOMAIN groups \cup {mod.group_id})
               = Cardinality(DOMAIN groups) + 1
      BY <2>0, <3>1, FS_AddElement
    <3>3. DOMAIN groups' = DOMAIN groups \cup {mod.group_id}
      BY <2>2 DEF group_table_add
    <3> QED
      BY <2>0, <2>2, <3>1, <3>2, <3>3 DEF EntriesCounted, group_table_add
  <2>3. ASSUME NEW role \in Role, NEW mod \in GroupMod, group_table_modify(mod, role)
        PROVE  EntriesCounted'
    BY <2>0, <2>3 DEF EntriesCounted, group_table_modify
  <2>4. ASSUME NEW role \in Role, NEW id \in GroupId, group_table_delete(id, role)
        PROVE  EntriesCounted'
    <3>1. /\ IsFiniteSet(DOMAIN groups \ {id})
          /\ Cardinality(DOMAIN groups \ {id}) = Cardinality(DOMAIN groups) - 1
      BY <2>0, <2>4, FS_RemoveElement DEF group_table_delete
    <3>2. DOMAIN groups' = DOMAIN groups \ {id}
      BY <2>4 DEF group_table_delete
    <3> QED
      BY <2>0, <2>4, <3>1, <3>2 DEF EntriesCounted, group_table_delete
  <2>5. ASSUME NEW role \in Role, group_table_delete_all(role)
        PROVE  EntriesCounted'
    <3>1. DOMAIN groups' = {} /\ entries_num' = 0
      BY <2>5 DEF group_table_delete_all, NoGroups
    <3> QED
      BY <3>1, FS_EmptySet DEF EntriesCounted
  <2> QED
    BY Zenon, <1>2, <2>1, <2>2, <2>3, <2>4, <2>5 DEF GroupNext, GroupModUnchanged
<1> QED
  BY <1>1, <1>2, GroupTypeCorrect, PTL DEF GroupSpec

\* What the groups hold together changes by what one of them holds.
LEMMA BucketsStep ==
    ASSUME GroupTypeOK, EntriesCounted, BucketsCounted, [GroupNext]_groupVars
    PROVE  BucketsCounted'
<1> DEFINE held(t) == [g \in DOMAIN t |-> t[g].buckets_num]
           rest(id) == [g \in DOMAIN groups \ {id} |-> groups[g].buckets_num]
<1> USE GroupTableAssumption
<1>1. /\ IsFiniteSet(DOMAIN groups)
      /\ \A g \in DOMAIN groups : groups[g].buckets_num \in Int
      /\ buckets_num \in Int
  BY DEF GroupTypeOK, EntriesCounted, Entry
<1>2. buckets_num = SumFunction(held(groups)) /\ buckets_num <= MaxBuckets
  BY DEF BucketsCounted
<1>3. CASE UNCHANGED groupVars
  BY <1>3 DEF BucketsCounted, groupVars
<1>4. ASSUME NEW role \in Role, NEW mod \in GroupMod, group_table_add(mod, role)
      PROVE  BucketsCounted'
  <2> DEFINE id == mod.group_id
             D == DOMAIN groups \cup {id}
             f == held(groups')
             h == held(groups)
  <2>1. id \notin DOMAIN groups /\ buckets_num + mod.buckets_num <= MaxBuckets
    BY <1>4 DEF group_table_add, AddError, GroupMod
  <2>2. groups' = [g \in D |-> IF g = id THEN NewEntry(mod) ELSE groups[g]]
    BY <1>4 DEF group_table_add
  <2>3. mod.buckets_num \in Int /\ buckets_num' = buckets_num + mod.buckets_num
    BY <1>4 DEF group_table_add, GroupMod
  <2>4. f = [g \in D |-> IF g = id THEN mod.buckets_num ELSE groups[g].buckets_num]
    BY <2>2 DEF NewEntry
  <2>5. IsFiniteSet(D) /\ id \in D /\ D \ {id} = DOMAIN groups
    BY Zenon, <1>1, <2>1, FS_AddElement
  <2>6. f \in [D -> Int] /\ f[id] = mod.buckets_num
    BY <1>1, <2>3, <2>4
  <2>7. h \in [D \ {id} -> Int] /\ Agree(h, f, D \ {id})
    BY <1>1, <2>1, <2>4, <2>5 DEF Agree
  <2> HIDE DEF D, f, h, id
  <2>8. SumFunction(f) = SumFunction(h) + f[id]
    <3>1. IsFiniteSet(D) /\ id \in D /\ f \in [D -> Int]
      BY <2>5, <2>6
    <3> QED
      BY <2>7, <3>1, SumWithout, Zenon
  <2> QED
    BY <1>2, <2>1, <2>3, <2>6, <2>8 DEF BucketsCounted, f, h
<1>5. ASSUME NEW role \in Role, NEW mod \in GroupMod, group_table_modify(mod, role)
      PROVE  BucketsCounted'
  <2> DEFINE id == mod.group_id
             D == DOMAIN groups
             f == held(groups')
             h == held(groups)
             r == rest(id)
  <2>1. id \in DOMAIN groups /\ ModifiedBuckets(mod) <= MaxBuckets
    BY <1>1, <1>5 DEF group_table_modify, ModifyError, ModifiedBuckets, GroupMod
  <2>2. groups' = [groups EXCEPT ![id] = NewEntry(mod)]
    BY <1>5 DEF group_table_modify
  <2>3. /\ mod.buckets_num \in Int
        /\ buckets_num' = buckets_num - groups[id].buckets_num + mod.buckets_num
    BY <1>5 DEF group_table_modify, ModifiedBuckets, GroupMod
  <2>4. /\ f = [g \in D |-> groups'[g].buckets_num]
        /\ \A g \in D : groups'[g].buckets_num
                           = IF g = id THEN mod.buckets_num ELSE groups[g].buckets_num
    BY <2>1, <2>2 DEF NewEntry, GroupTypeOK
  <2>5. /\ f \in [D -> Int] /\ f[id] = mod.buckets_num
        /\ h \in [D -> Int] /\ h[id] = groups[id].buckets_num
        /\ r \in [D \ {id} -> Int]
        /\ Agree(r, f, D \ {id}) /\ Agree(r, h, D \ {id})
    BY <1>1, <2>1, <2>3, <2>4 DEF Agree
  <2>6. IsFiniteSet(D) /\ id \in D
    BY <1>1, <2>1
  <2> HIDE DEF D, f, h, r, id
  <2>7. SumFunction(f) = SumFunction(r) + f[id] /\ SumFunction(r) \in Int
    <3>1. f \in [D -> Int] /\ r \in [D \ {id} -> Int] /\ Agree(r, f, D \ {id})
      BY <2>5
    <3> QED
      BY <2>6, <3>1, SumWithout, Zenon
  <2>8. SumFunction(h) = SumFunction(r) + h[id]
    <3>1. h \in [D -> Int] /\ r \in [D \ {id} -> Int] /\ Agree(r, h, D \ {id})
      BY <2>5
    <3> QED
      BY <2>6, <3>1, SumWithout, Zenon
  <2>9. buckets_num = SumFunction(h) /\ h[id] \in Int
    BY <1>2, <2>5, <2>6 DEF h
  <2>10. buckets_num' = SumFunction(f)
    BY <2>3, <2>5, <2>7, <2>8, <2>9
  <2>11. buckets_num' <= MaxBuckets
    BY <1>5, <2>1 DEF group_table_modify
  <2> QED
    BY <2>10, <2>11 DEF BucketsCounted, f
<1>6. ASSUME NEW role \in Role, NEW id \in GroupId, group_table_delete(id, role)
      PROVE  BucketsCounted'
  <2> DEFINE D == DOMAIN groups
             h == held(groups)
             r == held(groups')
  <2>1. /\ id \in D /\ groups' = [g \in D \ {id} |-> groups[g]]
        /\ buckets_num' = buckets_num - groups[id].buckets_num
    BY <1>6 DEF group_table_delete
  <2>2. /\ h \in [D -> Int] /\ h[id] = groups[id].buckets_num
        /\ r \in [D \ {id} -> Int] /\ Agree(r, h, D \ {id})
    BY <1>1, <2>1 DEF Agree
  <2>3. groups[id].buckets_num >= 0
    BY <2>1 DEF GroupTypeOK, Entry
  <2>4. IsFiniteSet(D)
    BY <1>1
  <2>5. buckets_num = SumFunction(h)
    BY <1>2
  <2> HIDE DEF D, h, r
  <2>6. SumFunction(h) = SumFunction(r) + h[id] /\ SumFunction(r) \in Int
    BY <2>1, <2>2, <2>4, SumWithout, Zenon
  <2>7. h[id] \in Int
    BY <2>1, <2>2
  <2>8. buckets_num' = SumFunction(r) /\ buckets_num' <= MaxBuckets
    BY <1>2, <2>1, <2>2, <2>3, <2>5, <2>6, <2>7
  <2> QED
    BY <2>8 DEF BucketsCounted, r
<1>7. ASSUME NEW role \in Role, group_table_delete_all(role)
      PROVE  BucketsCounted'
  <2> DEFINE f == held(groups')
  <2>1. f \in [{} -> Int] /\ buckets_num' = 0
    BY <1>7 DEF group_table_delete_all, NoGroups
  <2> HIDE DEF f
  <2>2. SumFunction(f) = 0
    BY <2>1, SumOfNone, Zenon
  <2> QED
    BY <2>1, <2>2 DEF BucketsCounted, f
<1> QED
  BY Zenon, <1>3, <1>4, <1>5, <1>6, <1>7 DEF GroupNext, GroupModUnchanged

\* buckets_num is the number of buckets that the groups hold together, and stays
\* within GROUP_TABLE_MAX_BUCKETS.
THEOREM BucketsStayCounted == GroupSpec => []BucketsCounted
<1>1. GroupInit => BucketsCounted
  <2> SUFFICES ASSUME GroupInit PROVE BucketsCounted
    OBVIOUS
  <2> DEFINE f == [g \in DOMAIN groups |-> groups[g].buckets_num]
  <2>1. f \in [{} -> Int] /\ buckets_num = 0
    BY DEF GroupInit, NoGroups
  <2> HIDE DEF f
  <2>2. SumFunction(f) = 0
    BY <2>1, SumOfNone, Zenon
  <2> QED
    BY <2>1, <2>2, GroupTableAssumption DEF BucketsCounted, f
<1> QED
  BY <1>1, BucketsStep, GroupTypeCorrect, EntriesStayCounted, PTL DEF GroupSpec

---------------------------------------------------------------------------
(* The meter table. *)

\* The checks that a carried-out ADD has passed.
LEMMA MeterAddOK ==
    ASSUME NEW mod, NEW role, MeterAddError(mod, role) = "OK"
    PROVE  mod.meter_id \notin DOMAIN meters /\ meters_num # MaxMeters
BY DEF MeterAddError

\* The meter table stays well typed: in particular bands_num, which every add,
\* modify and delete computes by adding and subtracting, remains a size_t.
THEOREM MeterTypeCorrect == MeterSpec => []MeterTypeOK
<1> USE MeterTableAssumption
<1>1. MeterInit => MeterTypeOK
  BY DEF MeterInit, MeterTypeOK, NoMeters
<1>2. ASSUME MeterTypeOK, [MeterNext]_meterVars
      PROVE  MeterTypeOK'
  <2>1. CASE UNCHANGED meterVars
    BY <1>2, <2>1 DEF MeterTypeOK, meterVars
  <2>2. ASSUME NEW role \in Role, NEW mod \in MeterMod, meter_table_add(mod, role)
        PROVE  MeterTypeOK'
    <3>1. mod.meter_id \in MeterId /\ mod.bands \in 0..ModBands
      BY DEF MeterMod
    <3>2. (bands_num + mod.bands) % SizeMod \in 0..(SizeMod - 1)
      BY <1>2, <3>1 DEF MeterTypeOK
    <3> QED
      BY <1>2, <2>2, <3>1, <3>2 DEF MeterTypeOK, meter_table_add
  <2>3. ASSUME NEW role \in Role, NEW mod \in MeterMod, meter_table_modify(mod, role)
        PROVE  MeterTypeOK'
    <3>1. mod.meter_id \in MeterId /\ mod.bands \in 0..ModBands
      BY DEF MeterMod
    <3>2. mod.meter_id \in DOMAIN meters
      BY <2>3 DEF meter_table_modify, MeterModifyError
    <3>3. ModifiedBands(mod) \in 0..(SizeMod - 1)
      BY <1>2, <3>1, <3>2 DEF MeterTypeOK, ModifiedBands
    <3> QED
      BY <1>2, <2>3, <3>1, <3>2, <3>3 DEF MeterTypeOK, meter_table_modify
  <2>4. ASSUME NEW role \in Role, NEW id \in MeterId, meter_table_delete(id, role)
        PROVE  MeterTypeOK'
    <3>1. (bands_num - meters[id]) % SizeMod \in 0..(SizeMod - 1)
      BY <1>2, <2>4 DEF MeterTypeOK, meter_table_delete
    <3> QED
      BY <1>2, <2>4, <3>1 DEF MeterTypeOK, meter_table_delete
  <2>5. ASSUME NEW role \in Role, meter_table_delete_all(role)
        PROVE  MeterTypeOK'
    BY <2>5 DEF MeterTypeOK, meter_table_delete_all, NoMeters
  <2> QED
    BY Zenon, <1>2, <2>1, <2>2, <2>3, <2>4, <2>5 DEF MeterNext, MeterModUnchanged
<1> QED
  BY <1>1, <1>2, PTL DEF MeterSpec

\* entries_num is the number of meters in the table and stays within
\* DEFAULT_MAX_METER.
THEOREM MetersStayCounted == MeterSpec => []MetersCounted
<1>1. MeterInit => MetersCounted
  <2> SUFFICES ASSUME MeterInit PROVE MetersCounted
    OBVIOUS
  <2>1. DOMAIN meters = {}
    BY DEF MeterInit, NoMeters
  <2> QED
    BY <2>1, FS_EmptySet, MeterTableAssumption DEF MeterInit, MetersCounted
<1>2. ASSUME MetersCounted, [MeterNext]_meterVars
      PROVE  MetersCounted'
  <2> USE MeterTableAssumption
  <2>0. IsFiniteSet(DOMAIN meters) /\ meters_num = Cardinality(DOMAIN meters)
            /\ meters_num <= MaxMeters /\ Cardinality(DOMAIN meters) \in Nat
    BY <1>2, FS_CardinalityType DEF MetersCounted
  <2>1. CASE UNCHANGED meterVars
    BY <1>2, <2>1 DEF MetersCounted, meterVars
  <2>2. ASSUME NEW role \in Role, NEW mod \in MeterMod, meter_table_add(mod, role)
        PROVE  MetersCounted'
    <3>1. mod.meter_id \notin DOMAIN meters /\ meters_num # MaxMeters
      BY <2>2, MeterAddOK DEF meter_table_add
    <3>2. /\ IsFiniteSet(DOMAIN meters \cup {mod.meter_id})
          /\ Cardinality(DOMAIN meters \cup {mod.meter_id})
               = Cardinality(DOMAIN meters) + 1
      BY Zenon, <2>0, <3>1, FS_AddElement
    <3>3. DOMAIN meters' = DOMAIN meters \cup {mod.meter_id}
      BY <2>2 DEF meter_table_add
    <3> QED
      BY <2>0, <2>2, <3>1, <3>2, <3>3 DEF MetersCounted, meter_table_add
  <2>3. ASSUME NEW role \in Role, NEW mod \in MeterMod, meter_table_modify(mod, role)
        PROVE  MetersCounted'
    BY <2>0, <2>3 DEF MetersCounted, meter_table_modify
  <2>4. ASSUME NEW role \in Role, NEW id \in MeterId, meter_table_delete(id, role)
        PROVE  MetersCounted'
    <3>1. /\ IsFiniteSet(DOMAIN meters \ {id})
          /\ Cardinality(DOMAIN meters \ {id}) = Cardinality(DOMAIN meters) - 1
      BY <2>0, <2>4, FS_RemoveElement DEF meter_table_delete
    <3>2. DOMAIN meters' = DOMAIN meters \ {id}
      BY <2>4 DEF meter_table_delete
    <3> QED
      BY <2>0, <2>4, <3>1, <3>2 DEF MetersCounted, meter_table_delete
  <2>5. ASSUME NEW role \in Role, meter_table_delete_all(role)
        PROVE  MetersCounted'
    <3>1. DOMAIN meters' = {} /\ meters_num' = 0
      BY <2>5 DEF meter_table_delete_all, NoMeters
    <3> QED
      BY <3>1, FS_EmptySet DEF MetersCounted
  <2> QED
    BY Zenon, <1>2, <2>1, <2>2, <2>3, <2>4, <2>5 DEF MeterNext, MeterModUnchanged
<1> QED
  BY <1>1, <1>2, PTL DEF MeterSpec

\* A number has one remainder.
LEMMA OneRemainder ==
    ASSUME NEW n \in Nat \ {0}, NEW q \in Int, NEW k \in Int,
           NEW r \in 0..(n - 1), NEW s \in 0..(n - 1), n * q + r = n * k + s
    PROVE  r = s
<1> DEFINE d == q - k
<1>1. d \in Int /\ n * d = s - r
  <2>1. n * (q - k) = n * q - n * k /\ n * q \in Int /\ n * k \in Int
    OBVIOUS
  <2> QED
    BY <2>1
<1>2. -n < s - r /\ s - r < n
  OBVIOUS
<1> HIDE DEF d
<1>3. ASSUME d >= 1 PROVE FALSE
  <2>1. d - 1 \in Nat
    BY <1>1, <1>3
  <2>2. n * (d - 1) \in Nat
    BY <2>1
  <2>3. n * d = n * (d - 1) + n
    BY <1>1
  <2> QED
    BY <1>1, <1>2, <2>2, <2>3
<1>4. ASSUME d <= -1 PROVE FALSE
  <2>1. -1 - d \in Nat
    BY <1>1, <1>4
  <2>2. n * (-1 - d) \in Nat
    BY <2>1
  <2>3. n * d = -(n * (-1 - d)) - n
    BY <1>1
  <2> QED
    BY <1>1, <1>2, <2>2, <2>3
<1>5. d = 0
  BY <1>1, <1>3, <1>4
<1> QED
  BY <1>1, <1>5

\* A size_t that wraps in between ends up with the same value.
LEMMA RemainderOfSum ==
    ASSUME NEW a \in Int, NEW b \in Int, NEW n \in Nat \ {0}
    PROVE  ((a % n) + b) % n = (a + b) % n
<1> DEFINE r == a % n
           q == a \div n
           s == (r + b) % n
           k == (r + b) \div n
           u == (a + b) % n
           l == (a + b) \div n
<1>1. a = n * q + r /\ q \in Int /\ r \in 0..(n - 1)
  OBVIOUS
<1>2. r + b = n * k + s /\ k \in Int /\ s \in 0..(n - 1)
  BY <1>1
<1>3. a + b = n * l + u /\ l \in Int /\ u \in 0..(n - 1)
  OBVIOUS
<1> HIDE DEF r, q, s, k, u, l
<1>4. n * (q + k) = n * q + n * k /\ n * q \in Int /\ n * k \in Int /\ q + k \in Int
  BY <1>1, <1>2
<1>5. n * (q + k) + s = n * l + u
  BY <1>1, <1>2, <1>3, <1>4
<1>6. s = u
  BY Zenon, <1>2, <1>3, <1>4, <1>5, OneRemainder
<1> QED
  BY <1>6 DEF r, s, u

\* What a meter_mod adds to or takes from what the meters hold together.
LEMMA BandsStep ==
    ASSUME MeterTypeOK, MetersCounted, BandsCountedFromBase, [MeterNext]_meterVars
    PROVE  BandsCountedFromBase'
<1> DEFINE D == DOMAIN meters
           Held == SumFunction(meters)
<1>1. /\ IsFiniteSet(D) /\ meters \in [D -> Int] /\ SizeMod \in Nat \ {0}
      /\ bands_num \in Int /\ bands_base \in Int
  BY MeterTableAssumption DEF MeterTypeOK, MetersCounted
<1>2. bands_num = (bands_base + Held) % SizeMod
  BY DEF BandsCountedFromBase, BandsHeld
<1>3. CASE UNCHANGED meterVars
  BY <1>3 DEF BandsCountedFromBase, BandsHeld, meterVars
<1>4. ASSUME NEW role \in Role, NEW mod \in MeterMod, meter_table_add(mod, role)
      PROVE  BandsCountedFromBase'
  <2> DEFINE id == mod.meter_id
             E == D \cup {id}
             f == [m \in E |-> IF m = id THEN mod.bands ELSE meters[m]]
  <2>1. id \notin D /\ mod.bands \in Int
    BY <1>4, MeterAddOK, MeterTableAssumption DEF meter_table_add, MeterMod
  <2>2. /\ meters' = f /\ bands_base' = bands_base
        /\ bands_num' = (bands_num + mod.bands) % SizeMod
    BY <1>4 DEF meter_table_add
  <2>3. IsFiniteSet(E) /\ id \in E /\ E \ {id} = D
    BY Zenon, <1>1, <2>1, FS_AddElement
  <2>4. f \in [E -> Int] /\ Agree(meters, f, E \ {id})
    BY <1>1, <2>1, <2>3 DEF Agree
  <2>5. f[id] = mod.bands
    OBVIOUS
  <2> HIDE DEF D, E, f, id, Held
  <2>6. meters \in [E \ {id} -> Int]
    BY <1>1, <2>3
  <2>7. /\ SumFunction(f) = SumFunction(meters) + f[id]
        /\ SumFunction(meters) \in Int
    BY <2>3, <2>4, <2>6, SumWithout, Zenon
  <2>8. SumFunction(f) = Held + mod.bands /\ Held \in Int
    BY <2>5, <2>7 DEF Held
  <2>9. (((bands_base + Held) % SizeMod) + mod.bands) % SizeMod
          = (bands_base + Held + mod.bands) % SizeMod
    <3>1. bands_base + Held \in Int /\ mod.bands \in Int /\ SizeMod \in Nat \ {0}
      BY <1>1, <2>1, <2>8
    <3> QED
      BY <3>1, RemainderOfSum, Zenon
  <2>10. bands_base + Held + mod.bands = bands_base' + SumFunction(f)
    BY <1>1, <2>1, <2>2, <2>8
  <2>11. bands_num' = (bands_base' + SumFunction(f)) % SizeMod
    BY <1>2, <2>2, <2>9, <2>10
  <2> QED
    BY <2>2, <2>11 DEF BandsCountedFromBase, BandsHeld
<1>5. ASSUME NEW role \in Role, NEW mod \in MeterMod, meter_table_modify(mod, role)
      PROVE  BandsCountedFromBase'
  <2> DEFINE id == mod.meter_id
             f == [meters EXCEPT ![id] = mod.bands]
             r == [m \in D \ {id} |-> meters[m]]
  <2>1. id \in D /\ mod.bands \in Int
    BY <1>5, MeterTableAssumption DEF meter_table_modify, MeterModifyError, MeterMod
  <2>2. /\ meters' = f /\ bands_base' = bands_base
        /\ bands_num' = (bands_num - meters[id] + mod.bands) % SizeMod
    BY <1>5 DEF meter_table_modify, ModifiedBands
  <2>3. /\ f \in [D -> Int] /\ r \in [D \ {id} -> Int]
        /\ Agree(r, f, D \ {id}) /\ Agree(r, meters, D \ {id})
    BY <1>1, <2>1 DEF Agree
  <2>4. f[id] = mod.bands /\ meters[id] \in Int
    BY <1>1, <2>1
  <2> HIDE DEF D, f, r, id, Held
  <2>5. SumFunction(f) = SumFunction(r) + f[id] /\ SumFunction(r) \in Int
    BY <1>1, <2>1, <2>3, SumWithout, ZenonT(40)
  <2>6. SumFunction(meters) = SumFunction(r) + meters[id]
    BY <1>1, <2>1, <2>3, SumWithout, ZenonT(40)
  <2> DEFINE b == mod.bands - meters[id]
  <2>7. b \in Int /\ Held \in Int /\ SumFunction(f) = Held + b
    BY <2>1, <2>4, <2>5, <2>6 DEF Held
  <2>8. bands_num' = (bands_num + b) % SizeMod
    <3>1. bands_num - meters[id] + mod.bands = bands_num + b
      BY <1>1, <2>1, <2>4
    <3> QED
      BY <2>2, <3>1
  <2> HIDE DEF b
  <2>9. (((bands_base + Held) % SizeMod) + b) % SizeMod = (bands_base + Held + b) % SizeMod
    <3>1. bands_base + Held \in Int /\ b \in Int /\ SizeMod \in Nat \ {0}
      BY <1>1, <2>7
    <3> QED
      BY <3>1, RemainderOfSum, Zenon
  <2>10. bands_base + Held + b = bands_base' + SumFunction(f)
    BY <1>1, <2>2, <2>7
  <2>11. bands_num' = (bands_base' + SumFunction(f)) % SizeMod
    BY <1>2, <2>8, <2>9, <2>10
  <2> QED
    BY <2>2, <2>11 DEF BandsCountedFromBase, BandsHeld
<1>6. ASSUME NEW role \in Role, NEW id \in MeterId, meter_table_delete(id, role)
      PROVE  BandsCountedFromBase'
  <2> DEFINE r == [m \in D \ {id} |-> meters[m]]
             b == -meters[id]
  <2>1. /\ id \in D /\ meters' = r /\ bands_base' = bands_base
        /\ bands_num' = (bands_num - meters[id]) % SizeMod
    BY <1>6 DEF meter_table_delete
  <2>2. r \in [D \ {id} -> Int] /\ Agree(r, meters, D \ {id})
    BY <1>1, <2>1 DEF Agree
  <2>3. meters[id] \in Int
    BY <1>1, <2>1
  <2>4. id \in D
    BY <2>1
  <2> HIDE DEF D, r, Held
  <2>5. SumFunction(meters) = SumFunction(r) + meters[id] /\ SumFunction(r) \in Int
    BY <1>1, <2>2, <2>4, SumWithout, Zenon
  <2>6. b \in Int /\ Held \in Int /\ SumFunction(r) = Held + b
    BY <2>3, <2>5 DEF Held
  <2>7. bands_num' = (bands_num + b) % SizeMod
    <3>1. bands_num - meters[id] = bands_num + b
      BY <1>1, <2>3
    <3> QED
      BY <2>1, <3>1
  <2> HIDE DEF b
  <2>8. (((bands_base + Held) % SizeMod) + b) % SizeMod = (bands_base + Held + b) % SizeMod
    <3>1. bands_base + Held \in Int /\ b \in Int /\ SizeMod \in Nat \ {0}
      BY <1>1, <2>6
    <3> QED
      BY <3>1, RemainderOfSum, Zenon
  <2>9. bands_base + Held + b = bands_base' + SumFunction(r)
    BY <1>1, <2>1, <2>6
  <2>10. bands_num' = (bands_base' + SumFunction(r)) % SizeMod
    BY <1>2, <2>7, <2>8, <2>9
  <2> QED
    BY <2>1, <2>10 DEF BandsCountedFromBase, BandsHeld
<1>7. ASSUME NEW role \in Role, meter_table_delete_all(role)
      PROVE  BandsCountedFromBase'
  <2>1. meters' = NoMeters /\ bands_num' = 0 /\ bands_base' = 0
    BY <1>7 DEF meter_table_delete_all
  <2>2. NoMeters \in [{} -> Int]
    BY DEF NoMeters
  <2>3. SumFunction(NoMeters) = 0
    BY <2>2, SumOfNone, Zenon
  <2>4. (0 + 0) % SizeMod = 0
    BY <1>1
  <2> QED
    BY <2>1, <2>3, <2>4 DEF BandsCountedFromBase, BandsHeld
<1> QED
  BY Zenon, <1>3, <1>4, <1>5, <1>6, <1>7 DEF MeterNext, MeterModUnchanged

\* From the value the memory held on, bands_num counts the bands of the meters
\* in the table, through every wrap of the size_t.
THEOREM BandsStayCounted == MeterSpec => []BandsCountedFromBase
<1>1. MeterInit => BandsCountedFromBase
  <2> SUFFICES ASSUME MeterInit PROVE BandsCountedFromBase
    OBVIOUS
  <2>1. NoMeters \in [{} -> Int]
    BY DEF NoMeters
  <2>2. SumFunction(NoMeters) = 0
    BY <2>1, SumOfNone, Zenon
  <2>3. (bands_num + 0) % SizeMod = bands_num
    BY MeterTableAssumption DEF MeterInit
  <2> QED
    BY <2>2, <2>3 DEF MeterInit, BandsCountedFromBase, BandsHeld
<1> QED
  BY <1>1, BandsStep, MeterTypeCorrect, MetersStayCounted, PTL DEF MeterSpec

---------------------------------------------------------------------------
(* The references of flow entries to groups and meters. *)

\* What a message does to flows and meters as well is, for the group table, a
\* group_mod or nothing.
LEMMA RefinesGroupStep ==
    ASSUME [Next]_vars
    PROVE  [GroupNext]_groupVars
<1>1. CASE Refused \/ UNCHANGED vars
  BY Zenon, <1>1 DEF Refused, FlowModRefused, GroupNext, vars, groupVars
<1>2. CASE \E role \in Role, mod \in GroupMod : AddGroup(mod, role) \/ ModifyGroup(mod, role)
  BY <1>2 DEF AddGroup, ModifyGroup, GroupNext
<1>3. CASE \E role \in Role, id \in GroupId : DeleteGroup(id, role)
  BY Zenon, <1>3 DEF DeleteGroup, GroupNext
<1>4. CASE \E role \in Role : DeleteAllGroups(role)
  BY Zenon, <1>4 DEF DeleteAllGroups, GroupNext
<1> QED
  BY Zenon, <1>1, <1>2, <1>3, <1>4
  DEF Next, OtherMessage, FlowAdd, FlowModify, FlowRemove, AddMeter, ModifyMeter, DeleteMeter,
      DeleteAllMeters

\* With flows and meters around it, the group table still takes only the steps
\* of GroupTable.
THEOREM RefinesGroupTable == Spec => GroupSpec
<1>1. Init => GroupInit
  BY DEF Init
<1> QED
  BY <1>1, RefinesGroupStep, PTL DEF Spec, GroupSpec

\* The same for the meter table.
THEOREM RefinesMeterTable == Spec => MeterSpec
<1>1. Init => MeterInit
  BY DEF Init
<1>2. [Next]_vars => [MeterNext]_meterVars
  <2> SUFFICES ASSUME [Next]_vars PROVE [MeterNext]_meterVars
    OBVIOUS
  <2>1. CASE Refused \/ UNCHANGED vars
    BY Zenon, <2>1 DEF Refused, FlowModRefused, MeterNext, vars, meterVars
  <2>2. CASE \E role \in Role, mod \in MeterMod : AddMeter(mod, role) \/ ModifyMeter(mod, role)
    BY <2>2 DEF AddMeter, ModifyMeter, MeterNext
  <2>3. CASE \E role \in Role, id \in MeterId : DeleteMeter(id, role)
    BY Zenon, <2>3 DEF DeleteMeter, MeterNext
  <2>4. CASE \E role \in Role : DeleteAllMeters(role)
    BY Zenon, <2>4 DEF DeleteAllMeters, MeterNext
  <2> QED
    BY Zenon, <2>1, <2>2, <2>3, <2>4
    DEF Next, OtherMessage, FlowAdd, FlowModify, FlowRemove, AddGroup, ModifyGroup, DeleteGroup,
        DeleteAllGroups
<1> QED
  BY <1>1, <1>2, PTL DEF Spec, MeterSpec

\* The invariant of the references.  The lists an entry keeps must be tied to
\* its instructions and to the tables, or a deletion would unlink the wrong ones.
RefInv ==
    /\ DOMAIN flows \subseteq Flow
    /\ \A f \in DOMAIN flows : flows[f].group_refs = flows[f].groups
    /\ GroupRefsExact
    /\ FlowGroupsResolved
    /\ MeterRefsLive

\* Taking a set of entries off all lists leaves the references of the others.
LEMMA RemoveFlowsRefs ==
    ASSUME RefInv, NEW R \in SUBSET DOMAIN flows, RemoveFlows(R)
    PROVE  /\ DOMAIN flows' = DOMAIN flows \ R
           /\ \A f \in DOMAIN flows' : flows'[f] = flows[f]
           /\ \A g \in GroupId :
                 group_flows'[g] = {f \in DOMAIN flows' : g \in flows'[f].groups}
           /\ \A m \in MeterId : \A f \in meter_flows'[m] :
                 f \in meter_flows[m] /\ f \in DOMAIN flows' /\ m \in flows'[f].meter_refs
<1>1. DOMAIN flows' = DOMAIN flows \ R /\ \A f \in DOMAIN flows' : flows'[f] = flows[f]
  BY DEF RemoveFlows
<1>2. ASSUME NEW g \in GroupId
      PROVE  group_flows'[g] = {f \in DOMAIN flows' : g \in flows'[f].groups}
  <2>1. group_flows'[g] = group_flows[g] \ {f \in R : g \in flows[f].group_refs}
    BY DEF RemoveFlows, DelGroupRefs
  <2> QED
    BY <1>1, <2>1 DEF RefInv, GroupRefsExact
<1>3. ASSUME NEW m \in MeterId, NEW f \in meter_flows'[m]
      PROVE  f \in meter_flows[m] /\ f \in DOMAIN flows' /\ m \in flows'[f].meter_refs
  <2>1. meter_flows'[m] = meter_flows[m] \ {e \in R : m \in flows[e].meter_refs}
    BY DEF RemoveFlows, DelMeterRefs
  <2> QED
    BY <1>1, <2>1 DEF RefInv, MeterRefsLive
<1> QED
  BY <1>1, <1>2, <1>3

\* Every message keeps the references exact: the entries a group or a meter
\* lists are those that name it.
LEMMA RefStep ==
    ASSUME GroupTypeOK, MeterTypeOK, RefInv, [Next]_vars
    PROVE  RefInv'
<1>1. CASE Refused \/ UNCHANGED vars
  BY Zenon, <1>1 DEF Refused, FlowModRefused, vars, refVars, groupVars, meterVars,
              GroupModUnchanged, MeterModUnchanged, RefInv, GroupRefsExact,
              FlowGroupsResolved, MeterRefsLive
<1>2. ASSUME NEW role \in Role, NEW gs \in SUBSET GroupId, NEW ms \in SUBSET MeterId,
             FlowModAccepted(gs, role), NEW f \in Flow, FlowAdd(f, gs, ms)
      PROVE  RefInv'
  <2>1. groups' = groups /\ meters' = meters /\ gs \subseteq DOMAIN groups
    BY SMTT(20), <1>2 DEF FlowAdd, groupVars, meterVars, FlowModAccepted
  <2>2. /\ DOMAIN flows' = DOMAIN flows \cup {f}
        /\ flows'[f].groups = gs /\ flows'[f].group_refs = gs
        /\ flows'[f].meter_refs = ms
        /\ \A e \in DOMAIN flows \ {f} : flows'[e] = flows[e]
    BY <1>2 DEF FlowAdd
  <2>3. ASSUME NEW g \in GroupId
        PROVE  group_flows'[g] = {e \in DOMAIN flows' : g \in flows'[e].groups}
    <3>1. group_flows'[g] =
            (group_flows[g] \ {e \in {f} \cap DOMAIN flows : g \in flows[e].group_refs})
               \cup (IF g \in gs THEN {f} ELSE {})
      BY <1>2 DEF FlowAdd, DelGroupRefs
    <3> QED
      BY SMTT(20), <2>2, <3>1 DEF RefInv, GroupRefsExact
  <2>4. ASSUME NEW m \in MeterId, NEW e \in meter_flows'[m]
        PROVE  m \in DOMAIN meters /\ e \in DOMAIN flows' /\ m \in flows'[e].meter_refs
    <3>1. meter_flows'[m] =
            (meter_flows[m] \ {x \in {f} \cap DOMAIN flows : m \in flows[x].meter_refs})
               \cup (IF m \in ms \cap DOMAIN meters THEN {f} ELSE {})
      BY SMTT(20), <1>2 DEF FlowAdd, DelMeterRefs
    <3> QED
      BY SMTT(20), <2>2, <2>4, <3>1 DEF RefInv, MeterRefsLive
  <2> QED
    BY <2>1, <2>2, <2>3, <2>4
    DEF RefInv, GroupRefsExact, FlowGroupsResolved, MeterRefsLive
<1>3. ASSUME NEW role \in Role, NEW gs \in SUBSET GroupId, NEW ms \in SUBSET MeterId,
             FlowModAccepted(gs, role), NEW F \in SUBSET DOMAIN flows,
             FlowModify(F, gs, ms)
      PROVE  RefInv'
  <2>1. groups' = groups /\ meters' = meters /\ gs \subseteq DOMAIN groups
          /\ meter_flows' = meter_flows
    BY SMTT(20), <1>3 DEF FlowModify, groupVars, meterVars, FlowModAccepted
  <2>2. /\ DOMAIN flows' = DOMAIN flows
        /\ \A e \in F : /\ flows'[e].groups = gs /\ flows'[e].group_refs = gs
                        /\ flows'[e].meter_refs = flows[e].meter_refs
        /\ \A e \in DOMAIN flows \ F : flows'[e] = flows[e]
    BY SMTT(20), <1>3 DEF FlowModify
  <2>3. ASSUME NEW g \in GroupId
        PROVE  group_flows'[g] = {e \in DOMAIN flows' : g \in flows'[e].groups}
    <3>1. group_flows'[g] =
            (group_flows[g] \ {e \in F : g \in flows[e].group_refs})
               \cup (IF g \in gs THEN F ELSE {})
      BY Zenon, <1>3 DEF FlowModify, DelGroupRefs
    <3> QED
      BY SMTT(20), <2>2, <3>1 DEF RefInv, GroupRefsExact
  <2> QED
    BY SMTT(20), <2>1, <2>2, <2>3 DEF RefInv, GroupRefsExact, FlowGroupsResolved, MeterRefsLive
<1>4. ASSUME NEW R \in SUBSET DOMAIN flows, FlowRemove(R)
      PROVE  RefInv'
  <2>1. groups' = groups /\ meters' = meters /\ RemoveFlows(R)
    BY <1>4 DEF FlowRemove, groupVars, meterVars
  <2> QED
    BY Zenon, <2>1, RemoveFlowsRefs
    DEF RefInv, GroupRefsExact, FlowGroupsResolved, MeterRefsLive
<1>5. ASSUME NEW role \in Role, NEW mod \in GroupMod,
             AddGroup(mod, role) \/ ModifyGroup(mod, role)
      PROVE  RefInv'
  <2>1. DOMAIN groups \subseteq DOMAIN groups'
    BY <1>5 DEF AddGroup, ModifyGroup, group_table_add, group_table_modify
  <2>2. UNCHANGED <<flows, group_flows, meter_flows, meters>>
    BY SMTT(20), <1>5 DEF AddGroup, ModifyGroup, meterVars
  <2> QED
    BY <2>1, <2>2 DEF RefInv, GroupRefsExact, FlowGroupsResolved, MeterRefsLive
<1>6. ASSUME NEW role \in Role, NEW id \in GroupId, DeleteGroup(id, role)
      PROVE  RefInv'
  <2>1. /\ DOMAIN groups' = DOMAIN groups \ {id}
        /\ meters' = meters /\ RemoveFlows(group_flows[id])
    BY <1>6 DEF DeleteGroup, group_table_delete, meterVars
  <2>2. group_flows[id] \in SUBSET DOMAIN flows
        /\ \A f \in DOMAIN flows \ group_flows[id] : id \notin flows[f].groups
    BY DEF RefInv, GroupRefsExact
  <2>3. /\ DOMAIN flows' = DOMAIN flows \ group_flows[id]
        /\ \A f \in DOMAIN flows' : flows'[f] = flows[f]
        /\ GroupRefsExact'
        /\ \A m \in MeterId : \A f \in meter_flows'[m] :
              f \in meter_flows[m] /\ f \in DOMAIN flows' /\ m \in flows'[f].meter_refs
    BY <2>1, <2>2, RemoveFlowsRefs DEF GroupRefsExact
  <2> QED
    BY SMTT(20), <2>1, <2>2, <2>3 DEF RefInv, FlowGroupsResolved, MeterRefsLive
<1>7. ASSUME NEW role \in Role, DeleteAllGroups(role)
      PROVE  RefInv'
  <2> DEFINE R == UNION {group_flows[g] : g \in DOMAIN groups}
  <2>1. DOMAIN groups' = {} /\ meters' = meters /\ RemoveFlows(R)
    BY <1>7 DEF DeleteAllGroups, group_table_delete_all, NoGroups, meterVars
  <2>2. R \in SUBSET DOMAIN flows
    BY DEF RefInv, GroupRefsExact, GroupTypeOK
  <2>3. \A f \in DOMAIN flows \ R : flows[f].groups = {}
    BY DEF RefInv, GroupRefsExact, FlowGroupsResolved, GroupTypeOK
  <2> HIDE DEF R
  <2>4. /\ DOMAIN flows' = DOMAIN flows \ R
        /\ \A f \in DOMAIN flows' : flows'[f] = flows[f]
        /\ GroupRefsExact'
        /\ \A m \in MeterId : \A f \in meter_flows'[m] :
              f \in meter_flows[m] /\ f \in DOMAIN flows' /\ m \in flows'[f].meter_refs
    BY Zenon, <2>1, <2>2, RemoveFlowsRefs DEF GroupRefsExact
  <2>5. FlowGroupsResolved'
    BY <2>3, <2>4 DEF FlowGroupsResolved
  <2>6. MeterRefsLive'
    BY <2>1, <2>4 DEF RefInv, MeterRefsLive
  <2> QED
    BY <2>4, <2>5, <2>6 DEF RefInv
<1>8. ASSUME NEW role \in Role, NEW mod \in MeterMod,
             AddMeter(mod, role) \/ ModifyMeter(mod, role)
      PROVE  RefInv'
  <2>1. DOMAIN meters \subseteq DOMAIN meters'
    BY <1>8 DEF AddMeter, ModifyMeter, meter_table_add, meter_table_modify
  <2>2. UNCHANGED <<flows, group_flows, meter_flows, groups>>
    BY SMTT(20), <1>8 DEF AddMeter, ModifyMeter, groupVars
  <2> QED
    BY <2>1, <2>2 DEF RefInv, GroupRefsExact, FlowGroupsResolved, MeterRefsLive
<1>9. ASSUME NEW role \in Role, NEW id \in MeterId, DeleteMeter(id, role)
      PROVE  RefInv'
  <2>1. /\ DOMAIN meters' = DOMAIN meters \ {id}
        /\ groups' = groups /\ RemoveFlows(meter_flows[id])
    BY <1>9 DEF DeleteMeter, meter_table_delete, groupVars
  <2>2. meter_flows[id] \in SUBSET DOMAIN flows
    BY DEF RefInv, MeterRefsLive
  <2>3. /\ DOMAIN flows' = DOMAIN flows \ meter_flows[id]
        /\ \A f \in DOMAIN flows' : flows'[f] = flows[f]
        /\ GroupRefsExact'
        /\ \A m \in MeterId : \A f \in meter_flows'[m] :
              f \in meter_flows[m] /\ f \in DOMAIN flows' /\ m \in flows'[f].meter_refs
    BY Zenon, <2>1, <2>2, RemoveFlowsRefs DEF GroupRefsExact
  <2> QED
    BY <2>1, <2>2, <2>3 DEF RefInv, FlowGroupsResolved, MeterRefsLive
<1>10. ASSUME NEW role \in Role, DeleteAllMeters(role)
      PROVE  RefInv'
  <2> DEFINE R == UNION {meter_flows[m] : m \in DOMAIN meters}
  <2>1. groups' = groups /\ RemoveFlows(R)
    BY <1>10 DEF DeleteAllMeters, groupVars
  <2>2. \A m \in MeterId : meter_flows[m] \subseteq R
    BY DEF RefInv, MeterRefsLive
  <2>3. R \in SUBSET DOMAIN flows
    BY DEF RefInv, MeterRefsLive, MeterTypeOK
  <2> HIDE DEF R
  <2>4. /\ DOMAIN flows' = DOMAIN flows \ R
        /\ \A f \in DOMAIN flows' : flows'[f] = flows[f]
        /\ GroupRefsExact'
        /\ \A m \in MeterId : \A f \in meter_flows'[m] :
              f \in meter_flows[m] /\ f \in DOMAIN flows' /\ m \in flows'[f].meter_refs
    BY Zenon, <2>1, <2>3, RemoveFlowsRefs DEF GroupRefsExact
  <2>5. \A m \in MeterId : meter_flows'[m] = {}
    BY <2>2, <2>4
  <2> QED
    BY <2>1, <2>4, <2>5 DEF RefInv, FlowGroupsResolved, MeterRefsLive
<1> QED
  BY Zenon, <1>1, <1>2, <1>3, <1>4, <1>5, <1>6, <1>7, <1>8, <1>9, <1>10 DEF Next, OtherMessage

\* The reference lists agree with the instructions and the tables in every
\* reachable state: the inductive invariant behind the theorems below.
THEOREM RefInvariant == Spec => []RefInv
<1>1. Init => RefInv
  BY DEF Init, NoFlows, RefInv, GroupRefsExact, FlowGroupsResolved, MeterRefsLive
<1> QED
  BY <1>1, RefStep, RefinesGroupTable, RefinesMeterTable, GroupTypeCorrect,
     MeterTypeCorrect, PTL DEF Spec

\* A group's list is exactly the entries that name it, whatever flow_mods,
\* group_mods, meter_mods and timeouts have been handled.
THEOREM GroupRefsStayExact == Spec => []GroupRefsExact
BY RefInvariant, PTL DEF RefInv

\* Every group an installed entry names is in the table when the pipeline
\* executes the entry.
THEOREM FlowGroupsStayResolved == Spec => []FlowGroupsResolved
BY RefInvariant, PTL DEF RefInv

\* meter_entry_destroy only follows pointers to entries that are installed.
THEOREM MeterRefsStayLive == Spec => []MeterRefsLive
BY RefInvariant, PTL DEF RefInv

\* With flows and meters in the picture, executing a group still ends.
THEOREM GroupsStayAcyclicWithFlows == Spec => []GroupsAcyclic
BY RefinesGroupTable, GroupsStayAcyclic, PTL

\* A step that changes the tables frees an entry only if it deletes a group or
\* meter that the entry refers to.
THEOREM FlowLossIsExplained == Spec => FlowLossExplained
<1> DEFINE Explained ==
        \A f \in DOMAIN flows \ DOMAIN flows' :
            \/ groups' = groups /\ meters' = meters
            \/ \E g \in flows[f].groups : g \notin DOMAIN groups'
            \/ \E m \in flows[f].meter_refs : m \notin DOMAIN meters'
<1>1. ASSUME RefInv, GroupTypeOK, MeterTypeOK, Next PROVE Explained
  <2>1. ASSUME NEW role \in Role, NEW id \in GroupId, DeleteGroup(id, role)
        PROVE  Explained
    <3>1. DOMAIN groups' = DOMAIN groups \ {id}
            /\ DOMAIN flows' = DOMAIN flows \ group_flows[id]
      BY <2>1 DEF DeleteGroup, group_table_delete, RemoveFlows
    <3> QED
      BY <1>1, <3>1 DEF RefInv, GroupRefsExact
  <2>2. ASSUME NEW role \in Role, DeleteAllGroups(role)
        PROVE  Explained
    <3>1. DOMAIN groups' = {}
            /\ DOMAIN flows' = DOMAIN flows \ UNION {group_flows[g] : g \in DOMAIN groups}
      BY Zenon, <2>2 DEF DeleteAllGroups, group_table_delete_all, NoGroups, RemoveFlows
    <3> QED
      BY SMTT(20), <1>1, <3>1 DEF RefInv, GroupRefsExact, GroupTypeOK
  <2>3. ASSUME NEW role \in Role, NEW id \in MeterId, DeleteMeter(id, role)
        PROVE  Explained
    <3>1. DOMAIN meters' = DOMAIN meters \ {id}
            /\ DOMAIN flows' = DOMAIN flows \ meter_flows[id]
      BY <2>3 DEF DeleteMeter, meter_table_delete, RemoveFlows
    <3> QED
      BY <1>1, <3>1 DEF RefInv, MeterRefsLive
  <2>4. ASSUME NEW role \in Role, DeleteAllMeters(role)
        PROVE  Explained
    <3>1. DOMAIN meters' = {}
            /\ DOMAIN flows' = DOMAIN flows \ UNION {meter_flows[m] : m \in DOMAIN meters}
      BY <2>4 DEF DeleteAllMeters, meter_table_delete_all, NoMeters, RemoveFlows
    <3> QED
      BY <1>1, <3>1 DEF RefInv, MeterRefsLive, MeterTypeOK
  <2>5. CASE groups' = groups /\ meters' = meters
    BY <2>5
  <2>6. CASE DOMAIN flows' = DOMAIN flows
    BY <2>6
  <2> QED
    BY Zenon, <1>1, <2>1, <2>2, <2>3, <2>4, <2>5, <2>6
    DEF Next, OtherMessage, Refused, FlowModRefused, GroupModUnchanged, MeterModUnchanged, vars,
        groupVars, meterVars, refVars, FlowAdd, FlowModify, FlowRemove, AddGroup,
        ModifyGroup, AddMeter, ModifyMeter
<1>2. RefInv /\ GroupTypeOK /\ MeterTypeOK /\ [Next]_vars => [Explained]_vars
  BY <1>1
<1> QED
  BY <1>2, RefInvariant, RefinesGroupTable, RefinesMeterTable, GroupTypeCorrect,
     MeterTypeCorrect, PTL DEF Spec, FlowLossExplained

\* A reference counter that is moved by the references added and deleted stays
\* a 32-bit number, even where the code lets it run below zero.
LEMMA RecountType ==
    ASSUME NEW S, NEW count \in [S -> 0..(CountMod - 1)],
           NEW before \in [S -> SUBSET Flow], NEW after \in [S -> SUBSET Flow]
    PROVE  Recount(count, before, after) \in [S -> 0..(CountMod - 1)]
<1>1. \A x \in Int : x % CountMod \in 0..(CountMod - 1)
  BY FlowRefsAssumption
<1>2. ASSUME NEW x \in S
      PROVE  /\ Cardinality(before[x] \ after[x]) \in Nat
             /\ Cardinality(after[x] \ before[x]) \in Nat
  <2>1. IsFiniteSet(before[x] \ after[x]) /\ IsFiniteSet(after[x] \ before[x])
    BY FlowRefsAssumption, FS_Subset
  <2> QED
    BY <2>1, FS_CardinalityType
<1>3. \A x \in S : (count[x] - Cardinality(before[x] \ after[x])
                      + Cardinality(after[x] \ before[x])) \in Int
  BY <1>2
<1>4. DOMAIN count = S
  OBVIOUS
<1> QED
  BY <1>1, <1>3, <1>4 DEF Recount

\* The part of the type invariant that is about flows and references
FlowTypeOK ==
    /\ DOMAIN flows \subseteq Flow
    /\ flows \in [DOMAIN flows -> FlowEntry]
    /\ group_flows \in [GroupId -> SUBSET Flow]
    /\ ref_count \in [GroupId -> 0..(CountMod - 1)]
    /\ meter_flows \in [MeterId -> SUBSET Flow]
    /\ flow_count \in [MeterId -> 0..(CountMod - 1)]

\* Removing flow entries leaves the lists of references their type.
LEMMA RemoveFlowsType ==
    ASSUME FlowTypeOK, NEW R, RemoveFlows(R)
    PROVE  FlowTypeOK'
<1>1. /\ DOMAIN flows' \subseteq Flow
      /\ flows' \in [DOMAIN flows' -> FlowEntry]
  BY DEF FlowTypeOK, RemoveFlows
<1>2. group_flows' \in [GroupId -> SUBSET Flow]
  BY DEF FlowTypeOK, RemoveFlows, DelGroupRefs
<1>3. meter_flows' \in [MeterId -> SUBSET Flow]
  BY DEF FlowTypeOK, RemoveFlows, DelMeterRefs
<1>4. ref_count' \in [GroupId -> 0..(CountMod - 1)]
  BY <1>2, RecountType DEF FlowTypeOK, RemoveFlows
<1>5. flow_count' \in [MeterId -> 0..(CountMod - 1)]
  BY SMTT(20), <1>3, RecountType DEF FlowTypeOK, RemoveFlows
<1> QED
  BY SMTT(20), <1>1, <1>2, <1>3, <1>4, <1>5 DEF FlowTypeOK

\* So does every other step.
LEMMA FlowTypeStep ==
    ASSUME FlowTypeOK, [Next]_vars
    PROVE  FlowTypeOK'
<1>1. CASE Refused \/ UNCHANGED vars
  BY <1>1 DEF Refused, FlowModRefused, vars, refVars, FlowTypeOK
<1>2. ASSUME NEW gs \in SUBSET GroupId, NEW ms \in SUBSET MeterId, NEW f \in Flow,
             FlowAdd(f, gs, ms)
      PROVE  FlowTypeOK'
  <2>1. /\ DOMAIN flows' = DOMAIN flows \cup {f}
        /\ \A e \in DOMAIN flows' : flows'[e] \in FlowEntry
    BY <1>2 DEF FlowTypeOK, FlowAdd, FlowEntry
  <2>2. flows' \in [DOMAIN flows' -> FlowEntry]
    BY Zenon, <1>2, <2>1 DEF FlowAdd
  <2>3. group_flows' \in [GroupId -> SUBSET Flow]
    BY <1>2 DEF FlowTypeOK, FlowAdd, DelGroupRefs
  <2>4. meter_flows' \in [MeterId -> SUBSET Flow]
    BY <1>2 DEF FlowTypeOK, FlowAdd, DelMeterRefs
  <2>5. ref_count' \in [GroupId -> 0..(CountMod - 1)]
    BY Zenon, <1>2, <2>3, RecountType DEF FlowTypeOK, FlowAdd
  <2>6. flow_count' \in [MeterId -> 0..(CountMod - 1)]
    BY Zenon, <1>2, <2>4, RecountType DEF FlowTypeOK, FlowAdd
  <2> QED
    BY SMTT(20), <2>1, <2>2, <2>3, <2>4, <2>5, <2>6 DEF FlowTypeOK
<1>3. ASSUME NEW gs \in SUBSET GroupId, NEW ms \in SUBSET MeterId,
             NEW F \in SUBSET DOMAIN flows, FlowModify(F, gs, ms)
      PROVE  FlowTypeOK'
  <2>1. /\ DOMAIN flows' = DOMAIN flows
        /\ \A e \in DOMAIN flows' : flows'[e] \in FlowEntry
    BY SMTT(20), <1>3 DEF FlowTypeOK, FlowModify, FlowEntry
  <2>2. flows' \in [DOMAIN flows' -> FlowEntry]
    BY <1>3, <2>1 DEF FlowModify
  <2>3. group_flows' \in [GroupId -> SUBSET Flow]
    BY <1>3 DEF FlowTypeOK, FlowModify, DelGroupRefs
  <2>4. ref_count' \in [GroupId -> 0..(CountMod - 1)]
    BY <1>3, <2>3, RecountType DEF FlowTypeOK, FlowModify
  <2> QED
    BY SMTT(20), <1>3, <2>1, <2>2, <2>3, <2>4 DEF FlowTypeOK, FlowModify
<1>4. CASE \E R : RemoveFlows(R)
  BY <1>4, RemoveFlowsType
<1>5. ASSUME NEW role \in Role, NEW mod \in GroupMod,
             AddGroup(mod, role) \/ ModifyGroup(mod, role)
      PROVE  FlowTypeOK'
  BY <1>5, FlowRefsAssumption DEF FlowTypeOK, AddGroup, ModifyGroup
<1>6. ASSUME NEW role \in Role, NEW mod \in MeterMod,
             AddMeter(mod, role) \/ ModifyMeter(mod, role)
      PROVE  FlowTypeOK'
  BY <1>6, FlowRefsAssumption DEF FlowTypeOK, AddMeter, ModifyMeter
<1> QED
  BY Zenon, <1>1, <1>2, <1>3, <1>4, <1>5, <1>6
  DEF Next, OtherMessage, FlowRemove, DeleteGroup, DeleteAllGroups, DeleteMeter, DeleteAllMeters

\* The lists stay within the table's entries and the reference counters within
\* 32 bits, through every flow_mod, group_mod, meter_mod and timeout.
THEOREM TypeCorrect == Spec => []TypeOK
<1>1. Init => FlowTypeOK
  BY FlowRefsAssumption DEF Init, NoFlows, FlowTypeOK
<1>2. GroupTypeOK /\ MeterTypeOK /\ FlowTypeOK => TypeOK
  BY DEF TypeOK, FlowTypeOK
<1> QED
  BY <1>1, <1>2, FlowTypeStep, RefinesGroupTable, RefinesMeterTable, GroupTypeCorrect,
     MeterTypeCorrect, PTL DEF Spec

---------------------------------------------------------------------------
(* The search of is_loop_free, and group_table_modify with it. *)

\* The invariant of the worklist.  What has been found is closed up to the
\* worklist and does not contain the modified group (so an empty worklist
\* shows there is no loop), and it lies in every closed set that holds the
\* modified references (so finding the modified group shows there is one).
\* That no group is on both lists needs that none names itself.
SearchInv ==
    /\ group_mod.group_id \in GroupId
    /\ group_mod.out \subseteq GroupId
    /\ visited \subseteq GroupId /\ to_be_visited \subseteq GroupId
    /\ visited \cap to_be_visited = {}
    /\ \A g \in DOMAIN table : table[g].out \subseteq GroupId /\ g \notin table[g].out
    /\ group_mod.group_id \notin visited
    /\ pc = "visit_mod" => visited = {} /\ to_be_visited = {}
    /\ pc # "visit_mod" => group_mod.out \subseteq visited \cup to_be_visited
    /\ \A g \in visited \cap DOMAIN table :
          table[g].out \subseteq visited \cup to_be_visited
    /\ \A C \in SUBSET GroupId :
          group_mod.out \subseteq C /\ Closed(table, C) => visited \cup to_be_visited \subseteq C
    /\ pc = "done" => (loop_free <=> LoopFree(table, group_mod.group_id, group_mod.out))

\* Every visit of the search keeps its invariant.
LEMMA SearchStep ==
    ASSUME SearchInv, [SearchNext]_searchVars
    PROVE  SearchInv'
<1>1. CASE VisitMod
  BY <1>1 DEF VisitMod, SearchInv, is_loop_free_visit, Closed
<1>2. CASE VisitNext
  <2>1. PICK gv \in to_be_visited :
          /\ to_be_visited' =
               IF gv \in DOMAIN table
               THEN is_loop_free_visit(table[gv].out, to_be_visited \ {gv})
               ELSE to_be_visited \ {gv}
          /\ visited' = visited \cup {gv}
    BY Zenon, <1>2 DEF VisitNext
  <2>2. UNCHANGED <<table, group_mod, pc, loop_free>> /\ pc = "loop"
          /\ group_mod.group_id \notin to_be_visited
    BY <1>2 DEF VisitNext
  <2>3. gv \in GroupId /\ group_mod.group_id # gv
    BY <2>1, <2>2 DEF SearchInv
  <2>4. visited \cup to_be_visited \subseteq visited' \cup to_be_visited'
    BY <2>1 DEF is_loop_free_visit
  <2>5. ASSUME NEW g \in visited' \cap DOMAIN table
        PROVE  table[g].out \subseteq visited' \cup to_be_visited'
    BY <2>1, <2>4 DEF SearchInv, is_loop_free_visit
  <2>6. ASSUME NEW C \in SUBSET GroupId, group_mod.out \subseteq C, Closed(table, C)
        PROVE  visited' \cup to_be_visited' \subseteq C
    <3>1. visited \cup to_be_visited \subseteq C
      BY <2>6 DEF SearchInv
    <3>2. gv \in DOMAIN table => table[gv].out \subseteq C
      BY SMTT(20), <2>1, <2>6, <3>1 DEF Closed
    <3> QED
      BY <2>1, <3>1, <3>2 DEF is_loop_free_visit
  <2>7. visited' \subseteq GroupId /\ to_be_visited' \subseteq GroupId
    BY SMTT(20), <2>1, <2>3 DEF SearchInv, is_loop_free_visit
  <2>8. visited' \cap to_be_visited' = {}
    BY <2>1 DEF SearchInv, is_loop_free_visit
  <2> QED
    BY Zenon, <2>1, <2>2, <2>3, <2>4, <2>5, <2>6, <2>7, <2>8 DEF SearchInv, Closed
<1>3. CASE Return
  <2>1. CASE to_be_visited = {}
    \* visited is the closed set that LoopFree asks for
    <3>1. LoopFree(table, group_mod.group_id, group_mod.out)
      BY <1>3, <2>1 DEF SearchInv, LoopFree, Closed, Return
    <3> QED
      BY Zenon, <1>3, <2>1, <3>1 DEF SearchInv, Return, Closed, LoopFree
  <2>2. CASE group_mod.group_id \in to_be_visited
    <3>1. ~LoopFree(table, group_mod.group_id, group_mod.out)
      BY <2>2 DEF SearchInv, LoopFree
    <3> QED
      BY Zenon, <1>3, <2>2, <3>1 DEF SearchInv, Return, Closed, LoopFree
  <2> QED
    BY <1>3, <2>1, <2>2 DEF Return
<1>4. CASE UNCHANGED searchVars
  BY <1>4 DEF SearchInv, searchVars, Closed, LoopFree
<1> QED
  BY SMTT(20), <1>1, <1>2, <1>3, <1>4 DEF SearchNext

---------------------------------------------------------------------------
\* What group_table_modify has made sure of before the search, and still holds
\* when it ends, since no other message is handled in between.
Checked(mod) ==
    /\ mod \in GroupMod
    /\ \E role \in Role : HandlerError(mod, role) = "OK"
    /\ mod.group_id \in DOMAIN groups
    /\ ModifiedBuckets(mod) <= MaxBuckets

ModifyInv ==
    /\ GroupTypeOK /\ GraphInv
    /\ table = groups
    /\ Idle => visited = {} /\ to_be_visited = {}
    /\ ~Idle => Checked(group_mod) /\ SearchInv

\* The initial states map to initial states of FlowRefs.
LEMMA ModifyInitial == ModifyInit => Init /\ ModifyInv
<1> SUFFICES ASSUME ModifyInit PROVE Init /\ ModifyInv
  OBVIOUS
<1>1. GroupInit
  BY DEF ModifyInit, Init
<1>2. GroupTypeOK /\ GraphInv
  BY <1>1, GroupTypeInitial, GraphInitial
<1> QED
  BY <1>2 DEF ModifyInit, ModifyInv, Idle

\* A step of the modification in pieces is a step of FlowRefs or none.
LEMMA ModifyMaps ==
    ASSUME ModifyInv, [ModifyNext]_modifyVars
    PROVE  [Next]_vars
<1>1. CASE Finish
  <2>1. CASE loop_free
    <3>1. PICK role \in Role : HandlerError(group_mod, role) = "OK"
      BY <1>1 DEF Finish, ModifyInv, Idle, Checked
    <3>2. LoopFree(groups, group_mod.group_id, group_mod.out)
      BY Zenon, <1>1, <2>1 DEF Finish, ModifyInv, Idle, SearchInv
    <3>3. ModifyError(group_mod, role) = "OK"
      <4>1. Checked(group_mod)
        BY <1>1 DEF Finish, ModifyInv, Idle
      <4>2. ModifiedBuckets(group_mod) \in Int /\ MaxBuckets \in Int
        BY <4>1, GroupTableAssumption
        DEF ModifyInv, GroupTypeOK, Entry, Checked, GroupMod, ModifiedBuckets
      <4> QED
        BY <3>1, <3>2, <4>1, <4>2 DEF Checked, ModifyError
    <3>4. ModifyGroup(group_mod, role) /\ group_mod \in GroupMod
      BY <1>1, <2>1, <3>3
      DEF Finish, ModifyGroup, group_table_modify, ModifyInv, Idle, Checked
    <3> QED
      BY Zenon, <3>4 DEF Next
  <2> QED
    BY <1>1, <2>1 DEF Finish
<1>2. CASE UNCHANGED vars
  BY <1>2
<1>3. CASE Other
  BY <1>3 DEF Other, Next
<1> QED
  BY Zenon, <1>1, <1>2, <1>3 DEF ModifyNext, Check, Search, modifyVars

\* Every step, of the search or of another message, keeps the invariant.
LEMMA ModifyStep ==
    ASSUME ModifyInv, [ModifyNext]_modifyVars
    PROVE  ModifyInv'
<1>1. GroupTypeOK' /\ GraphInv'
  BY ModifyMaps, RefinesGroupStep, GroupTypeStep, GraphStep DEF ModifyInv
<1>2. ASSUME NEW mod \in GroupMod, NEW role \in Role, Check(mod, role)
      PROVE  ModifyInv'
  <2>1. /\ groups' = groups /\ buckets_num' = buckets_num
        /\ table' = table /\ visited' = {} /\ to_be_visited' = {}
        /\ group_mod' = mod /\ pc' = "visit_mod"
    <3>1. /\ Idle /\ group_mod' = mod /\ pc' = "visit_mod"
          /\ UNCHANGED <<vars, table, visited, to_be_visited, loop_free>>
      BY Zenon, <1>2 DEF Check
    <3>2. visited = {} /\ to_be_visited = {}
      BY Zenon, <3>1 DEF ModifyInv
    <3>3. /\ groups' = groups /\ buckets_num' = buckets_num /\ table' = table
          /\ visited' = visited /\ to_be_visited' = to_be_visited
      BY Zenon, <3>1 DEF vars, groupVars
    <3> QED
      BY Zenon, <3>1, <3>2, <3>3
  <2>2. Checked(mod)
    BY <1>2 DEF Check, Checked
  <2>3. Checked(mod)'
    BY <2>1, <2>2 DEF Checked, HandlerError, ValidateError, ModifiedBuckets
  <2>4. mod.group_id \in GroupId /\ mod.out \subseteq GroupId
    BY DEF GroupMod
  <2>5. \A g \in DOMAIN groups : groups[g].out \subseteq GroupId /\ g \notin groups[g].out
    <3> SUFFICES ASSUME NEW g \in DOMAIN groups
                 PROVE  groups[g].out \subseteq GroupId /\ g \notin groups[g].out
      OBVIOUS
    <3>1. groups[g].out \subseteq GroupId
      BY DEF ModifyInv, GroupTypeOK, Entry
    <3>2. \E h \in {g} : groups[h].out \cap {g} = {}
      BY Zenon DEF ModifyInv, GraphInv, GroupsAcyclic, Acyclic
    <3> QED
      BY <3>1, <3>2
  <2>6. SearchInv'
    BY <2>1, <2>4, <2>5 DEF ModifyInv, SearchInv, Closed
  <2> QED
    BY SMTT(20), <1>1, <2>1, <2>3, <2>6 DEF ModifyInv, Idle
<1>3. CASE Search
  <2>1. /\ groups' = groups /\ buckets_num' = buckets_num
        /\ table' = table /\ group_mod' = group_mod /\ ~Idle /\ ~Idle'
    BY <1>3 DEF Search, SearchNext, VisitMod, VisitNext, Return, Idle, vars, groupVars
  <2>2. SearchInv'
    BY SMTT(20), <1>3, <2>1, SearchStep DEF Search, ModifyInv
  <2>3. Checked(group_mod)'
    BY <2>1 DEF ModifyInv, Checked, HandlerError, ValidateError, ModifiedBuckets
  <2> QED
    BY SMTT(20), <1>1, <2>1, <2>2, <2>3 DEF ModifyInv
<1>4. CASE Finish
  BY <1>1, <1>4 DEF Finish, ModifyInv, Idle
<1>5. CASE Other
  BY <1>1, <1>5 DEF Other, ModifyInv, Idle
<1>6. CASE UNCHANGED modifyVars
  <2>1. /\ groups' = groups /\ buckets_num' = buckets_num /\ UNCHANGED searchVars
        /\ (Idle <=> Idle') /\ table' = table /\ group_mod' = group_mod
        /\ visited' = visited /\ to_be_visited' = to_be_visited
    BY <1>6 DEF modifyVars, vars, groupVars, searchVars, Idle
  <2>2. ~Idle => SearchInv'
    BY <2>1, SearchStep DEF ModifyInv
  <2>3. ~Idle => Checked(group_mod)'
    BY <2>1 DEF ModifyInv, Checked, HandlerError, ValidateError, ModifiedBuckets
  <2> QED
    BY <1>1, <2>1, <2>2, <2>3 DEF ModifyInv
<1> QED
  BY Zenon, <1>2, <1>3, <1>4, <1>5, <1>6 DEF ModifyNext

\* Checks, search and exchange of group_table_modify together implement the one
\* step of FlowRefs: with FlowRefs' theorems, what is proved of the step holds
\* of the code that searches.
THEOREM ModifyRefines == ModifySpec => ModifyIsAtomic
BY ModifyInitial, ModifyStep, ModifyMaps, PTL DEF ModifySpec, ModifyIsAtomic, Spec

\* Whatever order the worklist is taken in, the value is_loop_free returns is
\* that of LoopFree.
THEOREM SearchIsCorrect == ModifySpec => []SearchCorrect
<1>1. ModifyInv => SearchCorrect
  BY DEF ModifyInv, Idle, SearchInv, SearchCorrect
<1> QED
  BY <1>1, ModifyInitial, ModifyStep, PTL DEF ModifySpec

\* No group is looked at twice, so is_loop_free returns after at most as many
\* turns as there are groups.
THEOREM SearchMakesProgress == ModifySpec => SearchAdvances
<1> DEFINE Turn == pc = "loop" /\ pc' = "loop" =>
                     \E g \in GroupId \ visited : visited' = visited \cup {g}
<1>1. ASSUME ModifyInv, [ModifyNext]_modifyVars
      PROVE  [Turn]_searchVars
  <2>1. CASE VisitNext
    <3>1. visited \cap to_be_visited = {} /\ to_be_visited \subseteq GroupId
      BY <1>1, <2>1 DEF VisitNext, ModifyInv, Idle, SearchInv
    <3> QED
      BY SMTT(20), <2>1, <3>1 DEF VisitNext
  <2>2. CASE pc # "loop" \/ pc' # "loop"
    BY <2>2
  <2>3. CASE UNCHANGED modifyVars
    BY <2>3 DEF modifyVars
  <2> QED
    BY Zenon, <1>1, <2>1, <2>2, <2>3
    DEF ModifyNext, Check, Search, SearchNext, VisitMod, Return, Finish, Other, Idle
<1> QED
  BY <1>1, ModifyInitial, ModifyStep, PTL DEF ModifySpec, SearchAdvances
============================================================================
