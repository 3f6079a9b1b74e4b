---------------------------- MODULE GroupGraph ----------------------------
(***************************************************************************)
(* The reference graph of the group table (udatapath/group_table.c).  A    *)
(* table is a function from the group ids in use to entries; an entry's    *)
(* field out is the set of groups that the group actions of its buckets    *)
(* name, the only part of the buckets the graph depends on.                *)
(***************************************************************************)
EXTENDS Naturals

CONSTANT GroupId     \* the ids 0..OFPG_MAX a group may have

\* A set of ids that holds every group its members refer to.  An id with no
\* entry refers to nothing: is_loop_free only warns about it.
Closed(table, C) == \A g \in C \cap DOMAIN table : table[g].out \subseteq C

\* A search that follows direct references only: it misses longer loops.
DirectlyLoopFree(table, id, out) ==
    /\ id \notin out
    /\ \A g \in out \cap DOMAIN table : id \notin table[g].out

\* What is_loop_free answers for a modification that gives group id the
\* references out: its worklist, seeded with out and followed through the
\* table as it is, runs empty without ever holding id.
LoopFree(table, id, out) ==
    \E C \in SUBSET GroupId : out \subseteq C /\ id \notin C /\ Closed(table, C)

\* Following references from any group comes to an end: every set of groups
\* has a member that refers to no other member.
Acyclic(table) ==
    \A S \in SUBSET DOMAIN table :
        S # {} => \E g \in S : table[g].out \cap S = {}

\* Every group that a bucket names is in the table.
Resolved(table) == \A g \in DOMAIN table : table[g].out \subseteq DOMAIN table
===========================================================================
