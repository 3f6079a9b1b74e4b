---------------------------- MODULE LoopSearch ----------------------------
(***************************************************************************)
(* The worklist search is_loop_free of udatapath/group_table.c, one action *)
(* per turn of its loop.  The lists visited and to_be_visited are used as  *)
(* sets: is_in keeps them free of duplicates, and which group is popped    *)
(* first is left open, so that the answer is shown not to depend on it.    *)
(***************************************************************************)
EXTENDS GroupGraph, FiniteSets

VARIABLES
    table,          \* the group table, not changed by the search
    group_mod,      \* the modification, a message with group_id and out
    visited,
    to_be_visited,
    pc,             \* "idle" outside the call, else "visit_mod", "loop" or "done"
    loop_free       \* the value returned

searchVars == <<table, group_mod, visited, to_be_visited, pc, loop_free>>

\* Mutant: only the worklist is looked at for what has been found.
VisitAgain(out, list) == list \cup out

\* is_loop_free_visit: the references that are in neither list are appended.
is_loop_free_visit(out, list) == list \cup (out \ visited)

VisitMod ==
    /\ pc = "visit_mod"
    /\ to_be_visited' = is_loop_free_visit(group_mod.out, {})
    /\ pc' = "loop"
    /\ UNCHANGED <<table, group_mod, visited, loop_free>>

\* One turn of the while loop: the group is off the worklist while its own
\* references are looked at, and in visited only afterwards.
VisitNext ==
    /\ pc = "loop"
    /\ group_mod.group_id \notin to_be_visited
    /\ \E gv \in to_be_visited :
          /\ to_be_visited' =
               IF gv \in DOMAIN table
               THEN is_loop_free_visit(table[gv].out, to_be_visited \ {gv})
               ELSE to_be_visited \ {gv}
          /\ visited' = visited \cup {gv}
    /\ UNCHANGED <<table, group_mod, pc, loop_free>>

\* Mutant: only the modified group's own references are searched for it.
ReturnShallow ==
    /\ pc = "loop"
    /\ to_be_visited = {} \/ group_mod.group_id \in to_be_visited
    /\ loop_free' = (group_mod.group_id \notin group_mod.out)
    /\ pc' = "done"
    /\ UNCHANGED <<table, group_mod, visited, to_be_visited>>

Return ==
    /\ pc = "loop"
    /\ to_be_visited = {} \/ group_mod.group_id \in to_be_visited
    /\ loop_free' = (to_be_visited = {})
    /\ pc' = "done"
    /\ UNCHANGED <<table, group_mod, visited, to_be_visited>>

SearchNext == VisitMod \/ VisitNext \/ Return

---------------------------------------------------------------------------
\* The value is_loop_free returns is the one LoopFree defines, in whichever
\* order the groups are taken from to_be_visited.
SearchCorrect == pc = "done" => (loop_free <=> LoopFree(table, group_mod.group_id, group_mod.out))

\* Every turn of the loop looks at a group it has not looked at before, so
\* that there are at most as many as groups: group_table_modify gets its answer.
\* A group that named itself would be looked at twice.
SearchAdvances ==
    [][pc = "loop" /\ pc' = "loop" =>
          \E g \in GroupId \ visited : visited' = visited \cup {g}]_searchVars
===========================================================================
