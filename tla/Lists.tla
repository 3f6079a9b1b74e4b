------------------------------- MODULE Lists -------------------------------
(***************************************************************************)
(* The loops over linked lists of the flow table (udatapath/flow_table.c): *)
(* the removal of elements, and the search for one.                        *)
(***************************************************************************)
EXTENDS Naturals, Sequences

\* list_remove of the members of R, in a loop over the list.
Without(s, R) ==
    LET kept[n \in 0..Len(s)] ==
            IF n = 0 THEN <<>>
            ELSE IF s[n] \in R THEN kept[n - 1] ELSE Append(kept[n - 1], s[n])
    IN  kept[Len(s)]

\* The position where a loop over s stops: the first element in E, or the end.
FirstPos(s, E) ==
    CHOOSE i \in 1..(Len(s) + 1) :
        /\ i <= Len(s) => s[i] \in E
        /\ \A j \in 1..(i - 1) : s[j] \notin E
============================================================================
