-------------------------- MODULE MCGroupModify --------------------------
(* Instance of GroupModify for TLC. *)
EXTENDS GroupModify, TLC

TableSymmetry == Permutations(GroupId) \cup Permutations(MeterId) \cup Permutations(Flow)

\* The meters that exist or that a flow names
MetersInPlay ==
    DOMAIN meters \cup UNION {flows[f].meters \cup flows[f].meter_refs : f \in DOMAIN flows}

\* Bound: the tables reach their limits without flows; with flows they are small.
SmallWithFlows ==
    flows # NoFlows =>
        /\ Cardinality(DOMAIN groups) + Cardinality(DOMAIN flows) <= 3
        /\ buckets_num <= 2
        /\ Cardinality(MetersInPlay) <= 1
        /\ bands_base = 0 /\ bands_num = 0
===========================================================================
