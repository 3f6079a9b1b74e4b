-------------------------- MODULE MatchRelations --------------------------
(***************************************************************************)
(* What the relations of MatchStd say about the packets that the matches   *)
(* accept: one comparison of a flow_mod with a flow entry, for every pair  *)
(* of matches they can have.                                               *)
(***************************************************************************)
EXTENDS MatchStd

VARIABLES
    mod,      \* the match of the flow_mod
    entry,    \* the match of the entry
    result    \* what the three functions return

None == [strict |-> FALSE, nonstrict |-> FALSE, overlap |-> FALSE, done |-> FALSE]

MatchInit == mod \in Match /\ entry \in Match /\ result = None

Compare ==
    /\ ~result.done
    /\ result' = [strict    |-> match_std_strict(mod, entry),
                  nonstrict |-> match_std_nonstrict(mod, entry),
                  overlap   |-> match_std_overlap(entry, mod),
                  done      |-> TRUE]
    /\ UNCHANGED <<mod, entry>>

MatchSpec == MatchInit /\ [][Compare]_<<mod, entry, result>>

---------------------------------------------------------------------------
\* "Flow entry (a) matches flow entry (b) non-strictly if (a) matches whenever
\* (b) matches" (match_std.c:577).
NonstrictMatchesWhenever ==
    result.done /\ result.nonstrict => Accepted(entry) \subseteq Accepted(mod)
===========================================================================
