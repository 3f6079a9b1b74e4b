----------------------------- MODULE ActionSet -----------------------------
(***************************************************************************)
(* The action set of a packet (udatapath/action_set.c): a list of actions  *)
(* kept in execution order, with at most one action of each kind.          *)
(*                                                                         *)
(* An action is a record with a type and an argument: the port of OUTPUT,  *)
(* the group of GROUP, the field of SET_FIELD.  The values the header      *)
(* actions write are left out: nothing here depends on them.               *)
(***************************************************************************)
EXTENDS Integers, Sequences, SequencesExt

(* The execution order of each type of action                              *)
Order ==
    [COPY_TTL_IN |-> 10,
     POP_PBB |-> 20, POP_VLAN |-> 20, POP_MPLS |-> 20,
     PUSH_PBB |-> 30, PUSH_VLAN |-> 30, PUSH_MPLS |-> 30,
     COPY_TTL_OUT |-> 40,
     DEC_MPLS_TTL |-> 50, DEC_NW_TTL |-> 50,
     SET_FIELD |-> 60, SET_MPLS_TTL |-> 60, SET_NW_TTL |-> 60,
     SET_QUEUE |-> 70, EXPERIMENTER |-> 75, GROUP |-> 80, OUTPUT |-> 90]

action_set_order(a) == Order[a.type]

(* Does action a take the place of action b?  Actions of the same type do, *)
(* except that SET_FIELD goes by the field.                                *)
SameKind(a, b) ==
    /\ a.type = b.type
    /\ a.type = "SET_FIELD" => a.arg = b.arg

(* Mutant: the walk stops at an entry of the same order, too.              *)
StopsEarly(a, b) == SameKind(a, b) \/ action_set_order(a) <= action_set_order(b)

(* The walk through the set stops at an entry b that a replaces or         *)
(* precedes.                                                               *)
StopsAt(a, b) == SameKind(a, b) \/ action_set_order(a) < action_set_order(b)

action_set_write_action(set, a) ==
    LET at == SelectInSeq(set, LAMBDA b : StopsAt(a, b))
    IN  CASE at = 0                           -> Append(set, a)
          [] at # 0 /\ SameKind(a, set[at])   -> ReplaceAt(set, at, a)
          [] at # 0 /\ ~SameKind(a, set[at])  -> InsertAt(set, at, a)

action_set_write_actions(set, actions) == FoldLeft(action_set_write_action, set, actions)

(* The form the execution of a set relies on: in order, one of a kind      *)
Canonical(set) ==
    \A i, j \in DOMAIN set :
       i < j => /\ action_set_order(set[i]) <= action_set_order(set[j])
                /\ ~SameKind(set[i], set[j])
=============================================================================
