----------------------------- MODULE FlowTable -----------------------------
(***************************************************************************)
(* One flow table (udatapath/flow_table.c, with the parts of flow_entry.c  *)
(* it uses): the list of entries in the order of lookup, the two timeout   *)
(* lists, and the operations that keep the three lists consistent.         *)
(* Instructions are abstracted to the ports they output to.  An entry is   *)
(* known by its address, which may be used again once it has been freed.   *)
(***************************************************************************)
EXTENDS MatchStd, Lists, Integers, SequencesExt

CONSTANTS
    Address,     \* where entries are allocated
    Priority,    \* priorities of flow_mods
    ModMatch,    \* bound: the matches of flow_mods
    Cookie,      \* cookies; a cookie mask selects all bits or none
    OutPort,     \* ports of output actions
    IdleTimeout, \* idle timeouts, in ticks; 0 is permanent
    HardTimeout, \* hard timeouts
    MaxTime,     \* bound: ticks
    TableMax     \* FLOW_TABLE_MAX_ENTRIES

ASSUME FlowTableAssumption ==
    /\ Priority \subseteq Nat
    /\ ModMatch \subseteq Match
    /\ IdleTimeout \subseteq Nat /\ HardTimeout \subseteq Nat
    /\ MaxTime \in Nat
    /\ TableMax \in Nat

VARIABLES
    entry,          \* the allocated entries: address -> record
    match_entries,  \* table->match_entries
    hard_entries,   \* table->hard_entries
    idle_entries,   \* table->idle_entries
    active_count,   \* table->stats->active_count
    now             \* time_msec()

lists == <<match_entries, hard_entries, idle_entries>>
vars == <<entry, lists, active_count, now>>

\* OFPP_ANY as an out_port; in place of a cookie, a cookie mask of zero.
ANY == "ANY"

\* out_port is only looked at where overlaps are checked.
FlowMod ==
    {mod \in [priority : Priority, match : ModMatch, cookie : Cookie, out : SUBSET OutPort,
              idle_timeout : IdleTimeout, hard_timeout : HardTimeout, check_overlap : BOOLEAN,
              out_port : OutPort \cup {ANY}] :
        mod.check_overlap \/ mod.out_port = ANY}

\* The part of a MODIFY, DELETE or stats request that selects entries.
Selector ==
    [priority : Priority, match : ModMatch, cookie : Cookie \cup {ANY},
     out_port : OutPort \cup {ANY}]

Init ==
    /\ entry = [x \in {} |-> 0]
    /\ match_entries = <<>> /\ hard_entries = <<>> /\ idle_entries = <<>>
    /\ active_count = 0
    /\ now = 0

---------------------------------------------------------------------------
flow_entry_create(mod) ==
    [priority |-> mod.priority, match |-> mod.match, cookie |-> mod.cookie, out |-> mod.out,
     idle_timeout |-> mod.idle_timeout,
     remove_at |-> IF mod.hard_timeout = 0 THEN 0 ELSE now + mod.hard_timeout,
     last_used |-> now]

flow_entry_has_out_port(e, port) == port \in e.out

flow_entry_matches(e, sel, strict) ==
    /\ sel.cookie \in {ANY, e.cookie}
    /\ IF strict THEN e.priority = sel.priority /\ match_std_strict(sel.match, e.match)
                 ELSE match_std_nonstrict(sel.match, e.match)

flow_entry_overlaps(e, mod) ==
    /\ e.priority = mod.priority
    /\ mod.out_port = ANY \/ flow_entry_has_out_port(e, mod.out_port)
    /\ match_std_overlap(e.match, mod.match)

\* Mutant: entries with a hard timeout are appended.
HardAppended(hard, x, ent) == IF ent[x].remove_at > 0 THEN Append(hard, x) ELSE hard

\* add_to_timeout_lists: before the first entry that is removed later.
HardInserted(hard, x, ent) ==
    IF ent[x].remove_at > 0
    THEN InsertAt(hard, FirstPos(hard, {y \in DOMAIN ent : ent[y].remove_at > ent[x].remove_at}), x)
    ELSE hard

\* Mutant: permanent entries are put on the list as well.
IdleAlways(idle, x, ent) == Append(idle, x)

IdleInserted(idle, x, ent) == IF ent[x].idle_timeout > 0 THEN Append(idle, x) ELSE idle

---------------------------------------------------------------------------
(* The loop of flow_table_add stops at the first entry that overlaps, is
   equal to, or has a lower priority than the message. *)

Equal(mod) ==
    {x \in DOMAIN entry :
        flow_entry_matches(entry[x], [priority |-> mod.priority, match |-> mod.match,
                                      cookie |-> ANY, out_port |-> ANY], TRUE)}
Overlapping(mod) ==
    {x \in DOMAIN entry : mod.check_overlap /\ flow_entry_overlaps(entry[x], mod)}
Lower(mod) == {x \in DOMAIN entry : mod.priority > entry[x].priority}

AddPos(mod) == FirstPos(match_entries, Overlapping(mod) \cup Equal(mod) \cup Lower(mod))

\* The loop, stopped at pos, has an entry of E before it.
StopsAt(pos, E) == pos <= Len(match_entries) /\ match_entries[pos] \in E

AddError(mod, pos) ==
    IF StopsAt(pos, Overlapping(mod)) THEN "OVERLAP"
    ELSE IF ~StopsAt(pos, Equal(mod)) /\ active_count = TableMax THEN "TABLE_FULL"
    ELSE "OK"

NewEntry(x, mod) ==
    [y \in DOMAIN entry \cup {x} |-> IF y = x THEN flow_entry_create(mod) ELSE entry[y]]

\* Mutant: the new entry goes to the end of the list.
AddAtEnd(x, mod, pos) ==
    /\ AddError(mod, pos) = "OK"
    /\ ~StopsAt(pos, Equal(mod))
    /\ entry' = NewEntry(x, mod)
    /\ match_entries' = Append(match_entries, x)
    /\ hard_entries' = HardInserted(hard_entries, x, entry')
    /\ idle_entries' = IdleInserted(idle_entries, x, entry')
    /\ active_count' = active_count + 1
    /\ UNCHANGED now

\* flow_table_add where no entry is equal: in front of the entry where the
\* loop stopped.
flow_table_add(x, mod, pos) ==
    /\ AddError(mod, pos) = "OK"
    /\ ~StopsAt(pos, Equal(mod))
    /\ entry' = NewEntry(x, mod)
    /\ match_entries' = InsertAt(match_entries, pos, x)
    /\ hard_entries' = HardInserted(hard_entries, x, entry')
    /\ idle_entries' = IdleInserted(idle_entries, x, entry')
    /\ active_count' = active_count + 1
    /\ UNCHANGED now

\* flow_table_add where an entry is equal: the new one takes its place.
flow_table_replace(x, mod, pos) ==
    /\ AddError(mod, pos) = "OK"
    /\ StopsAt(pos, Equal(mod))
    /\ LET old == match_entries[pos]
           new == NewEntry(x, mod)
       IN  /\ entry' = [y \in DOMAIN new \ {old} |-> new[y]]
           /\ match_entries' = ReplaceAt(match_entries, pos, x)
           /\ hard_entries' = HardInserted(Without(hard_entries, {old}), x, entry')
           /\ idle_entries' = IdleInserted(Without(idle_entries, {old}), x, entry')
    /\ UNCHANGED <<active_count, now>>

\* flow_table_modify: new instructions, everything else is kept.
flow_table_modify(sel, strict, out) ==
    /\ entry' = [x \in DOMAIN entry |->
                    IF flow_entry_matches(entry[x], sel, strict)
                    THEN [entry[x] EXCEPT !.out = out] ELSE entry[x]]
    /\ UNCHANGED <<lists, active_count, now>>

\* flow_entry_remove for every entry of R; a group or meter that is deleted
\* calls it for entries it picks itself.
flow_entry_remove(R) ==
    /\ entry' = [x \in DOMAIN entry \ R |-> entry[x]]
    /\ match_entries' = Without(match_entries, R)
    /\ hard_entries' = Without(hard_entries, R)
    /\ idle_entries' = Without(idle_entries, R)
    /\ active_count' = active_count - Cardinality(R)
    /\ UNCHANGED now

Selected(sel, strict) ==
    {x \in DOMAIN entry :
        /\ sel.out_port = ANY \/ flow_entry_has_out_port(entry[x], sel.out_port)
        /\ flow_entry_matches(entry[x], sel, strict)}

flow_table_delete(sel, strict) == flow_entry_remove(Selected(sel, strict))

\* The entry for a packet, and its new time of last use.
Found(p) == FirstPos(match_entries, {x \in DOMAIN entry : packet_match(entry[x].match, p)})

\* Mutant: the entry that was found is moved to the front.
LookupMovesToFront(p) ==
    /\ Found(p) <= Len(match_entries)
    /\ match_entries' = <<match_entries[Found(p)]>>
                           \o Without(match_entries, {match_entries[Found(p)]})
    /\ UNCHANGED <<entry, hard_entries, idle_entries, active_count, now>>

flow_table_lookup(p) ==
    /\ Found(p) <= Len(match_entries)
    /\ entry' = [entry EXCEPT ![match_entries[Found(p)]].last_used = now]
    /\ UNCHANGED <<lists, active_count, now>>

---------------------------------------------------------------------------
HardExpired(x) == entry[x].remove_at # 0 /\ now > entry[x].remove_at
IdleExpired(x) ==
    entry[x].idle_timeout # 0 /\ now > entry[x].last_used + entry[x].idle_timeout

\* The hard timeouts up to the first that has not run out, then every idle one.
TimedOut ==
    LET n == FirstPos(hard_entries, {x \in DOMAIN entry : ~HardExpired(x)})
    IN  {hard_entries[i] : i \in 1..(n - 1)} \cup {x \in ToSet(idle_entries) : IdleExpired(x)}

flow_table_timeout == flow_entry_remove(TimedOut)

Tick == now < MaxTime /\ now' = now + 1 /\ UNCHANGED <<entry, lists, active_count>>

\* A message that changes nothing: an error, or no entry is selected.
FlowModUnchanged == ~(\A mod \in FlowMod : AddError(mod, AddPos(mod)) = "OK") /\ UNCHANGED vars

Next ==
    \/ FlowModUnchanged
    \/ \E mod \in FlowMod : \E pos \in {AddPos(mod)}, x \in Address \ DOMAIN entry :
          flow_table_add(x, mod, pos) \/ flow_table_replace(x, mod, pos)
    \/ \E sel \in Selector, strict \in BOOLEAN, out \in SUBSET OutPort :
          flow_table_modify(sel, strict, out)
    \/ \E sel \in Selector, strict \in BOOLEAN : flow_table_delete(sel, strict)
    \/ \E R \in SUBSET DOMAIN entry : flow_entry_remove(R)
    \/ \E p \in Packet : flow_table_lookup(p)
    \/ flow_table_timeout
    \/ Tick

Spec == Init /\ [][Next]_vars
---------------------------------------------------------------------------
\* Every entry is once on the list of entries, and on a timeout list just when
\* it has that timeout: no entry is freed while a list still points to it, and
\* none that should time out is forgotten.  The table's count, which decides
\* whether the table is full, is their number.
ListsAgree ==
    /\ IsInjective(match_entries) /\ ToSet(match_entries) = DOMAIN entry
    /\ IsInjective(hard_entries)
    /\ ToSet(hard_entries) = {x \in DOMAIN entry : entry[x].remove_at > 0}
    /\ IsInjective(idle_entries)
    /\ ToSet(idle_entries) = {x \in DOMAIN entry : entry[x].idle_timeout > 0}
    /\ active_count = Len(match_entries) /\ active_count <= TableMax

\* flow_table_lookup "finds the flow entry with the highest priority, which
\* matches the packet" (flow_table.h:73), though it stops at the first match.
LookupHighest ==
    \A p \in Packet :
        LET matching == {x \in DOMAIN entry : packet_match(entry[x].match, p)}
        IN  IF Found(p) > Len(match_entries) THEN matching = {}
            ELSE \A x \in matching :
                    entry[x].priority <= entry[match_entries[Found(p)]].priority

\* Commands select by meaning, whatever the message says, as long as its match
\* and the entry's are exact: strictly the entries that accept the same packets,
\* and no two of the table, although flow_table_add stops looking for an equal
\* entry at the first of lower priority; non-strictly those whose packets are
\* all packets of the message; and CHECK_OVERLAP refuses the message just if
\* some packet could match both.
ExactMatch == {m \in Match : Exact(m)}
PacketsOf == [m \in ExactMatch |-> Accepted(m)]
Mod(m, priority) ==
    [priority |-> priority, match |-> m, cookie |-> ANY, out_port |-> ANY]

CommandsSelect ==
    \A x \in {y \in DOMAIN entry : Exact(entry[y].match)}, m \in ExactMatch, q \in Priority :
        LET e == entry[x]
        IN  /\ flow_entry_matches(e, Mod(m, q), TRUE) <=>
                   q = e.priority /\ PacketsOf[m] = PacketsOf[e.match]
            /\ flow_entry_matches(e, Mod(m, q), FALSE) <=> PacketsOf[e.match] \subseteq PacketsOf[m]
            /\ flow_entry_overlaps(e, Mod(m, q)) <=>
                   q = e.priority /\ PacketsOf[m] \cap PacketsOf[e.match] # {}
            /\ Cardinality({y \in DOMAIN entry : flow_entry_matches(entry[y], Mod(m, q), TRUE)}) <= 1

\* flow_table_timeout removes every entry whose time has run out, although its
\* loop over the hard timeouts stops at the first one that has not and its loop
\* over the idle ones sees only that list: no expired entry stays in the table.
TimeoutsComplete == \A x \in DOMAIN entry : HardExpired(x) \/ IdleExpired(x) => x \in TimedOut

\* Entries that stay keep their order: which of two entries of the same
\* priority gets a packet never changes.
OrderStable ==
    [][\A i, j \in 1..Len(match_entries) : \A k, l \in 1..Len(match_entries') :
          i < j /\ match_entries'[k] = match_entries[i] /\ match_entries'[l] = match_entries[j]
             => k < l]_vars
===========================================================================
