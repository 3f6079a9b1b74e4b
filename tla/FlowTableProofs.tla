-------------------------- MODULE FlowTableProofs --------------------------
(***************************************************************************)
(* Proofs about FlowTable, for any table size, priorities, matches and     *)
(* timeouts: the three lists agree, the lookup finds an entry of the       *)
(* highest priority, every timeout is noticed, entries that stay keep      *)
(* their order, and commands with exact matches select the entries their   *)
(* meaning over packets says.                                              *)
(***************************************************************************)
EXTENDS FlowTable, DataProofs

---------------------------------------------------------------------------
\* The inductive invariant: besides the agreement of the lists, the order of
\* match_entries by priority and of hard_entries by the time of removal.

Entry ==
    [priority : Priority, match : ModMatch, cookie : Cookie, out : SUBSET OutPort,
     idle_timeout : IdleTimeout, remove_at : Nat, last_used : Nat]

Types ==
    /\ DOMAIN entry \subseteq Address /\ entry \in [DOMAIN entry -> Entry]
    /\ match_entries \in Seq(Address) /\ hard_entries \in Seq(Address)
    /\ idle_entries \in Seq(Address)
    /\ active_count \in Nat /\ now \in Nat

ByPriority(s, ent) ==
    \A i, j \in 1..Len(s) : i < j => ent[s[j]].priority <= ent[s[i]].priority

ByRemoval(s, ent) ==
    \A i, j \in 1..Len(s) : i < j => ent[s[i]].remove_at <= ent[s[j]].remove_at

TableInv ==
    Types /\ ListsAgree /\ ByPriority(match_entries, entry) /\ ByRemoval(hard_entries, entry)

\* add_to_timeout_lists keeps the order of the hard timeouts: everything before
\* the place where its loop stops is removed no later, everything after it later.
LEMMA HardInsertedKeeps ==
    ASSUME NEW S, NEW s \in Seq(S), IsInjective(s), NEW x \in S, x \notin ToSet(s),
           NEW ent, x \in DOMAIN ent, ToSet(s) \subseteq DOMAIN ent,
           \A y \in DOMAIN ent : ent[y].remove_at \in Nat,
           ByRemoval(s, ent)
    PROVE  /\ HardInserted(s, x, ent) \in Seq(S) /\ IsInjective(HardInserted(s, x, ent))
           /\ ToSet(HardInserted(s, x, ent))
                 = ToSet(s) \cup {y \in {x} : ent[y].remove_at > 0}
           /\ ByRemoval(HardInserted(s, x, ent), ent)
<1>1. CASE ~(ent[x].remove_at > 0)
  BY <1>1 DEF HardInserted
<1>2. CASE ent[x].remove_at > 0
  <2> DEFINE E == {y \in DOMAIN ent : ent[y].remove_at > ent[x].remove_at}
             pos == FirstPos(s, E)
             t == InsertAt(s, pos, x)
  <2>1. HardInserted(s, x, ent) = t
    BY <1>2 DEF HardInserted
  <2>2. /\ pos \in 1..(Len(s) + 1)
        /\ pos <= Len(s) => s[pos] \in E
        /\ \A j \in 1..(pos - 1) : s[j] \notin E
    BY FirstPosStops
  <2>3. \A j \in 1..Len(s) : s[j] \in DOMAIN ent /\ ent[s[j]].remove_at \in Nat
    BY DEF ToSet
  <2>4. \A j \in 1..(pos - 1) : ent[s[j]].remove_at <= ent[x].remove_at
    BY <2>2, <2>3
  <2>5. \A j \in pos..Len(s) : ent[x].remove_at <= ent[s[j]].remove_at
    BY <2>2, <2>3 DEF ByRemoval
  <2> HIDE DEF pos, E
  <2>6. /\ t \in Seq(S) /\ IsInjective(t) /\ ToSet(t) = ToSet(s) \cup {x}
    BY <2>2, InsertAtKeeps, InsertAtIs
  <2>7. /\ Len(t) = Len(s) + 1 /\ t[pos] = x /\ Len(s) \in Nat
        /\ \A k \in 1..(pos - 1) : t[k] = s[k]
        /\ \A k \in (pos + 1)..(Len(s) + 1) : t[k] = s[k - 1]
    BY <2>2, InsertAtIs
  <2> HIDE DEF t
  <2>8. ByRemoval(t, ent)
    <3> SUFFICES ASSUME NEW i \in 1..Len(t), NEW j \in 1..Len(t), i < j
                 PROVE  ent[t[i]].remove_at <= ent[t[j]].remove_at
      BY DEF ByRemoval
    <3>1. CASE j < pos
      BY <2>2, <2>7, <3>1 DEF ByRemoval
    <3>2. CASE j = pos
      BY <2>2, <2>4, <2>7, <3>2
    <3>3. CASE i < pos /\ j > pos
      <4>1. t[i] = s[i] /\ t[j] = s[j - 1] /\ i \in 1..(pos - 1) /\ j - 1 \in pos..Len(s)
        BY <2>2, <2>7, <3>3
      <4>2. i \in 1..Len(s) /\ j - 1 \in 1..Len(s)
        BY <2>2, <2>7, <4>1
      <4>3. /\ ent[s[i]].remove_at <= ent[x].remove_at
            /\ ent[x].remove_at <= ent[s[j - 1]].remove_at
        BY <2>4, <2>5, <4>1
      <4> QED
        BY <2>3, <4>1, <4>2, <4>3
    <3>4. CASE i = pos
      <4>1. t[i] = x /\ t[j] = s[j - 1] /\ j - 1 \in pos..Len(s)
        BY <2>2, <2>7, <3>4
      <4> QED
        BY <2>5, <4>1
    <3>5. CASE i > pos
      <4>1. /\ t[i] = s[i - 1] /\ t[j] = s[j - 1] /\ i - 1 < j - 1
            /\ i - 1 \in 1..Len(s) /\ j - 1 \in 1..Len(s)
        BY <2>2, <2>7, <3>5
      <4> QED
        BY <4>1 DEF ByRemoval
    <3> QED
      BY <2>2, <3>1, <3>2, <3>3, <3>4, <3>5
  <2> QED
    BY <1>2, <2>1, <2>6, <2>8
<1> QED
  BY <1>1, <1>2

\* A new entry in the idle list leaves it a list without repetitions.
LEMMA IdleInsertedKeeps ==
    ASSUME NEW S, NEW s \in Seq(S), IsInjective(s), NEW x \in S, x \notin ToSet(s), NEW ent
    PROVE  /\ IdleInserted(s, x, ent) \in Seq(S) /\ IsInjective(IdleInserted(s, x, ent))
           /\ ToSet(IdleInserted(s, x, ent))
                 = ToSet(s) \cup {y \in {x} : ent[y].idle_timeout > 0}
<1>1. CASE ~(ent[x].idle_timeout > 0)
  BY <1>1 DEF IdleInserted
<1>2. CASE ent[x].idle_timeout > 0
  <2> DEFINE t == Append(s, x)
  <2>1. IdleInserted(s, x, ent) = t
    BY <1>2 DEF IdleInserted
  <2>2. /\ t \in Seq(S) /\ DOMAIN t = 1..(Len(s) + 1) /\ Len(s) \in Nat /\ DOMAIN s = 1..Len(s)
        /\ t[Len(s) + 1] = x /\ \A k \in 1..Len(s) : t[k] = s[k]
    OBVIOUS
  <2> HIDE DEF t
  <2>3. \A k \in 1..Len(s) : s[k] # x
    BY <2>2 DEF ToSet
  <2>4. IsInjective(t)
    BY <2>2, <2>3 DEF IsInjective
  <2>5. ToSet(t) = ToSet(s) \cup {x}
    <3>1. ToSet(t) \subseteq ToSet(s) \cup {x}
      BY <2>2 DEF ToSet
    <3>2. ToSet(s) \subseteq ToSet(t)
      BY <2>2 DEF ToSet
    <3>3. x \in ToSet(t)
      BY <2>2 DEF ToSet
    <3> QED
      BY <3>1, <3>2, <3>3
  <2> QED
    BY <1>2, <2>1, <2>2, <2>4, <2>5
<1> QED
  BY <1>1, <1>2

---------------------------------------------------------------------------
\* One lemma for each kind of step: it keeps the invariant, and the order of the
\* entries that stay.

\* flow_entry_create makes an entry with the priority and timeouts of the message.
LEMMA CreatedEntry ==
    ASSUME Types, NEW mod \in FlowMod
    PROVE  flow_entry_create(mod) \in Entry /\ flow_entry_create(mod).priority = mod.priority
<1>1. /\ mod.priority \in Priority /\ mod.match \in ModMatch /\ mod.cookie \in Cookie
      /\ mod.out \in SUBSET OutPort /\ mod.idle_timeout \in IdleTimeout
      /\ mod.hard_timeout \in Nat
  BY Zenon, FlowTableAssumption DEF FlowMod
<1>2. (IF mod.hard_timeout = 0 THEN 0 ELSE now + mod.hard_timeout) \in Nat /\ now \in Nat
  BY <1>1 DEF Types
<1> QED
  BY <1>1, <1>2 DEF flow_entry_create, Entry

\* What the loop of flow_table_add has seen where it stops.
LEMMA AddPosStops ==
    ASSUME Types, NEW mod \in FlowMod
    PROVE  /\ AddPos(mod) \in 1..(Len(match_entries) + 1)
           /\ AddPos(mod) <= Len(match_entries) =>
                 match_entries[AddPos(mod)] \in Overlapping(mod) \cup Equal(mod) \cup Lower(mod)
           /\ \A j \in 1..(AddPos(mod) - 1) : match_entries[j] \notin Lower(mod)
<1> DEFINE E == Overlapping(mod) \cup Equal(mod) \cup Lower(mod)
<1>1. AddPos(mod) = FirstPos(match_entries, E)
  BY DEF AddPos
<1> HIDE DEF E
<1>2. /\ AddPos(mod) \in 1..(Len(match_entries) + 1)
      /\ AddPos(mod) <= Len(match_entries) => match_entries[AddPos(mod)] \in E
      /\ \A j \in 1..(AddPos(mod) - 1) : match_entries[j] \notin E
  BY <1>1, FirstPosStops DEF Types
<1> QED
  BY <1>2 DEF E

\* What flow_table_add writes to a new entry: it is an entry, and the others
\* are left alone.
LEMMA NewEntryIs ==
    ASSUME Types, NEW mod \in FlowMod, NEW x \in Address \ DOMAIN entry
    PROVE  /\ DOMAIN NewEntry(x, mod) = DOMAIN entry \cup {x}
           /\ NewEntry(x, mod)[x] \in Entry /\ NewEntry(x, mod)[x].priority = mod.priority
           /\ \A y \in DOMAIN entry : NewEntry(x, mod)[y] = entry[y] /\ entry[y] \in Entry
<1>1. flow_entry_create(mod) \in Entry /\ flow_entry_create(mod).priority = mod.priority
  BY CreatedEntry
<1>2. \A y \in DOMAIN entry : entry[y] \in Entry /\ y # x
  BY DEF Types
<1> QED
  BY <1>1, <1>2 DEF NewEntry

\* The priority and the times of an entry are numbers.
LEMMA EntryNumbers ==
    ASSUME NEW e \in Entry
    PROVE  /\ e.priority \in Nat /\ e.idle_timeout \in Nat
           /\ e.remove_at \in Nat /\ e.last_used \in Nat
BY Zenon, FlowTableAssumption DEF Entry

\* An ADD keeps the invariant and the order of the other entries.
LEMMA AddStep ==
    ASSUME TableInv, NEW mod \in FlowMod, NEW x \in Address \ DOMAIN entry,
           flow_table_add(x, mod, AddPos(mod))
    PROVE  TableInv' /\ OrderKept(match_entries, match_entries')
<1> DEFINE pos == AddPos(mod)
           s == match_entries
           t == match_entries'
<1>1. /\ pos \in 1..(Len(s) + 1)
      /\ pos <= Len(s) => s[pos] \in Overlapping(mod) \cup Equal(mod) \cup Lower(mod)
      /\ \A j \in 1..(pos - 1) : s[j] \notin Lower(mod)
  BY AddPosStops DEF TableInv
<1>2. /\ AddError(mod, pos) = "OK" /\ ~StopsAt(pos, Equal(mod))
      /\ entry' = NewEntry(x, mod) /\ t = InsertAt(s, pos, x)
      /\ hard_entries' = HardInserted(hard_entries, x, entry')
      /\ idle_entries' = IdleInserted(idle_entries, x, entry')
      /\ active_count' = active_count + 1 /\ now' = now
  BY DEF flow_table_add
<1>3. ~StopsAt(pos, Overlapping(mod)) /\ active_count # TableMax
  BY <1>2 DEF AddError
<1>4. pos <= Len(s) => s[pos] \in Lower(mod)
  BY <1>1, <1>2, <1>3 DEF StopsAt
<1> HIDE DEF pos
<1>5. /\ DOMAIN entry' = DOMAIN entry \cup {x}
      /\ entry'[x] \in Entry /\ entry'[x].priority = mod.priority
      /\ \A y \in DOMAIN entry : entry'[y] = entry[y] /\ entry[y] \in Entry
  BY <1>2, NewEntryIs DEF TableInv
<1>6. entry' = [y \in DOMAIN entry' |-> entry'[y]]
  BY <1>2 DEF NewEntry
<1>7. \A y \in DOMAIN entry' : entry'[y] \in Entry
  BY <1>5
<1>8. /\ s \in Seq(Address) /\ IsInjective(s) /\ ToSet(s) = DOMAIN entry
      /\ hard_entries \in Seq(Address) /\ IsInjective(hard_entries)
      /\ ToSet(hard_entries) = {y \in DOMAIN entry : entry[y].remove_at > 0}
      /\ idle_entries \in Seq(Address) /\ IsInjective(idle_entries)
      /\ ToSet(idle_entries) = {y \in DOMAIN entry : entry[y].idle_timeout > 0}
      /\ active_count = Len(s) /\ active_count <= TableMax /\ active_count \in Nat
      /\ now \in Nat /\ DOMAIN entry \subseteq Address
  BY DEF TableInv, Types, ListsAgree
<1>9. /\ t \in Seq(Address) /\ Len(t) = Len(s) + 1 /\ t[pos] = x /\ Len(s) \in Nat
      /\ \A k \in 1..(pos - 1) : t[k] = s[k]
      /\ \A k \in (pos + 1)..(Len(s) + 1) : t[k] = s[k - 1]
  <2> DEFINE u == InsertAt(s, pos, x)
  <2>1. s \in Seq(Address) /\ x \in Address /\ Len(s) \in Nat
    BY <1>8
  <2>2. /\ u \in Seq(Address) /\ Len(u) = Len(s) + 1 /\ u[pos] = x
        /\ \A k \in 1..(pos - 1) : u[k] = s[k]
        /\ \A k \in (pos + 1)..(Len(s) + 1) : u[k] = s[k - 1]
    BY <1>1, <2>1, InsertAtIs
  <2>3. t = u
    BY <1>2
  <2> QED
    BY <2>1, <2>2, <2>3
<1>10. IsInjective(t) /\ ToSet(t) = DOMAIN entry' /\ OrderKept(s, t)
  <2>1. x \in Address /\ x \notin ToSet(s)
    BY <1>8
  <2>2. /\ IsInjective(InsertAt(s, pos, x)) /\ OrderKept(s, InsertAt(s, pos, x))
        /\ ToSet(InsertAt(s, pos, x)) = ToSet(s) \cup {x}
    BY <1>1, <1>8, <2>1, InsertAtKeeps
  <2> QED
    BY <1>2, <1>5, <1>8, <2>2
<1>11. ByPriority(t, entry')
  <2>1. \A j \in 1..Len(s) : /\ s[j] \in DOMAIN entry /\ entry'[s[j]] = entry[s[j]]
                             /\ entry[s[j]].priority \in Nat
    BY <1>5, <1>8, EntryNumbers DEF ToSet
  <2>2. mod.priority \in Nat
    BY <1>5, EntryNumbers
  <2>3. \A j \in 1..(pos - 1) : mod.priority <= entry[s[j]].priority
    BY <1>1, <1>9, <2>1, <2>2 DEF Lower
  <2>4. \A j \in pos..Len(s) : entry[s[j]].priority <= mod.priority
    BY <1>1, <1>4, <1>9, <2>1, <2>2 DEF Lower, TableInv, ByPriority
  <2>5. \A i, j \in 1..Len(s) : i < j => entry[s[j]].priority <= entry[s[i]].priority
    BY DEF TableInv, ByPriority
  <2>6. Len(s) \in Nat /\ Len(t) = Len(s) + 1 /\ pos \in 1..(Len(s) + 1)
    BY <1>1, <1>9
  <2>7. \A k \in 1..Len(t) : k < pos => t[k] = s[k] /\ k \in 1..Len(s)
    BY <1>9, <2>6
  <2>8. \A k \in 1..Len(t) : k > pos => t[k] = s[k - 1] /\ k - 1 \in 1..Len(s)
    BY <1>9, <2>6
  <2> SUFFICES ASSUME NEW i \in 1..Len(t), NEW j \in 1..Len(t), i < j
               PROVE  entry'[t[j]].priority <= entry'[t[i]].priority
    BY DEF ByPriority
  <2>9. CASE j < pos
    <3>1. t[i] = s[i] /\ t[j] = s[j] /\ i \in 1..Len(s) /\ j \in 1..Len(s)
      BY <2>6, <2>7, <2>9
    <3> QED
      BY <2>1, <2>5, <3>1
  <2>10. CASE j = pos
    <3>1. t[i] = s[i] /\ t[j] = x /\ i \in 1..Len(s) /\ i \in 1..(pos - 1)
      BY SMTT(20), <1>9, <2>6, <2>7, <2>10
    <3> QED
      BY <1>5, <2>1, <2>3, <3>1
  <2>11. CASE i < pos /\ j > pos
    <3>1. /\ t[i] = s[i] /\ t[j] = s[j - 1] /\ i < j - 1
          /\ i \in 1..Len(s) /\ j - 1 \in 1..Len(s)
      BY SMTT(20), <2>6, <2>7, <2>8, <2>11
    <3> QED
      BY <2>1, <2>5, <3>1
  <2>12. CASE i = pos
    <3>1. t[i] = x /\ t[j] = s[j - 1] /\ j - 1 \in pos..Len(s) /\ j - 1 \in 1..Len(s)
      BY <1>9, <2>6, <2>8, <2>12
    <3> QED
      BY <1>5, <2>1, <2>4, <3>1
  <2>13. CASE i > pos
    <3>1. /\ t[i] = s[i - 1] /\ t[j] = s[j - 1] /\ i - 1 < j - 1
          /\ i - 1 \in 1..Len(s) /\ j - 1 \in 1..Len(s)
      BY <2>6, <2>8, <2>13
    <3> QED
      BY SMTT(20), <2>1, <2>5, <3>1
  <2> QED
    BY SMTT(20), <2>6, <2>9, <2>10, <2>11, <2>12, <2>13
<1>12. /\ hard_entries' \in Seq(Address) /\ IsInjective(hard_entries')
       /\ ToSet(hard_entries') = {y \in DOMAIN entry' : entry'[y].remove_at > 0}
       /\ ByRemoval(hard_entries', entry')
  <2>1. x \in DOMAIN entry' /\ ToSet(hard_entries) \subseteq DOMAIN entry' /\ x \notin ToSet(hard_entries)
    BY <1>5, <1>8
  <2>2. \A y \in DOMAIN entry' : entry'[y].remove_at \in Nat
    BY <1>7, EntryNumbers
  <2>3. ByRemoval(hard_entries, entry')
    BY <1>5, <1>8 DEF TableInv, ByRemoval, ToSet
  <2>4. /\ hard_entries' \in Seq(Address) /\ IsInjective(hard_entries')
        /\ ToSet(hard_entries') = ToSet(hard_entries) \cup {y \in {x} : entry'[y].remove_at > 0}
        /\ ByRemoval(hard_entries', entry')
    BY SMTT(20), <1>2, <1>8, <2>1, <2>2, <2>3, HardInsertedKeeps
  <2> QED
    BY <1>5, <1>8, <2>4
<1>13. /\ idle_entries' \in Seq(Address) /\ IsInjective(idle_entries')
       /\ ToSet(idle_entries') = {y \in DOMAIN entry' : entry'[y].idle_timeout > 0}
  <2>1. x \notin ToSet(idle_entries)
    BY <1>8
  <2>2. /\ idle_entries' \in Seq(Address) /\ IsInjective(idle_entries')
        /\ ToSet(idle_entries') = ToSet(idle_entries) \cup {y \in {x} : entry'[y].idle_timeout > 0}
    <3>1. x \in Address /\ idle_entries \in Seq(Address) /\ IsInjective(idle_entries)
      BY <1>8
    <3>2. /\ IdleInserted(idle_entries, x, entry') \in Seq(Address)
          /\ IsInjective(IdleInserted(idle_entries, x, entry'))
          /\ ToSet(IdleInserted(idle_entries, x, entry'))
                = ToSet(idle_entries) \cup {y \in {x} : entry'[y].idle_timeout > 0}
      BY SMTT(20), <2>1, <3>1, IdleInsertedKeeps
    <3> QED
      BY <1>2, <3>2
  <2> QED
    BY <1>5, <1>8, <2>2
<1>14. active_count' \in Nat /\ active_count' = Len(t) /\ active_count' <= TableMax
  BY SMTT(20), <1>2, <1>3, <1>8, <1>9, FlowTableAssumption
<1>15. Types'
  <2>1. entry' \in [DOMAIN entry' -> Entry] /\ DOMAIN entry' \subseteq Address
    BY <1>5, <1>6, <1>7, <1>8
  <2> QED
    BY <1>2, <1>8, <1>9, <1>12, <1>13, <1>14, <2>1 DEF Types
<1> QED
  BY <1>10, <1>11, <1>12, <1>13, <1>14, <1>15 DEF TableInv, ListsAgree

\* So does an ADD that takes the place of an equal entry,
LEMMA ReplaceStep ==
    ASSUME TableInv, NEW mod \in FlowMod, NEW x \in Address \ DOMAIN entry,
           flow_table_replace(x, mod, AddPos(mod))
    PROVE  TableInv' /\ OrderKept(match_entries, match_entries')
<1> DEFINE pos == AddPos(mod)
           s == match_entries
           t == match_entries'
           old == match_entries[pos]
           new == NewEntry(x, mod)
<1>1. pos \in 1..Len(s) /\ old \in Equal(mod)
  <2>1. pos \in 1..(Len(s) + 1) /\ StopsAt(pos, Equal(mod)) /\ Len(s) \in Nat
    BY AddPosStops DEF TableInv, Types, flow_table_replace
  <2> QED
    BY <2>1 DEF StopsAt
<1>2. /\ entry' = [y \in DOMAIN new \ {old} |-> new[y]] /\ t = ReplaceAt(s, pos, x)
      /\ hard_entries' = HardInserted(Without(hard_entries, {old}), x, entry')
      /\ idle_entries' = IdleInserted(Without(idle_entries, {old}), x, entry')
      /\ active_count' = active_count /\ now' = now
  BY DEF flow_table_replace
<1> HIDE DEF pos
<1>3. /\ s \in Seq(Address) /\ IsInjective(s) /\ ToSet(s) = DOMAIN entry
      /\ hard_entries \in Seq(Address) /\ IsInjective(hard_entries)
      /\ ToSet(hard_entries) = {y \in DOMAIN entry : entry[y].remove_at > 0}
      /\ idle_entries \in Seq(Address) /\ IsInjective(idle_entries)
      /\ ToSet(idle_entries) = {y \in DOMAIN entry : entry[y].idle_timeout > 0}
      /\ active_count = Len(s) /\ active_count <= TableMax /\ active_count \in Nat
      /\ now \in Nat /\ DOMAIN entry \subseteq Address /\ x \in Address /\ x \notin DOMAIN entry
  BY DEF TableInv, Types, ListsAgree
<1>4. old \in DOMAIN entry /\ old # x /\ entry[old].priority = mod.priority
  BY <1>1, <1>3 DEF Equal, flow_entry_matches
<1>5. /\ DOMAIN entry' = (DOMAIN entry \ {old}) \cup {x}
      /\ entry'[x] \in Entry /\ entry'[x].priority = mod.priority
      /\ \A y \in DOMAIN entry \ {old} : entry'[y] = entry[y] /\ entry[y] \in Entry
  <2>1. /\ DOMAIN new = DOMAIN entry \cup {x} /\ new[x] \in Entry /\ new[x].priority = mod.priority
        /\ \A y \in DOMAIN entry : new[y] = entry[y] /\ entry[y] \in Entry
    BY NewEntryIs DEF TableInv
  <2> HIDE DEF new
  <2> QED
    BY <1>2, <1>3, <1>4, <2>1
<1>6. entry' = [y \in DOMAIN entry' |-> entry'[y]]
  BY <1>2
<1>7. \A y \in DOMAIN entry' : entry'[y] \in Entry
  BY <1>5
<1>8. /\ t \in Seq(Address) /\ Len(t) = Len(s) /\ IsInjective(t) /\ ToSet(t) = DOMAIN entry'
      /\ OrderKept(s, t)
  <2> DEFINE u == ReplaceAt(s, pos, x)
  <2>1. /\ u \in Seq(Address) /\ Len(u) = Len(s) /\ IsInjective(u) /\ OrderKept(s, u)
        /\ ToSet(u) = (ToSet(s) \ {s[pos]}) \cup {x}
    BY SMTT(20), <1>1, <1>3, ReplaceAtKeeps
  <2> QED
    BY SMTT(20), <1>2, <1>3, <1>5, <2>1
<1>9. ByPriority(t, entry')
  <2>1. \A j \in 1..Len(s) : t[j] = (IF j = pos THEN x ELSE s[j]) /\ s[j] \in DOMAIN entry
    BY SMTT(20), <1>1, <1>2, <1>3 DEF ReplaceAt, ToSet
  <2>2. \A j \in 1..Len(s) : j # pos => s[j] # old
    BY SMTT(20), <1>1, <1>3 DEF IsInjective
  <2>3. \A j \in 1..Len(s) : entry'[t[j]].priority = entry[s[j]].priority
    BY SMTT(20), <1>4, <1>5, <2>1, <2>2
  <2> QED
    BY <1>8, <2>3 DEF ByPriority, TableInv
<1> HIDE DEF old
<1>10. /\ hard_entries' \in Seq(Address) /\ IsInjective(hard_entries')
       /\ ToSet(hard_entries') = {y \in DOMAIN entry' : entry'[y].remove_at > 0}
       /\ ByRemoval(hard_entries', entry')
  <2> DEFINE r == Without(hard_entries, {old})
  <2>1. /\ r \in Seq(Address) /\ IsInjective(r) /\ ToSet(r) = ToSet(hard_entries) \ {old}
        /\ OrderKept(hard_entries, r)
    BY <1>3, WithoutKeeps
  <2> HIDE DEF r
  <2>2. x \in DOMAIN entry' /\ ToSet(r) \subseteq DOMAIN entry' /\ x \notin ToSet(r)
    BY SMTT(20), <1>3, <1>5, <2>1
  <2>3. \A y \in DOMAIN entry' : entry'[y].remove_at \in Nat
    BY <1>7, EntryNumbers
  <2>4. ByRemoval(r, entry')
    <3> SUFFICES ASSUME NEW k \in 1..Len(r), NEW l \in 1..Len(r), k < l
                 PROVE  entry'[r[k]].remove_at <= entry'[r[l]].remove_at
      BY DEF ByRemoval
    <3>1. r[k] \in ToSet(r) /\ r[l] \in ToSet(r)
      BY <2>1 DEF ToSet
    <3>2. \E i, j \in 1..Len(hard_entries) :
             i < j /\ hard_entries[i] = r[k] /\ hard_entries[j] = r[l]
      BY SMTT(20), <1>3, <2>1, <3>1, OrderBefore
    <3>3. entry[r[k]].remove_at <= entry[r[l]].remove_at
      BY <3>2 DEF TableInv, ByRemoval
    <3> QED
      BY SMTT(20), <1>3, <1>5, <2>1, <3>1, <3>3
  <2>5. /\ HardInserted(r, x, entry') \in Seq(Address)
        /\ IsInjective(HardInserted(r, x, entry'))
        /\ ToSet(HardInserted(r, x, entry')) = ToSet(r) \cup {y \in {x} : entry'[y].remove_at > 0}
        /\ ByRemoval(HardInserted(r, x, entry'), entry')
    BY SMTT(20), <1>3, <2>1, <2>2, <2>3, <2>4, HardInsertedKeeps
  <2>6. hard_entries' = HardInserted(r, x, entry')
    BY <1>2 DEF r
  <2> QED
    BY SMTT(20), <1>3, <1>5, <2>1, <2>5, <2>6
<1>11. /\ idle_entries' \in Seq(Address) /\ IsInjective(idle_entries')
       /\ ToSet(idle_entries') = {y \in DOMAIN entry' : entry'[y].idle_timeout > 0}
  <2> DEFINE r == Without(idle_entries, {old})
  <2>1. r \in Seq(Address) /\ IsInjective(r) /\ ToSet(r) = ToSet(idle_entries) \ {old}
    BY <1>3, WithoutKeeps
  <2> HIDE DEF r
  <2>2. r \in Seq(Address) /\ IsInjective(r) /\ x \in Address /\ x \notin ToSet(r)
    BY SMTT(20), <1>3, <2>1
  <2>3. /\ IdleInserted(r, x, entry') \in Seq(Address)
        /\ IsInjective(IdleInserted(r, x, entry'))
        /\ ToSet(IdleInserted(r, x, entry')) = ToSet(r) \cup {y \in {x} : entry'[y].idle_timeout > 0}
    BY <2>2, IdleInsertedKeeps
  <2>4. idle_entries' = IdleInserted(r, x, entry')
    BY SMTT(20), <1>2 DEF r
  <2> QED
    BY SMTT(20), <1>3, <1>5, <2>1, <2>3, <2>4
<1>12. Types'
  <2>1. entry' \in [DOMAIN entry' -> Entry] /\ DOMAIN entry' \subseteq Address
    BY <1>3, <1>5, <1>6, <1>7
  <2> QED
    BY <1>2, <1>3, <1>8, <1>10, <1>11, <2>1 DEF Types
<1> QED
  BY Zenon, <1>2, <1>3, <1>8, <1>9, <1>10, <1>11, <1>12 DEF TableInv, ListsAgree

\* flow_entry_remove takes the entries of R off all three lists, and the count
\* falls by their number.
LEMMA RemoveStep ==
    ASSUME TableInv, NEW R \in SUBSET DOMAIN entry, flow_entry_remove(R)
    PROVE  TableInv' /\ OrderKept(match_entries, match_entries')
<1>1. /\ entry' = [x \in DOMAIN entry \ R |-> entry[x]]
      /\ match_entries' = Without(match_entries, R)
      /\ hard_entries' = Without(hard_entries, R)
      /\ idle_entries' = Without(idle_entries, R)
      /\ active_count' = active_count - Cardinality(R) /\ now' = now
  BY DEF flow_entry_remove
<1>2. /\ match_entries \in Seq(Address) /\ IsInjective(match_entries)
      /\ ToSet(match_entries) = DOMAIN entry
      /\ hard_entries \in Seq(Address) /\ IsInjective(hard_entries)
      /\ ToSet(hard_entries) = {y \in DOMAIN entry : entry[y].remove_at > 0}
      /\ idle_entries \in Seq(Address) /\ IsInjective(idle_entries)
      /\ ToSet(idle_entries) = {y \in DOMAIN entry : entry[y].idle_timeout > 0}
      /\ active_count = Len(match_entries) /\ active_count <= TableMax /\ active_count \in Nat
      /\ now \in Nat /\ DOMAIN entry \subseteq Address
      /\ \A y \in DOMAIN entry : entry[y] \in Entry
  BY DEF TableInv, Types, ListsAgree
<1>3. /\ match_entries' \in Seq(Address) /\ IsInjective(match_entries')
      /\ ToSet(match_entries') = ToSet(match_entries) \ R
      /\ OrderKept(match_entries, match_entries')
  BY <1>1, <1>2, WithoutKeeps
<1>4. /\ hard_entries' \in Seq(Address) /\ IsInjective(hard_entries')
      /\ ToSet(hard_entries') = ToSet(hard_entries) \ R
      /\ OrderKept(hard_entries, hard_entries')
  BY <1>1, <1>2, WithoutKeeps
<1>5. /\ idle_entries' \in Seq(Address) /\ IsInjective(idle_entries')
      /\ ToSet(idle_entries') = ToSet(idle_entries) \ R
  BY <1>1, <1>2, WithoutKeeps
<1>6. DOMAIN entry' = DOMAIN entry \ R /\ \A y \in DOMAIN entry' : entry'[y] = entry[y]
  BY <1>1
<1>7. /\ ToSet(match_entries') = DOMAIN entry'
      /\ ToSet(hard_entries') = {y \in DOMAIN entry' : entry'[y].remove_at > 0}
      /\ ToSet(idle_entries') = {y \in DOMAIN entry' : entry'[y].idle_timeout > 0}
  BY SMTT(20), <1>2, <1>3, <1>4, <1>5, <1>6
<1>8. ByPriority(match_entries', entry')
  <2> SUFFICES ASSUME NEW k \in 1..Len(match_entries'), NEW l \in 1..Len(match_entries'), k < l
               PROVE  entry'[match_entries'[l]].priority <= entry'[match_entries'[k]].priority
    BY DEF ByPriority
  <2>1. match_entries'[k] \in ToSet(match_entries') /\ match_entries'[l] \in ToSet(match_entries')
    BY <1>3 DEF ToSet
  <2>2. \E i, j \in 1..Len(match_entries) :
           i < j /\ match_entries[i] = match_entries'[k] /\ match_entries[j] = match_entries'[l]
    BY SMTT(20), <1>2, <1>3, <2>1, OrderBefore
  <2> QED
    BY <1>6, <1>7, <2>1, <2>2 DEF TableInv, ByPriority
<1>9. ByRemoval(hard_entries', entry')
  <2> SUFFICES ASSUME NEW k \in 1..Len(hard_entries'), NEW l \in 1..Len(hard_entries'), k < l
               PROVE  entry'[hard_entries'[k]].remove_at <= entry'[hard_entries'[l]].remove_at
    BY DEF ByRemoval
  <2>1. hard_entries'[k] \in ToSet(hard_entries') /\ hard_entries'[l] \in ToSet(hard_entries')
    BY <1>4 DEF ToSet
  <2>2. \E i, j \in 1..Len(hard_entries) :
           i < j /\ hard_entries[i] = hard_entries'[k] /\ hard_entries[j] = hard_entries'[l]
    BY SMTT(20), <1>2, <1>4, <2>1, OrderBefore
  <2> QED
    BY <1>6, <1>7, <2>1, <2>2 DEF TableInv, ByRemoval
<1>10. active_count' = Len(match_entries') /\ active_count' \in Nat /\ active_count' <= TableMax
  <2>1. /\ IsFiniteSet(ToSet(match_entries))
        /\ Cardinality(ToSet(match_entries)) = Len(match_entries)
        /\ Cardinality(ToSet(match_entries')) = Len(match_entries')
    BY Zenon, <1>2, <1>3, LenIsCardinality
  <2>2. /\ IsFiniteSet(R) /\ Cardinality(R) \in Nat
        /\ Cardinality(ToSet(match_entries) \ R)
              = Cardinality(ToSet(match_entries)) - Cardinality(ToSet(match_entries) \cap R)
    BY Zenon, <1>2, <2>1, FS_Difference, FS_Subset, FS_CardinalityType
  <2>3. ToSet(match_entries) \cap R = R
    BY <1>2
  <2>4. Len(match_entries') \in Nat /\ Len(match_entries') = active_count - Cardinality(R)
    <3>1. Cardinality(ToSet(match_entries) \ R) = active_count - Cardinality(R)
      BY Zenon, <1>2, <2>1, <2>2, <2>3
    <3>2. Cardinality(ToSet(match_entries) \ R) = Len(match_entries')
      BY <1>3, <2>1
    <3>3. Len(match_entries') \in Nat
      BY <1>3
    <3> QED
      BY <3>1, <3>2, <3>3
  <2> QED
    BY <1>1, <1>2, <2>2, <2>4, FlowTableAssumption
<1>11. Types'
  <2>1. entry' = [y \in DOMAIN entry' |-> entry'[y]]
    BY <1>1
  <2>2. entry' \in [DOMAIN entry' -> Entry] /\ DOMAIN entry' \subseteq Address
    BY <1>2, <1>6, <2>1
  <2> QED
    BY <1>1, <1>2, <1>3, <1>4, <1>5, <1>10, <2>2 DEF Types
<1> QED
  BY Zenon, <1>3, <1>4, <1>5, <1>7, <1>8, <1>9, <1>10, <1>11 DEF TableInv, ListsAgree

\* A step that leaves the lists, and the priority and the timeouts of every entry.
LEMMA SameListsStep ==
    ASSUME TableInv, UNCHANGED <<lists, active_count>>, now' \in Nat,
           DOMAIN entry' = DOMAIN entry, entry' \in [DOMAIN entry' -> Entry],
           \A x \in DOMAIN entry : /\ entry'[x].priority = entry[x].priority
                                   /\ entry'[x].remove_at = entry[x].remove_at
                                   /\ entry'[x].idle_timeout = entry[x].idle_timeout
    PROVE  TableInv' /\ OrderKept(match_entries, match_entries')
<1>1. /\ match_entries' = match_entries /\ hard_entries' = hard_entries
      /\ idle_entries' = idle_entries /\ active_count' = active_count
  BY DEF lists
<1>2. Types'
  BY <1>1 DEF TableInv, Types
<1>3. ListsAgree'
  <2>1. /\ {x \in DOMAIN entry' : entry'[x].remove_at > 0} = {x \in DOMAIN entry : entry[x].remove_at > 0}
        /\ {x \in DOMAIN entry' : entry'[x].idle_timeout > 0} = {x \in DOMAIN entry : entry[x].idle_timeout > 0}
    OBVIOUS
  <2> QED
    BY <1>1, <2>1 DEF TableInv, ListsAgree
<1>4. \A i \in 1..Len(match_entries) : match_entries[i] \in DOMAIN entry
  BY DEF TableInv, Types, ListsAgree, ToSet
<1>5. \A i \in 1..Len(hard_entries) : hard_entries[i] \in DOMAIN entry
  BY DEF TableInv, Types, ListsAgree, ToSet
<1>6. ByPriority(match_entries', entry')
  BY <1>1, <1>4 DEF TableInv, ByPriority
<1>7. ByRemoval(hard_entries', entry')
  BY <1>1, <1>5 DEF TableInv, ByRemoval
<1>8. OrderKept(match_entries, match_entries')
  BY <1>1 DEF TableInv, Types, ListsAgree, OrderKept, IsInjective
<1> QED
  BY <1>2, <1>3, <1>6, <1>7, <1>8 DEF TableInv

\* a MODIFY,
LEMMA ModifyStep ==
    ASSUME TableInv, NEW sel, NEW strict, NEW out \in SUBSET OutPort,
           flow_table_modify(sel, strict, out)
    PROVE  TableInv' /\ OrderKept(match_entries, match_entries')
<1>1. /\ entry' = [x \in DOMAIN entry |->
                      IF flow_entry_matches(entry[x], sel, strict)
                      THEN [entry[x] EXCEPT !.out = out] ELSE entry[x]]
      /\ UNCHANGED <<lists, active_count>> /\ now' = now /\ now \in Nat
      /\ \A x \in DOMAIN entry : entry[x] \in Entry
  BY DEF flow_table_modify, TableInv, Types
<1>2. ASSUME NEW x \in DOMAIN entry
      PROVE  /\ entry'[x] \in Entry /\ entry'[x].priority = entry[x].priority
             /\ entry'[x].remove_at = entry[x].remove_at
             /\ entry'[x].idle_timeout = entry[x].idle_timeout
  <2> DEFINE e == entry[x]
  <2>1. e \in Entry
    BY <1>1
  <2>2. /\ [e EXCEPT !.out = out] \in Entry /\ [e EXCEPT !.out = out].priority = e.priority
        /\ [e EXCEPT !.out = out].remove_at = e.remove_at
        /\ [e EXCEPT !.out = out].idle_timeout = e.idle_timeout
    <3> HIDE DEF e
    <3> QED
      BY <2>1 DEF Entry
  <2>3. entry'[x] = [e EXCEPT !.out = out] \/ entry'[x] = e
    BY <1>1
  <2> QED
    BY Zenon, <2>1, <2>2, <2>3
<1>3. DOMAIN entry' = DOMAIN entry /\ entry' = [x \in DOMAIN entry' |-> entry'[x]]
  BY <1>1
<1>4. entry' \in [DOMAIN entry' -> Entry]
  BY <1>2, <1>3
<1> QED
  BY <1>1, <1>2, <1>3, <1>4, SameListsStep

\* What flow_table_lookup finds: an entry of the table, and none before it matches.
LEMMA FoundStops ==
    ASSUME TableInv, NEW p
    PROVE  /\ Found(p) \in 1..(Len(match_entries) + 1) /\ Len(match_entries) \in Nat
           /\ Found(p) <= Len(match_entries) => match_entries[Found(p)] \in DOMAIN entry
           /\ \A j \in 1..(Found(p) - 1) :
                 ~(match_entries[j] \in DOMAIN entry /\ packet_match(entry[match_entries[j]].match, p))
<1> DEFINE E == {x \in DOMAIN entry : packet_match(entry[x].match, p)}
<1>1. Found(p) = FirstPos(match_entries, E)
  BY DEF Found
<1>2. /\ Found(p) \in 1..(Len(match_entries) + 1)
      /\ Found(p) <= Len(match_entries) => match_entries[Found(p)] \in E
      /\ \A j \in 1..(Found(p) - 1) : match_entries[j] \notin E
  <2> HIDE DEF E
  <2> QED
    BY <1>1, FirstPosStops DEF TableInv, Types
<1>3. Len(match_entries) \in Nat
  BY DEF TableInv, Types
<1> QED
  BY <1>2, <1>3

\* and a lookup, which only notes when the entry was used.
LEMMA LookupStep ==
    ASSUME TableInv, NEW p, flow_table_lookup(p)
    PROVE  TableInv' /\ OrderKept(match_entries, match_entries')
<1> DEFINE f == match_entries[Found(p)]
<1>1. /\ entry' = [entry EXCEPT ![f].last_used = now]
      /\ UNCHANGED <<lists, active_count>> /\ now' = now /\ now \in Nat
      /\ entry \in [DOMAIN entry -> Entry]
  BY DEF flow_table_lookup, TableInv, Types
<1>2. f \in DOMAIN entry
  BY FoundStops DEF flow_table_lookup
<1> HIDE DEF f
<1>3. ASSUME NEW x \in DOMAIN entry
      PROVE  /\ entry'[x] \in Entry /\ entry'[x].priority = entry[x].priority
             /\ entry'[x].remove_at = entry[x].remove_at
             /\ entry'[x].idle_timeout = entry[x].idle_timeout
  <2> DEFINE e == entry[x]
  <2>1. e \in Entry
    BY <1>1
  <2>2. /\ [e EXCEPT !.last_used = now] \in Entry
        /\ [e EXCEPT !.last_used = now].priority = e.priority
        /\ [e EXCEPT !.last_used = now].remove_at = e.remove_at
        /\ [e EXCEPT !.last_used = now].idle_timeout = e.idle_timeout
    <3> HIDE DEF e
    <3> QED
      BY <1>1, <2>1 DEF Entry
  <2>3. entry'[x] = [e EXCEPT !.last_used = now] \/ entry'[x] = e
    BY <1>1, <1>2
  <2> QED
    BY Zenon, <2>1, <2>2, <2>3
<1>4. DOMAIN entry' = DOMAIN entry /\ entry' = [x \in DOMAIN entry' |-> entry'[x]]
  BY Zenon, <1>1
<1>5. entry' \in [DOMAIN entry' -> Entry]
  BY <1>3, <1>4
<1> QED
  BY <1>1, <1>3, <1>4, <1>5, SameListsStep

\* flow_table_timeout removes entries of the table only.
LEMMA TimedOutListed ==
    ASSUME TableInv
    PROVE  TimedOut \subseteq DOMAIN entry
<1> DEFINE n == FirstPos(hard_entries, {x \in DOMAIN entry : ~HardExpired(x)})
<1>1. n \in 1..(Len(hard_entries) + 1) /\ Len(hard_entries) \in Nat
  BY FirstPosStops DEF TableInv, Types
<1>2. TimedOut = {hard_entries[i] : i \in 1..(n - 1)} \cup {x \in ToSet(idle_entries) : IdleExpired(x)}
  BY DEF TimedOut
<1> HIDE DEF n
<1>3. \A i \in 1..(n - 1) : hard_entries[i] \in ToSet(hard_entries)
  BY <1>1 DEF TableInv, Types, ToSet
<1> QED
  BY <1>2, <1>3 DEF TableInv, ListsAgree

\* Every step of the table keeps the invariant and the order of the entries.
LEMMA TableStep ==
    ASSUME TableInv, [Next]_vars
    PROVE  TableInv' /\ OrderKept(match_entries, match_entries')
<1> USE DEF TableInv
<1>1. ASSUME UNCHANGED <<entry, lists, active_count>>, now' \in Nat
      PROVE  TableInv' /\ OrderKept(match_entries, match_entries')
  BY <1>1, SameListsStep DEF Types
<1>2. CASE UNCHANGED vars
  BY <1>1, <1>2 DEF vars, Types
<1>3. CASE FlowModUnchanged
  BY <1>2, <1>3 DEF FlowModUnchanged
<1>4. ASSUME NEW mod \in FlowMod, NEW x \in Address \ DOMAIN entry,
             flow_table_add(x, mod, AddPos(mod)) \/ flow_table_replace(x, mod, AddPos(mod))
      PROVE  TableInv' /\ OrderKept(match_entries, match_entries')
  BY <1>4, AddStep, ReplaceStep
<1>5. ASSUME NEW sel \in Selector, NEW strict \in BOOLEAN, NEW out \in SUBSET OutPort,
             flow_table_modify(sel, strict, out)
      PROVE  TableInv' /\ OrderKept(match_entries, match_entries')
  BY <1>5, ModifyStep
<1>6. ASSUME NEW R \in SUBSET DOMAIN entry, flow_entry_remove(R)
      PROVE  TableInv' /\ OrderKept(match_entries, match_entries')
  BY <1>6, RemoveStep
<1>7. ASSUME NEW sel \in Selector, NEW strict \in BOOLEAN, flow_table_delete(sel, strict)
      PROVE  TableInv' /\ OrderKept(match_entries, match_entries')
  <2>1. Selected(sel, strict) \in SUBSET DOMAIN entry
    BY DEF Selected
  <2> QED
    BY <1>6, <1>7, <2>1 DEF flow_table_delete
<1>8. ASSUME NEW p \in Packet, flow_table_lookup(p)
      PROVE  TableInv' /\ OrderKept(match_entries, match_entries')
  BY <1>8, LookupStep
<1>9. CASE flow_table_timeout
  <2>1. TimedOut \in SUBSET DOMAIN entry
    BY TimedOutListed
  <2> QED
    BY <1>6, <1>9, <2>1 DEF flow_table_timeout
<1>10. CASE Tick
  BY <1>1, <1>10 DEF Tick, Types
<1> QED
  BY Zenon, <1>2, <1>3, <1>4, <1>5, <1>6, <1>7, <1>8, <1>9, <1>10 DEF Next

\* The empty table satisfies the invariant,
LEMMA TableInitial ==
    Init => TableInv
<1> SUFFICES ASSUME Init PROVE TableInv
  OBVIOUS
<1>1. DOMAIN entry = {} /\ entry \in [DOMAIN entry -> Entry]
  BY DEF Init
<1>2. /\ match_entries = <<>> /\ hard_entries = <<>> /\ idle_entries = <<>>
      /\ active_count = 0 /\ now = 0
  BY DEF Init
<1>3. <<>> \in Seq(Address) /\ Len(<<>>) = 0 /\ DOMAIN <<>> = {} /\ 1..0 = {}
  OBVIOUS
<1>4. Types
  BY <1>1, <1>2, <1>3 DEF Types
<1>5. IsInjective(<<>>) /\ ToSet(<<>>) = {}
  BY <1>3 DEF IsInjective, ToSet
<1>6. ListsAgree
  BY <1>1, <1>2, <1>3, <1>5, FlowTableAssumption DEF ListsAgree
<1> QED
  BY <1>2, <1>3, <1>4, <1>6 DEF TableInv, ByPriority, ByRemoval

\* which therefore always holds.
LEMMA TableInvariant ==
    Spec => []TableInv
<1>1. TableInv /\ [Next]_vars => TableInv'
  BY TableStep
<1> QED
  BY TableInitial, <1>1, PTL DEF Spec

\* In a table of any size, with any priorities and timeouts, the three lists and
\* the count agree with the entries: flow_table_add, its replacement of an equal
\* entry, flow_entry_remove and flow_table_timeout never leave a list pointing to
\* an entry that was freed, nor an entry off a list that should have it.
THEOREM ListsStayInStep ==
    Spec => []ListsAgree
<1>1. TableInv => ListsAgree
  BY DEF TableInv
<1> QED
  BY TableInvariant, <1>1, PTL

\* flow_table_lookup stops at the first entry that matches, and that one has the
\* highest priority of all that do, since flow_table_add keeps the list by priority.
THEOREM FirstMatchIsHighest ==
    Spec => []LookupHighest
<1>1. ASSUME TableInv PROVE LookupHighest
  <2> SUFFICES ASSUME NEW p \in Packet
               PROVE  LET matching == {x \in DOMAIN entry : packet_match(entry[x].match, p)}
                      IN  IF Found(p) > Len(match_entries) THEN matching = {}
                          ELSE \A x \in matching :
                                  entry[x].priority <= entry[match_entries[Found(p)]].priority
    BY DEF LookupHighest
  <2>1. /\ Found(p) \in 1..(Len(match_entries) + 1) /\ Len(match_entries) \in Nat
        /\ \A j \in 1..(Found(p) - 1) :
              ~(match_entries[j] \in DOMAIN entry /\ packet_match(entry[match_entries[j]].match, p))
    BY <1>1, FoundStops
  <2>2. ASSUME NEW x \in DOMAIN entry, packet_match(entry[x].match, p)
        PROVE  /\ Found(p) <= Len(match_entries)
               /\ entry[x].priority <= entry[match_entries[Found(p)]].priority
    <3>1. PICK i \in 1..Len(match_entries) : match_entries[i] = x
      BY <1>1 DEF TableInv, Types, ListsAgree, ToSet
    <3>2. Found(p) <= i
      BY <2>1, <2>2, <3>1
    <3>3. entry[x].priority \in Nat
      BY <1>1, EntryNumbers DEF TableInv, Types
    <3> QED
      BY <1>1, <2>1, <3>1, <3>2, <3>3 DEF TableInv, ByPriority
  <2> QED
    BY <2>1, <2>2
<1> QED
  BY TableInvariant, <1>1, PTL

\* flow_table_timeout removes every entry whose time has run out, although it
\* stops at the first hard timeout that has not: those after it are removed no
\* earlier.
THEOREM NoTimeoutIsMissed ==
    Spec => []TimeoutsComplete
<1>1. ASSUME TableInv PROVE TimeoutsComplete
  <2> SUFFICES ASSUME NEW x \in DOMAIN entry, HardExpired(x) \/ IdleExpired(x)
               PROVE  x \in TimedOut
    BY DEF TimeoutsComplete
  <2> DEFINE E == {y \in DOMAIN entry : ~HardExpired(y)}
             n == FirstPos(hard_entries, E)
  <2>1. TimedOut = {hard_entries[i] : i \in 1..(n - 1)} \cup {y \in ToSet(idle_entries) : IdleExpired(y)}
    BY DEF TimedOut
  <2>2. /\ n \in 1..(Len(hard_entries) + 1) /\ Len(hard_entries) \in Nat
        /\ n <= Len(hard_entries) => hard_entries[n] \in E
    <3> HIDE DEF E
    <3> QED
      BY <1>1, FirstPosStops DEF TableInv, Types
  <2> HIDE DEF n
  <2>3. \A y \in DOMAIN entry : entry[y].remove_at \in Nat /\ entry[y].idle_timeout \in Nat
    BY <1>1, EntryNumbers DEF TableInv, Types
  <2>4. CASE IdleExpired(x)
    <3>1. x \in ToSet(idle_entries)
      BY <1>1, <2>3, <2>4 DEF IdleExpired, TableInv, ListsAgree
    <3> QED
      BY SMTT(20), <2>1, <2>4, <3>1
  <2>5. CASE HardExpired(x)
    <3>1. entry[x].remove_at > 0 /\ now > entry[x].remove_at /\ now \in Nat
      BY <1>1, <2>3, <2>5 DEF HardExpired, TableInv, Types
    <3>2. PICK i \in 1..Len(hard_entries) : hard_entries[i] = x
      <4>1. x \in ToSet(hard_entries) /\ DOMAIN hard_entries = 1..Len(hard_entries)
        BY <1>1, <3>1 DEF TableInv, Types, ListsAgree
      <4> QED
        BY <4>1 DEF ToSet
    <3>3. ASSUME n <= i PROVE FALSE
      <4>1. n \in 1..Len(hard_entries) /\ hard_entries[n] \in E
        BY <2>2, <3>2, <3>3
      <4>2. entry[hard_entries[n]].remove_at <= entry[x].remove_at
        BY SMTT(20), <1>1, <2>3, <3>2, <3>3, <4>1 DEF TableInv, ByRemoval
      <4>3. hard_entries[n] \in ToSet(hard_entries)
        BY <1>1, <4>1 DEF TableInv, Types, ToSet
      <4>4. entry[hard_entries[n]].remove_at > 0
        BY <1>1, <4>3 DEF TableInv, ListsAgree
      <4> QED
        BY SMTT(20), <2>3, <3>1, <4>1, <4>2, <4>4 DEF HardExpired
    <3>4. i \in 1..(n - 1)
      BY <2>2, <3>2, <3>3
    <3> QED
      BY <2>1, <3>2, <3>4
  <2> QED
    BY <2>4, <2>5
<1> QED
  BY TableInvariant, <1>1, PTL

\* No step of the table, a flow_mod, a timeout or the removal of entries by a group
\* or a meter, changes the order of two entries that stay.
THEOREM EntriesKeepTheirOrder ==
    Spec => OrderStable
<1>1. TableInv /\ [Next]_vars =>
        [\A i, j \in 1..Len(match_entries) : \A k, l \in 1..Len(match_entries') :
            i < j /\ match_entries'[k] = match_entries[i] /\ match_entries'[l] = match_entries[j]
               => k < l]_vars
  BY TableStep DEF OrderKept
<1> QED
  BY TableInvariant, <1>1, PTL DEF Spec, OrderStable

---------------------------------------------------------------------------
\* The relations of match_std.c on exact matches, and what they mean for packets.

\* Two values that do not differ under a mask are equal under it.
LEMMA XorEmpty ==
    ASSUME NEW S, NEW x \in SUBSET S, NEW y \in SUBSET S
    PROVE  /\ Xor(x, y) \cap S = {} <=> x = y
           /\ Xor(S \cap x, S \cap y) = {} <=> x = y
BY DEF Xor

\* What a match without masks and without the special fields looks like
LEMMA ExactMatchIs ==
    ASSUME NEW m \in Match, Exact(m)
    PROVE  \A h \in DOMAIN m : /\ h = <<h[1], FALSE>> /\ h[1] \in Field /\ ~HasMask(h)
                               /\ h[1] # Vlan /\ h[1] # ExtHdr /\ h[1] \notin ThreeByte
                               /\ m[h].value \in SUBSET Bit /\ m[h].mask = Bit
<1>1. DOMAIN m \subseteq Header /\ \A h \in DOMAIN m : m[h] \in Tlv(h)
  BY DEF Match
<1> SUFFICES ASSUME NEW h \in DOMAIN m
             PROVE  /\ h = <<h[1], FALSE>> /\ h[1] \in Field /\ ~HasMask(h)
                    /\ h[1] # Vlan /\ h[1] # ExtHdr /\ h[1] \notin ThreeByte
                    /\ m[h].value \in SUBSET Bit /\ m[h].mask = Bit
  BY Zenon
<1>2. ~HasMask(h) /\ h[1] \notin {Vlan, ExtHdr} \cup ThreeByte
  BY DEF Exact
<1>3. h \in Field \X BOOLEAN /\ h[2] = FALSE
  BY <1>1, <1>2 DEF Header, HasMask
<1>4. h = <<h[1], FALSE>> /\ h[1] \in Field
  <2>1. PICK f \in Field, k \in BOOLEAN : h = <<f, k>>
    BY <1>3
  <2>2. h[1] = f /\ h[2] = k
    BY <2>1
  <2> QED
    BY Zenon, <1>3, <2>1, <2>2
<1>5. m[h].value \in SUBSET Bit /\ m[h].mask = Bit
  BY <1>1, <1>2 DEF Tlv
<1> QED
  BY Zenon, <1>2, <1>4, <1>5

\* packet_match of an exact match: the packet has each field, with that value.
LEMMA ExactAccepts ==
    ASSUME NEW m \in Match, Exact(m), NEW p \in Packet
    PROVE  packet_match(m, p) <=>
              \A h \in DOMAIN m : h[1] \in DOMAIN p /\ p[h[1]] = m[h].value
<1>1. \A f \in DOMAIN p : p[f] \in SUBSET Bit
  BY DEF Packet
<1>2. ASSUME NEW h \in DOMAIN m
      PROVE  (CASE h[1] = Vlan   -> VlanMatch(h, m[h], p)
                [] h[1] = ExtHdr -> ExtHdr \in DOMAIN p /\ m[h].value \subseteq p[ExtHdr]
                [] OTHER         -> /\ h[1] \in DOMAIN p
                                    /\ Xor(m[h].value, p[h[1]]) \cap m[h].mask = {})
             <=> h[1] \in DOMAIN p /\ p[h[1]] = m[h].value
  <2>1. /\ h[1] # Vlan /\ h[1] # ExtHdr
        /\ m[h].value \in SUBSET Bit /\ m[h].mask = Bit
    BY Zenon, ExactMatchIs
  <2>2. h[1] \in DOMAIN p => (Xor(m[h].value, p[h[1]]) \cap Bit = {} <=> m[h].value = p[h[1]])
    BY <1>1, <2>1, XorEmpty
  <2> QED
    BY <2>1, <2>2
<1> QED
  BY <1>2 DEF packet_match

\* A packet that has just the fields of two exact matches that agree.
LEMMA CommonPacket ==
    ASSUME NEW a \in Match, Exact(a), NEW b \in Match, Exact(b),
           \A h \in DOMAIN a \cap DOMAIN b : a[h].value = b[h].value
    PROVE  \E p \in Packet :
              /\ DOMAIN p = {h[1] : h \in DOMAIN a \cup DOMAIN b}
              /\ \A h \in DOMAIN a : p[h[1]] = a[h].value
              /\ \A h \in DOMAIN b : p[h[1]] = b[h].value
<1> DEFINE F == {h[1] : h \in DOMAIN a \cup DOMAIN b}
           p == [f \in F |-> IF <<f, FALSE>> \in DOMAIN a THEN a[<<f, FALSE>>].value
                                                          ELSE b[<<f, FALSE>>].value]
<1>1. \A h \in DOMAIN a : /\ h = <<h[1], FALSE>> /\ h[1] \in Field /\ h[1] # Vlan
                          /\ a[h].value \in SUBSET Bit
  BY Zenon, ExactMatchIs
<1>2. \A h \in DOMAIN b : /\ h = <<h[1], FALSE>> /\ h[1] \in Field /\ h[1] # Vlan
                          /\ b[h].value \in SUBSET Bit
  BY Zenon, ExactMatchIs
<1>3. F \in SUBSET Field /\ Vlan \notin F
  BY Zenon, <1>1, <1>2
<1>4. \A f \in F : <<f, FALSE>> \in DOMAIN a \/ <<f, FALSE>> \in DOMAIN b
  BY Zenon, <1>1, <1>2
<1>5. p \in [F -> SUBSET Bit]
  BY Zenon, <1>1, <1>2, <1>4
<1>6. p \in Packet
  <2> HIDE DEF p, F
  <2>1. p \in {q \in [F -> SUBSET Bit] : Vlan \in F => Present \notin q[Vlan]}
    BY <1>3, <1>5
  <2> QED
    BY <1>3, <2>1 DEF Packet
<1>7. \A h \in DOMAIN a : p[h[1]] = a[h].value
  BY Zenon, <1>1
<1>8. \A h \in DOMAIN b : p[h[1]] = b[h].value
  BY Zenon, <1>2
<1>9. DOMAIN p = F
  OBVIOUS
<1> QED
  BY Zenon, <1>6, <1>7, <1>8, <1>9

\* match_std_nonstrict: a accepts every packet that b does.
LEMMA NonstrictMeans ==
    ASSUME NEW a \in Match, Exact(a), NEW b \in Match, Exact(b)
    PROVE  match_std_nonstrict(a, b) <=> Accepted(b) \subseteq Accepted(a)
<1>1. match_std_nonstrict(a, b) <=> \A h \in DOMAIN a : h \in DOMAIN b /\ a[h].value = b[h].value
  BY Zenon, ExactMatchIs DEF match_std_nonstrict
<1>2. ASSUME match_std_nonstrict(a, b), NEW p \in Accepted(b) PROVE p \in Accepted(a)
  BY <1>1, <1>2, ExactAccepts DEF Accepted
<1>3. ASSUME Accepted(b) \subseteq Accepted(a) PROVE match_std_nonstrict(a, b)
  <2>1. PICK p \in Packet : /\ DOMAIN p = {h[1] : h \in DOMAIN b \cup DOMAIN b}
                            /\ \A h \in DOMAIN b : p[h[1]] = b[h].value
    BY Zenon, CommonPacket
  <2>2. p \in Accepted(a)
    BY <1>3, <2>1, ExactAccepts DEF Accepted
  <2>3. \A h \in DOMAIN a : h[1] \in DOMAIN p /\ p[h[1]] = a[h].value
    BY <2>2, ExactAccepts DEF Accepted
  <2>4. ASSUME NEW h \in DOMAIN a PROVE h \in DOMAIN b /\ a[h].value = b[h].value
    <3>1. PICK g \in DOMAIN b : g[1] = h[1]
      BY <2>1, <2>3
    <3>2. g = h
      BY Zenon, <3>1, ExactMatchIs
    <3> QED
      BY <2>1, <2>3, <3>2
  <2> QED
    BY <1>1, <2>4
<1> QED
  BY <1>2, <1>3

\* match_std_strict: a and b accept the same packets.
LEMMA StrictMeans ==
    ASSUME NEW a \in Match, Exact(a), NEW b \in Match, Exact(b)
    PROVE  match_std_strict(a, b) <=> Accepted(a) = Accepted(b)
<1>1. match_std_strict(a, b) <=>
         DOMAIN a = DOMAIN b /\ \A h \in DOMAIN a : a[h].value = b[h].value
  BY Zenon, ExactMatchIs DEF match_std_strict
<1>2. match_std_nonstrict(a, b) <=> \A h \in DOMAIN a : h \in DOMAIN b /\ a[h].value = b[h].value
  BY Zenon, ExactMatchIs DEF match_std_nonstrict
<1>3. match_std_nonstrict(b, a) <=> \A h \in DOMAIN b : h \in DOMAIN a /\ b[h].value = a[h].value
  BY Zenon, ExactMatchIs DEF match_std_nonstrict
<1>4. match_std_strict(a, b) <=> match_std_nonstrict(a, b) /\ match_std_nonstrict(b, a)
  BY <1>1, <1>2, <1>3
<1> QED
  BY <1>4, NonstrictMeans

\* match_std_overlap: some packet is accepted by both.
LEMMA OverlapMeans ==
    ASSUME NEW a \in Match, Exact(a), NEW b \in Match, Exact(b)
    PROVE  match_std_overlap(a, b) <=> Accepted(a) \cap Accepted(b) # {}
<1>1. match_std_overlap(a, b) <=> \A h \in DOMAIN a \cap DOMAIN b : a[h].value = b[h].value
  <2>1. ASSUME NEW h \in DOMAIN a, h \in DOMAIN b
        PROVE  /\ OverlapHeader(h, b) = h /\ h[1] \notin ThreeByte
               /\ incompatible(a[h], b[h]) <=> a[h].value # b[h].value
    <3>1. /\ h = <<h[1], FALSE>> /\ h[1] \notin ThreeByte
          /\ a[h].value \in SUBSET Bit /\ a[h].mask = Bit
          /\ b[h].value \in SUBSET Bit /\ b[h].mask = Bit
      BY Zenon, <2>1, ExactMatchIs
    <3>2. \A x, y \in SUBSET Bit : Xor(Bit \cap x, Bit \cap y) = {} <=> x = y
      BY XorEmpty, Zenon
    <3>3. Xor(Bit \cap a[h].value, Bit \cap b[h].value) = {} <=> a[h].value = b[h].value
      BY Zenon, <3>1, <3>2
    <3> QED
      BY Zenon, <2>1, <3>1, <3>3 DEF OverlapHeader, incompatible
  <2>2. ASSUME NEW h \in DOMAIN a, OverlapHeader(h, b) \in DOMAIN b
        PROVE  h \in DOMAIN b
    BY Zenon, <2>2, ExactMatchIs DEF OverlapHeader
  <2> QED
    BY <2>1, <2>2 DEF match_std_overlap
<1>2. ASSUME match_std_overlap(a, b) PROVE Accepted(a) \cap Accepted(b) # {}
  <2>1. PICK p \in Packet : /\ DOMAIN p = {h[1] : h \in DOMAIN a \cup DOMAIN b}
                            /\ \A h \in DOMAIN a : p[h[1]] = a[h].value
                            /\ \A h \in DOMAIN b : p[h[1]] = b[h].value
    BY Zenon, <1>1, <1>2, CommonPacket
  <2>2. packet_match(a, p) /\ packet_match(b, p)
    BY <2>1, ExactAccepts
  <2> QED
    BY <2>2 DEF Accepted
<1>3. ASSUME NEW p \in Packet, packet_match(a, p), packet_match(b, p)
      PROVE  match_std_overlap(a, b)
  <2>1. \A h \in DOMAIN a : p[h[1]] = a[h].value
    BY <1>3, ExactAccepts
  <2>2. \A h \in DOMAIN b : p[h[1]] = b[h].value
    BY <1>3, ExactAccepts
  <2> QED
    BY <1>1, <2>1, <2>2
<1> QED
  BY <1>2, <1>3 DEF Accepted

---------------------------------------------------------------------------
\* No two entries of a priority have matches that are strictly equal, if exact.
Unique ==
    \A x, y \in DOMAIN entry :
        x # y /\ entry[x].priority = entry[y].priority /\ Exact(entry[x].match)
            => ~match_std_strict(entry[x].match, entry[y].match)

\* On exact matches, match_std_strict is symmetric and transitive.
LEMMA StrictIsEquivalence ==
    ASSUME NEW a \in Match, Exact(a), NEW b \in Match, match_std_strict(a, b)
    PROVE  /\ Exact(b) /\ match_std_strict(b, a)
           /\ \A c \in Match : match_std_strict(a, c) => match_std_strict(b, c)
<1>1. \A c \in Match : match_std_strict(a, c) => Exact(c)
  BY DEF match_std_strict, Exact
<1>2. Exact(b) /\ Accepted(a) = Accepted(b)
  BY <1>1, StrictMeans
<1> QED
  BY <1>1, <1>2, StrictMeans

\* flow_table_add goes past the entries of higher priority and stops at the first
\* of lower priority: had there been an equal one, it would have stopped there.
LEMMA AddFindsEqual ==
    ASSUME TableInv, NEW mod \in FlowMod, AddError(mod, AddPos(mod)) = "OK",
           ~StopsAt(AddPos(mod), Equal(mod))
    PROVE  Equal(mod) = {}
<1> DEFINE pos == AddPos(mod)
           s == match_entries
           E == Overlapping(mod) \cup Equal(mod) \cup Lower(mod)
<1>1. /\ pos \in 1..(Len(s) + 1) /\ Len(s) \in Nat
      /\ pos <= Len(s) => s[pos] \in E
      /\ \A j \in 1..(pos - 1) : s[j] \notin E
  <2> HIDE DEF E
  <2>1. pos = FirstPos(s, E)
    BY DEF AddPos, E
  <2> HIDE DEF pos
  <2> QED
    BY <2>1, FirstPosStops DEF TableInv, Types
<1>2. pos <= Len(s) => s[pos] \in Lower(mod) /\ s[pos] \notin Equal(mod)
  BY <1>1 DEF AddError, StopsAt
<1> SUFFICES ASSUME NEW y \in Equal(mod) PROVE FALSE
  OBVIOUS
<1>3. y \in DOMAIN entry /\ entry[y].priority = mod.priority /\ entry[y].priority \in Nat
  BY EntryNumbers DEF Equal, flow_entry_matches, TableInv, Types
<1>4. PICK i \in 1..Len(s) : s[i] = y
  <2>1. y \in ToSet(s) /\ DOMAIN s = 1..Len(s)
    BY <1>3 DEF TableInv, Types, ListsAgree
  <2> QED
    BY <2>1 DEF ToSet
<1> HIDE DEF pos
<1>5. pos <= i
  BY <1>1, <1>4
<1>6. pos \in 1..Len(s) /\ pos < i /\ s[pos] \in Lower(mod)
  BY SMTT(20), <1>1, <1>2, <1>4, <1>5
<1>7. entry[s[i]].priority <= entry[s[pos]].priority
  BY <1>6 DEF TableInv, ByPriority
<1>8. s[pos] \in DOMAIN entry /\ mod.priority > entry[s[pos]].priority
  BY <1>6 DEF Lower
<1>9. entry[s[pos]].priority \in Nat
  BY <1>8, EntryNumbers DEF TableInv, Types
<1> QED
  BY SMTT(20), <1>3, <1>4, <1>7, <1>8, <1>9

\* Entries that keep their match and priority stay different.
LEMMA UniqueKept ==
    ASSUME Unique,
           \A x \in DOMAIN entry' : /\ x \in DOMAIN entry
                                    /\ entry'[x].priority = entry[x].priority
                                    /\ entry'[x].match = entry[x].match
    PROVE  Unique'
BY DEF Unique

\* An entry for mod that replaces every entry of R, when all the entries that are
\* equal to it are in R.
LEMMA UniqueAdded ==
    ASSUME TableInv, Unique, NEW mod \in FlowMod, NEW x \in Address \ DOMAIN entry, NEW R,
           DOMAIN entry' = (DOMAIN entry \ R) \cup {x},
           entry'[x].priority = mod.priority, entry'[x].match = mod.match,
           \A y \in DOMAIN entry \ R : entry'[y] = entry[y],
           \A y \in DOMAIN entry \ R :
              entry[y].priority = mod.priority /\ Exact(mod.match)
                 => ~match_std_strict(mod.match, entry[y].match)
    PROVE  Unique'
<1>1. mod.match \in Match /\ \A y \in DOMAIN entry : entry[y].match \in Match
  BY FlowTableAssumption DEF FlowMod, TableInv, Types, Entry
<1> SUFFICES ASSUME NEW y \in DOMAIN entry', NEW z \in DOMAIN entry', y # z,
                    entry'[y].priority = entry'[z].priority, Exact(entry'[y].match),
                    match_std_strict(entry'[y].match, entry'[z].match)
             PROVE  FALSE
  BY DEF Unique
<1>2. CASE y # x /\ z # x
  BY <1>2 DEF Unique
<1>3. CASE y = x
  BY <1>3
<1>4. CASE z = x
  <2>1. y \in DOMAIN entry \ R /\ entry'[y] = entry[y]
    BY <1>4
  <2>2. Exact(mod.match) /\ match_std_strict(mod.match, entry[y].match)
    BY SMTT(20), <1>1, <1>4, <2>1, StrictIsEquivalence
  <2> QED
    BY SMTT(20), <1>4, <2>1, <2>2
<1> QED
  BY SMTT(20), <1>2, <1>3, <1>4

\* The entries that an ADD replaces are those with its priority and match.
LEMMA EqualIs ==
    ASSUME NEW mod
    PROVE  Equal(mod) = {y \in DOMAIN entry : /\ entry[y].priority = mod.priority
                                              /\ match_std_strict(mod.match, entry[y].match)}
BY DEF Equal, flow_entry_matches

\* An ADD that found no equal entry keeps the entries different,
LEMMA UniqueAdd ==
    ASSUME TableInv, Unique, NEW mod \in FlowMod, NEW x \in Address \ DOMAIN entry,
           flow_table_add(x, mod, AddPos(mod))
    PROVE  Unique'
<1>1. entry' = NewEntry(x, mod) /\ Equal(mod) = {}
  BY AddFindsEqual DEF flow_table_add
<1>2. /\ DOMAIN entry' = (DOMAIN entry \ {}) \cup {x}
      /\ entry'[x].priority = mod.priority /\ entry'[x].match = mod.match
      /\ \A y \in DOMAIN entry \ {} : entry'[y] = entry[y]
  BY <1>1 DEF NewEntry, flow_entry_create
<1>3. \A y \in DOMAIN entry \ {} :
         entry[y].priority = mod.priority => ~match_std_strict(mod.match, entry[y].match)
  BY <1>1, EqualIs
<1> QED
  BY Zenon, <1>2, <1>3, UniqueAdded

\* and so does one that replaces the equal entry.
LEMMA UniqueReplace ==
    ASSUME TableInv, Unique, NEW mod \in FlowMod, NEW x \in Address \ DOMAIN entry,
           flow_table_replace(x, mod, AddPos(mod))
    PROVE  Unique'
<1> DEFINE old == match_entries[AddPos(mod)]
<1>1. /\ old \in Equal(mod)
      /\ entry' = [y \in DOMAIN NewEntry(x, mod) \ {old} |-> NewEntry(x, mod)[y]]
  BY Zenon DEF flow_table_replace, StopsAt
<1> HIDE DEF old
<1>2. /\ old \in DOMAIN entry /\ entry[old].priority = mod.priority /\ old # x
      /\ match_std_strict(mod.match, entry[old].match)
  BY SMTT(20), <1>1, EqualIs
<1>3. /\ DOMAIN entry' = (DOMAIN entry \ {old}) \cup {x}
      /\ entry'[x].priority = mod.priority /\ entry'[x].match = mod.match
      /\ \A y \in DOMAIN entry \ {old} : entry'[y] = entry[y]
  BY <1>1, <1>2 DEF NewEntry, flow_entry_create
<1>4. mod.match \in Match /\ \A y \in DOMAIN entry : entry[y].match \in Match
  BY FlowTableAssumption DEF FlowMod, TableInv, Types, Entry
<1>5. ASSUME NEW y \in DOMAIN entry \ {old}, entry[y].priority = mod.priority,
             Exact(mod.match), match_std_strict(mod.match, entry[y].match)
      PROVE  FALSE
  <2>1. Exact(entry[old].match) /\ match_std_strict(entry[old].match, entry[y].match)
    BY SMTT(20), <1>2, <1>4, <1>5, StrictIsEquivalence
  <2> QED
    BY SMTT(20), <1>2, <1>5, <2>1 DEF Unique
<1> QED
  BY Zenon, <1>3, <1>5, UniqueAdded

\* No step makes two entries equal,
LEMMA UniqueStep ==
    ASSUME TableInv, Unique, [Next]_vars
    PROVE  Unique'
<1>1. ASSUME UNCHANGED entry PROVE Unique'
  BY <1>1, UniqueKept
<1>2. CASE UNCHANGED vars \/ FlowModUnchanged \/ Tick
  BY Zenon, <1>1, <1>2 DEF vars, FlowModUnchanged, Tick
<1>3. ASSUME NEW mod \in FlowMod, NEW x \in Address \ DOMAIN entry,
             flow_table_add(x, mod, AddPos(mod)) \/ flow_table_replace(x, mod, AddPos(mod))
      PROVE  Unique'
  BY <1>3, UniqueAdd, UniqueReplace
<1>4. ASSUME NEW sel, NEW strict, NEW out, flow_table_modify(sel, strict, out)
      PROVE  Unique'
  <2>1. DOMAIN entry' = DOMAIN entry /\ \A x \in DOMAIN entry : entry[x] \in Entry
    BY <1>4 DEF flow_table_modify, TableInv, Types
  <2>2. ASSUME NEW x \in DOMAIN entry
        PROVE  entry'[x].priority = entry[x].priority /\ entry'[x].match = entry[x].match
    <3> DEFINE e == entry[x]
    <3>1. entry'[x] = [e EXCEPT !.out = out] \/ entry'[x] = e
      BY <1>4 DEF flow_table_modify
    <3>2. e \in Entry
      BY <2>1
    <3>3. [e EXCEPT !.out = out].priority = e.priority /\ [e EXCEPT !.out = out].match = e.match
      <4> HIDE DEF e
      <4> QED
        BY <3>2 DEF Entry
    <3> QED
      BY Zenon, <3>1, <3>3
  <2> QED
    BY <2>1, <2>2, UniqueKept
<1>5. ASSUME NEW R, flow_entry_remove(R) PROVE Unique'
  <2>1. \A x \in DOMAIN entry' : x \in DOMAIN entry /\ entry'[x] = entry[x]
    BY <1>5 DEF flow_entry_remove
  <2> QED
    BY <2>1, UniqueKept
<1>6. CASE (\E sel \in Selector, strict \in BOOLEAN : flow_table_delete(sel, strict)) \/ flow_table_timeout
  BY <1>5, <1>6 DEF flow_table_delete, flow_table_timeout
<1>7. ASSUME NEW p \in Packet, flow_table_lookup(p) PROVE Unique'
  <2> DEFINE f == match_entries[Found(p)]
  <2>1. /\ entry' = [entry EXCEPT ![f].last_used = now]
        /\ \A x \in DOMAIN entry : entry[x] \in Entry
    BY <1>7 DEF flow_table_lookup, TableInv, Types
  <2>2. f \in DOMAIN entry
    BY <1>7, FoundStops DEF flow_table_lookup
  <2> HIDE DEF f
  <2>3. ASSUME NEW x \in DOMAIN entry
        PROVE  entry'[x].priority = entry[x].priority /\ entry'[x].match = entry[x].match
    <3> DEFINE e == entry[x]
    <3>1. entry'[x] = [e EXCEPT !.last_used = now] \/ entry'[x] = e
      BY <2>1, <2>2
    <3>2. e \in Entry
      BY <2>1
    <3>3. /\ [e EXCEPT !.last_used = now].priority = e.priority
          /\ [e EXCEPT !.last_used = now].match = e.match
      <4> HIDE DEF e
      <4> QED
        BY <3>2 DEF Entry
    <3> QED
      BY Zenon, <3>1, <3>3
  <2>4. DOMAIN entry' = DOMAIN entry
    BY <2>1
  <2> QED
    BY <2>3, <2>4, UniqueKept
<1> QED
  BY Zenon, <1>2, <1>3, <1>4, <1>5, <1>6, <1>7 DEF Next

\* so that no two entries ever have the same priority and match.
LEMMA UniqueInvariant ==
    Spec => []Unique
<1>1. Init => Unique
  BY DEF Init, Unique
<1>2. TableInv /\ Unique /\ [Next]_vars => Unique'
  BY UniqueStep
<1> QED
  BY TableInvariant, <1>1, <1>2, PTL DEF Spec

\* The commands of flow_mods select by meaning on exact matches, whatever the
\* fields, bits and priorities: strictly the entry that accepts the same packets,
\* of which there is one at most, non-strictly those whose packets the message
\* covers, and CHECK_OVERLAP those that share a packet with it.
THEOREM CommandsSelectByMeaning ==
    Spec => []CommandsSelect
<1>1. ASSUME TableInv, Unique PROVE CommandsSelect
  <2> SUFFICES ASSUME NEW x \in {y \in DOMAIN entry : Exact(entry[y].match)},
                      NEW m \in ExactMatch, NEW q \in Priority
               PROVE  LET e == entry[x]
                      IN  /\ flow_entry_matches(e, Mod(m, q), TRUE) <=>
                                q = e.priority /\ PacketsOf[m] = PacketsOf[e.match]
                          /\ flow_entry_matches(e, Mod(m, q), FALSE) <=>
                                PacketsOf[e.match] \subseteq PacketsOf[m]
                          /\ flow_entry_overlaps(e, Mod(m, q)) <=>
                                q = e.priority /\ PacketsOf[m] \cap PacketsOf[e.match] # {}
                          /\ Cardinality({y \in DOMAIN entry :
                                            flow_entry_matches(entry[y], Mod(m, q), TRUE)}) <= 1
    BY Zenon DEF CommandsSelect
  <2> DEFINE e == entry[x]
             equal == {y \in DOMAIN entry : flow_entry_matches(entry[y], Mod(m, q), TRUE)}
  <2>1. \A y \in DOMAIN entry : entry[y].match \in Match
    BY <1>1, FlowTableAssumption DEF TableInv, Types, Entry
  <2>2. m \in Match /\ Exact(m) /\ e.match \in Match /\ Exact(e.match)
    BY <2>1 DEF ExactMatch
  <2>3. PacketsOf[m] = Accepted(m) /\ PacketsOf[e.match] = Accepted(e.match)
    BY <2>2 DEF PacketsOf, ExactMatch
  <2>4. /\ Mod(m, q).priority = q /\ Mod(m, q).match = m
        /\ Mod(m, q).cookie = ANY /\ Mod(m, q).out_port = ANY
    BY DEF Mod
  <2>5. \A y \in DOMAIN entry :
           flow_entry_matches(entry[y], Mod(m, q), TRUE) <=>
              entry[y].priority = q /\ match_std_strict(m, entry[y].match)
    BY <2>4 DEF flow_entry_matches
  <2>6. flow_entry_matches(e, Mod(m, q), FALSE) <=> match_std_nonstrict(m, e.match)
    BY <2>4 DEF flow_entry_matches
  <2>7. flow_entry_overlaps(e, Mod(m, q)) <=> e.priority = q /\ match_std_overlap(e.match, m)
    BY <2>4 DEF flow_entry_overlaps
  <2>8. Cardinality(equal) <= 1
    <3>1. ASSUME NEW y \in equal, NEW z \in equal, y # z PROVE FALSE
      <4>1. /\ y \in DOMAIN entry /\ z \in DOMAIN entry /\ entry[y].priority = entry[z].priority
            /\ match_std_strict(m, entry[y].match) /\ match_std_strict(m, entry[z].match)
        BY Zenon, <2>5
      <4>2. Exact(entry[y].match) /\ match_std_strict(entry[y].match, entry[z].match)
        BY SMTT(20), <2>1, <2>2, <4>1, StrictIsEquivalence
      <4> QED
        BY <1>1, <3>1, <4>1, <4>2 DEF Unique
    <3> HIDE DEF equal
    <3> QED
      BY <3>1, AtMostOne
  <2>9. /\ match_std_strict(m, e.match) <=> Accepted(m) = Accepted(e.match)
        /\ match_std_nonstrict(m, e.match) <=> Accepted(e.match) \subseteq Accepted(m)
        /\ match_std_overlap(e.match, m) <=> Accepted(e.match) \cap Accepted(m) # {}
    BY <2>2, StrictMeans, NonstrictMeans, OverlapMeans
  <2> QED
    BY Zenon, <2>3, <2>5, <2>6, <2>7, <2>8, <2>9
<1> QED
  BY TableInvariant, UniqueInvariant, <1>1, PTL
=============================================================================
