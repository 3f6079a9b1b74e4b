---------------------------- MODULE SwitchProofs ----------------------------
(***************************************************************************)
(* Proofs about what a datapath keeps for its controllers.                 *)
(*                                                                         *)
(* Their connections (Controllers), for any set of them, any even number   *)
(* of generation ids and any configurations: there is one master at most,  *)
(* and the comparison of generation ids orders the elections.              *)
(*                                                                         *)
(* The packets they may ask for (PacketBuffers), for any number of         *)
(* packets, buffers and cookies, any depth of clones and any time a buffer *)
(* is kept: an id gives back its own packet, a saved packet stays its      *)
(* time, and, as long as no second passes while a packet is processed, no  *)
(* packet is freed twice, used when it is free, or lost.                   *)
(***************************************************************************)
EXTENDS Controllers, PacketBuffers, SequenceTheorems, TLAPS

-----------------------------------------------------------------------------
\* Arithmetic modulo Width, in which the uint64_t generation ids are compared.

\* The quotient and the remainder of any number, negative ones included.
LEMMA DivMod ==
    ASSUME NEW w \in Nat \ {0}, NEW a \in Int
    PROVE  /\ a % w \in 0 .. w - 1
           /\ a \div w \in Int
           /\ a = w * (a \div w) + (a % w)
OBVIOUS

\* A number written as a multiple and a remainder has that remainder.
LEMMA ModUnique ==
    ASSUME NEW w \in Nat \ {0}, NEW q \in Int, NEW r \in 0 .. w - 1
    PROVE  (w * q + r) % w = r
OBVIOUS

\* The difference of two remainders is that of the numbers, modulo w: the
\* uint64_t subtraction of dp_check_generation_id.
LEMMA ModDifference ==
    ASSUME NEW w \in Nat \ {0}, NEW a \in Int, NEW b \in Int,
           NEW k \in Int, NEW d \in 0 .. w - 1, a - b = d - w * k
    PROVE  ((a % w) - (b % w)) % w = d
<1> DEFINE q == (b \div w) - (a \div w) - k
<1>1. q \in Int
  BY DivMod
<1>2. (a % w) - (b % w) = w * q + d
  BY DivMod
<1> HIDE DEF q
<1> QED
  BY <1>1, <1>2, ModUnique

\* Seen as a signed number, the difference has the sign of the true one, if
\* that is within half the space.
LEMMA SignedDifference ==
    ASSUME NEW h \in Nat \ {0}, NEW a \in Int, NEW b \in Int,
           a - b \in -h .. h - 1
    PROVE  ((a % (2 * h)) - (b % (2 * h))) % (2 * h) >= h <=> a < b
<1>1. 2 * h \in Nat \ {0}
  OBVIOUS
<1>2. CASE a >= b
  <2>1. 0 \in Int /\ a - b \in 0 .. (2 * h) - 1 /\ a - b = (a - b) - (2 * h) * 0
    BY <1>2
  <2>2. ((a % (2 * h)) - (b % (2 * h))) % (2 * h) = a - b
    BY <1>1, <2>1, ModDifference
  <2> QED
    BY <1>2, <2>2
<1>3. CASE a < b
  <2>1. /\ 1 \in Int
        /\ 2 * h + (a - b) \in 0 .. (2 * h) - 1
        /\ a - b = (2 * h + (a - b)) - (2 * h) * 1
    BY <1>3
  <2>2. ((a % (2 * h)) - (b % (2 * h))) % (2 * h) = 2 * h + (a - b)
    BY Zenon, <1>1, <2>1, ModDifference
  <2> QED
    BY <1>3, <2>2
<1> QED
  BY <1>2, <1>3

\* dp_check_generation_id tells a request of an older election from one of the
\* last or a newer one, for elections less than half the id space apart.
LEMMA StaleIsOlder ==
    ASSUME epoch \in Int, generation_id = epoch % Width, NEW e \in Election
    PROVE  Stale(e % Width) <=> e < epoch
<1> DEFINE h == Width \div 2
<1>1. h \in Nat \ {0} /\ Width = 2 * h
  BY ControllersAssumption
<1>2. e \in Int /\ e - epoch \in -h .. h - 1
  BY DEF Election
<1>3. Stale(e % Width) <=> ((e % (2 * h)) - (epoch % (2 * h))) % (2 * h) >= h
  BY <1>1 DEF Stale
<1> HIDE DEF h
<1> QED
  BY SMTT(20), <1>1, <1>2, <1>3, SignedDifference

-----------------------------------------------------------------------------
\* What a broadcast leaves in sent.
LEMMA SentType ==
    ASSUME NEW msg \in Message, send_openflow_buffer(msg)
    PROVE  sent' \in [msg : Message, to : SUBSET Connected] /\ Connected' = Connected
BY DEF send_openflow_buffer, Connected

\* Every handler leaves roles and configurations for the remotes there are, and
\* a generation id that stands for the last election.
LEMMA TypeStep ==
    ASSUME RolesTypeOK, [RolesNext]_rolesVars
    PROVE  RolesTypeOK'
<1> USE ControllersAssumption DEF RolesTypeOK, Connected
<1>1. ASSUME NEW r \in Remote, remote_create(r)
      PROVE  RolesTypeOK'
  <2>1. AllOn \in Config
    BY DEF AllOn, Config
  <2> QED
    BY <1>1, <2>1 DEF remote_create, Role
<1>2. ASSUME NEW r \in Remote, remote_destroy(r)
      PROVE  RolesTypeOK'
  BY <1>2 DEF remote_destroy
<1>3. ASSUME NEW r \in Remote, RoleEqual(r)
      PROVE  RolesTypeOK'
  BY <1>3 DEF RoleEqual, Role
<1>4. ASSUME NEW r \in Remote, NEW e \in Election, RoleMaster(r, e)
      PROVE  RolesTypeOK'
  BY <1>4 DEF RoleMaster, Role, Election
<1>5. ASSUME NEW r \in Remote, NEW e \in Election, RoleSlave(r, e)
      PROVE  RolesTypeOK'
  BY <1>5 DEF RoleSlave, Role, Election
<1>6. ASSUME NEW e \in Election, RoleUnchanged(e)
      PROVE  RolesTypeOK'
  BY <1>6 DEF RoleUnchanged
<1>7. ASSUME NEW r \in Remote, NEW c \in AsyncConfig, SetAsync(r, c)
      PROVE  RolesTypeOK'
  BY <1>7 DEF SetAsync
<1>8. ASSUME NEW msg \in Message, send_openflow_buffer(msg)
      PROVE  RolesTypeOK'
  BY <1>8, SentType DEF send_openflow_buffer
<1>9. CASE UNCHANGED rolesVars
  BY <1>9 DEF rolesVars
<1> QED
  BY <1>1, <1>2, <1>3, <1>4, <1>5, <1>6, <1>7, <1>8, <1>9 DEF RolesNext

\* The state of the connections has its type, and generation_id is the last
\* election, counted without end, modulo the width of the id.
THEOREM ControllersTypeCorrect == RolesSpec => []RolesTypeOK
<1>1. RolesInit => RolesTypeOK
  <2> SUFFICES ASSUME RolesInit PROVE RolesTypeOK
    OBVIOUS
  <2>1. generation_id = epoch % Width
    BY ControllersAssumption DEF RolesInit
  <2> QED
    BY <2>1, ControllersAssumption DEF RolesInit, RolesTypeOK, Connected
<1>2. RolesTypeOK /\ [RolesNext]_rolesVars => RolesTypeOK'
  BY TypeStep
<1> QED
  BY <1>1, <1>2, PTL DEF RolesSpec

\* Whatever order the controllers' requests, disconnections and reconnections
\* come in, dp_handle_role_request leaves one master at most: it demotes the
\* master before it promotes another, and a new connection starts as EQUAL.
THEOREM OneMaster == RolesSpec => []AtMostOneMaster
<1> USE DEF Masters, Connected, AtMostOneMaster
<1>1. RolesInit => AtMostOneMaster
  BY DEF RolesInit
<1>2. RolesTypeOK /\ AtMostOneMaster /\ [RolesNext]_rolesVars => AtMostOneMaster'
  <2> SUFFICES ASSUME RolesTypeOK, AtMostOneMaster, [RolesNext]_rolesVars
               PROVE  AtMostOneMaster'
    OBVIOUS
  <2> USE DEF RolesTypeOK
  <2>1. ASSUME NEW r \in Remote, remote_create(r) \/ remote_destroy(r) \/ RoleEqual(r)
        PROVE  AtMostOneMaster'
    BY <2>1 DEF remote_create, remote_destroy, RoleEqual
  <2>2. ASSUME NEW r \in Remote, NEW e \in Election, RoleMaster(r, e) \/ RoleSlave(r, e)
        PROVE  AtMostOneMaster'
    BY <2>2 DEF RoleMaster, RoleSlave
  <2>3. CASE UNCHANGED role
    BY <2>3
  <2> QED
    BY <2>1, <2>2, <2>3 DEF RolesNext, RoleUnchanged, SetAsync, send_openflow_buffer, rolesVars
<1> QED
  BY <1>1, <1>2, ControllersTypeCorrect, PTL DEF RolesSpec

\* A request of the last election or a newer one is never taken for a stale one,
\* for every width of the generation id and also when the id wraps
\* (dp_check_generation_id).
THEOREM RecentClaimsWin == RolesSpec => []RecentClaimWins
<1>1. RolesTypeOK => RecentClaimWins
  <2> SUFFICES ASSUME RolesTypeOK, NEW e \in Election, e >= epoch
               PROVE  ~Stale(e % Width)
    BY DEF RecentClaimWins
  <2>1. epoch \in Int /\ e \in Int /\ generation_id = epoch % Width
    BY ControllersAssumption DEF RolesTypeOK, Election
  <2> QED
    BY <2>1, StaleIsOlder
<1> QED
  BY <1>1, ControllersTypeCorrect, PTL

\* send_openflow_buffer hands an asynchronous message to no controller whose
\* role or mask excludes it, and a packet_in or flow_removed to all the others.
THEOREM AsyncReachesItsReaders == RolesSpec => []AsyncDelivered
<1>1. RolesInit => AsyncDelivered
  BY DEF RolesInit, AsyncDelivered
<1>2. RolesTypeOK /\ AsyncDelivered /\ [RolesNext]_rolesVars => AsyncDelivered'
  <2> SUFFICES ASSUME RolesTypeOK, AsyncDelivered, [RolesNext]_rolesVars
               PROVE  AsyncDelivered'
    OBVIOUS
  <2>1. ASSUME NEW msg \in Message, send_openflow_buffer(msg)
        PROVE  AsyncDelivered'
    <3>1. sent'.msg = msg /\ sent'.to = {r \in Connected : Reaches(r, msg)}
      BY <2>1 DEF send_openflow_buffer
    <3>2. WantedBy(msg)' = WantedBy(msg)
      BY <2>1 DEF send_openflow_buffer, WantedBy, On, Connected
    <3>3. {r \in Connected : Reaches(r, msg)} \subseteq WantedBy(msg)
      BY DEF Reaches, WantedBy
    <3>4. msg.type # "PORT_STATUS" => {r \in Connected : Reaches(r, msg)} = WantedBy(msg)
      BY DEF Reaches, WantedBy
    <3> QED
      BY <3>1, <3>2, <3>3, <3>4 DEF AsyncDelivered
  <2>2. CASE sent' = Nothing
    BY <2>2 DEF AsyncDelivered, Nothing
  <2>3. CASE UNCHANGED rolesVars
    BY <2>3 DEF rolesVars, AsyncDelivered, WantedBy, On, Connected, Nothing
  <2> QED
    BY Zenon, <2>1, <2>2, <2>3 DEF RolesNext, remote_create, remote_destroy, RoleEqual, RoleMaster,
       RoleSlave, RoleUnchanged, SetAsync
<1> QED
  BY <1>1, <1>2, ControllersTypeCorrect, PTL DEF RolesSpec

-----------------------------------------------------------------------------
\* The abstract master of a set of masters: what M substitutes.
MasterOf(masters) == IF masters = {} THEN NoRemote ELSE CHOOSE r \in masters : TRUE

\* It is the one element, where there is at most one.
LEMMA MasterOfOne ==
    ASSUME NEW masters, \A r, s \in masters : r = s
    PROVE  /\ masters = {} => MasterOf(masters) = NoRemote
           /\ \A r \in masters : MasterOf(masters) = r
BY DEF MasterOf

\* Each handler is a step of Mastership or leaves its variables alone: MASTER is
\* a claim, SLAVE follows another's election, EQUAL and a lost connection release
\* mastership where the remote had it.
LEMMA MastershipStep ==
    ASSUME RolesTypeOK, AtMostOneMaster, AtMostOneMaster', [RolesNext]_rolesVars
    PROVE  [M!Next]_<<MasterOf(Masters), epoch>>
<1> DEFINE master == MasterOf(Masters)
<1>1. /\ Masters = {} => master = NoRemote
      /\ \A r \in Masters : master = r
  BY MasterOfOne DEF AtMostOneMaster
<1>2. /\ Masters' = {} => master' = NoRemote
      /\ \A r \in Masters' : master' = r
  BY MasterOfOne DEF AtMostOneMaster
<1>3. Masters \subseteq Remote /\ NoRemote \notin Remote
  BY ControllersAssumption DEF Masters, RolesTypeOK
<1>4. ASSUME Masters' = Masters PROVE master' = master
  BY <1>4 DEF MasterOf
<1> HIDE DEF master
<1> USE DEF Connected
<1>5. ASSUME NEW r \in Remote, NEW e \in Election, ~Stale(e % Width), epoch' = e
      PROVE  epoch' \in Int /\ epoch' >= epoch
  BY <1>5, StaleIsOlder, ControllersAssumption DEF RolesTypeOK, Election
<1>6. ASSUME NEW r \in Remote, NEW e \in Election, RoleMaster(r, e)
      PROVE  epoch' \in Int /\ epoch' >= epoch /\ master' = r
  <2>1. r \in Masters'
    BY <1>6 DEF RoleMaster, Masters, RolesTypeOK
  <2> QED
    BY <1>2, <1>5, <1>6, <2>1 DEF RoleMaster
<1>7. ASSUME NEW r \in Remote, NEW e \in Election, RoleSlave(r, e)
      PROVE  /\ epoch' \in Int /\ epoch' >= epoch
             /\ master' = IF master = r THEN NoRemote ELSE master
  <2>1. Masters' = Masters \ {r}
    BY <1>7 DEF RoleSlave, Masters, RolesTypeOK
  <2> QED
    BY <1>1, <1>2, <1>3, <1>5, <1>7, <2>1 DEF RoleSlave
<1>8. ASSUME NEW r \in Remote, RoleEqual(r) \/ remote_destroy(r)
      PROVE  \/ master = r /\ master' = NoRemote /\ UNCHANGED epoch
             \/ UNCHANGED <<master, epoch>>
  <2>1. Masters' = Masters \ {r} /\ epoch' = epoch
    BY <1>8 DEF RoleEqual, remote_destroy, Masters, RolesTypeOK
  <2> QED
    BY <1>1, <1>2, <1>3, <1>4, <2>1
<1>9. ASSUME NEW r \in Remote, remote_create(r)
      PROVE  UNCHANGED <<master, epoch>>
  <2>1. Masters' = Masters /\ epoch' = epoch
    BY <1>9 DEF remote_create, Masters, RolesTypeOK
  <2> QED
    BY <1>4, <2>1
<1>10. ASSUME role' = role, epoch' = epoch
       PROVE  UNCHANGED <<master, epoch>>
  BY <1>4, <1>10 DEF Masters
<1>11. M!Next \/ UNCHANGED <<master, epoch>>
  <2> USE DEF M!Next, M!Claim, M!Follow, M!Release, M!Recent, master, MasterOf
  <2>1. ASSUME NEW r \in Remote, NEW e \in Election, RoleMaster(r, e)
        PROVE  M!Next
    BY <1>6, <2>1
  <2>2. ASSUME NEW r \in Remote, NEW e \in Election, RoleSlave(r, e)
        PROVE  M!Next
    BY <1>7, <2>2
  <2>3. ASSUME NEW r \in Remote, RoleEqual(r) \/ remote_destroy(r)
        PROVE  M!Next \/ UNCHANGED <<master, epoch>>
    BY <1>8, <2>3
  <2> QED
    BY Zenon, <1>9, <1>10, <2>1, <2>2, <2>3
       DEF RolesNext, RoleUnchanged, SetAsync, send_openflow_buffer, rolesVars
<1> QED
  BY <1>11 DEF master

\* The roles implement Mastership: with ids of any width, compared by the sign
\* of their difference, mastership moves only as it would if the elections had
\* numbers that never wrap (dp_handle_role_request, dp_check_generation_id).
THEOREM RolesImplementMastership == RolesSpec => MasterElected
<1>1. RolesInit => M!Init
  BY DEF RolesInit, M!Init, Masters, Connected
<1>2. RolesTypeOK /\ AtMostOneMaster /\ AtMostOneMaster' /\ [RolesNext]_rolesVars
         => [M!Next]_<<MasterOf(Masters), epoch>>
  BY MastershipStep
<1> QED
  BY <1>1, <1>2, ControllersTypeCorrect, OneMaster, PTL
     DEF RolesSpec, MasterElected, M!Spec, MasterOf

-----------------------------------------------------------------------------
\* The types of the constants, one by one.
LEMMA ConstantTypes ==
    /\ N \in Nat \ {0} /\ Cookies \in Nat \ {0} /\ OVERWRITE_SECS \in Nat \ {0}
    /\ NoPkt \notin Pkt
BY PacketBuffersAssumption

\* The quotient and the remainder of a number written with them.
LEMMA DivModUnique ==
    ASSUME NEW w \in Nat \ {0}, NEW q \in Int, NEW r \in 0 .. w - 1
    PROVE  (r + w * q) % w = r /\ (r + w * q) \div w = q
OBVIOUS

\* NO_BUFFER is an id, that of the last buffer and the cookie no buffer has.
LEMMA NoBufferIsId == NO_BUFFER \in Id
BY ConstantTypes DEF Id, NO_BUFFER

\* The id that dp_buffers_save puts together from a buffer and its cookie, and
\* dp_buffers_retrieve takes apart, is not NO_BUFFER.
LEMMA IdOfParts ==
    ASSUME NEW i \in 0 .. N - 1, NEW c \in 0 .. Cookies - 1
    PROVE  /\ Number(i + N * c) = i /\ CookieOf(i + N * c) = c
           /\ i + N * c \in Id \ {NO_BUFFER}
<1>1. c \in Int /\ c >= 0 /\ c + 1 =< Cookies /\ i \in Int /\ 0 =< i /\ i < N
  BY ConstantTypes
<1>2. Number(i + N * c) = i /\ CookieOf(i + N * c) = c
  BY <1>1, ConstantTypes, DivModUnique DEF Number, CookieOf
<1>3. N * c >= 0 /\ N * (c + 1) =< N * Cookies /\ N * (c + 1) = N * c + N
  BY <1>1, ConstantTypes
<1> QED
  BY <1>1, <1>2, <1>3, ConstantTypes DEF Id, NO_BUFFER

\* An id is determined by its parts.
LEMMA IdHasParts ==
    ASSUME NEW id \in Id
    PROVE  /\ Number(id) \in 0 .. N - 1 /\ CookieOf(id) \in 0 .. Cookies
           /\ id = Number(id) + N * CookieOf(id)
<1>1. /\ id \in Int /\ id >= 0 /\ id < N * (Cookies + 1)
      /\ N \in Nat \ {0} /\ Cookies \in Nat \ {0}
  BY ConstantTypes DEF Id, NO_BUFFER
<1>2. /\ Number(id) \in 0 .. N - 1 /\ CookieOf(id) \in Int
      /\ id = N * CookieOf(id) + Number(id)
  BY <1>1 DEF Number, CookieOf
<1>3. CookieOf(id) >= 0
  BY <1>1 DEF CookieOf
<1>4. CookieOf(id) < Cookies + 1
  BY <1>1, <1>2
<1> QED
  BY <1>1, <1>2, <1>3, <1>4

-----------------------------------------------------------------------------
\* The types of the ring and of what is counted about it, which do not depend on
\* the packets' own state.
Buffer(count) ==
    [pkt : Pkt \union {NoPkt}, cookie : -1 .. Cookies - 1, timeout : Nat, n : 0 .. count]

RingType ==
    /\ buffers \in [0 .. N - 1 -> Buffer(saves)]
    /\ buffer_idx \in 0 .. N - 1
    /\ hand \in Seq(Pkt)
    /\ now \in Nat /\ saves \in Nat
    /\ tickets \subseteq [id : Id \ {NO_BUFFER}, n : 1 .. saves, time : 0 .. now]

\* Save, with the buffer it uses and the new cookie by name.
SaveIn(pkt, i, c) ==
    /\ \E id \in IdsRead(pkt) : ~Saved(id)
    /\ Usable(i) /\ c = NextCookie(buffers[i].cookie)
    /\ buffers' = [buffers EXCEPT ![i] = [pkt |-> pkt, cookie |-> c,
                                          timeout |-> now + OVERWRITE_SECS, n |-> saves + 1]]
    /\ buffer_idx' = i
    /\ buffer_id' = [p \in Allocated \ InBuffer(i) |->
                        IF p = pkt THEN i + N * c ELSE buffer_id[p]]
    /\ packet_in'.buffer_id = i + N * c
    /\ saves' = saves + 1
    /\ tickets' = tickets \union {[id |-> i + N * c, n |-> saves + 1, time |-> now]}
    /\ overrun' = (overrun \/ pkt \in Buffered \/ InBuffer(i) \intersect ToSet(hand) # {})

\* The next buffer is one of the ring, and the next cookie one a buffer may have.
LEMMA NextInRange ==
    ASSUME RingType
    PROVE  /\ (buffer_idx + 1) % N \in 0 .. N - 1
           /\ \A i \in 0 .. N - 1 : NextCookie(buffers[i].cookie) \in 0 .. Cookies - 1
<1>1. buffer_idx + 1 \in Int /\ \A i \in 0 .. N - 1 : buffers[i].cookie \in -1 .. Cookies - 1
  BY DEF RingType, Buffer
<1>2. (buffer_idx + 1) % N \in 0 .. N - 1
  BY <1>1, ConstantTypes
<1>3. \A k \in -1 .. Cookies - 1 : NextCookie(k) \in 0 .. Cookies - 1
  BY ConstantTypes DEF NextCookie
<1> QED
  BY <1>1, <1>2, <1>3

\* The message says what dp_buffers_save left in the packet's buffer_id.
OutputSends(len) ==
    /\ packet_in' = [max_len |-> len, buffer_id |-> packet_in'.buffer_id]
    /\ packet_in'.buffer_id \in IdsRead(Last(hand)) \union Id

\* The packet in hand that an OFPP_CONTROLLER output is about, and what
\* dp_buffers_save does with it: nothing to the ring, or a save.
LEMMA OutputSaves ==
    ASSUME RingType, NEW len \in MaxLen, OutputController(len)
    PROVE  /\ hand # <<>> /\ Last(hand) \in Pkt /\ OutputSends(len)
           /\ \/ /\ UNCHANGED <<buffers, buffer_id, saves, tickets, overrun>>
                 /\ buffer_idx' \in 0 .. N - 1
              \/ \E i \in 0 .. N - 1, c \in 0 .. Cookies - 1 : SaveIn(Last(hand), i, c)
<1>1. hand # <<>> /\ Last(hand) \in Pkt
  BY DEF RingType, OutputController, Last
<1>2. CASE /\ packet_in' = [max_len |-> len, buffer_id |-> NO_BUFFER]
           /\ UNCHANGED <<buffers, buffer_idx, buffer_id, saves, tickets, overrun>>
  <2>1. OutputSends(len)
    BY <1>2, NoBufferIsId DEF OutputSends
  <2> QED
    BY <1>1, <1>2, <2>1 DEF RingType
<1>3. ASSUME NEW id \in IdsRead(Last(hand)), SaveNothing(id, len)
      PROVE  /\ OutputSends(len) /\ buffer_idx' \in 0 .. N - 1
             /\ UNCHANGED <<buffers, buffer_id, saves, tickets, overrun>>
  <2>1. packet_in' = [max_len |-> len, buffer_id |-> id]
    BY <1>3 DEF SaveNothing
  <2>2. OutputSends(len)
    BY <2>1 DEF OutputSends
  <2>3. buffer_idx' \in 0 .. N - 1
    BY <1>3, NextInRange DEF SaveNothing, RingType
  <2> QED
    BY <1>3, <2>2, <2>3 DEF SaveNothing
<1>4. ASSUME NEW id \in IdsRead(Last(hand)), Save(Last(hand), id, len)
      PROVE  /\ OutputSends(len)
             /\ \E i \in 0 .. N - 1, c \in 0 .. Cookies - 1 : SaveIn(Last(hand), i, c)
  <2> DEFINE i == (buffer_idx + 1) % N
             c == NextCookie(buffers[i].cookie)
  <2>1. i \in 0 .. N - 1 /\ c \in 0 .. Cookies - 1
    BY NextInRange
  <2>2. packet_in' = [max_len |-> len, buffer_id |-> i + N * c]
    BY <1>4 DEF Save
  <2>3. SaveIn(Last(hand), i, c)
    BY <1>4, <2>2 DEF Save, SaveIn
  <2> HIDE DEF i, c
  <2>4. OutputSends(len)
    BY <2>1, <2>2, IdOfParts DEF OutputSends
  <2> QED
    BY <2>1, <2>3, <2>4
<1> QED
  BY Zenon, <1>1, <1>2, <1>3, <1>4 DEF OutputController

\* packet_destroy takes the innermost packet out of hand, and empties a buffer
\* only if its time is up.
LEMMA DestroyDiscards ==
    ASSUME RingType, packet_destroy
    PROVE  /\ hand # <<>> /\ hand' = Front(hand) /\ hand' \in Seq(Pkt)
           /\ UNCHANGED <<buffer_idx, now, saves, tickets>>
           /\ \/ UNCHANGED buffers
              \/ \E b \in 0 .. N - 1 : /\ now >= buffers[b].timeout
                                       /\ buffers' = [buffers EXCEPT ![b].pkt = NoPkt]
<1>1. hand # <<>> /\ hand' = Front(hand) /\ UNCHANGED <<buffer_idx, now, saves, tickets>>
  BY DEF packet_destroy
<1>2. Front(hand) \in Seq(Pkt)
  BY <1>1 DEF RingType, Front
<1>3. CASE UNCHANGED buffers
  BY <1>1, <1>2, <1>3
<1>4. CASE buffers' # buffers
  <2>1. PICK id \in IdsRead(Last(hand)) :
            /\ ~dp_buffers_is_alive(id)
            /\ buffers[Number(id)].cookie = CookieOf(id)
            /\ buffers' = [buffers EXCEPT ![Number(id)].pkt = NoPkt]
    BY <1>4 DEF packet_destroy, Saved
  <2> DEFINE b == Number(id)
  <2>2. ~(now < buffers[b].timeout)
    BY <2>1 DEF dp_buffers_is_alive
  <2>3. buffers' = [buffers EXCEPT ![b].pkt = NoPkt]
    BY <2>1
  <2> HIDE DEF b
  <2>4. b \in 0 .. N - 1
    BY <1>4, <2>3 DEF RingType
  <2>5. now >= buffers[b].timeout
    BY <2>2, <2>4 DEF RingType, Buffer
  <2> QED
    BY <1>1, <1>2, <2>3, <2>4, <2>5, Zenon
<1> QED
  BY <1>3, <1>4

\* A buffer that has been emptied is a buffer.
LEMMA EmptiedType ==
    ASSUME NEW count, buffers \in [0 .. N - 1 -> Buffer(count)], NEW b \in 0 .. N - 1
    PROVE  [buffers EXCEPT ![b].pkt = NoPkt] \in [0 .. N - 1 -> Buffer(count)]
<1>1. [buffers[b] EXCEPT !.pkt = NoPkt] \in Buffer(count)
  BY DEF Buffer
<1> QED
  BY <1>1

\* Every step leaves a ring of buffers of the right types.
LEMMA RingTypeStep ==
    ASSUME RingType, [Next]_vars
    PROVE  RingType'
<1>1. ASSUME NEW p \in Pkt, packet_create(p)
      PROVE  RingType'
  BY <1>1 DEF packet_create, RingType
<1>2. ASSUME NEW len \in MaxLen, OutputController(len)
      PROVE  RingType'
  <2>1. UNCHANGED <<hand, now>> /\ Last(hand) \in Pkt
    BY <1>2, OutputSaves DEF OutputController
  <2>2. CASE UNCHANGED <<buffers, saves, tickets>> /\ buffer_idx' \in 0 .. N - 1
    BY <2>1, <2>2 DEF RingType
  <2>3. ASSUME NEW i \in 0 .. N - 1, NEW c \in 0 .. Cookies - 1, SaveIn(Last(hand), i, c)
        PROVE  RingType'
    <3>1. saves' = saves + 1 /\ saves \in Nat /\ now \in Nat /\ now + OVERWRITE_SECS \in Nat
      BY <2>3, ConstantTypes DEF SaveIn, RingType
    <3>2. c \in -1 .. Cookies - 1
      BY ConstantTypes
    <3>3. buffers' \in [0 .. N - 1 -> Buffer(saves')]
      <4>1. [pkt |-> Last(hand), cookie |-> c, timeout |-> now + OVERWRITE_SECS,
             n |-> saves + 1] \in Buffer(saves + 1)
        BY <2>1, <3>1, <3>2 DEF Buffer
      <4>2. Buffer(saves) \subseteq Buffer(saves + 1)
        BY <3>1 DEF Buffer
      <4> QED
        BY <2>3, <3>1, <4>1, <4>2 DEF SaveIn, RingType
    <3>4. i + N * c \in Id \ {NO_BUFFER}
      BY IdOfParts
    <3>5. tickets' \subseteq [id : Id \ {NO_BUFFER}, n : 1 .. saves', time : 0 .. now]
      <4> DEFINE id == i + N * c
      <4> HIDE DEF id
      <4> QED
        BY <2>3, <3>1, <3>4 DEF SaveIn, RingType, id
    <3> QED
      BY SMTT(20), <2>1, <2>3, <3>1, <3>3, <3>5 DEF SaveIn, RingType
  <2> QED
    BY <1>2, <2>2, <2>3, OutputSaves
<1>3. ASSUME NEW len \in MaxLen, SetConfig(len)
      PROVE  RingType'
  BY <1>3 DEF SetConfig, RingType
<1>4. CASE packet_destroy
  BY <1>4, DestroyDiscards, EmptiedType DEF RingType
<1>5. ASSUME NEW id \in Id, dp_buffers_retrieve(id)
      PROVE  RingType'
  <2> DEFINE b == Number(id)
  <2>1. b \in 0 .. N - 1
    BY IdHasParts
  <2>2. /\ buffers' = [buffers EXCEPT ![b].pkt = NoPkt]
        /\ hand' = <<buffers[b].pkt>> /\ buffers[b].pkt # NoPkt
        /\ tickets' \subseteq tickets /\ UNCHANGED <<buffer_idx, now, saves>>
    BY <1>5 DEF dp_buffers_retrieve
  <2> HIDE DEF b
  <2>3. buffers[b].pkt \in Pkt
    BY <2>1, <2>2 DEF RingType, Buffer
  <2>4. hand' \in Seq(Pkt)
    BY <2>2, <2>3
  <2>5. buffers' \in [0 .. N - 1 -> Buffer(saves')]
    BY <2>1, <2>2, EmptiedType DEF RingType
  <2> QED
    BY <2>2, <2>4, <2>5 DEF RingType
<1>6. CASE Tick
  BY <1>6 DEF Tick, RingType
<1>7. CASE UNCHANGED vars
  BY <1>7 DEF vars, RingType
<1> QED
  BY SMTT(20), <1>1, <1>2, <1>3, <1>4, <1>5, <1>6, <1>7 DEF Next

\* The ring that dp_buffers_create makes.
LEMMA RingTypeInitial ==
    ASSUME Init
    PROVE  RingType
BY ConstantTypes DEF Init, RingType, Buffer, dp_buffers_create

-----------------------------------------------------------------------------
\* A buffer still in use for the save that gave out a ticket has its deadline.
TicketsTimed ==
    \A t \in tickets :
        buffers[Number(t.id)].n = t.n =>
            buffers[Number(t.id)].timeout = t.time + OVERWRITE_SECS

\* The saves it takes a buffer to come from cookie c round to cookie k.
Round(c, k) == IF k > c THEN k - c ELSE k - c + Cookies

\* A buffer has the cookie of a ticket since the save that gave the ticket out,
\* or there have been enough saves for the buffer's cookie to get where it is.
CookiesGoRound ==
    \A t \in tickets :
        LET b == buffers[Number(t.id)]
        IN  \/ b.cookie = CookieOf(t.id) /\ b.n = t.n
            \/ b.n - t.n >= Round(CookieOf(t.id), b.cookie)

TicketInv == RingType /\ TicketsTimed /\ CookiesGoRound /\ KeptInTime

\* What RingType says of a ticket and its buffer.
LEMMA TicketType ==
    ASSUME RingType, NEW t \in tickets
    PROVE  /\ t.id \in Id \ {NO_BUFFER} /\ t.n \in 1 .. saves /\ t.time \in 0 .. now
           /\ Number(t.id) \in 0 .. N - 1 /\ CookieOf(t.id) \in 0 .. Cookies
           /\ buffers[Number(t.id)] \in Buffer(saves)
BY IdHasParts DEF RingType

\* A save moves the cookie on by one, and takes one save to do it.
LEMMA RoundStep ==
    ASSUME NEW c \in 0 .. Cookies, NEW k \in -1 .. Cookies - 1, NEW n \in Int, NEW n2 \in Int,
           NEW m \in Int, n2 > n, (n = m /\ k = c) \/ n - m >= Round(c, k)
    PROVE  n2 - m >= Round(c, NextCookie(k))
BY ConstantTypes DEF Round, NextCookie

\* dp_buffers_save keeps the promises made to the controller.
LEMMA TicketSave ==
    ASSUME TicketInv, NEW pkt \in Pkt, NEW i \in 0 .. N - 1, NEW c \in 0 .. Cookies - 1,
           SaveIn(pkt, i, c), now' = now
    PROVE  TicketsTimed' /\ CookiesGoRound' /\ KeptInTime'
<1> DEFINE id == i + N * c
           new == [id |-> id, n |-> saves + 1, time |-> now]
<1>1. Number(id) = i /\ CookieOf(id) = c
  BY IdOfParts
<1>2. /\ saves' = saves + 1 /\ saves \in Nat /\ now \in Nat
      /\ tickets' = tickets \union {new}
      /\ c = NextCookie(buffers[i].cookie)
      /\ \A j \in (0 .. N - 1) \ {i} : buffers'[j] = buffers[j]
      /\ buffers'[i] = [pkt |-> pkt, cookie |-> c, timeout |-> now + OVERWRITE_SECS,
                        n |-> saves + 1]
  BY DEF SaveIn, TicketInv, RingType
<1> HIDE DEF id
\* the ticket given out, which names the buffer just written
<1>3. /\ buffers'[Number(new.id)].n = new.n
      /\ buffers'[Number(new.id)].timeout = new.time + OVERWRITE_SECS
      /\ buffers'[Number(new.id)].cookie = CookieOf(new.id)
      /\ buffers'[Number(new.id)].pkt # NoPkt
  BY <1>1, <1>2, ConstantTypes
\* the others: the buffer is another one, or its packet's time was up
<1>4. ASSUME NEW t \in tickets, Number(t.id) = i
      PROVE  /\ now >= t.time + OVERWRITE_SECS
             /\ buffers'[i].n # t.n
             /\ buffers'[i].n - t.n >= Round(CookieOf(t.id), c)
  <2>1. /\ t.n \in 1 .. saves /\ t.time \in 0 .. now /\ CookieOf(t.id) \in 0 .. Cookies
        /\ buffers[i] \in Buffer(saves)
    BY <1>4, TicketType DEF TicketInv
  <2>2. now >= t.time + OVERWRITE_SECS
    <3> SUFFICES ASSUME now < t.time + OVERWRITE_SECS PROVE FALSE
      BY <1>2, <2>1, ConstantTypes
    <3>1. buffers[i].pkt # NoPkt /\ buffers[i].n = t.n
      BY <1>4 DEF TicketInv, KeptInTime, Holds
    <3>2. buffers[i].timeout = t.time + OVERWRITE_SECS
      BY <1>4, <3>1 DEF TicketInv, TicketsTimed
    <3> QED
      BY SMTT(20), <1>2, <2>1, <3>1, <3>2, ConstantTypes DEF SaveIn, Usable
  <2>3. \/ buffers[i].n = t.n /\ buffers[i].cookie = CookieOf(t.id)
        \/ buffers[i].n - t.n >= Round(CookieOf(t.id), buffers[i].cookie)
    BY <1>4 DEF TicketInv, CookiesGoRound
  <2>4. /\ buffers[i].n \in Int /\ buffers'[i].n \in Int /\ t.n \in Int
        /\ buffers'[i].n > buffers[i].n /\ buffers[i].cookie \in -1 .. Cookies - 1
        /\ buffers'[i].n # t.n
    BY <1>2, <2>1 DEF Buffer
  <2>5. buffers'[i].n - t.n >= Round(CookieOf(t.id), c)
    BY Zenon, <1>2, <2>1, <2>3, <2>4, RoundStep
  <2> QED
    BY <2>2, <2>4, <2>5
<1>5. ASSUME NEW t \in tickets, Number(t.id) # i
      PROVE  buffers'[Number(t.id)] = buffers[Number(t.id)]
  BY <1>2, <1>5, TicketType DEF TicketInv
<1>6. TicketsTimed'
  BY SMTT(20), <1>2, <1>3, <1>4, <1>5 DEF TicketInv, TicketsTimed
<1>7. CookiesGoRound'
  BY SMTT(20), <1>2, <1>3, <1>4, <1>5 DEF TicketInv, CookiesGoRound
<1>8. KeptInTime'
  <2> SUFFICES ASSUME NEW t \in tickets', now < t.time + OVERWRITE_SECS
               PROVE  (Holds(t.id) /\ buffers[Number(t.id)].n = t.n)'
    BY DEF KeptInTime
  <2>1. CASE t = new
    BY <1>3, <2>1 DEF Holds
  <2>2. CASE t \in tickets /\ Number(t.id) = i
    BY <1>2, <1>4, <2>2, TicketType, ConstantTypes DEF TicketInv
  <2>3. CASE t \in tickets /\ Number(t.id) # i
    BY <1>5, <2>3 DEF TicketInv, KeptInTime, Holds
  <2> QED
    BY Zenon, <1>2, <2>1, <2>2, <2>3
<1> QED
  BY <1>6, <1>7, <1>8

\* Every step keeps the promises made to the controller.
LEMMA TicketStep ==
    ASSUME TicketInv, [Next]_vars
    PROVE  TicketInv'
<1>1. RingType /\ RingType'
  BY RingTypeStep DEF TicketInv
<1>2. ASSUME UNCHANGED <<buffers, tickets, now>>
      PROVE  TicketInv'
  BY <1>1, <1>2 DEF TicketInv, TicketsTimed, CookiesGoRound, KeptInTime, Holds
<1>3. ASSUME NEW len \in MaxLen, OutputController(len)
      PROVE  TicketInv'
  <2>1. Last(hand) \in Pkt /\ now' = now
    BY <1>1, <1>3, OutputSaves DEF OutputController
  <2>2. ASSUME NEW i \in 0 .. N - 1, NEW c \in 0 .. Cookies - 1, SaveIn(Last(hand), i, c)
        PROVE  TicketInv'
    BY <1>1, <2>1, <2>2, TicketSave DEF TicketInv
  <2> QED
    BY SMTT(20), <1>1, <1>2, <1>3, <2>1, <2>2, OutputSaves
\* a buffer is emptied: its packet's time was up, or the ticket is used
<1>4. ASSUME NEW b \in 0 .. N - 1, buffers' = [buffers EXCEPT ![b].pkt = NoPkt],
             now' = now, tickets' \subseteq tickets,
             \A t \in tickets' : Holds(t.id) /\ Number(t.id) = b => now >= buffers[b].timeout
      PROVE  TicketInv'
  <2>1. \A j \in 0 .. N - 1 : /\ buffers'[j].n = buffers[j].n
                              /\ buffers'[j].cookie = buffers[j].cookie
                              /\ buffers'[j].timeout = buffers[j].timeout
                              /\ j # b => buffers'[j].pkt = buffers[j].pkt
    BY Zenon, <1>1, <1>4 DEF RingType, Buffer
  <2>2. \A t \in tickets' : t \in tickets /\ Number(t.id) \in 0 .. N - 1
    BY <1>1, <1>4, TicketType
  <2>3. TicketsTimed' /\ CookiesGoRound'
    BY <2>1, <2>2 DEF TicketInv, TicketsTimed, CookiesGoRound
  <2>4. ASSUME NEW t \in tickets', now < t.time + OVERWRITE_SECS
        PROVE  Number(t.id) # b /\ Holds(t.id) /\ buffers[Number(t.id)].n = t.n
    <3>1. Holds(t.id) /\ buffers[Number(t.id)].n = t.n
      BY <2>2, <2>4 DEF TicketInv, KeptInTime
    <3>2. buffers[Number(t.id)].timeout = t.time + OVERWRITE_SECS
      BY <2>2, <3>1 DEF TicketInv, TicketsTimed
    <3>3. now \in Nat /\ t.time + OVERWRITE_SECS \in Nat
      <4>1. now \in Nat
        BY <1>1 DEF RingType
      <4>2. t.time \in 0 .. now
        BY Zenon, <1>1, <2>2, TicketType
      <4> QED
        BY <4>1, <4>2, ConstantTypes
    <3> QED
      BY <1>4, <2>4, <3>1, <3>2, <3>3
  <2>5. KeptInTime'
    BY <1>4, <2>1, <2>2, <2>4 DEF KeptInTime, Holds
  <2> QED
    BY <1>1, <2>3, <2>5 DEF TicketInv
<1>5. CASE packet_destroy
  BY <1>1, <1>2, <1>4, <1>5, DestroyDiscards
<1>6. ASSUME NEW id \in Id, dp_buffers_retrieve(id)
      PROVE  TicketInv'
  <2>1. /\ Number(id) \in 0 .. N - 1 /\ now' = now /\ tickets' = {t \in tickets : t.id # id}
        /\ buffers' = [buffers EXCEPT ![Number(id)].pkt = NoPkt]
        /\ buffers[Number(id)].cookie = CookieOf(id)
    BY <1>6, IdHasParts DEF dp_buffers_retrieve
  <2>2. ASSUME NEW t \in tickets', Holds(t.id), Number(t.id) = Number(id)
        PROVE  FALSE
    <3>1. t \in tickets /\ t.id # id /\ t.id \in Id
      BY <1>1, <2>1, <2>2, TicketType
    <3>2. CookieOf(t.id) = CookieOf(id)
      BY <2>1, <2>2 DEF Holds
    <3> QED
      BY <2>2, <3>1, <3>2, IdHasParts
  <2> QED
    BY Zenon, <1>4, <2>1, <2>2
<1>7. CASE Tick
  <2>1. now' = now + 1 /\ now \in Nat /\ UNCHANGED <<buffers, tickets>>
    BY <1>1, <1>7 DEF Tick, RingType
  <2>2. \A t \in tickets : t.time + OVERWRITE_SECS \in Nat
    BY SMTT(20), <1>1, TicketType, ConstantTypes
  <2> QED
    BY <1>1, <2>1, <2>2 DEF TicketInv, TicketsTimed, CookiesGoRound, KeptInTime, Holds
<1> QED
  BY Zenon, <1>2, <1>3, <1>5, <1>6, <1>7 DEF Next, packet_create, SetConfig, vars

\* The promises hold in every state the datapath reaches.
LEMMA TicketInvariant == Spec => []TicketInv
<1>1. Init => TicketInv
  BY RingTypeInitial DEF Init, TicketInv, TicketsTimed, CookiesGoRound, KeptInTime
<1>2. TicketInv /\ [Next]_vars => TicketInv'
  BY TicketStep
<1> QED
  BY <1>1, <1>2, PTL DEF Spec

\* An id the controller was given brings back the packet it was given for or
\* none, until there have been as many saves as there are cookies
\* (dp_buffers_retrieve), also if the clock moves while packets are processed.
THEOREM TicketsStayExact == Spec => []TicketsExact
<1>1. TicketInv => TicketsExact
  <2> SUFFICES ASSUME TicketInv, NEW t \in tickets, Holds(t.id)
               PROVE  LET n == buffers[Number(t.id)].n IN n = t.n \/ n - t.n >= Cookies
    BY DEF TicketsExact
  <2>1. buffers[Number(t.id)].cookie = CookieOf(t.id) /\ CookieOf(t.id) \in 0 .. Cookies
    BY TicketType DEF Holds, TicketInv
  <2>2. Round(CookieOf(t.id), CookieOf(t.id)) = Cookies
    BY <2>1, ConstantTypes DEF Round
  <2> QED
    BY <2>1, <2>2 DEF TicketInv, CookiesGoRound
<1> QED
  BY <1>1, TicketInvariant, PTL

\* A packet that was sent to the controller is in its buffer for OVERWRITE_SECS
\* unless the controller takes it, whatever else is saved or destroyed
\* (dp_buffers_save, packet_destroy), also if the clock moves meanwhile.
THEOREM PacketsKeptInTime == Spec => []KeptInTime
BY TicketInvariant, PTL DEF TicketInv

-----------------------------------------------------------------------------
\* The types of the packets and messages.
PacketType ==
    /\ Allocated \subseteq Pkt /\ \A p \in Allocated : buffer_id[p] \in Id
    /\ miss_send_len \in MaxLen
    /\ packet_in \in [max_len : MaxLen, buffer_id : Id]
    /\ overrun \in BOOLEAN

\* What is read from a packet is an id, freed or not.
LEMMA ReadsId ==
    ASSUME PacketType, NEW pkt
    PROVE  IdsRead(pkt) \subseteq Id
BY DEF PacketType, IdsRead

\* Every step leaves packets and messages of the right types, also one that
\* reads a packet that has been freed.
LEMMA PacketTypeStep ==
    ASSUME RingType, PacketType, [Next]_vars
    PROVE  PacketType'
<1> USE DEF Allocated
<1>1. ASSUME UNCHANGED <<buffer_id, miss_send_len, packet_in, overrun>>
      PROVE  PacketType'
  BY <1>1 DEF PacketType
<1>2. ASSUME NEW p \in Pkt, packet_create(p)
      PROVE  PacketType'
  BY <1>2, NoBufferIsId DEF packet_create, PacketType
<1>3. ASSUME NEW len \in MaxLen, OutputController(len)
      PROVE  PacketType'
  <2>1. packet_in' \in [max_len : MaxLen, buffer_id : Id] /\ UNCHANGED miss_send_len
    BY <1>3, OutputSaves, ReadsId DEF OutputSends, OutputController
  <2>2. CASE UNCHANGED <<buffer_id, overrun>>
    BY <2>1, <2>2 DEF PacketType
  <2>3. ASSUME NEW i \in 0 .. N - 1, NEW c \in 0 .. Cookies - 1, SaveIn(Last(hand), i, c)
        PROVE  PacketType'
    <3>1. i + N * c \in Id
      BY IdOfParts
    <3> DEFINE new == i + N * c
    <3>2. /\ Allocated' \subseteq Allocated
          /\ \A p \in Allocated' : buffer_id'[p] \in {new, buffer_id[p]}
          /\ overrun' \in BOOLEAN
      BY <2>3 DEF SaveIn
    <3> HIDE DEF new
    <3>3. new \in Id
      BY <3>1 DEF new
    <3> QED
      BY <2>1, <3>2, <3>3 DEF PacketType
  <2> QED
    BY Zenon, <1>3, <2>2, <2>3, OutputSaves
<1>4. ASSUME NEW len \in MaxLen, SetConfig(len)
      PROVE  PacketType'
  BY <1>4 DEF SetConfig, PacketType
<1>5. CASE packet_destroy
  <2>1. UNCHANGED <<miss_send_len, packet_in, overrun>>
    BY <1>5 DEF packet_destroy
  <2>2. UNCHANGED buffer_id \/ buffer_id' = Freed(buffer_id, {Last(hand)})
    BY Zenon, <1>5 DEF packet_destroy
  <2>3. Allocated' \subseteq Allocated /\ \A p \in Allocated' : buffer_id'[p] = buffer_id[p]
    BY <2>2 DEF Freed
  <2> QED
    BY <2>1, <2>3 DEF PacketType
<1>6. ASSUME NEW id \in Id, dp_buffers_retrieve(id)
      PROVE  PacketType'
  BY <1>6, NoBufferIsId DEF dp_buffers_retrieve, PacketType
<1> QED
  BY Zenon, <1>1, <1>2, <1>3, <1>4, <1>5, <1>6 DEF Next, Tick, vars

\* The types hold in every state the datapath reaches.
LEMMA TypesInvariant == Spec => [](RingType /\ PacketType)
<1>1. Init => RingType /\ PacketType
  <2> SUFFICES ASSUME Init PROVE RingType /\ PacketType
    OBVIOUS
  <2>1. RingType
    BY RingTypeInitial
  <2>2. Allocated = {}
    BY DEF Init, Allocated
  <2>3. PacketType
    BY <2>2, NoBufferIsId DEF Init, PacketType, MaxLen
  <2> QED
    BY <2>1, <2>3
<1>2. RingType /\ PacketType /\ [Next]_vars => (RingType /\ PacketType)'
  BY RingTypeStep, PacketTypeStep
<1> QED
  BY <1>1, <1>2, PTL DEF Spec

\* The ring, the packets and the messages have their types however the clock
\* moves, and no id given out with a saved packet is NO_BUFFER (dp_buffers_save,
\* packet_destroy, dp_buffers_retrieve).
THEOREM BuffersTypeCorrect == Spec => []TypeOK
<1>1. RingType /\ PacketType => TypeOK
  BY DEF PacketType, RingType, Buffer, TypeOK
<1> QED
  BY <1>1, TypesInvariant, PTL

-----------------------------------------------------------------------------
\* The packets in hand are those put there, each once.
LEMMA HandAppend ==
    ASSUME NEW s \in Seq(Pkt), NEW p \in Pkt, IsInjective(s), p \notin ToSet(s)
    PROVE  IsInjective(Append(s, p)) /\ ToSet(Append(s, p)) = ToSet(s) \union {p}
<1>1. /\ DOMAIN s = 1 .. Len(s) /\ Len(s) \in Nat
      /\ DOMAIN Append(s, p) = 1 .. Len(s) + 1
      /\ \A i \in 1 .. Len(s) : Append(s, p)[i] = s[i]
      /\ Append(s, p)[Len(s) + 1] = p
  OBVIOUS
<1> QED
  BY <1>1 DEF IsInjective, ToSet

\* packet_destroy takes the innermost packet out of hand, and no other.
LEMMA HandFront ==
    ASSUME NEW s \in Seq(Pkt), s # <<>>, IsInjective(s)
    PROVE  /\ Last(s) \in ToSet(s)
           /\ IsInjective(Front(s)) /\ ToSet(Front(s)) = ToSet(s) \ {Last(s)}
<1>1. /\ DOMAIN s = 1 .. Len(s) /\ Len(s) \in Nat \ {0}
      /\ DOMAIN Front(s) = 1 .. Len(s) - 1
      /\ \A i \in 1 .. Len(s) - 1 : Front(s)[i] = s[i]
  BY DEF Front
<1> QED
  BY <1>1 DEF IsInjective, ToSet, Last

\* A packet in a buffer is allocated, and its id names that buffer: no packet is
\* in two buffers.
Owned ==
    \A i \in 0 .. N - 1 :
        buffers[i].pkt # NoPkt => /\ buffers[i].cookie >= 0
                                  /\ buffers[i].pkt \in Allocated
                                  /\ buffer_id[buffers[i].pkt] = i + N * buffers[i].cookie

\* A packet in hand is allocated and there once, and if it has an id it is in
\* the buffer the id names, whether its time is up or not.
InHand ==
    /\ IsInjective(hand) /\ ToSet(hand) \subseteq Allocated
    /\ \A p \in ToSet(hand) :
          buffer_id[p] # NO_BUFFER => buffers[Number(buffer_id[p])].pkt = p

\* NoLeak, packet by packet.
HasOwner == \A p \in Allocated : p \in ToSet(hand) \/ \E i \in 0 .. N - 1 : buffers[i].pkt = p

\* Up to a save that overruns a packet, each has its owners.
PacketInv == RingType /\ PacketType /\ Owned /\ InHand /\ HasOwner

\* What the id of a packet in hand says of its buffer: the packet is there, and
\* the cookie is the id's, so that dp_buffers_is_alive is about this packet.
LEMMA HeldInHand ==
    ASSUME PacketInv, NEW p \in ToSet(hand)
    PROVE  /\ p \in Pkt /\ p \in Allocated /\ p # NoPkt /\ IdsRead(p) = {buffer_id[p]}
           /\ buffer_id[p] # NO_BUFFER =>
                 /\ Number(buffer_id[p]) \in 0 .. N - 1
                 /\ buffers[Number(buffer_id[p])].pkt = p
                 /\ buffers[Number(buffer_id[p])].cookie = CookieOf(buffer_id[p])
<1>1. p \in Pkt /\ p \in Allocated /\ p # NoPkt /\ buffer_id[p] \in Id
  BY ConstantTypes DEF PacketInv, InHand, PacketType
<1>2. ASSUME buffer_id[p] # NO_BUFFER
      PROVE  /\ Number(buffer_id[p]) \in 0 .. N - 1
             /\ buffers[Number(buffer_id[p])].pkt = p
             /\ buffers[Number(buffer_id[p])].cookie = CookieOf(buffer_id[p])
  <2> DEFINE i == Number(buffer_id[p])
  <2>1. i \in 0 .. N - 1 /\ buffers[i].pkt = p
    BY <1>1, <1>2, IdHasParts DEF PacketInv, InHand
  <2>2. buffer_id[p] = i + N * buffers[i].cookie /\ buffers[i].cookie \in 0 .. Cookies - 1
    BY <1>1, <2>1 DEF PacketInv, Owned, RingType, Buffer
  <2>3. CookieOf(buffer_id[p]) = buffers[i].cookie
    BY SMTT(20), <2>1, <2>2, IdOfParts
  <2> QED
    BY <2>1, <2>3
<1> QED
  BY <1>1, <1>2 DEF IdsRead

\* What a buffer's packet says of the packet and of the other buffers.
LEMMA OneBuffer ==
    ASSUME PacketInv, NEW i \in 0 .. N - 1, buffers[i].pkt # NoPkt
    PROVE  /\ buffers[i].pkt \in Allocated /\ buffers[i].pkt \in Pkt
           /\ buffer_id[buffers[i].pkt] # NO_BUFFER /\ Number(buffer_id[buffers[i].pkt]) = i
<1>1. /\ buffers[i].cookie \in 0 .. Cookies - 1 /\ buffers[i].pkt \in Allocated
      /\ buffer_id[buffers[i].pkt] = i + N * buffers[i].cookie
  BY DEF PacketInv, Owned, RingType, Buffer
<1> QED
  BY <1>1, IdOfParts DEF PacketInv, PacketType

\* The packets in buffers, as a set.
LEMMA BufferedIs ==
    ASSUME RingType, NEW p
    PROVE  p \in Buffered <=> p # NoPkt /\ \E i \in 0 .. N - 1 : buffers[i].pkt = p
<1>1. DOMAIN buffers = 0 .. N - 1
  BY DEF RingType
<1> QED
  BY <1>1 DEF Buffered, InBuffer

\* packet_create and packet_clone make a packet that nothing points to yet.
LEMMA CreateKeeps ==
    ASSUME PacketInv, NEW p \in Pkt, packet_create(p)
    PROVE  Owned' /\ InHand' /\ HasOwner'
<1> USE DEF Allocated
<1>1. /\ p \notin Allocated /\ Allocated' = Allocated \union {p}
      /\ buffer_id'[p] = NO_BUFFER
      /\ \A q \in Allocated : q # p /\ buffer_id'[q] = buffer_id[q]
      /\ hand' = Append(hand, p) /\ UNCHANGED <<buffers, miss_send_len, packet_in, now>>
  BY DEF packet_create
<1>2. hand \in Seq(Pkt) /\ IsInjective(hand) /\ p \notin ToSet(hand)
  BY <1>1 DEF PacketInv, RingType, InHand
<1>3. IsInjective(hand') /\ ToSet(hand') = ToSet(hand) \union {p}
  BY SMTT(20), <1>1, <1>2, HandAppend
<1>4. Owned'
  BY <1>1 DEF PacketInv, Owned
<1>5. InHand'
  <2>1. ToSet(hand) \subseteq Allocated
    BY DEF PacketInv, InHand
  <2> QED
    BY <1>1, <1>3, <2>1 DEF PacketInv, InHand
<1>6. HasOwner'
  BY <1>1, <1>3 DEF PacketInv, HasOwner
<1> QED
  BY <1>4, <1>5, <1>6

\* dp_buffers_save destroys the packet it finds in the buffer, which is neither
\* the new one nor any other in hand, unless the save overruns.
LEMMA SaveKeeps ==
    ASSUME PacketInv, hand # <<>>, NEW i \in 0 .. N - 1, NEW c \in 0 .. Cookies - 1,
           SaveIn(Last(hand), i, c), UNCHANGED <<hand, now>>, ~overrun'
    PROVE  Owned' /\ InHand' /\ HasOwner'
<1> DEFINE pkt == Last(hand)
           old == buffers[i].pkt
           id == i + N * c
<1> USE DEF Allocated
<1>1. pkt \in ToSet(hand) /\ ToSet(hand') = ToSet(hand) /\ IsInjective(hand')
  BY HandFront DEF PacketInv, RingType, InHand
<1>2. pkt \in Allocated /\ pkt \in Pkt /\ pkt # NoPkt
  BY <1>1, HeldInHand
<1>3. id \in Id \ {NO_BUFFER} /\ Number(id) = i
  BY IdOfParts
\* no overrun: the packet was in no buffer, and that of buffer i is not in hand
<1>4. pkt \notin Buffered /\ InBuffer(i) \intersect ToSet(hand) = {}
  BY DEF SaveIn
<1>5. old \notin ToSet(hand)
  <2>1. NoPkt \notin ToSet(hand)
    BY HeldInHand
  <2> QED
    BY <1>4, <2>1 DEF InBuffer
<1>6. buffer_id[pkt] = NO_BUFFER
  BY <1>1, <1>2, <1>4, HeldInHand, BufferedIs DEF PacketInv
\* nor is any other packet in hand in buffer i
<1>7. ASSUME NEW q \in ToSet(hand), buffer_id[q] # NO_BUFFER
      PROVE  Number(buffer_id[q]) \in (0 .. N - 1) \ {i}
  BY <1>5, <1>7, HeldInHand
<1>8. /\ Allocated' = Allocated \ {old}
      /\ buffer_id'[pkt] = id
      /\ \A q \in Allocated' \ {pkt} : buffer_id'[q] = buffer_id[q]
  <2>1. Allocated \ InBuffer(i) = Allocated \ {old}
    BY ConstantTypes DEF InBuffer, PacketInv, PacketType
  <2>2. buffer_id' = [p \in Allocated \ {old} |-> IF p = pkt THEN id ELSE buffer_id[p]]
    BY SMTT(20), <2>1 DEF SaveIn
  <2> HIDE DEF pkt, old, id
  <2> QED
    BY <1>1, <1>2, <1>5, <2>2
<1>9. /\ buffers'[i].pkt = pkt /\ buffers'[i].cookie = c
      /\ \A j \in (0 .. N - 1) \ {i} : buffers'[j] = buffers[j]
  BY DEF SaveIn, PacketInv, RingType
<1> HIDE DEF pkt, old, id
<1>10. pkt \in Allocated'
  BY SMTT(20), <1>1, <1>2, <1>5, <1>8
\* the packets of the other buffers are other packets
<1>11. ASSUME NEW j \in (0 .. N - 1) \ {i}, buffers[j].pkt # NoPkt
       PROVE  buffers[j].pkt \in Allocated' \ {pkt}
  BY SMTT(20), <1>6, <1>8, <1>11, OneBuffer DEF old
<1>12. Owned'
  <2> SUFFICES ASSUME NEW j \in 0 .. N - 1, buffers'[j].pkt # NoPkt
               PROVE  /\ buffers'[j].cookie >= 0
                      /\ buffers'[j].pkt \in Allocated'
                      /\ buffer_id'[buffers'[j].pkt] = j + N * buffers'[j].cookie
    BY DEF Owned
  <2>1. CASE j = i
    BY SMTT(20), <1>8, <1>9, <1>10, <2>1 DEF id
  <2>2. CASE j # i
    BY SMTT(20), <1>8, <1>9, <1>11, <2>2 DEF PacketInv, Owned
  <2> QED
    BY <2>1, <2>2
<1>13. InHand'
  <2>1. ToSet(hand) \subseteq Allocated'
    BY <1>5, <1>8 DEF PacketInv, InHand
  <2>2. ASSUME NEW q \in ToSet(hand), buffer_id'[q] # NO_BUFFER
        PROVE  buffers'[Number(buffer_id'[q])].pkt = q
    <3>1. CASE q = pkt
      BY SMTT(20), <1>3, <1>8, <1>9, <3>1
    <3>2. CASE q # pkt
      <4>1. buffer_id'[q] = buffer_id[q]
        BY <1>8, <2>1, <3>2
      <4> QED
        BY <1>7, <1>9, <2>2, <4>1 DEF PacketInv, InHand
    <3> QED
      BY <3>1, <3>2
  <2> QED
    BY <1>1, <2>1, <2>2 DEF InHand
<1>14. HasOwner'
  BY <1>1, <1>8, <1>9 DEF PacketInv, HasOwner, old
<1> QED
  BY <1>12, <1>13, <1>14

\* An output to the controller, with a save or without.
LEMMA OutputKeeps ==
    ASSUME PacketInv, NEW len \in MaxLen, OutputController(len), ~overrun'
    PROVE  Owned' /\ InHand' /\ HasOwner'
<1>1. hand # <<>> /\ UNCHANGED <<hand, now>>
  BY DEF OutputController
<1>2. CASE UNCHANGED <<buffers, buffer_id>>
  BY SMTT(20), <1>1, <1>2 DEF PacketInv, Owned, InHand, HasOwner, Allocated
<1>3. ASSUME NEW i \in 0 .. N - 1, NEW c \in 0 .. Cookies - 1, SaveIn(Last(hand), i, c)
      PROVE  Owned' /\ InHand' /\ HasOwner'
  BY Zenon, <1>1, <1>3, SaveKeeps
<1> QED
  BY Zenon, <1>2, <1>3, OutputSaves DEF PacketInv

\* packet_destroy leaves a saved packet to its buffer and frees any other, to
\* which nothing points then: if its time has ended in hand the buffer that has
\* it is emptied.
LEMMA DestroyKeeps ==
    ASSUME PacketInv, packet_destroy
    PROVE  Owned' /\ InHand' /\ HasOwner'
<1> DEFINE pkt == Last(hand)
           id == buffer_id[pkt]
           b == Number(id)
<1> USE DEF Allocated
<1>1. /\ hand # <<>> /\ hand' = Front(hand)
      /\ pkt \in ToSet(hand)
      /\ IsInjective(hand') /\ ToSet(hand') = ToSet(hand) \ {pkt}
  BY HandFront DEF packet_destroy, PacketInv, RingType, InHand
<1>2. /\ pkt # NoPkt /\ IdsRead(pkt) = {id}
      /\ id # NO_BUFFER => /\ b \in 0 .. N - 1 /\ buffers[b].pkt = pkt
                           /\ buffers[b].cookie = CookieOf(id)
  BY <1>1, HeldInHand
<1>3. IF Saved(id)
      THEN UNCHANGED <<buffers, buffer_id>>
      ELSE /\ buffers' = IF id # NO_BUFFER /\ buffers[b].cookie = CookieOf(id)
                         THEN [buffers EXCEPT ![b].pkt = NoPkt] ELSE buffers
           /\ buffer_id' = Freed(buffer_id, {pkt})
  BY SMTT(20), <1>2 DEF packet_destroy
<1>4. \A i \in 0 .. N - 1 : buffers[i].pkt = pkt => id # NO_BUFFER /\ i = b
  BY <1>2, OneBuffer
<1> HIDE DEF pkt, id, b
<1>5. CASE Saved(id)
  <2>1. UNCHANGED <<buffers, buffer_id>> /\ b \in 0 .. N - 1 /\ buffers[b].pkt = pkt
    BY <1>2, <1>3, <1>5 DEF Saved
  <2>2. Owned'
    BY <2>1 DEF PacketInv, Owned
  <2>3. InHand' /\ HasOwner'
    BY SMTT(20), <1>1, <2>1 DEF PacketInv, InHand, HasOwner
  <2> QED
    BY <2>2, <2>3
<1>6. CASE ~Saved(id)
  <2>1. Allocated' = Allocated \ {pkt} /\ \A q \in Allocated' : buffer_id'[q] = buffer_id[q]
    BY <1>3, <1>6 DEF Freed
  \* no buffer has the packet any more, and the others are as they were
  <2>2. \A j \in 0 .. N - 1 : /\ buffers'[j].cookie = buffers[j].cookie
                              /\ buffers[j].pkt = pkt => buffers'[j].pkt = NoPkt
                              /\ buffers[j].pkt # pkt => buffers'[j].pkt = buffers[j].pkt
    <3>1. CASE id = NO_BUFFER
      BY <1>3, <1>4, <1>6, <3>1
    <3>2. CASE id # NO_BUFFER
      <4>1. buffers' = [buffers EXCEPT ![b].pkt = NoPkt] /\ b \in 0 .. N - 1
        BY <1>2, <1>3, <1>6, <3>2
      <4>2. buffers[b].pkt = pkt
        BY <1>2, <3>2
      <4> QED
        BY <1>4, <4>1, <4>2 DEF PacketInv, RingType, Buffer
    <3> QED
      BY <3>1, <3>2
  <2>3. Owned'
    BY <2>1, <2>2 DEF PacketInv, Owned
  <2>4. InHand'
    <3>1. ToSet(hand') \subseteq Allocated' /\ NoPkt \notin ToSet(hand)
      BY SMTT(20), <1>1, <2>1, HeldInHand DEF PacketInv, InHand
    <3>2. ASSUME NEW q \in ToSet(hand'), buffer_id'[q] # NO_BUFFER
          PROVE  buffers'[Number(buffer_id'[q])].pkt = q
      <4>1. q \in ToSet(hand) /\ q # pkt /\ buffer_id'[q] = buffer_id[q]
        BY <1>1, <2>1, <3>1
      <4>2. Number(buffer_id[q]) \in 0 .. N - 1 /\ buffers[Number(buffer_id[q])].pkt = q
        BY <3>2, <4>1, HeldInHand
      <4> QED
        BY <2>2, <4>1, <4>2
    <3> QED
      BY SMTT(20), <1>1, <3>1, <3>2 DEF InHand
  <2>5. HasOwner'
    BY <1>1, <2>1, <2>2 DEF PacketInv, HasOwner
  <2> QED
    BY <2>3, <2>4, <2>5
<1> QED
  BY <1>5, <1>6

\* dp_buffers_retrieve moves a packet from its buffer to the hand.
LEMMA RetrieveKeeps ==
    ASSUME PacketInv, NEW id \in Id, dp_buffers_retrieve(id)
    PROVE  Owned' /\ InHand' /\ HasOwner'
<1> DEFINE b == Number(id)
           pkt == buffers[b].pkt
<1> USE DEF Allocated
<1>1. /\ b \in 0 .. N - 1 /\ pkt # NoPkt /\ hand = <<>> /\ hand' = <<pkt>>
      /\ buffers' = [buffers EXCEPT ![b].pkt = NoPkt]
      /\ buffer_id' = [p \in Allocated |-> IF p = pkt THEN NO_BUFFER ELSE buffer_id[p]]
  BY IdHasParts DEF dp_buffers_retrieve
<1>2. pkt \in Allocated /\ Number(buffer_id[pkt]) = b
  BY <1>1, OneBuffer
<1>3. /\ Allocated' = Allocated /\ buffer_id'[pkt] = NO_BUFFER
      /\ \A q \in Allocated \ {pkt} : buffer_id'[q] = buffer_id[q]
      /\ buffers'[b].pkt = NoPkt
      /\ \A j \in (0 .. N - 1) \ {b} : buffers'[j] = buffers[j]
  BY <1>1, <1>2 DEF PacketInv, RingType, Buffer
<1>4. \A j \in (0 .. N - 1) \ {b} : buffers[j].pkt # NoPkt => buffers[j].pkt # pkt
  BY <1>2, OneBuffer
<1>5. IsInjective(hand') /\ ToSet(hand') = {pkt} /\ ToSet(hand) = {}
  BY <1>1 DEF IsInjective, ToSet
<1> HIDE DEF b, pkt
<1>6. Owned'
  BY <1>3, <1>4 DEF PacketInv, Owned
<1>7. InHand'
  BY <1>2, <1>3, <1>5 DEF InHand
<1>8. HasOwner'
  BY <1>1, <1>3, <1>5 DEF PacketInv, HasOwner, pkt
<1> QED
  BY <1>6, <1>7, <1>8

\* Every step up to the first that overruns a packet.
LEMMA PacketStep ==
    ASSUME PacketInv, [Next]_vars, ~overrun'
    PROVE  PacketInv'
<1>1. RingType' /\ PacketType'
  BY RingTypeStep, PacketTypeStep DEF PacketInv
<1> SUFFICES Owned' /\ InHand' /\ HasOwner'
  BY <1>1 DEF PacketInv
<1>2. ASSUME UNCHANGED <<buffers, buffer_id, hand>>
      PROVE  Owned' /\ InHand' /\ HasOwner'
  BY SMTT(20), <1>2 DEF PacketInv, Owned, InHand, HasOwner, Allocated
<1> QED
  BY Zenon, <1>2, CreateKeeps, OutputKeeps, DestroyKeeps, RetrieveKeeps
     DEF Next, Tick, SetConfig, vars

\* Once a save has overrun a packet that is remembered.
LEMMA OverrunStays ==
    ASSUME overrun, [Next]_vars, RingType
    PROVE  overrun'
<1>1. ASSUME NEW len \in MaxLen, OutputController(len)
      PROVE  overrun'
  <2>1. CASE UNCHANGED overrun
    BY Zenon, <2>1
  <2>2. ASSUME NEW i \in 0 .. N - 1, NEW c \in 0 .. Cookies - 1, SaveIn(Last(hand), i, c)
        PROVE  overrun'
    BY Zenon, <2>2 DEF SaveIn
  <2> QED
    BY Zenon, <1>1, <2>1, <2>2, OutputSaves
<1>2. CASE UNCHANGED overrun
  BY Zenon, <1>2
<1> QED
  BY Zenon, <1>1, <1>2
     DEF Next, packet_create, SetConfig, packet_destroy, dp_buffers_retrieve, Tick, vars

\* Every packet has its owners in every state reached without an overrun.
LEMMA PacketInvariant == Spec => [](overrun \/ PacketInv)
<1>1. Init => PacketInv
  <2> SUFFICES ASSUME Init PROVE PacketInv
    OBVIOUS
  <2>1. /\ Allocated = {} /\ hand = <<>> /\ ToSet(hand) = {}
        /\ \A i \in 0 .. N - 1 : buffers[i].pkt = NoPkt
    BY DEF Init, Allocated, ToSet, dp_buffers_create
  <2>2. PacketType /\ Owned /\ HasOwner
    BY <2>1, NoBufferIsId DEF Init, PacketType, Owned, HasOwner, MaxLen
  <2>3. InHand
    BY <2>1 DEF InHand, IsInjective
  <2> QED
    BY <2>2, <2>3, RingTypeInitial DEF PacketInv
<1>2. RingType /\ (overrun \/ PacketInv) /\ [Next]_vars => (overrun \/ PacketInv)'
  BY PacketStep, OverrunStays
<1> QED
  BY <1>1, <1>2, TypesInvariant, PTL DEF Spec

\* No pointer dangles: neither packet_destroy nor dp_buffers_save frees a packet
\* that is in hand or in a buffer, whatever is saved, cloned, retrieved and
\* destroyed in which order and whenever a buffer's time ends, up to a save that
\* takes a buffer from under a packet in hand or saves a packet a second time.
THEOREM NoPointerDangles == Spec => []NoDangling
<1>1. overrun \/ PacketInv => NoDangling
  <2> SUFFICES ASSUME PacketInv PROVE ToSet(hand) \union Buffered \subseteq Allocated
    BY DEF NoDangling
  <2> QED
    BY BufferedIs DEF PacketInv, InHand, Owned
<1> QED
  BY <1>1, PacketInvariant, PTL

\* No packet is lost: up to such a save there is always a buffer or a caller that
\* has it and will free it, also if its time in the buffer ends meanwhile.
THEOREM NoPacketLeaks == Spec => []NoLeak
<1>1. overrun \/ PacketInv => NoLeak
  <2> SUFFICES ASSUME PacketInv PROVE Allocated \subseteq ToSet(hand) \union Buffered
    BY DEF NoLeak
  <2>1. \A p \in Allocated : p # NoPkt
    BY ConstantTypes DEF PacketInv, PacketType
  <2> QED
    BY <2>1, BufferedIs DEF PacketInv, HasOwner
<1> QED
  BY <1>1, PacketInvariant, PTL
=============================================================================
