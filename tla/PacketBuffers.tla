--------------------------- MODULE PacketBuffers ---------------------------
(***************************************************************************)
(* The packet buffers (udatapath/dp_buffers.c) and the life of the packets *)
(* they share with the pipeline (udatapath/packet.c).  A packet sent to    *)
(* the controller is saved in a ring of N buffers and named by an id, the  *)
(* number of the buffer and a cookie; a packet_out or a flow_mod with that *)
(* id takes it out again.  The buffer keeps the packet while the code that *)
(* processes it still holds it, and packet_destroy decides, from the id    *)
(* and the clock, whether the packet is its own to free.  The clock is     *)
(* moved by a signal (lib/timeval.c) and read again at every use, so that  *)
(* a second may begin while a packet is processed.                         *)
(***************************************************************************)
EXTENDS Integers, Sequences, SequencesExt, FiniteSets

CONSTANTS Pkt, NoPkt,       \* packets, by address, and NULL
          N, Cookies,       \* N_PKT_BUFFERS, and the values a cookie takes
          OVERWRITE_SECS,
          MaxDepth,         \* bound on the packets in hand: one and its clones
          MaxTime, MaxSaves \* bounds on the clock and on the saves

ASSUME PacketBuffersAssumption ==
    /\ NoPkt \notin Pkt
    /\ {N, Cookies, OVERWRITE_SECS, MaxDepth} \subseteq Nat \ {0}
    /\ {MaxTime, MaxSaves} \subseteq Nat

VARIABLES buffers,      \* the ring
          buffer_idx,   \* the buffer used last
          buffer_id,    \* of each packet that is allocated
          hand,         \* the packets being processed, the innermost last
          miss_send_len, packet_in, \* "NO_BUFFER" or "SHORT", and the last message
          now,
          saves,        \* the number of saves so far
          tickets,      \* the ids the controller was given and has not used
          overrun       \* history: a save has taken the buffer of a packet in hand,
                        \* or put a packet that was in a buffer into another

vars == <<buffers, buffer_idx, buffer_id, hand, miss_send_len, packet_in, now, saves, tickets,
          overrun>>

(* An id has the buffer in its low bits and the cookie above.  All ones is *)
(* NO_BUFFER.                                                              *)
NO_BUFFER == N * (Cookies + 1) - 1
Id == 0 .. NO_BUFFER
Number(id) == id % N
CookieOf(id) == id \div N

MaxLen == {"NO_BUFFER", "SHORT"}

(* cookie -1 is UINT32_MAX, which no id has; n numbers the save.           *)
dp_buffers_create ==
    [i \in 0 .. N - 1 |-> [pkt |-> NoPkt, cookie |-> -1, timeout |-> 0, n |-> 0]]

Init ==
    /\ buffers = dp_buffers_create
    /\ buffer_idx = N - 1
    /\ buffer_id = [p \in {} |-> NO_BUFFER]
    /\ hand = <<>>
    /\ miss_send_len \in MaxLen
    /\ packet_in = [max_len |-> "SHORT", buffer_id |-> NO_BUFFER]
    /\ now = 0 /\ saves = 0 /\ tickets = {} /\ overrun = FALSE

Allocated == DOMAIN buffer_id

Freed(bid, P) == [p \in DOMAIN bid \ P |-> bid[p]]

InBuffer(i) == {buffers[i].pkt} \ {NoPkt}
Buffered == UNION {InBuffer(i) : i \in DOMAIN buffers}

(* What is found in the buffer_id of a packet: anything at all, if the     *)
(* packet has been freed.                                                  *)
IdsRead(pkt) == IF pkt \in Allocated THEN {buffer_id[pkt]} ELSE Id

dp_buffers_is_alive(id) ==
    /\ buffers[Number(id)].cookie = CookieOf(id)
    /\ now < buffers[Number(id)].timeout

(* packet_create, for a packet from a port or with a packet_out, and       *)
(* packet_clone, for the copy a group bucket or OFPP_TABLE works on        *)
packet_create(p) ==
    /\ p \notin Allocated
    /\ Len(hand) < MaxDepth
    /\ buffer_id' = [q \in Allocated \union {p} |-> IF q = p THEN NO_BUFFER ELSE buffer_id[q]]
    /\ hand' = Append(hand, p)
    /\ UNCHANGED <<buffers, buffer_idx, miss_send_len, packet_in, now, saves, tickets, overrun>>

(* Mutant: a buffer keeps its cookie.                                      *)
CookieKept(cookie) == IF cookie < 0 THEN 0 ELSE cookie

NextCookie(cookie) == IF cookie + 1 >= Cookies THEN 0 ELSE cookie + 1

(* Mutant: the time of the packet in the buffer is not looked at.          *)
AnyUsable(i) == TRUE

(* A buffer can be used when it is empty or its packet has had its time.   *)
Usable(i) == buffers[i].pkt = NoPkt \/ now >= buffers[i].timeout

Saved(id) == id # NO_BUFFER /\ dp_buffers_is_alive(id)

(* dp_buffers_save of a packet with the given id into the next buffer,     *)
(* whose packet is destroyed.  The message carries the id it then has.     *)
Save(pkt, id, max_len) ==
    LET i == (buffer_idx + 1) % N
        cookie == NextCookie(buffers[i].cookie)
        new == i + N * cookie
    IN  /\ ~Saved(id) /\ Usable(i) /\ saves < MaxSaves
        /\ buffers' = [buffers EXCEPT ![i] = [pkt |-> pkt, cookie |-> cookie,
                                              timeout |-> now + OVERWRITE_SECS, n |-> saves + 1]]
        /\ buffer_idx' = i
        /\ buffer_id' = [p \in Allocated \ InBuffer(i) |-> IF p = pkt THEN new ELSE buffer_id[p]]
        /\ packet_in' = [max_len |-> max_len, buffer_id |-> new]
        /\ saves' = saves + 1
        /\ tickets' = tickets \union {[id |-> new, n |-> saves + 1, time |-> now]}
        /\ overrun' = (overrun \/ pkt \in Buffered \/ InBuffer(i) \intersect ToSet(hand) # {})

(* dp_buffers_save returns without a save: the packet is saved already, or *)
(* the next buffer is taken, which is skipped the next time.               *)
SaveNothing(id, max_len) ==
    /\ Saved(id) \/ ~Usable((buffer_idx + 1) % N)
    /\ buffer_idx' = IF Saved(id) THEN buffer_idx ELSE (buffer_idx + 1) % N
    /\ packet_in' = [max_len |-> max_len, buffer_id |-> id]
    /\ UNCHANGED <<buffers, buffer_id, saves, tickets, overrun>>

(* The OFPP_CONTROLLER case of dp_actions_output_port, for the innermost   *)
(* packet in hand: it is saved unless miss_send_len says otherwise.        *)
OutputController(max_len) ==
    /\ hand # <<>>
    /\ IF miss_send_len = "NO_BUFFER"
       THEN /\ packet_in' = [max_len |-> max_len, buffer_id |-> NO_BUFFER]
            /\ UNCHANGED <<buffers, buffer_idx, buffer_id, saves, tickets, overrun>>
       ELSE \E id \in IdsRead(Last(hand)) :
                Save(Last(hand), id, max_len) \/ SaveNothing(id, max_len)
    /\ UNCHANGED <<hand, miss_send_len, now>>

(* Mutant: a packet that is past its time is freed and stays in its buffer.*)
DestroyUndiscarded ==
    /\ hand # <<>>
    /\ \E id \in IdsRead(Last(hand)) :
          buffer_id' = IF Saved(id) THEN buffer_id ELSE Freed(buffer_id, {Last(hand)})
    /\ hand' = Front(hand)
    /\ UNCHANGED <<buffers, buffer_idx, miss_send_len, packet_in, now, saves, tickets, overrun>>

(* Processing ends with packet_destroy, which leaves a packet that is      *)
(* alive in its buffer there, and empties the buffer (dp_buffers_discard)  *)
(* if it is not.                                                           *)
packet_destroy ==
    /\ hand # <<>>
    /\ \E id \in IdsRead(Last(hand)) :
          LET b == Number(id)
          IN  IF Saved(id)
              THEN UNCHANGED <<buffers, buffer_id>>
              ELSE /\ buffers' = IF id # NO_BUFFER /\ buffers[b].cookie = CookieOf(id)
                                 THEN [buffers EXCEPT ![b].pkt = NoPkt] ELSE buffers
                   /\ buffer_id' = Freed(buffer_id, {Last(hand)})
    /\ hand' = Front(hand)
    /\ UNCHANGED <<buffer_idx, miss_send_len, packet_in, now, saves, tickets, overrun>>

(* Mutant: the packet keeps its id.                                        *)
RetrieveKeepsId(id) ==
    LET b == Number(id)
        pkt == buffers[b].pkt
    IN  /\ hand = <<>>
        /\ buffers[b].cookie = CookieOf(id) /\ pkt # NoPkt
        /\ buffers' = [buffers EXCEPT ![b].pkt = NoPkt]
        /\ hand' = <<pkt>>
        /\ tickets' = {t \in tickets : t.id # id}
        /\ UNCHANGED <<buffer_idx, buffer_id, miss_send_len, packet_in, now, saves, overrun>>

(* dp_buffers_retrieve, for a packet_out or flow_mod that names the id and *)
(* then processes the packet                                               *)
dp_buffers_retrieve(id) ==
    LET b == Number(id)
        pkt == buffers[b].pkt
    IN  /\ hand = <<>>
        /\ buffers[b].cookie = CookieOf(id) /\ pkt # NoPkt
        /\ buffers' = [buffers EXCEPT ![b].pkt = NoPkt]
        /\ buffer_id' = [p \in Allocated |-> IF p = pkt THEN NO_BUFFER ELSE buffer_id[p]]
        /\ hand' = <<pkt>>
        /\ tickets' = {t \in tickets : t.id # id}
        /\ UNCHANGED <<buffer_idx, miss_send_len, packet_in, now, saves, overrun>>

(* SET_CONFIG, between packets                                             *)
SetConfig(len) ==
    /\ hand = <<>>
    /\ miss_send_len' = len
    /\ UNCHANGED <<buffers, buffer_idx, buffer_id, hand, packet_in, now, saves, tickets, overrun>>

(* A signal lets the clock move on at any time, also between two steps of  *)
(* the packet in hand.                                                     *)
Tick ==
    /\ now < MaxTime
    /\ now' = now + 1
    /\ UNCHANGED <<buffers, buffer_idx, buffer_id, hand, miss_send_len, packet_in, saves, tickets,
                   overrun>>

Next ==
    \/ \E p \in Pkt : packet_create(p)
    \/ \E len \in MaxLen : OutputController(len) \/ SetConfig(len)
    \/ packet_destroy
    \/ \E id \in Id : dp_buffers_retrieve(id)
    \/ Tick

Spec == Init /\ [][Next]_vars

-----------------------------------------------------------------------------
(* Types; no id given to the controller is the special all-ones one        *)
(* (dp_buffers_save skips the maximum cookie).                             *)
TypeOK ==
    /\ buffers \in [0 .. N - 1 -> [pkt : Pkt \union {NoPkt}, cookie : -1 .. Cookies - 1,
                                   timeout : Nat, n : 0 .. saves]]
    /\ buffer_idx \in 0 .. N - 1
    /\ Allocated \subseteq Pkt /\ \A p \in Allocated : buffer_id[p] \in Id
    /\ hand \in Seq(Pkt)
    /\ miss_send_len \in MaxLen
    /\ packet_in \in [max_len : MaxLen, buffer_id : Id]
    /\ now \in Nat /\ saves \in Nat /\ overrun \in BOOLEAN
    /\ tickets \subseteq [id : Id \ {NO_BUFFER}, n : 1 .. saves, time : 0 .. now]

(* Every pointer is good: a packet in hand or in a buffer has not been     *)
(* freed (packet_destroy, dp_buffers_save, dp_buffers_retrieve), also when *)
(* a buffer's time ends while its packet is in hand, up to a save that     *)
(* takes the buffer from under that packet or puts it into a second one.   *)
NoDangling == ~overrun => ToSet(hand) \union Buffered \subseteq Allocated

(* No packet is lost: one that is allocated is in hand or in a buffer, so  *)
(* something will free it, up to a save as above.                          *)
NoLeak == ~overrun => Allocated \subseteq ToSet(hand) \union Buffered

(* What the note above struct dp_buffers assumes: a packet is only saved   *)
(* once to the buffers (dp_buffers_save).                                  *)
SavedOnce ==
    \A i, j \in DOMAIN buffers : i # j => InBuffer(i) \intersect InBuffer(j) = {}

Holds(id) == /\ buffers[Number(id)].cookie = CookieOf(id)
             /\ buffers[Number(id)].pkt # NoPkt

(* An id the controller was given brings back the packet it was given for, *)
(* or none, unless as many saves as there are cookies have come since: the *)
(* cookie tells the packets apart that have been in one buffer.            *)
TicketsExact ==
    \A t \in tickets :
        Holds(t.id) => LET n == buffers[Number(t.id)].n IN n = t.n \/ n - t.n >= Cookies

(* A packet sent to the controller stays in its buffer for OVERWRITE_SECS, *)
(* whatever else is saved, unless the controller takes it                  *)
(* (dp_buffers_save, packet_destroy).  This is about the buffer's pointer: *)
(* that the packet has not been freed meanwhile is NoDangling.             *)
KeptInTime ==
    \A t \in tickets :
        now < t.time + OVERWRITE_SECS => Holds(t.id) /\ buffers[Number(t.id)].n = t.n
=============================================================================
