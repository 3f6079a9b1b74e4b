# A TLA+ model of the OpenFlow 1.3 software switch

This directory holds TLA+ modules for the user-space switch in `src/`, TLC
configurations that check them on small instances, and TLAPS proofs of their
most important properties for every value of the constants.

## The system

`ofdatapath` (`udatapath/`) is one process and one thread.  `dp_run` polls:
once a second it refills the meters and expires flows, then it reads packets
from the ports, and then it serves the controllers (`remote_run`).  Each packet
and each message is handled to the end before the next one, so what interleaves
is *events*: packets, control messages of several controllers, seconds passing,
controllers connecting and leaving.  The clock (`lib/timeval.c`) is the
exception: a signal refreshes it every 100 ms, so it may advance while a packet
is being processed.

`ofprotocol` (`secchan/`) is a second process, again one thread: a loop that runs
its relays and hooks, tells `poll_block` what to wait for and sleeps.  It relays
between the local datapath and one of several remote controllers over
`lib/rconn.c` (connections that are made again when they fail) and `lib/vconn.c`
(the handshake and the stream), and can run the spanning tree of `lib/stp.c`.
`oflib` converts messages to and from structures; `dpctl` is a command line
client.

| part | state | operations | what is hard |
|---|---|---|---|
| group table | entries, buckets, two counters | add, modify, delete, execute | loops, references to deleted groups, limits |
| meter table | entries, two counters, token buckets | add, modify, delete, apply, refill | wrapping arithmetic, order of bands |
| flow table | one ordered list, two timeout lists | add, modify, delete, lookup, timeout | three lists that must agree, early exits |
| references | lists between flows, groups, meters | every mod message | dangling pointers, counters that drift |
| matches | header -> value and mask | packet, strict, non-strict, overlap | mask arithmetic |
| packet buffers | ring of slots with cookies and deadlines | save, retrieve, discard | stale ids, time-outs between two steps |
| controllers | role, filters, generation id | connect, leave, role, async | late claims, wrapping ids, fan-out |
| pipeline, action set, groups at work | packets, the call stack | process, write, execute, select | one owner per packet, termination, order |
| rconn, vconn | connection states, send queue, timers | run, send, receive, wait | back-off, probes, late answers, counters |
| secure channel | relay halves, fail-over | relay, hooks, poll | a peer that stops reading, sleeping through an event |
| spanning tree | bridge and port records, timers | tick, receive, enable, disable | transient rings, lost neighbours |

`PROJECT.json` lists every part with its sources, the hazards at their lines,
and which definition stands for which lines.

## The modules

Definitions keep the names of the C functions they model.  The rules a message
must pass are operators `...Error` that return the code's error in the code's
order; an action's guard is that the result is `"OK"`, and one action stands for
all messages that change nothing.  Replies, logging and the wire format are left
out.

| module | models | notes |
|---|---|---|
| `OpenFlow` | `openflow.h` | shared vocabulary: roles |
| `GroupGraph`, `GroupTable` | `group_table.c` | a bucket is abstracted to the groups and ports it names |
| `LoopSearch` | `is_loop_free` turn by turn | any order of the worklist |
| `GroupModify` | `group_table_modify` as the code runs it | the handler's checks, the search, the exchange of entries; implements `FlowRefs`, where a modification is one step guarded by `LoopFree` |
| `MeterTable` | `meter_table.c` | `bands_num` starts with any value, as the code never sets it |
| `FlowRefs` | the references in `flow_entry.c`, `group_entry.c`, `meter_entry.c` | composes `GroupTable` and `MeterTable`; an entry is abstracted to what it names |
| `MatchStd`, `MatchRelations` | `match_std.c` | values and masks are sets of bits |
| `Lists`, `FlowTable` | `flow_table.c`, `flow_entry.c` | addresses are reused; instructions are the ports they output to |
| `MeterBands` | `meter_entry.c` | one meter; a second is scaled down to a few ticks, 1000 to `Kilo`, 2^32 to `Width` |
| `PacketBuffers` | `dp_buffers.c`, `packet.c` | a cookie of a few values, so that it wraps |
| `ActionSet`, `GroupSelect` | `action_set.c`, the bucket choice of `group_entry.c` | operators used by `Pipeline` |
| `Pipeline` | `pipeline.c`, `dp_actions.c`, execution in `action_set.c` and `group_entry.c` | the functions call each other, so the model has a call stack; a step is one iteration of the innermost loop |
| `Controllers`, `Mastership` | `datapath.c` | `Mastership` is the promise of the role protocol, `Controllers` refines it |
| `Stp` | `lib/stp.c` | one bridge: every function from a bridge record to the record it leaves, in the code's timer ticks |
| `SpanningTree` | `secchan/stp-secchan.c` and the wires | bridges that run `Stp`, each called by its own poll loop, joined by links that lose messages or are cut |
| `Vconn`, `Rconn` | `lib/vconn.c`, `lib/vconn-stream.c`, `lib/rconn.c` | functions on connection records; a stream is a bounded sequence of messages in each direction |
| `SecureChannel` | `secchan.c`, `failover.c`, `status.c` | `main` is one turn of the loop, from one return of `poll_block` to the next; the peers are the environment |

The modules `MC...` give the constants small values.

## What TLC checks

| run | what it shows |
|---|---|
| `tables` | no group loops, no unresolved groups, exact counters through every wrap, the loop check exact, the search advances with every turn, and the search with the exchange that follows is the one step of `FlowRefs`; flows, groups and meters never hold a stale pointer, and only a deletion costs flows their place |
| `flow_table` | lists and count agree, commands with exact matches select what they mean by the packets accepted, no expired entry survives a scan, priorities and order hold |
| `meter_bands` | what a drop band lets through, the order in which bands run short, remarking |
| `packet_buffers` | ids give back their own packet, which is kept for its time; no dangling pointer and no leaked packet up to a save that meets a packet whose time has ended in hand |
| `pipeline` | every packet has one owner and is done with; action sets, instructions and bucket choice are in order |
| `controllers` | one master, late claims refused, filters applied, refinement of `Mastership` |
| `stp` | links that forward never close a ring, not even while bridges disagree, unless a root has taken a worse id; what a bridge follows has a timer; once events are over the bridges agree on the best root and forward along a spanning tree |
| `secchan` | queue counters exact, the channel connected again and again while the datapath and a good controller are up, the datapath's messages not held up for ever by a controller that neither reads nor writes |

Bounds.  Three or four identifiers suffice where a property relates two or three
entries; `tables` has more ids than entries, so that the limit is reached by an
id that is new. Its tables are at their limits while there are no flows; with
flows, `SmallWithFlows` keeps them small: two flows over one group, or one over
two groups, one of which may forward to the other, and one meter. The reference
counters, which no property reads, have one value there (`CountMod`); the
theorem `TypeCorrect` is about any. Counters and clocks are bounded by named
constants (`MaxTime`, `MaxSaves`, `MaxEpoch`, `MaxFaults`, `MaxSends`). In
`MeterBands` the number of bytes forwarded saturates at `MaxForwarded`.

`flow_table` has two fields of one bit and messages with no field or one; its
property `CommandsSelect` compares each entry with every exact match of the two
fields, not only with those that arrive as messages.

`pipeline` has two tables, four groups in a chain (ALL, SELECT, FF, INDIRECT) with
three choices of weights, one buffered packet, and enough addresses that the
deepest chain of clones never lacks one.  Its entries write the same field twice
and between them use every instruction.

`packet_buffers` has two buffers and cookies that wrap within `MaxSaves`; the
clock may tick between any two steps, also while a packet is in hand.  A read of
a packet that has been freed gives any id (`IdsRead`).

`stp` has two kinds of networks: two bridges joined by two links, with any two of
a lost BPDU, a cut link, a port that goes, a port that comes back or changes its
speed and a bridge that takes a better id, or with a lost BPDU and a bridge that
takes an id that is worse than the others or between them; and a ring of three
bridges one link of which may be cut.  The first is the smallest network with a
ring, the second the smallest in which a bridge relays what it hears.  A period of one second is what
`stp_wait_cb` asks for; the bridges' periods interleave freely, and a message
arrives before the period after the one it was sent in (the protocol rests on
such a bound; `max_age` is six periods).

`secchan` has one controller or two, one of which speaks another version, room
for one message in each direction of a stream, one fault, ages up to
`LastAge` seconds, and two turns of the relay's loop instead of 50, so that
the limit is reached.

Fairness.  `pipeline`: weak fairness of the steps of the calls in progress; these
are consecutive iterations of loops of a single thread, which takes no other
event until they return.  `PacketsFinish` is about entries whose gotos lead
forward; the switch accepts others, and then a packet may circle for ever.
`controllers` states no fairness.  `stp`: poll loops keep running, because
`stp_wait_cb` sets a timer, and wires keep moving.  `secchan`: the process runs
when something it waits for has happened (that is what `poll_block` does), time
passes once everyone has done what they had to do, and peers that are up greet
and read; nothing is assumed of peers that have stalled or gone, and sending is
never required.  For TLC weak fairness is written out as
`[]<>~Enabled \/ []<>Step`, with the guard in the place of `ENABLED` and the
step told by what it alone changes.

### Disagreements between the code and its documentation

Each of these runs checks what a comment says and finds it violated by what the
code does; `PROJECT.json` quotes the line.

| run | the code |
|---|---|
| `match_nonstrict` | the mask formula of the non-strict relation takes set bits for wildcards |
| `port_status` | a missing `break` applies a second mask |
| `connections_watched` | while the relay holds a message back, the process sleeps through the answer, and the hello, of a controller or datapath it is connecting to, and wakes only when the attempt has timed out |
| `saved_once` | a packet whose buffer's time ends while it is processed is saved again, in a second buffer |

The models reproduce further ones, which have no run of their own: `bands_num`
is not initialised (`MeterInit`); `ref_count` and `flow_count` restart at zero
on a MODIFY of the group or meter (`ModifyGroup`, `ModifyMeter`), and a MODIFY
of a flow leaves its meter references alone, so that the flow survives the
deletion of a meter it was modified to use (`FlowModify`); the masks of two
matches are not compared by `strict_mask`, and `incompatible` ignores the common
mask; an ADD's `out_port` exempts entries from the overlap check
(`flow_entry_overlaps`); tokens are added for each millisecond as if it were a
second, and in 32 bits, so that a refill after any time at all fills the bucket,
though a comment says "based on elapsed time" (`Refilled`; `DropLimits` holds
because `dp_run` comes once a second); `max_len` of an output action does not
decide on buffering (`OutputController`); the output port of an action set is
used after a group whose bucket has no output, though a comment calls it ignored
(`action_set_execute`); a packet that is in a buffer when a table drops it keeps
its action set and starts with it when a flow_mod takes it out
(`flow_table_lookup`); a packet_out of a buffered packet to OFPP_TABLE is not
submitted, because `dp_buffers_retrieve` clears `packet_out`.

In the secure channel: `try_send` takes the id of whatever it sent last for that
of the probe, so that an echo reply may be taken for the wrong one (`TrySent`,
`Heard`); fail-over has no wait hook and is noticed when something else wakes the
loop; a message read for one controller may be relayed to the next, since
`rxbuf` survives the change; status replies are queued without a limit.  In the
spanning tree the flags of a configuration message are made with `htons` for a
field of one byte, which on a little-endian machine loses both bits, so that a
topology change is never acknowledged there (`ConfigBpdu`, constant
`LittleEndian`); the properties checked do not need them.  A root that takes a
*worse* id from its local port can close a ring for a while: the others go on
announcing its old id, each takes the other's announcement for news, and when it
has run out on both sides every port between them forwards.  `NoRing` says so
(`demoted`): it holds for any change of id but that one.  `Converges` holds after
it, too, and no line of the repository says that a change of id is free of
transient rings.

## What is proved

The theorems are in `...Proofs` modules and hold for every value of the constants
that satisfies the named assumptions.  Those say what the C types and the
unpackers guarantee: numbers are numbers, an id is not the null value, and in
`Pipeline` (`MessageAssumption`) actions and instructions have known types, a
goto names a table of the pipeline and an action a group of the table.
`StpAssumption` and `SpanningTreeAssumption` say the same of bridges and networks:
ports, bridges and links are finitely many, costs are positive and ids are numbers.
Some theorems have a hypothesis of their own, named below.  Every safety property
of every passing run is a theorem, except `NoRing` of `stp`.

* `TableProofs`, group table: types, `entries_num` and `buckets_num` exact, and
  the central argument: a table that is acyclic and resolved stays so.  `ADD`
  cannot close a loop because every group it names is already in the table and the
  new id is not (no other entry names it); `MODIFY` cannot because of `LoopFree`,
  which is shown to be exact; `DELETE` is refused while a bucket names the group.
  The inductive invariant is therefore types, resolved and acyclic together.
* `TableProofs`, meter table: types, `meters_num`, and `bands_num`, which is the
  number of bands and the value `malloc` left in it, modulo its width: the sum over
  the table is followed through every wrap.
* `TableProofs`, references: the composed system refines both tables, so their
  theorems carry over; references are exact for groups and live for meters.  The
  invariant `RefInv` adds that the ids an entry keeps are those its instructions
  name, without which a deletion would unlink the wrong entries.  `TypeCorrect`
  needs the set of places for flows to be finite, so that the counters move by
  whole numbers.
* `TableProofs`, `group_table_modify`: `ModifyRefines`, the code's modification
  implements the one-step one.  The invariant of the search says that while it
  runs the table is the one of the composed system, that everything in the two
  lists is reachable from the modified group's new references, and that whatever
  is reachable is visited or reachable from the worklist; so an empty worklist
  means no loop and the modified group on it means one (`SearchIsCorrect`).  That
  the table is acyclic, an invariant of `FlowRefs` carried over to the states
  between the steps, is what keeps a group from being looked at twice
  (`SearchMakesProgress`): there are finitely many ids, so the search ends.
* `FlowTableProofs`: `ListsAgree` is not inductive alone; `TableInv` adds that
  `match_entries` is in the order of priorities, which is what makes the place
  where `flow_table_add` stops the right one and the first match the highest, and
  `hard_entries` in the order of removal, which lets the scan of the timeouts stop
  early.  `CommandsSelectByMeaning` rests on lemmas about `MatchStd`: for exact
  matches the strict relation is having the same packets, the non-strict one
  inclusion and the overlap a common packet; and on `Unique`, that no two entries
  of a priority are strictly equal, which the early stop could have broken.
* `MeterBandsProofs`: buckets are filled together and never above their size
  (`FillInv`).  `DropLimits` follows from what was forwarded and what is left
  together never exceeding the rate times the seconds begun (`LimitInv`);
  `BandsOrdered` from buckets holding whole packets, more of them at a higher rate
  (`OrderInv`).  The rules that bound the exploration (`MaxTime`,
  `MaxForwarded`) may have any value.
* `SwitchProofs`, the packets kept for the controllers (`PacketBuffers`):
  `BuffersTypeCorrect`, `TicketsStayExact` and `PacketsKeptInTime` hold however
  the clock moves and whatever becomes of the packets; `CookiesGoRound` counts the
  saves a slot needs to come back to a cookie.  `NoPointerDangles` and
  `NoPacketLeaks` follow the clock through packets in hand as well.  The clock is
  refreshed by a signal, so the time of a packet's buffer may end while the packet
  is processed.  That alone is harmless, `packet_destroy` then discards the
  buffer's pointer and frees the packet; but a second output may save it again, and
  any save may reuse its buffer and free it under its owner.  From then on the code
  has pointers to freed packets; the history variable `overrun` marks such a save,
  and both properties say what holds up to it.  Their invariant is that a packet
  in hand with an id is in the buffer the id names and in no other.
* `SwitchProofs`, the connections of the controllers (`Controllers`): types, one
  master, claims that are recent are not refused, messages are put to those they
  are for, and `RolesImplementMastership`, the refinement of `Mastership`, step by
  step: the comparison of generation ids modulo `Width` agrees with the order of
  the unbounded elections.
* `PipelineProofs`: `PipelineInv` has the types of packets, calls, entries and
  groups, a canonical action set in every packet, and `Sound` of the call stack:
  every packet has one owner, and an action list borrows its packet from the call
  just below it.  That last part is what makes `PacketsOwned` inductive: when the
  list returns, its caller still has the packet.  Each function that works on a
  packet keeps the invariant, then each event does.  `EveryPacketIsOwned`,
  `ActionSetsStayCanonical` and `SelectionStaysProportional` assume
  `~IsFiniteSet(Packet)`, that is, that `malloc` always finds an address (`xmalloc`
  aborts otherwise); the finitely many packets in memory then leave one free.
  `InstructionsStayOrdered` needs no such hypothesis: a list sorted by
  `inst_compare` is in the documented order, although that comparison is not
  symmetric.
* `PipelineProofs`, the round robin: `SelectionStaysProportional` rests on lemmas
  of `DataProofs` about `GroupSelect`.  The divisor `GcdOf` by which the loop lowers
  its threshold divides every weight (or all weights are zero), so the threshold
  takes the values max, max - gcd, ..., gcd and wraps; between two lowerings every
  bucket whose weight reaches the threshold is selected once.  The invariant
  (`RoundInv`) says how often each bucket has been selected in this cycle, as a
  function of the threshold and of the bucket selected last.
* `SpanningTreeProofs`: `FollowersKeepTimers`, `RootPortsAge` and `PortStates`, for
  any network.
  That a port which follows a neighbour ages is not inductive, because an election
  goes through states in which it is false; `BridgeInv` is what holds between the
  calls of a bridge's owner: of the ports in use exactly the designated ones have
  their timer off, and the root port is in use and not designated.  The last part
  carries the argument: `stp_designated_port_selection` must not take over the
  port to the root (`RootChosen`: by it the bridge is further from the root than
  the neighbour is), or its timer would run on a port that follows nobody.  The
  port states are part of it too: a port in use is blocked exactly if it is neither
  the root port nor designated, and its forward delay runs exactly while it
  listens or learns, so that `stp_forward_delay_timer_expiry` never meets a port in
  another state.  Each function of `stp.c` keeps the invariant, the loops over the
  ports by induction over the ports already visited.
* `SecureChannelProofs`: `QueuesCounted`.  `QueuedExact` alone does not survive a
  call, since what `rconn_send` may add depends on the counter the relay has
  looked at before.  `MemInv` adds that a connection's queue holds no message of
  its own half, that a connection which backs off waits at least a second, and that
  one which is probed has probes.  Every function of `rconn.c`, the relay and a
  turn of the loop of `main` keep it, whatever the socket returns; `do_tx_work`
  and `relay_run` are loops, followed turn by turn.  `RconnRunStops` uses the
  timers: a connection that has just begun to back off, come up or gone idle is
  not due in the same second, so that the loop of `rconn_run` ends with its third
  round; the model composes three.
* `DataProofs` has the lemmas the others rest on: what removing, inserting,
  replacing and searching do to a list, folds and sums over finite sets,
  pushing and popping calls, and the round robin.  Induction over data is done by
  hand: a claim that fails for some length or some number of turns fails for a
  least one, which is contradicted.

The proofs led to changes of the models.  `action_set_write_action` had a
`CASE` with two guards that could hold at once, and the assumptions of `Pipeline`
did not say that a goto stays within the tables and that buckets are lists of
actions, which the unpackers check.  A bridge now starts with the path cost
`stp_create` gives its ports, and the loop of `do_tx_work` stops at an empty queue
by its own test, as in the code.

Only model-checked:

* liveness (`PacketsFinish`, `Converges`, `Reconnects`, `RelayDrains`), which the
  proof system does not support;
* `NoRing` of the spanning tree.  It is a statement about time: a port may forward
  only when every bridge that could close a ring has had the time to hear of it.
  An invariant would have to bound the age of what each bridge believes by its
  distance from every change, and the property does not hold for all values of the
  constants: it needs timers that are long against the number of bridges.
* what the runs `match_nonstrict`, `port_status`, `connections_watched` and
  `saved_once` check, which is violated.

## Not modelled

* The rewriting of header fields, checksums and packet parsing (NetBee, a vendored
  C++ library, which with the vendored Jansson and SQLite is nearly all of the
  lines under `src/`): byte arithmetic without control.
* A controller's send queue that is full (`TXQ_LIMIT`): `AsyncDelivered` is about
  whom a message is put to, not about what arrives.
* What `qsort` does with the comparator of instructions, which says "after" or
  "equal" and never "before": `Sorted` assumes a sort.
* A controller that goes on writing and no longer reads: it keeps the connection
  from going idle, so that nothing ends it while the relay holds a message for it.
* Wire formats beyond what an unpacker refuses, printing, logging, `dpctl`.
* Sockets, devices, SSL and netlink; the byte stream below whole messages.
* Ports and queues: calls of the kernel, and configuration bits that one message
  assigns.
* Which function frees a message or an instruction array: messages and
  instructions are values here.  Packets and table entries are not; their
  ownership is modelled in `Pipeline`, `PacketBuffers`, `FlowTable` and
  `FlowRefs`.
* In the secure channel: in-band control and MAC learning, whose packet hook takes
  every packet for one from port 0 since the move to OpenFlow 1.2; discovery and
  the DHCP client, whose `do_receive_msg` reads pointers that nothing sets
  since a call was commented out; the port watcher, which mirrors port
  descriptions; the rate limiter; management relays and monitors.  The secure
  channel itself hands every BPDU to port 0 and no longer tells the datapath the
  state of a port, so `SpanningTree` shows what `lib/stp.c` does for an owner
  that delivers BPDUs to the port they came in on.
