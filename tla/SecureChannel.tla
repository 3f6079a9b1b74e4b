--------------------------- MODULE SecureChannel ---------------------------
(***************************************************************************)
(* The secure channel (ofprotocol, secchan/): one relay between the        *)
(* connection to the datapath and the one to a controller, with its status *)
(* and fail-over hooks, run by a loop that sleeps in poll_block until      *)
(* something it waits for happens.                                         *)
(*                                                                         *)
(* s is the memory of the process.  The other variables are what it lives  *)
(* among: the state of the peers, how often they have failed, how many     *)
(* messages they have sent in this second, and the command line.           *)
(***************************************************************************)
EXTENDS Rconn

CONSTANTS
    Datapath,          \* the name the local connection has
    Version,           \* a function: the version each controller speaks
    Settings,          \* command lines
    Iterations,        \* of relay_run (the code has 50)
    MaxFaults,         \* how often a peer stalls or disappears
    MaxSends,          \* messages the peers send of their own accord in a second
    MaxTxq             \* a send queue from which on a controller asks for no status

VARIABLES s, peer, faults, sends, settings
vars == <<s, peer, faults, sends, settings>>

Halves == {"local", "remote"}
Other(i) == IF i = "local" THEN "remote" ELSE "local"
Controllers == DOMAIN Version
Peers == Controllers \cup {Datapath}

ASSUME SecureChannelAssumption ==
    /\ Iterations \in Nat \ {0} /\ MaxFaults \in Nat /\ MaxSends \in Nat /\ MaxTxq \in Nat
    /\ \A c \in Settings : /\ \A k \in DOMAIN c.controllers : c.controllers[k] \in Controllers
                           /\ c.probe_interval \in 0 .. LastAge
                           /\ c.max_backoff \in 1 .. LastAge

---------------------------------------------------------------------------
\* The peers the command line names.
Named == {Datapath} \cup {settings.controllers[k] : k \in DOMAIN settings.controllers}

(* The environment: what vconn_open and the transport's connect return for
   a peer in its present state.  The host of a peer that is up has answered
   by the turn after the one that opens the connection. *)

Opens(p) == IF peer[p] = "gone" THEN {"OK", "ERROR"} ELSE {"OK"}

Connects(v) ==
    IF v = NoVconn THEN {"EAGAIN"}
    ELSE IF v.dead \/ peer[v.peer] = "gone" THEN {"EAGAIN", "ERROR"}
    ELSE {"OK"}

ProbeXids == {1, 2}
RequestXid == 3

---------------------------------------------------------------------------
(* The hooks. *)

\* switch_status_remote_packet_cb: takes status requests and answers them.
Consumes(i, m) == i = "remote" /\ m.type = "EXPERIMENTER"
switch_status_remote_packet_cb(t, m) ==
    rconn_send(t, "remote", Msg("EXPERIMENTER", m.xid), "none").s

is_timed_out(t) == t.epoch[t.index] >= settings.max_backoff

\* Mutant: the next controller is found, the connection is left as it is.
FailoverKeepsName(t, open) ==
    IF rconn_is_connected(t, "remote") \/ ~is_timed_out(t) THEN t
    ELSE LET index == (t.index % Len(settings.controllers)) + 1
         IN  [t EXCEPT !.index = index, !.epoch[index] = 0]

failover_periodic_cb(t, open) ==
    IF rconn_is_connected(t, "remote") \/ ~is_timed_out(t) THEN t
    ELSE LET index == (t.index % Len(settings.controllers)) + 1
             c == settings.controllers[index]
         IN  [rconn_connect(rconn_disconnect(t, "remote"), "remote", c, open[c])
                 EXCEPT !.index = index, !.epoch[index] = 0]

---------------------------------------------------------------------------
(* relay_run. *)

Relay(t, progress, stop) == [s |-> t, progress |-> progress, stop |-> stop]

Emptied(t, i) == [t EXCEPT !.rxbuf[i] = NoMsg]

Sent(sent, i) == Relay(Emptied(sent.s, i), sent.ret = "OK", FALSE)

\* With t.rxbuf[i], fresh or held back earlier.
Handled(t, i, fresh) ==
    IF t.rxbuf[i] = NoMsg THEN Relay(t, FALSE, FALSE)
    ELSE IF fresh /\ Consumes(i, t.rxbuf[i])
    THEN Relay(Emptied(switch_status_remote_packet_cb(t, t.rxbuf[i]), i), TRUE, TRUE)
    ELSE IF t.n_txq[i] > 0 THEN Relay(t, FALSE, FALSE)
    ELSE Sent(rconn_send(t, Other(i), t.rxbuf[i], i), i)

Taken(got, i) == Handled([got.s EXCEPT !.rxbuf[i] = got.msg], i, TRUE)

\* The body of the inner loop: receive, ask the hooks, send.
RelayHalf(t, i) == IF t.rxbuf[i] = NoMsg THEN Taken(rconn_recv(t, i), i) ELSE Handled(t, i, FALSE)

\* The body of the outer loop.
Both(one, two) == [two EXCEPT !.progress = @ \/ one.progress]
Second(one) == IF one.stop THEN one ELSE Both(one, RelayHalf(one.s, "remote"))

relay_run(t, env) ==
    FoldLeft(LAMBDA a, iteration : IF a.progress THEN Second(RelayHalf(a.s, "local")) ELSE a,
             Relay(rconn_run(rconn_run(t, "local", env.local), "remote", env.remote), TRUE, FALSE),
             [iteration \in 1 .. Iterations |-> iteration]).s

---------------------------------------------------------------------------
(* The loop of main, from one poll_block to the next. *)

Answers(v) == v # NoVconn /\ "OK" \in Connects(v)

\* relay_wait
WaitsFor(i) == \/ rconn_run_wait(s.rc[i])
               \/ s.rxbuf[i] = NoMsg /\ rconn_recv_wait(s.rc[i], Answers(s.rc[i].vconn))

Woken == s.wake \/ \E i \in Halves : WaitsFor(i)

\* A connection request is refused.
Refused(i) == /\ s.rc[i].vconn # NoVconn
              /\ s.rc[i].vconn.state = "CONNECTING" /\ "ERROR" \in Connects(s.rc[i].vconn)
              /\ s.rxbuf[i] = NoMsg

Env(i, c, open, xid) == [open |-> open[s.rc[i].name], connect |-> c, xid |-> xid]

\* One turn of the loop, with what the peers' sockets return in it.
Turn(open, l, r, xid) ==
    LET t == relay_run([s EXCEPT !.wake = FALSE], [local |-> Env("local", l, open, xid),
                                                   remote |-> Env("remote", r, open, xid)])
    IN  IF Len(settings.controllers) > 1 THEN failover_periodic_cb(t, open) ELSE t

\* What one turn may make of the memory.
Turns ==
    {Turn(open, l, r, xid) :
        open \in {f \in [Named -> {"OK", "ERROR"}] : \A p \in Named : f[p] \in Opens(p)},
        l \in Connects(s.rc["local"].vconn), r \in Connects(s.rc["remote"].vconn),
        xid \in ProbeXids}

main ==
    /\ s.rc["remote"].state # "VOID"
    /\ Woken \/ \E i \in Halves : Refused(i)
    /\ s' \in Turns
    /\ UNCHANGED <<peer, faults, sends, settings>>

---------------------------------------------------------------------------
(* The peers. *)

\* A connection the peer's program can use.
Live(i) == LET v == s.rc[i].vconn
           IN  v # NoVconn /\ v.state # "CONNECTING" /\ ~v.dead /\ peer[v.peer] = "up"

Arrives(i, m) == s' = [s EXCEPT !.rc[i].vconn.rx = Append(@, m)]

PeerGreets(i) ==
    /\ Live(i) /\ ~s.rc[i].vconn.greeted
    /\ s' = [s EXCEPT !.rc[i].vconn.greeted = TRUE,
                      !.rc[i].vconn.rx = Append(@, Hello(IF i = "local" THEN OFP_VERSION
                                                         ELSE Version[s.rc[i].name]))]
    /\ UNCHANGED <<peer, faults, sends, settings>>

\* What a peer answers: the datapath requests, everyone echo requests.
Answer(i, m) ==
    CASE m.type = "ECHO_REQUEST" -> <<Msg("ECHO_REPLY", m.xid)>>
      [] i = "local" /\ m.type = "REQUEST" -> <<Msg("REPLY", m.xid)>>
      [] OTHER -> <<>>

CanRead(i) ==
    /\ Live(i) /\ s.rc[i].vconn.greeted /\ s.rc[i].vconn.tx # <<>>
    /\ Len(s.rc[i].vconn.rx \o Answer(i, Head(s.rc[i].vconn.tx))) <= Room

PeerReads(i) ==
    /\ CanRead(i)
    /\ s' = [s EXCEPT !.rc[i].vconn.rx = @ \o Answer(i, Head(s.rc[i].vconn.tx)),
                      !.rc[i].vconn.tx = Tail(@)]
    /\ UNCHANGED <<peer, faults, sends, settings>>

\* Of their own accord: the datapath packets, a controller requests.
PeerSends(i) ==
    /\ Live(i) /\ s.rc[i].vconn.greeted /\ Len(s.rc[i].vconn.rx) < Room /\ sends < MaxSends
    /\ \/ i = "local" /\ Arrives(i, Msg("PACKET_IN", 0))
       \/ i = "remote" /\ Arrives(i, Msg("REQUEST", RequestXid))
       \/ /\ i = "remote" /\ Len(s.rc[i].txq) < MaxTxq
          /\ Arrives(i, Msg("EXPERIMENTER", RequestXid))
    /\ sends' = sends + 1
    /\ UNCHANGED <<peer, faults, settings>>

\* A program that stops reading and writing, for a while or for good.
Stall(p) ==
    /\ peer[p] = "up" /\ faults < MaxFaults
    /\ peer' = [peer EXCEPT ![p] = "stalled"] /\ faults' = faults + 1
    /\ UNCHANGED <<s, sends, settings>>

\* A host that disappears, and with it its end of a connection.  The datapath
\* runs on the host of the secure channel, which closes the socket with it.
Fail(p) ==
    /\ peer[p] # "gone" /\ faults < MaxFaults
    /\ peer' = [peer EXCEPT ![p] = "gone"] /\ faults' = faults + 1
    /\ s' = [s EXCEPT !.rc = [i \in Halves |->
              IF s.rc[i].vconn # NoVconn /\ s.rc[i].name = p
              THEN [s.rc[i] EXCEPT !.vconn.dead = TRUE, !.vconn.reset = i = "local"]
              ELSE s.rc[i]]]
    /\ UNCHANGED <<sends, settings>>

Return(p) ==
    /\ peer[p] # "up"
    /\ peer' = [peer EXCEPT ![p] = "up"]
    /\ UNCHANGED <<s, faults, sends, settings>>

\* The host of the secure channel learns that a connection is no more.
Reset(i) ==
    /\ s.rc[i].vconn # NoVconn
    /\ s.rc[i].vconn.dead /\ ~s.rc[i].vconn.reset /\ s.rc[i].vconn.state # "CONNECTING"
    /\ s' = [s EXCEPT !.rc[i].vconn.reset = TRUE]
    /\ UNCHANGED <<peer, faults, sends, settings>>

\* A second passes, in which the process and the peers that are up have done
\* what they had to do.
Quiet == ~Woken /\ \A i \in Halves : ~CanRead(i) /\ (Live(i) => s.rc[i].vconn.greeted)

Tick ==
    /\ Quiet
    /\ s' = [s EXCEPT !.rc = [i \in Halves |-> Aged(s.rc[i])],
                      !.epoch = [k \in DOMAIN @ |-> Least(LastAge, @[k] + 1)]]
    /\ sends' = 0
    /\ UNCHANGED <<peer, faults, settings>>

---------------------------------------------------------------------------
Init ==
    /\ settings \in Settings
    /\ peer = [p \in Peers |-> "up"] /\ faults = 0 /\ sends = 0
    /\ LET started == [rc |-> [local |-> rconn_create(0, settings.max_backoff),
                               remote |-> rconn_create(settings.probe_interval,
                                                       settings.max_backoff)],
                       rxbuf |-> [i \in Halves |-> NoMsg], n_txq |-> [i \in Halves |-> 0],
                       wake |-> FALSE, index |-> 1,
                       epoch |-> [k \in DOMAIN settings.controllers |-> 0]]
       IN  s = rconn_connect(rconn_connect(started, "local", Datapath, "OK"),
                             "remote", settings.controllers[1], "OK")

Next ==
    \/ main
    \/ Tick
    \/ \E i \in Halves : PeerGreets(i) \/ PeerReads(i) \/ PeerSends(i) \/ Reset(i)
    \/ \E p \in Named : Stall(p) \/ Fail(p) \/ Return(p)

\* The process runs when poll_block returns, time passes, peers that are up
\* greet and read.  Written out, as weak fairness of each of these actions; a
\* loop that spins without changing anything takes no step.
Runs == s.rc["remote"].state # "VOID" /\ Woken /\ Turns # {s}

Fairness ==
    /\ []<>~Runs \/ []<><<main>>_vars
    /\ []<>~Quiet \/ []<><<Tick>>_vars
    /\ \A i \in Halves :
         /\ []<>~(Live(i) /\ ~s.rc[i].vconn.greeted) \/ []<><<PeerGreets(i)>>_vars
         /\ []<>~CanRead(i) \/ []<><<PeerReads(i)>>_vars

Spec == Init /\ [][Next]_vars /\ Fairness

---------------------------------------------------------------------------
Connected == rconn_is_connected(s, "remote")

\* The counter of each half of the relay is the number of its messages that
\* wait in the other's send queue, and that is at most one: flush_queue and
\* try_send give back exactly what rconn_send took.  A connection that is not
\* up has an empty queue, so that what is sent on the next one was accepted
\* for it.
QueuedExact ==
    \A i \in Halves :
        /\ s.n_txq[i] = Owned(s.rc[Other(i)].txq, i)
        /\ s.n_txq[i] <= 1
        /\ ~rconn_is_connected(s, i) => s.rc[i].txq = <<>>

\* With the datapath and one controller from some time on up, and its version
\* ours, the channel is again and again connected: backing off and fail-over
\* find it.
Reconnects ==
    \A c \in {d \in Controllers : Version[d] >= OFP_VERSION} :
        <>[](c \in Named /\ peer[c] = "up" /\ peer[Datapath] = "up") => []<>Connected

\* With probes, what the datapath says is not held up for ever behind a
\* controller that has stopped: one that neither reads nor writes (Stall).
RelayDrains == settings.probe_interval > 0 => []<>(s.rxbuf["local"] = NoMsg)

\* rconn_run_wait: poll_block wakes up "when rconn_run() should be called", so
\* that the process never sleeps while a connection that is being made can go
\* on: the peer has answered, or its hello has come.
ConnectionsWatched ==
    \A i \in Halves : s.rc[i].state = "CONNECTING"
                         /\ vconn_wait(s.rc[i].vconn, "CONNECT", Answers(s.rc[i].vconn)) => Woken
===========================================================================
