------------------------------- MODULE Rconn -------------------------------
(***************************************************************************)
(* A reliable connection (struct rconn, lib/rconn.c).  The functions take  *)
(* the memory s of the process that owns the connections to the memory     *)
(* they leave behind: s.rc holds the connections, s.n_txq the counters     *)
(* that queued messages point to, s.wake whether poll_immediate_wake has   *)
(* been called.  Times in seconds are kept as ages, and the deadline of a  *)
(* back-off as what is left of it.                                         *)
(***************************************************************************)
EXTENDS Vconn, FiniteSets, SequencesExt

CONSTANT LastAge   \* ages from here on are not told apart

ASSUME RconnAssumption == LastAge \in Nat

Never == -1        \* TIME_MAX as a deadline
Passed == 0        \* a deadline of the past, such as TIME_MIN

Least(x, y) == IF x < y THEN x ELSE y
AtLeast(x, y) == IF x > y THEN x ELSE y

rconn_create(probe_interval, max_backoff) ==
    [state |-> "VOID", entered |-> 0, vconn |-> NoVconn, name |-> "void",
     txq |-> <<>>, backoff |-> 0, max_backoff |-> max_backoff, deadline |-> Passed,
     received |-> 0, probe_interval |-> probe_interval, idle_echo_xid |-> 0]

is_connected_state(state) == state \in {"ACTIVE", "IDLE"}
rconn_is_connected(s, r) == is_connected_state(s.rc[r].state)

state_transition(rc, state) == [rc EXCEPT !.state = state, !.entered = 0]

\* timed_out, with the timeouts of the states.  probe_interval 0: no probes.
timed_out(rc) ==
    CASE rc.state = "BACKOFF" -> rc.entered >= rc.backoff
      [] rc.state = "CONNECTING" -> rc.entered >= AtLeast(1, rc.backoff)
      [] rc.state = "ACTIVE" -> /\ rc.probe_interval > 0
                                /\ Least(rc.received, rc.entered) >= rc.probe_interval
      [] rc.state = "IDLE" -> rc.entered >= rc.probe_interval
      [] OTHER -> FALSE

---------------------------------------------------------------------------
\* How many messages of q have a pointer to the counter o.
Owned(q, o) == Cardinality({k \in DOMAIN q : q[k].owner = o})

\* --*n_queued for the messages of q.
Uncounted(n_txq, q) == [o \in DOMAIN n_txq |-> n_txq[o] - Owned(q, o)]

\* Mutant: the messages are dropped, their counters are not told.
FlushUncounted(s, r) == [s EXCEPT !.rc[r].txq = <<>>]

flush_queue(s, r) ==
    IF s.rc[r].txq = <<>> THEN s
    ELSE [s EXCEPT !.n_txq = Uncounted(@, s.rc[r].txq), !.rc[r].txq = <<>>, !.wake = TRUE]

\* disconnect of a connection that is to be reliable
disconnect(s, r) ==
    LET rc == s.rc[r]
        wait == IF rc.deadline = Passed THEN 1
                ELSE Least(rc.max_backoff, AtLeast(1, 2 * rc.backoff))
        flushed == IF rc.state \in {"CONNECTING", "ACTIVE", "IDLE"} THEN flush_queue(s, r) ELSE s
    IN  [flushed EXCEPT !.rc[r] = state_transition([@ EXCEPT !.vconn = NoVconn, !.backoff = wait,
                                                             !.deadline = wait], "BACKOFF")]

\* open: what vconn_open returns
reconnect(s, r, open) ==
    LET rc == s.rc[r]
    IN  IF open = "OK"
        THEN [s EXCEPT !.rc[r] = state_transition([rc EXCEPT !.vconn = vconn_open(rc.name),
                                                             !.deadline = rc.backoff],
                                                  "CONNECTING")]
        ELSE disconnect([s EXCEPT !.rc[r].deadline = Never], r)

rconn_disconnect(s, r) ==
    IF s.rc[r].state = "VOID" THEN s
    ELSE [s EXCEPT !.rc[r] = state_transition([@ EXCEPT !.vconn = NoVconn, !.name = "void",
                                                        !.backoff = 0, !.deadline = Passed],
                                              "VOID")]

rconn_connect(s, r, name, open) ==
    reconnect([rconn_disconnect(s, r) EXCEPT !.rc[r].name = name], r, open)

---------------------------------------------------------------------------
\* try_send: the first message b of the queue.  sent: what vconn_send returns
TrySent(s, r, b, sent) ==
    LET kept == [s EXCEPT !.rc[r].vconn = sent.vconn, !.rc[r].idle_echo_xid = 0]
    IN  CASE sent.ret = "OK" ->
               [ret |-> "OK",
                s |-> [kept EXCEPT !.rc[r].idle_echo_xid = b.xid, !.rc[r].txq = Tail(@),
                                   !.n_txq = Uncounted(@, <<b>>)]]
          [] sent.ret = "EAGAIN" -> [ret |-> "EAGAIN", s |-> kept]
          [] sent.ret = "ERROR" -> [ret |-> "ERROR", s |-> disconnect(kept, r)]

try_send(s, r) ==
    LET b == Head(s.rc[r].txq)
    IN  TrySent(s, r, b, vconn_send(s.rc[r].vconn, [type |-> b.type, xid |-> b.xid, ver |-> b.ver]))

\* As long as the queue has messages and try_send takes them
Drained(s, r) ==
    FoldLeft(LAMBDA sent, b : IF sent.ret = "OK" /\ sent.s.rc[r].txq # <<>>
                              THEN try_send(sent.s, r) ELSE sent,
             [ret |-> "OK", s |-> s], s.rc[r].txq).s

do_tx_work(s, r) ==
    LET t == Drained(s, r)
    IN  IF s.rc[r].txq = <<>> THEN s
        ELSE IF t.rc[r].txq = <<>> THEN [t EXCEPT !.wake = TRUE] ELSE t

\* owner: the counter n_queued points to, or "none"
rconn_send(s, r, m, owner) ==
    LET b == [type |-> m.type, xid |-> m.xid, ver |-> m.ver, owner |-> owner]
        counted == IF owner = "none" THEN s ELSE [s EXCEPT !.n_txq[owner] = @ + 1]
        queued == [counted EXCEPT !.rc[r].txq = Append(@, b)]
    IN  IF ~rconn_is_connected(s, r) THEN [ret |-> "ENOTCONN", s |-> s]
        ELSE [ret |-> "OK",
              s |-> IF Len(queued.rc[r].txq) = 1 THEN try_send(queued, r).s ELSE queued]

\* What rconn_recv makes of a message.
Heard(rc, v, m) ==
    LET heard == [rc EXCEPT !.vconn = v, !.received = 0]
        answered == m.type = "ECHO_REPLY" => rc.idle_echo_xid \in {0, m.xid}
        probed == IF m.type = "ECHO_REPLY" THEN [heard EXCEPT !.idle_echo_xid = 0] ELSE heard
    IN  IF rc.state # "IDLE" THEN heard
        ELSE IF answered THEN state_transition(probed, "ACTIVE") ELSE probed

Received(s, r, got) ==
    CASE got.ret = "OK" -> [s |-> [s EXCEPT !.rc[r] = Heard(@, got.vconn, got.msg)], msg |-> got.msg]
      [] got.ret = "EAGAIN" -> [s |-> [s EXCEPT !.rc[r].vconn = got.vconn], msg |-> NoMsg]
      [] got.ret = "ERROR" -> [s |-> disconnect(s, r), msg |-> NoMsg]

\* A message, or none, and the memory rconn_recv leaves behind.
rconn_recv(s, r) ==
    IF rconn_is_connected(s, r) THEN Received(s, r, vconn_recv(s.rc[r].vconn))
    ELSE [s |-> s, msg |-> NoMsg]

---------------------------------------------------------------------------
(* The run functions of the states.  env: what vconn_open and the connect
   function of the transport return, and the transaction id of a probe. *)

\* ret: what vconn_connect returns
ConnectReturned(s, r, ret) ==
    CASE ret = "OK" -> [s EXCEPT !.rc[r] = state_transition(@, "ACTIVE")]
      [] ret = "ERROR" -> disconnect(s, r)
      [] ret = "EAGAIN" -> IF timed_out(s.rc[r])
                           THEN disconnect([s EXCEPT !.rc[r].deadline = Never], r)
                           ELSE s

Connecting(s, r, c) == ConnectReturned([s EXCEPT !.rc[r].vconn = c.vconn], r, c.ret)
run_CONNECTING(s, r, env) == Connecting(s, r, vconn_connect(s.rc[r].vconn, env.connect))

run_ACTIVE(s, r, env) ==
    IF timed_out(s.rc[r])
    THEN rconn_send([s EXCEPT !.rc[r] = state_transition(@, "IDLE")], r,
                    Msg("ECHO_REQUEST", env.xid), "none").s
    ELSE do_tx_work(s, r)

\* Mutant: a connection that does not answer is waited for.
WaitIdle(s, r) == do_tx_work(s, r)

run_IDLE(s, r) == IF timed_out(s.rc[r]) THEN disconnect(s, r) ELSE do_tx_work(s, r)

Run(s, r, env) ==
    CASE s.rc[r].state = "VOID" -> s
      [] s.rc[r].state = "BACKOFF" -> IF timed_out(s.rc[r]) THEN reconnect(s, r, env.open) ELSE s
      [] s.rc[r].state = "CONNECTING" -> run_CONNECTING(s, r, env)
      [] s.rc[r].state = "ACTIVE" -> run_ACTIVE(s, r, env)
      [] s.rc[r].state = "IDLE" -> run_IDLE(s, r)

\* Until the state stays the same. A connection that has begun to back off waits
\* a second or more, and one that has become active or idle is not due for a
\* probe, so that the third round is the last: BACKOFF, CONNECTING, ACTIVE or
\* ACTIVE, IDLE, BACKOFF.
Again(run, r, env) ==
    LET t == Run(run.s, r, env)
    IN  IF run.done THEN run ELSE [s |-> t, done |-> t.rc[r].state = run.s.rc[r].state]

rconn_run(s, r, env) ==
    Again(Again(Again([s |-> s, done |-> FALSE], r, env), r, env), r, env).s

---------------------------------------------------------------------------
\* Whether poll_block returns for the connection: its timer, room for its queue.
rconn_run_wait(rc) ==
    \/ timed_out(rc)
    \/ is_connected_state(rc.state) /\ rc.txq # <<>> /\ vconn_wait(rc.vconn, "SEND", FALSE)

rconn_recv_wait(rc, answers) == rc.vconn # NoVconn /\ vconn_wait(rc.vconn, "RECV", answers)

\* A second passes.
Aged(rc) ==
    [rc EXCEPT !.entered = Least(LastAge, @ + 1), !.received = Least(LastAge, @ + 1),
               !.deadline = IF @ = Never THEN @ ELSE AtLeast(Passed, @ - 1)]
===========================================================================
