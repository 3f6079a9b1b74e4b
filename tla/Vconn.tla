------------------------------- MODULE Vconn -------------------------------
(***************************************************************************)
(* An active OpenFlow connection (struct vconn, lib/vconn.c) over a stream *)
(* socket (lib/vconn-stream.c), with what the two directions of the socket *)
(* hold: tx and rx the messages in flight, greeted whether the peer has    *)
(* sent its hello, dead whether the peer has gone since, reset whether the *)
(* host has learnt of that.  The functions take a connection to the        *)
(* connection they leave behind; ret is "OK", "EAGAIN" or "ERROR".         *)
(***************************************************************************)
EXTENDS Integers, Sequences

CONSTANTS
    OFP_VERSION,   \* the only version rconn_connect asks for
    Room           \* messages a direction of a connection holds

ASSUME VconnAssumption == OFP_VERSION \in Nat /\ Room \in Nat \ {0}

NoVconn == [state |-> "CLOSED"]
NoMsg == [type |-> "NONE"]

\* Types that do_recv takes from a peer of any version, and those it ignores
\* until a version has been agreed on.
AnyVersion == {"HELLO", "ERROR", "ECHO_REQUEST", "ECHO_REPLY", "EXPERIMENTER"}
Async == {"PACKET_IN"}

Hello(version) == [type |-> "HELLO", xid |-> 0, ver |-> version]
Msg(type, xid) == [type |-> type, xid |-> xid, ver |-> OFP_VERSION]

vconn_open(name) ==
    [state |-> "CONNECTING", version |-> -1, peer |-> name,
     tx |-> <<>>, rx |-> <<>>, greeted |-> FALSE, dead |-> FALSE, reset |-> FALSE]

---------------------------------------------------------------------------
\* stream_send: one message, if the last one is on its way.  A reset finds none
\* waiting: poll_block has run stream_do_tx by then, which gave it up.
stream_send(v, m) ==
    IF v.reset THEN [ret |-> "ERROR", vconn |-> v]
    ELSE IF Len(v.tx) >= Room THEN [ret |-> "EAGAIN", vconn |-> v]
    ELSE [ret |-> "OK", vconn |-> [v EXCEPT !.tx = Append(@, m)]]

\* Asynchronous messages that come before a version has been agreed on
Ignored(v, m) == m.ver # v.version /\ v.version < 0 /\ m.type \in Async

do_recv(v) ==
    LET left == {k \in DOMAIN v.rx : ~Ignored(v, v.rx[k])}
        first == CHOOSE k \in left : \A l \in left : k <= l
        m == v.rx[first]
        rest == [v EXCEPT !.rx = SubSeq(@, first + 1, Len(@))]
    IN  IF left = {} THEN [ret |-> IF v.reset THEN "ERROR" ELSE "EAGAIN",
                           vconn |-> [v EXCEPT !.rx = <<>>], msg |-> NoMsg]
        ELSE IF m.ver = v.version \/ m.type \in AnyVersion
        THEN [ret |-> "OK", vconn |-> rest, msg |-> m]
        ELSE [ret |-> "ERROR", vconn |-> rest, msg |-> NoMsg]

---------------------------------------------------------------------------
(* The states of the handshake.  A function whose state is not the current
   one leaves the connection alone, so that the loop of vconn_connect is
   their composition. *)

Moved(v, ret, next) ==
    CASE ret = "OK" -> [v EXCEPT !.state = next]
      [] ret = "EAGAIN" -> v
      [] ret = "ERROR" -> [v EXCEPT !.state = "DISCONNECTED"]

\* reply: what the connect function of the transport returns
vcs_connecting(v, reply) == IF v.state = "CONNECTING" THEN Moved(v, reply, "SEND_HELLO") ELSE v

vcs_send_hello(v) ==
    LET sent == stream_send(v, Hello(OFP_VERSION))
    IN  IF v.state = "SEND_HELLO" THEN Moved(sent.vconn, sent.ret, "RECV_HELLO") ELSE v

vcs_recv_hello(v) ==
    LET got == do_recv(v)
        version == IF got.msg.ver < OFP_VERSION THEN got.msg.ver ELSE OFP_VERSION
    IN  IF v.state # "RECV_HELLO" THEN v
        ELSE IF got.ret # "OK" THEN Moved(got.vconn, got.ret, "RECV_HELLO")
        ELSE IF got.msg.type # "HELLO" THEN Moved(got.vconn, "ERROR", "RECV_HELLO")
        ELSE [got.vconn EXCEPT !.version = version,
                               !.state = IF version < OFP_VERSION THEN "SEND_ERROR"
                                                                  ELSE "CONNECTED"]

vcs_send_error(v) ==
    LET sent == stream_send(v, Msg("ERROR", 0))
    IN  IF v.state = "SEND_ERROR" THEN Moved(sent.vconn, sent.ret, "DISCONNECTED") ELSE v

vconn_connect(v, reply) ==
    LET w == vcs_send_error(vcs_recv_hello(vcs_send_hello(vcs_connecting(v, reply))))
    IN  [vconn |-> w, ret |-> CASE w.state = "CONNECTED" -> "OK"
                                [] w.state = "DISCONNECTED" -> "ERROR"
                                [] OTHER -> "EAGAIN"]

\* What an rconn asks of a connection that is complete.
vconn_recv(v) == do_recv(v)
vconn_send(v, m) == stream_send(v, m)

\* vconn_wait(v, WAIT_RECV or WAIT_SEND): whether poll_block returns at once.
\* answers: the peer's host answers a connection request
vconn_wait(v, wait, answers) ==
    LET for == CASE v.state \in {"SEND_HELLO", "SEND_ERROR"} -> "SEND"
                 [] v.state = "RECV_HELLO" -> "RECV"
                 [] v.state = "CONNECTED" -> wait
                 [] OTHER -> v.state
    IN  \/ for = "DISCONNECTED"
        \/ for = "CONNECTING" /\ answers
        \/ for = "SEND" /\ (v.reset \/ Len(v.tx) < Room)
        \/ for = "RECV" /\ (v.reset \/ v.rx # <<>>)
===========================================================================
