---------------------------- MODULE Controllers ----------------------------
(***************************************************************************)
(* The controller connections of the datapath (struct remote,              *)
(* udatapath/datapath.c): their roles, the generation id that orders the   *)
(* elections of a master, their asynchronous configuration, and which of   *)
(* them an asynchronous message reaches.                                   *)
(***************************************************************************)
EXTENDS OpenFlow, Integers, FiniteSets

CONSTANTS Remote, NoRemote, \* connections, and none
          Width,            \* values of the uint64_t generation_id
          AsyncConfig,      \* the configurations the controllers set
          MaxEpoch          \* bound on the elections

(* OFPR_*, OFPPR_* and OFPRR_*                                             *)
Reason ==
    [PACKET_IN    |-> {"NO_MATCH", "ACTION", "INVALID_TTL"},
     PORT_STATUS  |-> {"ADD", "DELETE", "MODIFY"},
     FLOW_REMOVED |-> {"IDLE_TIMEOUT", "HARD_TIMEOUT", "DELETE", "GROUP_DELETE", "METER_DELETE"}]

(* A mask is the set of reasons whose bit is on; 1 is for the master and   *)
(* equals, 2 for slaves.                                                   *)
Config == [DOMAIN Reason -> [1 .. 2 -> SUBSET UNION {Reason[t] : t \in DOMAIN Reason}]]

(* dp_ports.h: physical ports are below 256, the local port is not.        *)
Message ==
    UNION {[type : {t}, reason : Reason[t], port : {"PHYSICAL", "LOCAL"}] : t \in DOMAIN Reason}

ASSUME ControllersAssumption ==
    /\ NoRemote \notin Remote
    /\ Width \in Nat \ {0} /\ Width % 2 = 0
    /\ AsyncConfig \subseteq Config
    /\ MaxEpoch \in Nat

VARIABLES role,          \* of the connections there are
          config,        \* their asynchronous configuration
          generation_id,
          epoch,         \* the election generation_id stands for
          sent           \* the message the last step broadcast, and to whom

rolesVars == <<role, config, generation_id, epoch, sent>>

Connected == DOMAIN role

Nothing == [msg |-> NoRemote, to |-> {}]

(* dp_new                                                                  *)
RolesInit ==
    /\ role = [r \in {} |-> "EQUAL"]
    /\ config = [r \in {} |-> {}]
    /\ generation_id = Width - 1
    /\ epoch = -1
    /\ sent = Nothing

AllOn == [t \in DOMAIN Reason |-> [i \in 1 .. 2 |-> Reason[t]]]

remote_create(r) ==
    /\ r \notin Connected
    /\ role' = [s \in Connected \union {r} |-> IF s = r THEN "EQUAL" ELSE role[s]]
    /\ config' = [s \in Connected \union {r} |-> IF s = r THEN AllOn ELSE config[s]]
    /\ sent' = Nothing /\ UNCHANGED <<generation_id, epoch>>

remote_destroy(r) ==
    /\ r \in Connected
    /\ role' = [s \in Connected \ {r} |-> role[s]]
    /\ config' = [s \in Connected \ {r} |-> config[s]]
    /\ sent' = Nothing /\ UNCHANGED <<generation_id, epoch>>

(* Mutant: the ids are compared as they are, not by their difference.      *)
StaleUnsigned(id) == id < generation_id

(* dp_check_generation_id: the difference, as a signed number, is negative *)
Stale(id) == (id - generation_id) % Width >= Width \div 2

(* Half the id space either way of the last election: a request from       *)
(* further off cannot be told from one on the other side.                  *)
Election == {e \in 0 .. MaxEpoch : e - epoch \in -(Width \div 2) .. (Width \div 2) - 1}

(* Mutant: the master is not demoted.                                      *)
MasterKeepsOthers(r, e) ==
    /\ r \in Connected /\ ~Stale(e % Width)
    /\ generation_id' = e % Width /\ epoch' = e
    /\ role' = [role EXCEPT ![r] = "MASTER"]
    /\ sent' = Nothing /\ UNCHANGED config

(* dp_handle_role_request with OFPCR_ROLE_MASTER, for election e           *)
RoleMaster(r, e) ==
    /\ r \in Connected /\ ~Stale(e % Width)
    /\ generation_id' = e % Width /\ epoch' = e
    /\ role' = [s \in Connected |-> IF s = r THEN "MASTER"
                                    ELSE IF role[s] = "MASTER" THEN "SLAVE" ELSE role[s]]
    /\ sent' = Nothing /\ UNCHANGED config

(* Mutant: a slave's request does not move the generation.                 *)
SlaveUncounted(r, e) ==
    /\ r \in Connected /\ ~Stale(e % Width)
    /\ epoch' = e
    /\ role' = [role EXCEPT ![r] = "SLAVE"]
    /\ sent' = Nothing /\ UNCHANGED <<config, generation_id>>

RoleSlave(r, e) ==
    /\ r \in Connected /\ ~Stale(e % Width)
    /\ generation_id' = e % Width /\ epoch' = e
    /\ role' = [role EXCEPT ![r] = "SLAVE"]
    /\ sent' = Nothing /\ UNCHANGED config

(* dp_handle_role_request with OFPCR_ROLE_EQUAL, whatever the generation   *)
RoleEqual(r) ==
    /\ r \in Connected
    /\ role' = [role EXCEPT ![r] = "EQUAL"]
    /\ sent' = Nothing /\ UNCHANGED <<config, generation_id, epoch>>

(* A stale request is refused, NOCHANGE and GET_ASYNC only reply.          *)
RoleUnchanged(e) ==
    /\ Connected # {} /\ Stale(e % Width)
    /\ sent' = Nothing /\ UNCHANGED <<role, config, generation_id, epoch>>

SetAsync(r, c) ==
    /\ r \in Connected
    /\ config' = [config EXCEPT ![r] = c]
    /\ sent' = Nothing /\ UNCHANGED <<role, generation_id, epoch>>

On(r, type, i, reason) == reason \in config[r][type][i]

(* What a physical port's number in an OFPT_PORT_STATUS is as the reason   *)
(* of an OFPT_FLOW_REMOVED, which the code reads in the same place: zero,  *)
(* IDLE_TIMEOUT.  The local port's is no reason at all.                    *)
FallsThrough(r, msg) ==
    msg.port = "PHYSICAL" => On(r, "FLOW_REMOVED", 1, "IDLE_TIMEOUT")

(* Mutant: slaves are asked for the masters' mask.                         *)
ReachesFirstMask(r, msg) ==
    /\ role[r] # "SLAVE" \/ msg.type = "PORT_STATUS"
    /\ On(r, msg.type, 1, msg.reason)

(* The conditions send_openflow_buffer puts a remote to                    *)
Reaches(r, msg) ==
    IF role[r] = "SLAVE"
    THEN msg.type = "PORT_STATUS" /\ On(r, msg.type, 2, msg.reason)
    ELSE /\ On(r, msg.type, 1, msg.reason)
         /\ msg.type = "PORT_STATUS" => FallsThrough(r, msg)

(* dp_send_message without a sender: the remotes the message is put to.    *)
(* That the queue of one may be full (TXQ_LIMIT) is not modelled.          *)
send_openflow_buffer(msg) ==
    /\ sent' = [msg |-> msg, to |-> {r \in Connected : Reaches(r, msg)}]
    /\ UNCHANGED <<role, config, generation_id, epoch>>

RolesNext ==
    \/ \E r \in Remote : remote_create(r) \/ remote_destroy(r) \/ RoleEqual(r)
    \/ \E r \in Remote, e \in Election : RoleMaster(r, e) \/ RoleSlave(r, e)
    \/ \E e \in Election : RoleUnchanged(e)
    \/ \E r \in Remote, c \in AsyncConfig : SetAsync(r, c)
    \/ \E msg \in Message : send_openflow_buffer(msg)

RolesSpec == RolesInit /\ [][RolesNext]_rolesVars

-----------------------------------------------------------------------------
Masters == {r \in Connected : role[r] = "MASTER"}

(* Types; generation_id stands for the last election.                      *)
RolesTypeOK ==
    /\ Connected \subseteq Remote /\ role \in [Connected -> Role]
    /\ config \in [Connected -> Config]
    /\ epoch \in -1 .. MaxEpoch /\ generation_id = epoch % Width
    /\ sent \in [msg : Message, to : SUBSET Connected] \union {Nothing}

(* openflow.h:2299: there is at most one master, whatever the order of     *)
(* role requests, disconnections and reconnections.                        *)
AtMostOneMaster == \A r, s \in Masters : r = s

M == INSTANCE Mastership
        WITH master <- IF Masters = {} THEN NoRemote ELSE CHOOSE r \in Masters : TRUE

(* The roles keep the promise of Mastership: the 64-bit comparison of      *)
(* generation ids (dp_check_generation_id) orders the elections as their   *)
(* unbounded numbers do, and nothing but a recent claim makes a master.    *)
MasterElected == M!Spec

(* A request for mastership in an election no older than the last one      *)
(* seen is granted, also when the generation id wraps.                     *)
RecentClaimWins == \A e \in Election : e >= epoch => ~Stale(e % Width)

(* The remotes a message is for: the mask for the role has its reason on,  *)
(* and a slave receives port status only (openflow.h:2307).                *)
WantedBy(msg) ==
    {r \in Connected : /\ role[r] = "SLAVE" => msg.type = "PORT_STATUS"
                       /\ On(r, msg.type, IF role[r] = "SLAVE" THEN 2 ELSE 1, msg.reason)}

(* An OFPT_PACKET_IN or OFPT_FLOW_REMOVED is put to exactly the            *)
(* controllers it is for, by the roles and masks of the moment it is sent, *)
(* and no message to a controller it is not for (send_openflow_buffer).    *)
AsyncDelivered ==
    sent # Nothing =>
        /\ sent.to \subseteq WantedBy(sent.msg)
        /\ sent.msg.type # "PORT_STATUS" => sent.to = WantedBy(sent.msg)

(* openflow.h:2332: port_status_mask is a bitmask of OFPPR_* values: a     *)
(* port status message reaches every controller whose mask has its reason  *)
(* on, whatever its other masks.                                           *)
PortStatusDelivered ==
    sent # Nothing /\ sent.msg.type = "PORT_STATUS" => sent.to = WantedBy(sent.msg)
=============================================================================
