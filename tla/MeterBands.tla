----------------------------- MODULE MeterBands -----------------------------
(***************************************************************************)
(* The bands of one meter (udatapath/meter_entry.c): a token bucket per    *)
(* band, filled by dp_run when it sees a new second, emptied by the        *)
(* packets that meter_entry_apply puts through the meter.  A packet takes  *)
(* tokens from every band that has them; of the bands that do not, the one *)
(* with the highest rate decides what happens to it.                       *)
(*                                                                         *)
(* Time is counted in ticks, Second of them to the second.  One kilo-unit  *)
(* (1000 bits, or the 1000 tokens a packet costs) is Kilo tokens, and      *)
(* Width is the number of values of the code's uint32_t.                   *)
(***************************************************************************)
EXTENDS Naturals, Sequences, FiniteSets, FiniteSetsExt

CONSTANTS Rate, Burst, MaxBands, \* the rates and bursts of the meter_mods, and their bands
          PrecLevel,             \* prec_level of the remark bands
          Size,                  \* packet sizes, in bits
          Drop,                  \* the drop precedence bits of the packets' DSCP
          Kilo, Width, Second,
          MaxTime,               \* bound on the clock, in ticks
          MaxForwarded           \* the history of forwarded tokens saturates here

Flag == {"KBPS", "PKTPS", "BURST"}

BandType == {"DROP", "DSCP_REMARK", "EXPERIMENTER"}

(* prec_level means something in a remark band only.                       *)
Band ==
    {b \in [type : BandType, rate : Rate, burst_size : Burst, prec_level : PrecLevel \union {0}] :
        b.type # "DSCP_REMARK" => b.prec_level = 0}

(* A packet that is not IP has no DSCP: its drop is NonIP.                 *)
NonIP == 8
Packet == [size : Size, drop : Drop]

ASSUME MeterBandsAssumption ==
    /\ Rate \subseteq Nat /\ Burst \subseteq Nat
    /\ Size \subseteq Nat \ {0} /\ PrecLevel \subseteq Nat
    /\ Drop \subseteq 0 .. 7 \union {NonIP}
    /\ {MaxBands, Kilo, Width, Second, MaxTime, MaxForwarded} \subseteq Nat \ {0}

VARIABLES flags, bands,     \* config
          tokens, last_fill,
          now, last_timeout,
          forwarded,        \* size, in tokens, of the packets not dropped
          marked            \* precedence of the last packet, before and after

vars == <<flags, bands, tokens, last_fill, now, last_timeout, forwarded, marked>>

config == <<flags, bands>>

(* meter_entry_create, in the second after the one dp_run saw last or      *)
(* before it sees the next                                                 *)
Init ==
    /\ flags \in SUBSET Flag
    /\ bands \in UNION {[1 .. n -> Band] : n \in 1 .. MaxBands}
    /\ now \in 0 .. 2 * Second - 1
    /\ tokens = [i \in DOMAIN bands |-> 0]
    /\ last_fill = [i \in DOMAIN bands |-> now]
    /\ last_timeout = 0
    /\ forwarded = 0
    /\ marked = <<0, 0>>

Cost(pkt) == IF "KBPS" \in flags THEN pkt.size ELSE Kilo

CanConsume(i, pkt) ==
    /\ flags \intersect {"KBPS", "PKTPS"} # {}
    /\ tokens[i] >= Cost(pkt)

(* Mutant: the loop stops at the first band that has the tokens.           *)
ConsumeFirstOnly(pkt) ==
    [i \in DOMAIN bands |->
        IF CanConsume(i, pkt) /\ \A j \in 1 .. i - 1 : ~CanConsume(j, pkt)
        THEN tokens[i] - Cost(pkt) ELSE tokens[i]]

consume_tokens(pkt) ==
    [i \in DOMAIN bands |->
        IF CanConsume(i, pkt) THEN tokens[i] - Cost(pkt) ELSE tokens[i]]

(* Mutant: the lowest rate decides, not the highest.                       *)
ChooseLowest(pkt) ==
    LET short == {i \in DOMAIN bands : ~CanConsume(i, pkt) /\ bands[i].rate > 0}
    IN  {i \in short : \A j \in short : /\ bands[j].rate >= bands[i].rate
                                        /\ bands[j].rate = bands[i].rate => j >= i}

(* The band that decides, as a set of one, or none.  A band of rate 0      *)
(* never does.                                                             *)
choose_band(pkt) ==
    LET short == {i \in DOMAIN bands : ~CanConsume(i, pkt) /\ bands[i].rate > 0}
    IN  {i \in short : \A j \in short : /\ bands[j].rate =< bands[i].rate
                                        /\ bands[j].rate = bands[i].rate => j >= i}

(* Mutant: high precedence is raised too, into the class bits.             *)
RemarkAny(drop, level) == IF drop \in {2, 4, 6} THEN drop + 2 * level ELSE drop

(* Only low (2) and medium (4) precedence is raised, and never past high.  *)
Remark(drop, level) ==
    IF \/ drop = 2 /\ level =< 2
       \/ drop = 4 /\ level =< 1
    THEN drop + 2 * level ELSE drop

meter_entry_apply(pkt) ==
    LET b == choose_band(pkt)
        drop == \E i \in b : bands[i].type = "DROP"
        out == {i \in b : bands[i].type = "DSCP_REMARK"}
    IN  /\ tokens' = consume_tokens(pkt)
        /\ forwarded' = IF drop THEN forwarded
                        ELSE Min({forwarded + Cost(pkt), MaxForwarded})
        /\ marked' = IF drop THEN marked ELSE
                     IF out = {} THEN <<pkt.drop, pkt.drop>> ELSE
                     <<pkt.drop, Remark(pkt.drop, bands[CHOOSE i \in out : TRUE].prec_level)>>
        /\ UNCHANGED <<config, last_fill, now, last_timeout>>

BucketSize(i) ==
    ((IF "BURST" \in flags THEN bands[i].burst_size ELSE bands[i].rate) * Kilo) % Width

(* The level of the bucket after refill_bucket: short of one token         *)
(* (KBPS) or of one packet (otherwise) it keeps its level.                 *)
Refilled(i) ==
    LET filled == tokens[i] + (now - last_fill[i]) * ((bands[i].rate * Kilo) % Width)
        least == IF "KBPS" \in flags THEN 1 ELSE Kilo
    IN  IF filled >= least THEN Min({filled, BucketSize(i)}) ELSE tokens[i]

refill_bucket ==
    /\ tokens' = [i \in DOMAIN bands |-> Refilled(i)]
    /\ last_fill' = [i \in DOMAIN bands |-> now]

(* The first dp_run of a new second.                                       *)
dp_run ==
    /\ now \div Second # last_timeout
    /\ last_timeout' = now \div Second
    /\ refill_bucket
    /\ UNCHANGED <<config, now, forwarded, marked>>

Tick ==
    /\ now < MaxTime
    /\ now' = now + 1
    /\ UNCHANGED <<config, tokens, last_fill, last_timeout, forwarded, marked>>

Next ==
    \/ \E pkt \in Packet : meter_entry_apply(pkt)
    \/ dp_run
    \/ Tick

Spec == Init /\ [][Next]_vars

-----------------------------------------------------------------------------
Metered == flags \intersect {"KBPS", "PKTPS"} # {}

(* Band i has the highest rate of the meter, alone.                        *)
Top(i) == \A j \in DOMAIN bands \ {i} : bands[j].rate < bands[i].rate

(* A meter whose band of highest rate drops, without OFPMF_BURST, forwards *)
(* no more than that rate for every second that began since it was         *)
(* created, however late dp_run comes in each second and whatever the      *)
(* other bands do (choose_band, refill_bucket, dp_run).                    *)
DropLimits ==
    Metered /\ "BURST" \notin flags =>
        \A i \in DOMAIN bands :
            Top(i) /\ bands[i].type = "DROP" /\ bands[i].rate > 0
                => forwarded =< bands[i].rate * Kilo * (now \div Second)

(* With OFPMF_PKTPS alone, a band runs short only when every band of       *)
(* lower rate already has: choose_band applies the band of the highest     *)
(* rate that the flow exceeds.                                             *)
BandsOrdered ==
    (flags = {"PKTPS"} /\ \A i \in DOMAIN bands : bands[i].rate * Kilo < Width) =>
        \A i, j \in DOMAIN bands :
            bands[i].rate =< bands[j].rate /\ tokens[j] < Kilo => tokens[i] < Kilo

(* Remarking keeps a valid DSCP: the class bits of the packet stay, and a  *)
(* packet of low, medium or high precedence leaves with one of these, no   *)
(* lower than it came (the DSCP_REMARK case of meter_entry_apply).         *)
RemarkValid ==
    /\ marked[2] >= marked[1]
    /\ marked[1] \in {2, 4, 6} => marked[2] \in {2, 4, 6}
    /\ marked[1] \notin {2, 4} => marked[2] = marked[1]
=============================================================================
