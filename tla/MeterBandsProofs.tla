-------------------------- MODULE MeterBandsProofs --------------------------
(***************************************************************************)
(* Proofs about the bands of a meter, for any number of bands, any rates,  *)
(* packet sizes and width of the counters: what a drop band lets through,  *)
(* the order in which bands run short, and that remarking keeps a valid    *)
(* precedence.                                                             *)
(***************************************************************************)
EXTENDS MeterBands, TLAPS

\* The constants by themselves.
LEMMA ConstantTypes ==
    /\ Rate \subseteq Nat /\ Burst \subseteq Nat /\ Size \subseteq Nat /\ PrecLevel \subseteq Nat
    /\ Kilo \in Nat /\ Kilo > 0 /\ Width \in Nat /\ Width > 0 /\ Second \in Nat /\ Second > 0
    /\ MaxTime \in Nat /\ MaxForwarded \in Nat /\ MaxBands \in Nat
BY MeterBandsAssumption

\* The smaller of two numbers
LEMMA MinOfTwo ==
    ASSUME NEW a \in Nat, NEW b \in Nat
    PROVE  Min({a, b}) = IF a <= b THEN a ELSE b
<1> DEFINE m == IF a <= b THEN a ELSE b
<1>1. m \in {a, b} /\ \A y \in {a, b} : m <= y
  OBVIOUS
<1>2. \A x \in {a, b} : (\A y \in {a, b} : x <= y) => x = m
  OBVIOUS
<1> QED
  BY <1>1, <1>2 DEF Min

\* What is left by a division
LEMMA Remainder ==
    ASSUME NEW a \in Nat, NEW w \in Nat, w > 0
    PROVE  a % w \in Nat /\ a % w <= a /\ (a < w => a % w = a)
<1>1. /\ a = w * (a \div w) + (a % w) /\ a % w \in 0..(w - 1) /\ a \div w \in Nat
  OBVIOUS
<1>2. w * (a \div w) >= 0
  BY <1>1
<1>3. a < w => a \div w = 0
  OBVIOUS
<1> QED
  BY <1>1, <1>2, <1>3

\* Division respects the order.
LEMMA Quotient ==
    ASSUME NEW a \in Nat, NEW b \in Nat, NEW w \in Nat, w > 0, a <= b
    PROVE  a \div w \in Nat /\ a \div w <= b \div w
OBVIOUS

\* Products of numbers are numbers.
LEMMA Product ==
    ASSUME NEW a \in Nat, NEW b \in Nat
    PROVE  a * b \in Nat
OBVIOUS

\* A product grows with its factors.
LEMMA ProductGrows ==
    ASSUME NEW a \in Nat, NEW b \in Nat, NEW c \in Nat, a <= b
    PROVE  a * c <= b * c /\ c * a <= c * b
<1>1. PICK d \in Nat : b = a + d
  BY b - a \in Nat
<1>2. b * c = a * c + d * c /\ c * b = c * a + c * d
  BY <1>1
<1>3. d * c \in Nat /\ c * d \in Nat /\ a * c \in Nat /\ c * a \in Nat
  BY Product
<1> QED
  BY <1>2, <1>3

Types ==
    /\ flags \in SUBSET Flag
    /\ \E n \in 1..MaxBands : bands \in [1..n -> Band]
    /\ tokens \in [DOMAIN bands -> Nat] /\ last_fill \in [DOMAIN bands -> Nat]
    /\ now \in Nat /\ last_timeout \in Nat /\ forwarded \in Nat
    /\ marked \in Nat \X Nat

\* All buckets are filled at the same time, which is not in the future, and hold
\* no more than they can.
FillInv ==
    /\ \A i \in DOMAIN bands : last_fill[i] <= now /\ tokens[i] <= BucketSize(i)
    /\ \A i, j \in DOMAIN bands : last_fill[i] = last_fill[j]
    /\ last_timeout <= now \div Second

\* The fields of a band are numbers.
LEMMA BandFields ==
    ASSUME NEW b \in Band
    PROVE  b.rate \in Nat /\ b.burst_size \in Nat /\ b.prec_level \in Nat
<1>1. b.rate \in Rate /\ b.burst_size \in Burst /\ b.prec_level \in PrecLevel \union {0}
  BY DEF Band
<1>2. Rate \subseteq Nat /\ Burst \subseteq Nat /\ PrecLevel \union {0} \subseteq Nat
  BY MeterBandsAssumption
<1> QED
  BY Zenon, <1>1, <1>2

\* So are those of the bands of the meter, and their tokens.
LEMMA BandTypes ==
    ASSUME Types
    PROVE  /\ \A i \in DOMAIN bands : /\ bands[i] \in Band /\ bands[i].rate \in Nat
                                      /\ bands[i].burst_size \in Nat
                                      /\ bands[i].prec_level \in Nat
                                      /\ bands[i].rate * Kilo \in Nat
                                      /\ BucketSize(i) \in Nat
                                      /\ ("BURST" \notin flags =>
                                             /\ BucketSize(i) = (bands[i].rate * Kilo) % Width
                                             /\ BucketSize(i) <= bands[i].rate * Kilo)
           /\ \A i \in DOMAIN bands : i \in Nat
<1>1. PICK n \in 1..MaxBands : bands \in [1..n -> Band]
  BY DEF Types
<1>2. DOMAIN bands = 1..n /\ \A i \in DOMAIN bands : bands[i] \in Band /\ i \in Nat
  BY <1>1
<1> SUFFICES ASSUME NEW i \in DOMAIN bands
             PROVE  /\ bands[i].rate \in Nat /\ bands[i].burst_size \in Nat
                    /\ bands[i].prec_level \in Nat /\ bands[i].rate * Kilo \in Nat
                    /\ BucketSize(i) \in Nat
                    /\ ("BURST" \notin flags =>
                           /\ BucketSize(i) = (bands[i].rate * Kilo) % Width
                           /\ BucketSize(i) <= bands[i].rate * Kilo)
  BY <1>2
<1>3. bands[i].rate \in Nat /\ bands[i].burst_size \in Nat /\ bands[i].prec_level \in Nat
  BY <1>2, BandFields
<1>4. bands[i].rate * Kilo \in Nat /\ bands[i].burst_size * Kilo \in Nat
  BY <1>3, ConstantTypes
<1>5. /\ (bands[i].rate * Kilo) % Width \in Nat /\ (bands[i].burst_size * Kilo) % Width \in Nat
      /\ (bands[i].rate * Kilo) % Width <= bands[i].rate * Kilo
  BY <1>4, ConstantTypes, Remainder
<1>6. BucketSize(i) = IF "BURST" \in flags THEN (bands[i].burst_size * Kilo) % Width
                                           ELSE (bands[i].rate * Kilo) % Width
  BY DEF BucketSize
<1> QED
  BY <1>3, <1>4, <1>5, <1>6

\* The cost of a packet is a number.
LEMMA CostType ==
    ASSUME NEW pkt \in Packet
    PROVE  Cost(pkt) \in Nat
BY Zenon, ConstantTypes DEF Cost, Packet

\* refill_bucket never fills a bucket past its size, and to just its size where
\* there is no OFPMF_BURST and a full second of the rate is added.
LEMMA RefilledIs ==
    ASSUME Types, FillInv, NEW i \in DOMAIN bands
    PROVE  /\ Refilled(i) \in Nat /\ Refilled(i) <= BucketSize(i)
           /\ /\ "BURST" \notin flags /\ bands[i].rate * Kilo < Width /\ last_fill[i] < now
              => Refilled(i) = bands[i].rate * Kilo
<1> DEFINE a == (bands[i].rate * Kilo) % Width
           d == now - last_fill[i]
           filled == tokens[i] + d * a
           least == IF "KBPS" \in flags THEN 1 ELSE Kilo
           size == BucketSize(i)
<1>1. Refilled(i) = IF filled >= least THEN Min({filled, size}) ELSE tokens[i]
  BY DEF Refilled
<1>2. /\ bands[i].rate \in Nat /\ bands[i].rate * Kilo \in Nat /\ size \in Nat
      /\ "BURST" \notin flags => size = a
  BY BandTypes
<1>3. a \in Nat /\ (bands[i].rate * Kilo < Width => a = bands[i].rate * Kilo)
  BY <1>2, Remainder, ConstantTypes
<1>4. d \in Nat /\ tokens[i] \in Nat /\ tokens[i] <= size
  BY DEF Types, FillInv
<1>5. least \in Nat /\ least <= Kilo /\ Kilo \in Nat /\ Kilo > 0
  BY ConstantTypes
<1> HIDE DEF a, d, size, least
<1>6. d * a \in Nat /\ filled \in Nat
  BY <1>3, <1>4, Product
<1> HIDE DEF filled
<1>7. Min({filled, size}) = IF filled <= size THEN filled ELSE size
  BY <1>2, <1>6, MinOfTwo
<1>8. Refilled(i) \in Nat /\ Refilled(i) <= size
  BY <1>1, <1>2, <1>4, <1>6, <1>7
<1>9. ASSUME "BURST" \notin flags, bands[i].rate * Kilo < Width, last_fill[i] < now
      PROVE  Refilled(i) = bands[i].rate * Kilo
  <2>1. d >= 1 /\ size = a /\ a = bands[i].rate * Kilo
    BY <1>2, <1>3, <1>9 DEF d, Types
  <2>2. filled >= a
    <3>1. 1 * a <= d * a
      BY <1>3, <1>4, <2>1, ProductGrows
    <3> QED
      BY <1>3, <1>4, <1>6, <3>1 DEF filled
  <2>3. CASE bands[i].rate = 0
    <3>1. a = 0
      BY <1>5, <2>1, <2>3
    <3> QED
      BY <1>1, <1>4, <1>6, <1>7, <2>1, <3>1
  <2>4. CASE bands[i].rate >= 1
    <3>1. 1 * Kilo <= bands[i].rate * Kilo
      BY <1>2, <1>5, <2>4, ProductGrows
    <3> QED
      BY <1>1, <1>3, <1>5, <1>6, <1>7, <2>1, <2>2, <3>1
  <2> QED
    BY <1>2, <2>3, <2>4
<1> QED
  BY <1>8, <1>9 DEF size

\* consume_tokens takes the cost of the packet, or nothing.
LEMMA ConsumedIs ==
    ASSUME Types, NEW pkt \in Packet, NEW i \in DOMAIN bands
    PROVE  /\ consume_tokens(pkt)[i] \in Nat /\ consume_tokens(pkt)[i] <= tokens[i]
           /\ CanConsume(i, pkt) => consume_tokens(pkt)[i] + Cost(pkt) = tokens[i]
           /\ ~CanConsume(i, pkt) => consume_tokens(pkt)[i] = tokens[i]
<1>1. tokens[i] \in Nat /\ Cost(pkt) \in Nat
  BY CostType DEF Types
<1>2. CanConsume(i, pkt) => tokens[i] >= Cost(pkt)
  BY DEF CanConsume
<1>3. consume_tokens(pkt)[i] = IF CanConsume(i, pkt) THEN tokens[i] - Cost(pkt) ELSE tokens[i]
  BY DEF consume_tokens
<1> QED
  BY <1>1, <1>2, <1>3

---------------------------------------------------------------------------
\* Types, the levels of the buckets and the clock.

\* A DSCP remark raises the drop precedence, and keeps a valid one valid.
LEMMA RemarkKeeps ==
    ASSUME NEW drop \in Nat, NEW level \in Nat
    PROVE  /\ Remark(drop, level) \in Nat /\ Remark(drop, level) >= drop
           /\ drop \in {2, 4, 6} => Remark(drop, level) \in {2, 4, 6}
           /\ drop \notin {2, 4} => Remark(drop, level) = drop
BY DEF Remark

\* What a packet does to the history of forwarded tokens and to marked.
LEMMA ApplyOutcome ==
    ASSUME Types, NEW pkt \in Packet, meter_entry_apply(pkt)
    PROVE  /\ forwarded' \in Nat /\ forwarded' <= forwarded + Cost(pkt)
           /\ (\E i \in choose_band(pkt) : bands[i].type = "DROP") => forwarded' = forwarded
           /\ marked' = marked \/ \E drop, level \in Nat : marked' \in {<<drop, drop>>, <<drop, Remark(drop, level)>>}
<1> DEFINE b == choose_band(pkt)
           drop == \E i \in b : bands[i].type = "DROP"
           out == {i \in b : bands[i].type = "DSCP_REMARK"}
<1>1. /\ forwarded' = IF drop THEN forwarded ELSE Min({forwarded + Cost(pkt), MaxForwarded})
      /\ marked' = IF drop THEN marked ELSE
                   IF out = {} THEN <<pkt.drop, pkt.drop>> ELSE
                   <<pkt.drop, Remark(pkt.drop, bands[CHOOSE i \in out : TRUE].prec_level)>>
  BY DEF meter_entry_apply
<1>2. forwarded \in Nat /\ Cost(pkt) \in Nat /\ MaxForwarded \in Nat
  BY CostType, ConstantTypes DEF Types
<1>3. Min({forwarded + Cost(pkt), MaxForwarded})
         = IF forwarded + Cost(pkt) <= MaxForwarded THEN forwarded + Cost(pkt) ELSE MaxForwarded
  BY <1>2, MinOfTwo
<1>4. pkt.drop \in Nat
  <2>1. pkt.drop \in Drop
    BY DEF Packet
  <2>2. Drop \subseteq Nat
    BY MeterBandsAssumption DEF NonIP
  <2> QED
    BY Zenon, <2>1, <2>2
<1>5. out # {} => (CHOOSE i \in out : TRUE) \in DOMAIN bands
  BY DEF choose_band
<1> HIDE DEF b, drop, out
<1>6. out # {} => bands[CHOOSE i \in out : TRUE].prec_level \in Nat
  BY <1>5, BandTypes
<1>7. /\ forwarded' \in Nat /\ forwarded' <= forwarded + Cost(pkt)
      /\ drop => forwarded' = forwarded
  BY <1>1, <1>2, <1>3
<1>8. marked' = marked \/ \E c, level \in Nat : marked' \in {<<c, c>>, <<c, Remark(c, level)>>}
  BY Zenon, <1>1, <1>4, <1>6
<1> QED
  BY <1>7, <1>8 DEF drop, b

\* No step fills a bucket beyond its burst, or twice for the same second.
LEMMA FillStep ==
    ASSUME Types, FillInv, [Next]_vars
    PROVE  Types' /\ FillInv'
<1>1. Second \in Nat /\ Second > 0 /\ now \in Nat
  BY ConstantTypes DEF Types
<1>2. now \div Second \in Nat /\ now \div Second <= (now + 1) \div Second
  <2>1. now + 1 \in Nat /\ now <= now + 1
    BY <1>1
  <2> QED
    BY <1>1, <2>1, Quotient
<1>3. CASE UNCHANGED vars
  BY <1>3 DEF vars, Types, FillInv, BucketSize
<1>4. ASSUME NEW pkt \in Packet, meter_entry_apply(pkt) PROVE Types' /\ FillInv'
  <2>1. /\ tokens' = consume_tokens(pkt) /\ flags' = flags /\ bands' = bands
        /\ last_fill' = last_fill /\ now' = now /\ last_timeout' = last_timeout
    BY <1>4 DEF meter_entry_apply, config
  <2>2. \A i \in DOMAIN bands : tokens'[i] \in Nat /\ tokens'[i] <= tokens[i] /\ tokens[i] \in Nat
    BY SMTT(20), <2>1, ConsumedIs DEF Types
  <2>3. tokens' \in [DOMAIN bands -> Nat]
    <3>1. tokens' = [i \in DOMAIN bands |-> tokens'[i]]
      BY <2>1 DEF consume_tokens
    <3> QED
      BY <2>2, <3>1
  <2>4. forwarded' \in Nat
    BY <1>4, ApplyOutcome
  <2>5. marked' \in Nat \X Nat
    <3>1. CASE marked' = marked
      BY <3>1 DEF Types
    <3>2. ASSUME NEW c \in Nat, NEW level \in Nat,
                 marked' = <<c, c>> \/ marked' = <<c, Remark(c, level)>>
          PROVE  marked' \in Nat \X Nat
      <4>1. Remark(c, level) \in Nat
        BY RemarkKeeps
      <4> QED
        BY <3>2, <4>1
    <3> QED
      BY <1>4, <3>1, <3>2, ApplyOutcome
  <2>6. Types'
    BY Zenon, <2>1, <2>3, <2>4, <2>5 DEF Types
  <2>7. \A i \in DOMAIN bands : BucketSize(i)' = BucketSize(i) /\ BucketSize(i) \in Nat
    BY <2>1, BandTypes DEF BucketSize
  <2>8. FillInv'
    BY <2>1, <2>2, <2>7 DEF FillInv
  <2> QED
    BY <2>6, <2>8
<1>5. CASE dp_run
  <2>1. /\ tokens' = [i \in DOMAIN bands |-> Refilled(i)]
        /\ last_fill' = [i \in DOMAIN bands |-> now] /\ last_timeout' = now \div Second
        /\ flags' = flags /\ bands' = bands /\ now' = now
        /\ forwarded' = forwarded /\ marked' = marked
    BY <1>5 DEF dp_run, refill_bucket, config
  <2>2. \A i \in DOMAIN bands : Refilled(i) \in Nat /\ Refilled(i) <= BucketSize(i)
    BY RefilledIs
  <2>3. Types'
    BY <1>1, <1>2, <2>1, <2>2 DEF Types
  <2>4. \A i \in DOMAIN bands : BucketSize(i)' = BucketSize(i)
    BY <2>1 DEF BucketSize
  <2>5. FillInv'
    BY <1>1, <1>2, <2>1, <2>2, <2>4 DEF FillInv
  <2> QED
    BY <2>3, <2>5
<1>6. CASE Tick
  <2>1. /\ now' = now + 1 /\ flags' = flags /\ bands' = bands /\ tokens' = tokens
        /\ last_fill' = last_fill /\ last_timeout' = last_timeout
        /\ forwarded' = forwarded /\ marked' = marked
    BY <1>6 DEF Tick, config
  <2>2. Types'
    BY <2>1 DEF Types
  <2>3. \A i \in DOMAIN bands : BucketSize(i)' = BucketSize(i)
    BY <2>1 DEF BucketSize
  <2>4. now + 1 \in Nat /\ (now + 1) \div Second \in Nat
    BY <1>1, Quotient
  <2>5. last_timeout' <= now' \div Second
    BY <1>2, <2>1, <2>4 DEF FillInv, Types
  <2>6. \A i \in DOMAIN bands : last_fill[i] <= now + 1
    BY DEF FillInv, Types
  <2>7. FillInv'
    BY <2>1, <2>3, <2>5, <2>6 DEF FillInv
  <2> QED
    BY <2>2, <2>7
<1> QED
  BY <1>3, <1>4, <1>5, <1>6 DEF Next

\* A new meter satisfies the invariant,
LEMMA FillInitial ==
    Init => Types /\ FillInv
<1> SUFFICES ASSUME Init PROVE Types /\ FillInv
  OBVIOUS
<1>1. PICK n \in 1..MaxBands : bands \in [1..n -> Band]
  BY DEF Init
<1>2. now \in Nat /\ now \div Second \in Nat /\ flags \in SUBSET Flag
  <2>1. now \in 0 .. 2 * Second - 1 /\ Second \in Nat /\ Second > 0 /\ flags \in SUBSET Flag
    BY ConstantTypes DEF Init
  <2>2. now \in Nat
    BY <2>1
  <2> QED
    BY <2>1, <2>2, Quotient
<1>3. /\ tokens = [i \in DOMAIN bands |-> 0] /\ last_fill = [i \in DOMAIN bands |-> now]
      /\ last_timeout = 0 /\ forwarded = 0 /\ marked = <<0, 0>>
  BY DEF Init
<1>4. Types
  BY <1>1, <1>2, <1>3 DEF Types
<1>5. \A i \in DOMAIN bands : BucketSize(i) \in Nat
  BY <1>4, BandTypes
<1> QED
  BY <1>2, <1>3, <1>4, <1>5 DEF FillInv

\* which therefore always holds.
LEMMA FillInvariant ==
    Spec => [](Types /\ FillInv)
<1>1. Types /\ FillInv /\ [Next]_vars => Types' /\ FillInv'
  BY FillStep
<1> QED
  BY FillInitial, <1>1, PTL DEF Spec

\* The DSCP_REMARK case of meter_entry_apply, for any prec_level a band can have:
\* the precedence never falls and stays one of the three.
THEOREM RemarkStaysValid ==
    Spec => []RemarkValid
<1>1. Init => RemarkValid
  BY DEF Init, RemarkValid
<1>2. ASSUME Types, RemarkValid, [Next]_vars PROVE RemarkValid'
  <2>1. CASE marked' = marked
    BY <1>2, <2>1 DEF RemarkValid
  <2>2. ASSUME NEW c \in Nat, NEW level \in Nat,
               marked' = <<c, c>> \/ marked' = <<c, Remark(c, level)>>
        PROVE  RemarkValid'
    <3>1. /\ Remark(c, level) \in Nat /\ Remark(c, level) >= c
          /\ c \in {2, 4, 6} => Remark(c, level) \in {2, 4, 6}
          /\ c \notin {2, 4} => Remark(c, level) = c
      BY RemarkKeeps
    <3>2. marked'[1] = c /\ (marked'[2] = c \/ marked'[2] = Remark(c, level))
      BY <2>2
    <3> QED
      BY <3>1, <3>2 DEF RemarkValid
  <2>3. marked' = marked \/ \E pkt \in Packet : meter_entry_apply(pkt)
    BY <1>2 DEF Next, vars, dp_run, Tick
  <2> QED
    BY <1>2, <2>1, <2>2, <2>3, ApplyOutcome
<1> QED
  BY FillInvariant, <1>1, <1>2, PTL DEF Spec

---------------------------------------------------------------------------
\* What a drop band lets through.

Dropping(i) ==
    /\ Metered /\ "BURST" \notin flags
    /\ Top(i) /\ bands[i].type = "DROP" /\ bands[i].rate > 0

\* Every second adds no more than the rate to what was forwarded and what is left
\* in the bucket.
LimitInv ==
    \A i \in DOMAIN bands :
        Dropping(i) => forwarded + tokens[i] <= bands[i].rate * Kilo * last_timeout

\* A band that drops and has the highest rate is the one chosen when it is short.
LEMMA TopIsChosen ==
    ASSUME Types, NEW i \in DOMAIN bands, Dropping(i), NEW pkt, ~CanConsume(i, pkt)
    PROVE  \E b \in choose_band(pkt) : bands[b].type = "DROP"
<1>1. i \in Nat /\ \A j \in DOMAIN bands : bands[j].rate \in Nat
  BY BandTypes
<1>2. \A j \in DOMAIN bands : /\ bands[j].rate <= bands[i].rate
                              /\ bands[j].rate = bands[i].rate => j >= i
  BY <1>1 DEF Dropping, Top
<1>3. i \in choose_band(pkt)
  BY <1>2 DEF choose_band, Dropping
<1> QED
  BY <1>3 DEF Dropping

\* Every step keeps the account of a drop band: what was forwarded and the
\* tokens left come out of the burst and the refills.
LEMMA LimitStep ==
    ASSUME Types, FillInv, LimitInv, [Next]_vars
    PROVE  LimitInv'
<1> SUFFICES ASSUME NEW i \in DOMAIN bands', Dropping(i)'
             PROVE  (forwarded + tokens[i] <= bands[i].rate * Kilo * last_timeout)'
  BY DEF LimitInv
<1>1. flags' = flags /\ bands' = bands
  BY Zenon DEF Next, vars, meter_entry_apply, dp_run, Tick, config
<1>2. i \in DOMAIN bands /\ Dropping(i)
  BY <1>1 DEF Dropping, Metered, Top
<1> DEFINE rk == bands[i].rate * Kilo
<1>3. /\ rk \in Nat /\ BucketSize(i) <= rk /\ BucketSize(i) \in Nat
      /\ tokens[i] \in Nat /\ forwarded \in Nat /\ last_timeout \in Nat
  BY <1>2, BandTypes DEF Dropping, Types
<1>4. forwarded + tokens[i] <= rk * last_timeout
  BY <1>2 DEF LimitInv
<1> SUFFICES forwarded' + tokens'[i] <= rk * last_timeout'
  BY <1>1
<1> HIDE DEF rk
<1>5. CASE UNCHANGED <<tokens, forwarded, last_timeout>>
  BY <1>4, <1>5
<1>6. ASSUME NEW pkt \in Packet, meter_entry_apply(pkt)
      PROVE  forwarded' + tokens'[i] <= rk * last_timeout'
  <2>1. tokens'[i] = consume_tokens(pkt)[i] /\ last_timeout' = last_timeout /\ Cost(pkt) \in Nat
    BY <1>6, CostType DEF meter_entry_apply
  <2>2. forwarded' \in Nat /\ tokens'[i] \in Nat /\ rk * last_timeout \in Nat
    BY <1>2, <1>3, <1>6, <2>1, ApplyOutcome, ConsumedIs, Product
  <2>3. CASE CanConsume(i, pkt)
    <3>1. tokens'[i] + Cost(pkt) = tokens[i] /\ forwarded' <= forwarded + Cost(pkt)
      BY <1>2, <1>6, <2>1, <2>3, ConsumedIs, ApplyOutcome
    <3> QED
      BY <1>3, <1>4, <2>1, <2>2, <3>1
  <2>4. CASE ~CanConsume(i, pkt)
    <3>1. forwarded' = forwarded
      BY <1>2, <1>6, <2>4, TopIsChosen, ApplyOutcome
    <3>2. tokens'[i] = tokens[i]
      BY <1>2, <2>1, <2>4, ConsumedIs
    <3> QED
      BY <1>4, <2>1, <3>1, <3>2
  <2> QED
    BY <2>3, <2>4
<1>7. CASE dp_run
  <2>1. /\ tokens'[i] = Refilled(i) /\ forwarded' = forwarded
        /\ last_timeout' = now \div Second /\ last_timeout # now \div Second
    BY <1>2, <1>7 DEF dp_run, refill_bucket
  <2>2. Refilled(i) \in Nat /\ Refilled(i) <= rk
    BY <1>2, <1>3, RefilledIs
  <2>3. now \div Second \in Nat /\ last_timeout <= now \div Second
    BY Quotient, ConstantTypes DEF Types, FillInv
  <2>4. last_timeout + 1 <= last_timeout' /\ last_timeout' \in Nat /\ last_timeout + 1 \in Nat
    BY <1>3, <2>1, <2>3
  <2>5. rk * (last_timeout + 1) <= rk * last_timeout'
    BY Zenon, <1>3, <2>4, ProductGrows
  <2>6. rk * (last_timeout + 1) = rk * last_timeout + rk
    BY <1>3
  <2>7. rk * last_timeout \in Nat /\ rk * last_timeout' \in Nat
    BY Zenon, <1>3, <2>4, Product
  <2> QED
    BY <1>3, <1>4, <2>1, <2>2, <2>5, <2>6, <2>7
<1> QED
  BY <1>5, <1>6, <1>7 DEF Next, vars, Tick

\* A meter whose band of highest rate drops forwards no more than that rate for
\* every second that began, whatever other bands there are, however late dp_run
\* comes and even where the bucket size is cut to 32 bits.
THEOREM DropBandLimits ==
    Spec => []DropLimits
<1>1. Init => LimitInv
  <2> SUFFICES ASSUME Init, NEW i \in DOMAIN bands
               PROVE  forwarded + tokens[i] <= bands[i].rate * Kilo * last_timeout
    BY DEF LimitInv
  <2>1. forwarded + tokens[i] = 0 /\ last_timeout = 0
    BY DEF Init
  <2>2. bands[i].rate * Kilo \in Nat
    BY FillInitial, BandTypes
  <2> QED
    BY <2>1, <2>2
<1>2. Types /\ FillInv /\ LimitInv /\ [Next]_vars => LimitInv'
  BY LimitStep
<1>3. ASSUME Types, FillInv, LimitInv PROVE DropLimits
  <2> SUFFICES ASSUME NEW i \in DOMAIN bands, Dropping(i)
               PROVE  forwarded <= bands[i].rate * Kilo * (now \div Second)
    BY DEF DropLimits, Dropping
  <2> DEFINE rk == bands[i].rate * Kilo
  <2>1. /\ rk \in Nat /\ tokens[i] \in Nat /\ forwarded \in Nat /\ last_timeout \in Nat
    BY SMTT(20), <1>3, BandTypes DEF Types
  <2>2. forwarded + tokens[i] <= rk * last_timeout
    BY <1>3 DEF LimitInv
  <2> HIDE DEF rk
  <2>3. now \div Second \in Nat /\ last_timeout <= now \div Second
    BY <1>3, Quotient, ConstantTypes DEF Types, FillInv
  <2>4. rk * last_timeout <= rk * (now \div Second)
    BY <2>1, <2>3, ProductGrows
  <2>5. rk * last_timeout \in Nat /\ rk * (now \div Second) \in Nat
    BY <2>1, <2>3, Product
  <2>6. forwarded <= rk * (now \div Second)
    BY <2>1, <2>2, <2>4, <2>5
  <2> QED
    BY <2>6 DEF rk
<1> QED
  BY FillInvariant, <1>1, <1>2, <1>3, PTL DEF Spec

---------------------------------------------------------------------------
\* The order in which the bands of a packet meter run short.

PacketMeter == flags = {"PKTPS"} /\ \A i \in DOMAIN bands : bands[i].rate * Kilo < Width

\* Tokens for a whole number of packets.
Whole(n) == \E k \in Nat : n = k * Kilo

\* Buckets hold whole packets, and a band of a higher rate no fewer of them: without
\* the first, taking a packet from one bucket only could turn the order round.
OrderInv ==
    PacketMeter =>
        /\ \A i \in DOMAIN bands : Whole(tokens[i])
        /\ \A i, j \in DOMAIN bands : bands[i].rate <= bands[j].rate => tokens[i] <= tokens[j]

\* Multiples of a thousand, which is what bands in packets hold
LEMMA WholeNumbers ==
    ASSUME NEW n \in Nat, Whole(n)
    PROVE  /\ n < Kilo => n = 0
           /\ n >= Kilo => Whole(n - Kilo)
           /\ \A d, r \in Nat : Whole(n + d * (r * Kilo))
<1>1. Kilo \in Nat /\ Kilo > 0
  BY ConstantTypes
<1>2. PICK k \in Nat : n = k * Kilo
  BY DEF Whole
<1>3. ASSUME n < Kilo PROVE n = 0
  <2>1. k >= 1 => 1 * Kilo <= k * Kilo
    BY <1>1, ProductGrows
  <2>2. k = 0
    BY <1>1, <1>2, <1>3, <2>1
  <2> QED
    BY <1>1, <1>2, <2>2
<1>4. ASSUME n >= Kilo PROVE Whole(n - Kilo)
  <2>1. k # 0
    BY <1>1, <1>2, <1>4
  <2>2. k - 1 \in Nat /\ n - Kilo = (k - 1) * Kilo
    BY <1>1, <1>2, <2>1
  <2> QED
    BY <2>2 DEF Whole
<1>5. ASSUME NEW d \in Nat, NEW r \in Nat PROVE Whole(n + d * (r * Kilo))
  <2>1. d * r \in Nat /\ d * (r * Kilo) = (d * r) * Kilo
    BY <1>1
  <2>2. k + d * r \in Nat /\ n + d * (r * Kilo) = (k + d * r) * Kilo
    BY <1>1, <1>2, <2>1
  <2> QED
    BY <2>2 DEF Whole
<1> QED
  BY <1>3, <1>4, <1>5

\* What refill_bucket adds in a packet meter.
LEMMA PacketRefill ==
    ASSUME Types, FillInv, PacketMeter, NEW i \in DOMAIN bands, Whole(tokens[i])
    PROVE  LET a == bands[i].rate * Kilo
               filled == tokens[i] + (now - last_fill[i]) * a
           IN  /\ a \in Nat /\ filled \in Nat /\ now - last_fill[i] \in Nat
               /\ filled < Kilo => Refilled(i) = 0
               /\ filled >= Kilo => Refilled(i) = IF filled <= a THEN filled ELSE a
               /\ Whole(Refilled(i))
<1> DEFINE a == bands[i].rate * Kilo
           d == now - last_fill[i]
           filled == tokens[i] + d * a
<1>1. a \in Nat /\ bands[i].rate \in Nat /\ a < Width
  BY BandTypes DEF PacketMeter
<1>2. a % Width = a
  BY <1>1, Remainder, ConstantTypes
<1>3. "BURST" \notin flags /\ "KBPS" \notin flags
  BY DEF PacketMeter
<1>4. BucketSize(i) = a
  BY <1>2, <1>3 DEF BucketSize
<1>5. d \in Nat /\ tokens[i] \in Nat
  BY DEF Types, FillInv
<1>6. filled \in Nat /\ d * a \in Nat
  BY <1>1, <1>5, Product
<1>7. Refilled(i) = IF filled >= Kilo THEN Min({filled, a}) ELSE tokens[i]
  BY Zenon, <1>2, <1>3, <1>4 DEF Refilled
<1>8. Whole(filled) /\ Whole(a) /\ Whole(0)
  <2>1. Whole(filled)
    BY <1>1, <1>5, WholeNumbers
  <2>2. Whole(a)
    BY <1>1 DEF Whole
  <2>3. 0 = 0 * Kilo
    BY ConstantTypes
  <2> QED
    BY <2>1, <2>2, <2>3 DEF Whole
<1> HIDE DEF a, d
<1>9. filled < Kilo => tokens[i] = 0
  <2>1. filled < Kilo => filled = 0
    BY <1>6, <1>8, WholeNumbers
  <2> QED
    BY <1>5, <1>6, <2>1
<1> HIDE DEF filled
<1>10. Min({filled, a}) = IF filled <= a THEN filled ELSE a
  BY <1>1, <1>6, MinOfTwo
<1>11. /\ filled < Kilo => Refilled(i) = 0
       /\ filled >= Kilo => Refilled(i) = IF filled <= a THEN filled ELSE a
  BY <1>6, <1>7, <1>9, <1>10, ConstantTypes
<1>12. Whole(Refilled(i))
  BY <1>6, <1>8, <1>11, ConstantTypes
<1> QED
  BY <1>1, <1>5, <1>6, <1>11, <1>12 DEF filled, a, d

\* Every step keeps the buckets of the bands in the order of their rates.
LEMMA OrderStep ==
    ASSUME Types, FillInv, OrderInv, [Next]_vars
    PROVE  OrderInv'
<1>1. flags' = flags /\ bands' = bands
  BY Zenon DEF Next, vars, meter_entry_apply, dp_run, Tick, config
<1> SUFFICES ASSUME PacketMeter
             PROVE  /\ \A i \in DOMAIN bands : Whole(tokens'[i])
                    /\ \A i, j \in DOMAIN bands :
                          bands[i].rate <= bands[j].rate => tokens'[i] <= tokens'[j]
  BY <1>1 DEF OrderInv, PacketMeter, Whole
<1>2. /\ \A i \in DOMAIN bands : Whole(tokens[i]) /\ tokens[i] \in Nat
      /\ \A i, j \in DOMAIN bands : bands[i].rate <= bands[j].rate => tokens[i] <= tokens[j]
  BY DEF OrderInv, Types
<1>3. CASE UNCHANGED tokens
  BY <1>2, <1>3
<1>4. ASSUME NEW pkt \in Packet, meter_entry_apply(pkt)
      PROVE  /\ \A i \in DOMAIN bands : Whole(tokens'[i])
             /\ \A i, j \in DOMAIN bands :
                   bands[i].rate <= bands[j].rate => tokens'[i] <= tokens'[j]
  <2>1. \A i \in DOMAIN bands : tokens'[i] = IF tokens[i] >= Kilo THEN tokens[i] - Kilo ELSE tokens[i]
    BY <1>4 DEF meter_entry_apply, consume_tokens, CanConsume, Cost, PacketMeter
  <2>2. \A i \in DOMAIN bands : /\ tokens[i] < Kilo => tokens[i] = 0
                                /\ tokens[i] >= Kilo => Whole(tokens[i] - Kilo)
    BY <1>2, WholeNumbers
  <2>3. \A i \in DOMAIN bands : Whole(tokens'[i])
    BY <1>2, <2>1, <2>2
  <2>4. ASSUME NEW i \in DOMAIN bands, NEW j \in DOMAIN bands, bands[i].rate <= bands[j].rate
        PROVE  tokens'[i] <= tokens'[j]
    <3>1. tokens[i] <= tokens[j] /\ tokens[i] \in Nat /\ tokens[j] \in Nat /\ Kilo \in Nat
      BY <1>2, <2>4, ConstantTypes
    <3> QED
      BY <2>1, <2>2, <3>1
  <2> QED
    BY <2>3, <2>4
<1>5. CASE dp_run
  <2>1. \A i \in DOMAIN bands : tokens'[i] = Refilled(i)
    BY <1>5 DEF dp_run, refill_bucket
  <2>2. \A i \in DOMAIN bands : Whole(tokens'[i])
    BY <1>2, <2>1, PacketRefill
  <2>3. ASSUME NEW i \in DOMAIN bands, NEW j \in DOMAIN bands, bands[i].rate <= bands[j].rate
        PROVE  Refilled(i) <= Refilled(j)
    <3> DEFINE d == now - last_fill[i]
               a == bands[i].rate * Kilo
               b == bands[j].rate * Kilo
    <3>1. d = now - last_fill[j] /\ Kilo \in Nat
      BY ConstantTypes DEF FillInv
    <3>2. /\ a \in Nat /\ tokens[i] + d * a \in Nat /\ d \in Nat
          /\ tokens[i] + d * a < Kilo => Refilled(i) = 0
          /\ tokens[i] + d * a >= Kilo =>
                Refilled(i) = IF tokens[i] + d * a <= a THEN tokens[i] + d * a ELSE a
      BY <1>2, PacketRefill
    <3>3. /\ b \in Nat /\ tokens[j] + d * b \in Nat
          /\ tokens[j] + d * b >= Kilo =>
                Refilled(j) = IF tokens[j] + d * b <= b THEN tokens[j] + d * b ELSE b
      BY <1>2, <3>1, PacketRefill
    <3>4. a <= b
      BY <2>3, BandTypes, ConstantTypes, ProductGrows
    <3> HIDE DEF a, b, d
    <3>5. d * a <= d * b /\ d * a \in Nat /\ d * b \in Nat
      BY <3>2, <3>3, <3>4, ProductGrows, Product
    <3>6. tokens[i] <= tokens[j] /\ tokens[i] \in Nat /\ tokens[j] \in Nat /\ Refilled(j) \in Nat
      BY <1>2, <2>3, RefilledIs
    <3> DEFINE x == tokens[i] + d * a
               y == tokens[j] + d * b
    <3>7. x \in Nat /\ y \in Nat /\ x <= y
      BY <3>5, <3>6
    <3> HIDE DEF x, y
    <3> QED
      BY <3>1, <3>2, <3>3, <3>4, <3>6, <3>7 DEF x, y
  <2> QED
    BY <2>1, <2>2, <2>3
<1> QED
  BY <1>3, <1>4, <1>5 DEF Next, vars, Tick

\* With OFPMF_PKTPS alone, a band is short only when every band of a lower rate is:
\* the band that choose_band takes, the one of highest rate that is short, is the
\* highest rate that the flow exceeds.
THEOREM BandsRunShortInOrder ==
    Spec => []BandsOrdered
<1>1. Init => OrderInv
  <2> SUFFICES ASSUME Init, NEW i \in DOMAIN bands
               PROVE  tokens[i] = 0 /\ Whole(0) /\ tokens[i] <= 0
    BY DEF OrderInv, Init
  <2>1. tokens[i] = 0 /\ 0 = 0 * Kilo
    BY ConstantTypes DEF Init
  <2> QED
    BY <2>1 DEF Whole
<1>2. Types /\ FillInv /\ OrderInv /\ [Next]_vars => OrderInv'
  BY OrderStep
<1>3. ASSUME Types, OrderInv PROVE BandsOrdered
  <2> SUFFICES ASSUME PacketMeter, NEW i \in DOMAIN bands, NEW j \in DOMAIN bands,
                      bands[i].rate <= bands[j].rate, tokens[j] < Kilo
               PROVE  tokens[i] < Kilo
    BY Zenon DEF BandsOrdered, PacketMeter
  <2>1. tokens[i] <= tokens[j]
    BY <1>3 DEF OrderInv
  <2>2. tokens[i] \in Nat /\ tokens[j] \in Nat
    BY <1>3 DEF Types
  <2> QED
    BY <2>1, <2>2, ConstantTypes
<1> QED
  BY FillInvariant, <1>1, <1>2, <1>3, PTL DEF Spec
=============================================================================
