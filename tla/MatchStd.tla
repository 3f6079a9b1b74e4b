----------------------------- MODULE MatchStd -----------------------------
(***************************************************************************)
(* The relations between matches that flow_mods and lookups are built on   *)
(* (udatapath/match_std.c).  Values and masks are sets of bits; a set bit  *)
(* of a mask means that the bit is compared.  The match of a message is    *)
(* keyed by header, that is by field and by whether a mask follows.        *)
(***************************************************************************)
EXTENDS Naturals, FiniteSets

CONSTANTS
    Field,      \* fields of up to 64 bits, or of several words
    Bit,        \* bits of a field
    Words,      \* field -> the sets of bits its helpers compare at a time
    Vlan,       \* OXM_OF_VLAN_VID
    Present,    \* the bit OFPVID_PRESENT
    ExtHdr,     \* OXM_OF_IPV6_EXTHDR
    ThreeByte,  \* the fields of 24 bits
    MaxTlvs     \* bound: fields in a match

ASSUME MatchStdAssumption ==
    /\ Words \in [Field -> SUBSET SUBSET Bit]
    /\ \A f \in Field : UNION Words[f] = Bit
    /\ Present \in Bit
    /\ MaxTlvs \in Nat

Header == Field \X BOOLEAN

HasMask(h) == h[2]

\* The unpacker refuses a value with bits outside its mask.
Tlv(h) ==
    {t \in [value : SUBSET Bit, mask : SUBSET Bit] :
        t.value \subseteq t.mask /\ (HasMask(h) \/ t.mask = Bit)}

Match ==
    UNION {{m \in [H -> UNION {Tlv(h) : h \in H}] : \A h \in H : m[h] \in Tlv(h)} :
              H \in {G \in SUBSET Header : Cardinality(G) <= MaxTlvs}}

\* What the parser found in a packet; a tag holds the 12 bits of a VLAN id.
Packet ==
    UNION {{p \in [F -> SUBSET Bit] : Vlan \in F => Present \notin p[Vlan]} :
              F \in SUBSET Field}

Xor(x, y) == (x \ y) \cup (y \ x)

---------------------------------------------------------------------------
VlanMatch(h, t, p) ==
    IF Vlan \notin DOMAIN p THEN ~HasMask(h) /\ t.value = {}
    ELSE /\ t.value # {}
         /\ t.value = {Present} \/ Xor(t.value \ {Present}, p[Vlan]) \cap t.mask = {}

packet_match(m, p) ==
    \A h \in DOMAIN m :
        CASE h[1] = Vlan   -> VlanMatch(h, m[h], p)
          [] h[1] = ExtHdr -> ExtHdr \in DOMAIN p /\ m[h].value \subseteq p[ExtHdr]
          [] OTHER         -> /\ h[1] \in DOMAIN p
                              /\ Xor(m[h].value, p[h[1]]) \cap m[h].mask = {}

\* ((am == bm) && ((a ^ b) & am)) == 0, for each word of the field.
strict_mask(f, a, b) ==
    \A w \in Words[f] :
        ~(a.mask \cap w = b.mask \cap w /\ Xor(a.value, b.value) \cap a.mask \cap w # {})

\* Equal lengths, and every header of a in b: the same headers.
match_std_strict(a, b) ==
    /\ DOMAIN a = DOMAIN b
    /\ \A h \in DOMAIN a :
          IF HasMask(h) THEN strict_mask(h[1], a[h], b[h]) ELSE a[h].value = b[h].value

\* (~am & (~a | ~b | bm) & (a | b | bm)) == 0
nonstrict_mask(a, b) == \A i \in Bit \ a.mask : i \notin b.mask \cup Xor(a.value, b.value)

\* Mutant: a field that b leaves out is no obstacle.
NonstrictAbsent(a, b) ==
    \A h \in DOMAIN a \cap DOMAIN b :
        IF HasMask(h) THEN nonstrict_mask(a[h], b[h]) ELSE a[h].value = b[h].value

match_std_nonstrict(a, b) ==
    \A h \in DOMAIN a :
        /\ h \in DOMAIN b
        /\ IF HasMask(h) THEN nonstrict_mask(a[h], b[h]) ELSE a[h].value = b[h].value

\* ((am & a) ^ (bm & b)) != 0
incompatible(a, b) == Xor(a.mask \cap a.value, b.mask \cap b.value) # {}

\* The field of b to compare with header h: the unmasked one first.
OverlapHeader(h, b) == IF <<h[1], FALSE>> \in DOMAIN b THEN <<h[1], FALSE>> ELSE <<h[1], TRUE>>

\* There is no case for fields of 24 bits.
match_std_overlap(a, b) ==
    \A h \in DOMAIN a :
        LET g == OverlapHeader(h, b)
        IN  g \in DOMAIN b /\ h[1] \notin ThreeByte => ~incompatible(a[h], b[g])

---------------------------------------------------------------------------
\* What a match means: the packets it accepts.
Accepted(m) == {p \in Packet : packet_match(m, p)}

\* Matches whose fields are all exact, and none of them special.
Exact(m) == \A h \in DOMAIN m : ~HasMask(h) /\ h[1] \notin {Vlan, ExtHdr} \cup ThreeByte
===========================================================================
