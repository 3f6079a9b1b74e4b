\* Two priorities, two matches that overlap and hard timeouts of one and two ticks
\* in a table of two places; an address more than places, for replacement.  In two
\* ticks an entry of the shorter timeout expires before one that was added earlier
\* (the scan asks for now > remove_at).  Instructions output to a port or not.
CONSTANTS
    Field = {"ETH_DST", "ETH_SRC"}
    Bit = {0}
    Words <- MCWords
    Vlan = "VLAN_VID"
    Present = 0
    ExtHdr = "IPV6_EXTHDR"
    ThreeByte = {}
    MaxTlvs = 2
    Address = {x1, x2, x3}
    Priority = {1, 2}
    ModMatch <- MCTwoMatches
    Cookie = {c1}
    OutPort = {p1}
    IdleTimeout = {0, 1}
    HardTimeout = {0, 1, 2}
    MaxTime = 2
    TableMax = 2
SYMMETRY AddressSymmetry
SPECIFICATION Spec
INVARIANTS ListsAgree LookupHighest CommandsSelect TimeoutsComplete
PROPERTY OrderStable
