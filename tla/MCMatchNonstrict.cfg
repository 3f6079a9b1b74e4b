\* One ordinary field, masked or not.
CONSTANTS
    Field = {"ETH_DST"}
    Bit = {0, 12}
    Words <- MCWords
    Vlan = "VLAN_VID"
    Present = 12
    ExtHdr = "IPV6_EXTHDR"
    ThreeByte = {"PBB_ISID"}
    MaxTlvs = 1
SPECIFICATION MatchSpec
CHECK_DEADLOCK FALSE
INVARIANT NonstrictMatchesWhenever
