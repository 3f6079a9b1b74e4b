------------------------- MODULE MCMatchRelations -------------------------
EXTENDS MatchRelations

\* ETH_DST is compared in two words, VLAN_VID in one.
MCWords == [f \in Field |-> IF f = "ETH_DST" THEN {{b} : b \in Bit} ELSE {Bit}]
===========================================================================
