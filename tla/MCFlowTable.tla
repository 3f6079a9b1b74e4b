---------------------------- MODULE MCFlowTable ----------------------------
EXTENDS FlowTable

MCWords == [f \in Field |-> {Bit}]

\* Everything, and one value of a field.
Wild == [h \in {} |-> [value |-> {}, mask |-> {}]]
One == [h \in {<<"ETH_DST", FALSE>>} |-> [value |-> {0}, mask |-> Bit]]
MCTwoMatches == {Wild, One}

AddressSymmetry == Permutations(Address)
============================================================================
