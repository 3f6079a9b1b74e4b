-------------------------- MODULE MCPacketBuffers --------------------------
(* Finite instances of PacketBuffers.                                      *)
EXTENDS PacketBuffers

PktSymmetry == Permutations(Pkt)
=============================================================================
