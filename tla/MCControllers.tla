--------------------------- MODULE MCControllers ---------------------------
(* Finite instances of Controllers.                                        *)
EXTENDS Controllers

(* Only idle removals off; packet_ins for slaves only, port status for     *)
(* the others only.                                                        *)
NoIdle == [AllOn EXCEPT !["FLOW_REMOVED"][1] = @ \ {"IDLE_TIMEOUT"}]
Crossed == [AllOn EXCEPT !["PACKET_IN"][1] = {}, !["PORT_STATUS"][2] = {"MODIFY"}]
MCAsyncConfig == {NoIdle, Crossed}
=============================================================================
