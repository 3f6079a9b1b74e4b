----------------------------- MODULE OpenFlow -----------------------------
(* Protocol vocabulary (include/openflow/openflow.h) the modules share. *)

\* OFPCR_ROLE_*: the role a controller connection has at the datapath.
Role == {"EQUAL", "MASTER", "SLAVE"}
===========================================================================
