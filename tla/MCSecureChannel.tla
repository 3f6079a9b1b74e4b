-------------------------- MODULE MCSecureChannel --------------------------
(* A secure channel with one controller, and one with two of which the first
   speaks an older version. *)
EXTENDS SecureChannel

Versions == [c1 |-> 4, c2 |-> 5, old |-> 1]
Lines == {[controllers |-> <<"c1">>, probe_interval |-> 1, max_backoff |-> 2],
          [controllers |-> <<"old", "c2">>, probe_interval |-> 1, max_backoff |-> 2],
          [controllers |-> <<"c1", "c2">>, probe_interval |-> 0, max_backoff |-> 1]}
===========================================================================
