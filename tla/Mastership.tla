----------------------------- MODULE Mastership -----------------------------
(***************************************************************************)
(* What the roles promise the controllers: one of them is the master, or   *)
(* none, and mastership moves only to a request whose election is at least *)
(* as recent as the last one the datapath has seen.  Elections are counted *)
(* by natural numbers that never wrap.                                     *)
(***************************************************************************)
EXTENDS Integers

CONSTANTS Remote, NoRemote

VARIABLES master, epoch

TypeOK == master \in Remote \union {NoRemote} /\ epoch \in Int

Init == master = NoRemote /\ epoch = -1

Recent == epoch' \in Int /\ epoch' >= epoch

Claim(r) == Recent /\ master' = r

Follow(r) == Recent /\ master' = IF master = r THEN NoRemote ELSE master

Release(r) == master = r /\ master' = NoRemote /\ UNCHANGED epoch

Next == \E r \in Remote : Claim(r) \/ Follow(r) \/ Release(r)

Spec == Init /\ [][Next]_<<master, epoch>>
=============================================================================
