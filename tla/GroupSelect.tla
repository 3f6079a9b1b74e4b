---------------------------- MODULE GroupSelect ----------------------------
(***************************************************************************)
(* Which bucket a group executes (udatapath/group_entry.c): the weighted   *)
(* round robin of SELECT groups and the first live bucket of fast failover *)
(* groups.  Buckets are numbered from 0, as in the code; -1 is none.       *)
(***************************************************************************)
EXTENDS Integers, Sequences, SequencesExt

gcd[ab \in Nat \X Nat] == IF ab[1] = 0 THEN ab[2] ELSE gcd[<<ab[2] % ab[1], ab[1]>>]

GcdOf(weights) == FoldLeft(LAMBDA d, w : gcd[<<d, w>>], 0, weights)
MaxOf(weights) == FoldLeft(LAMBDA m, w : IF m < w THEN w ELSE m, 0, weights)

(* The round robin data of a new group: nothing selected yet.              *)
init_select_group(weights) ==
    [curr_bucket |-> -1, curr_weight |-> 0,
     gcd_weight |-> GcdOf(weights), max_weight |-> MaxOf(weights)]

(* Mutant: the weight is stepped down to zero before it starts over.       *)
WrapWeightLate(data) ==
    IF data.curr_weight < data.gcd_weight THEN data.max_weight
                                          ELSE data.curr_weight - data.gcd_weight

(* The weight once the round comes back to the first bucket                *)
WrapWeight(data) ==
    IF data.curr_weight <= data.gcd_weight THEN data.max_weight
                                           ELSE data.curr_weight - data.gcd_weight

(* The data after k iterations of the loop.  There are at most as many     *)
(* iterations as buckets, so bucket 0 is met at most once.                 *)
AfterTurns(weights, data, k) ==
    LET bucket(j) == (data.curr_bucket + j) % Len(weights)
    IN  [data EXCEPT !.curr_bucket = bucket(k),
                     !.curr_weight = IF \E j \in 1 .. k : bucket(j) = 0
                                     THEN WrapWeight(data) ELSE @]

(* The bucket selected, and the data left behind                           *)
select_from_select_group(weights, data) ==
    LET after == [k \in 1 .. Len(weights) |-> AfterTurns(weights, data, k)]
        hits == {k \in DOMAIN after : weights[after[k].curr_bucket + 1] >= after[k].curr_weight}
        d == CASE hits # {}      -> after[Min(hits)]
               [] weights = <<>> -> data
               [] OTHER          -> after[Len(weights)]
    IN  [bucket |-> IF hits = {} THEN -1 ELSE d.curr_bucket, data |-> d]

(* The first live bucket of a fast failover group                          *)
select_from_ff_group(live) == IF live = {} THEN -1 ELSE Min(live)

(* How often a bucket is selected in a full cycle: in proportion to its    *)
(* weight, or once if no bucket has a weight                               *)
Share(weights, data, b) ==
    IF data.gcd_weight = 0 THEN 1 ELSE weights[b + 1] \div data.gcd_weight
=============================================================================
