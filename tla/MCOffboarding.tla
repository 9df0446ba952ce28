--------------------------- MODULE MCOffboarding ---------------------------
(***************************************************************************)
(* Offboarding on a small instance: two requests or one request and the    *)
(* cron at a time, and the seconds pass before there are tombstones.       *)
(***************************************************************************)
EXTENDS Offboarding, TLC

Busy == {r \in Requests : req[r] # Idle}

TwoAtATime ==
    /\ Cardinality(Busy) + (IF cron = Rest THEN 0 ELSE 1) <= 2
    /\ clock > 0 => tombs = <<>> /\ \A r \in Busy : req[r].job = "callback"

=============================================================================
