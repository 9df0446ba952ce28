----------------------------- MODULE MCReports -----------------------------
(***************************************************************************)
(* Reports on a small instance: two handlers, or one handler and the run,  *)
(* at a time.                                                              *)
(***************************************************************************)
EXTENDS Reports, TLC

TwoAtATime ==
    Cardinality({h \in Handlers : req[h] # Idle}) + (IF sweep.at = "idle" THEN 0 ELSE 1) <= 2

=============================================================================
