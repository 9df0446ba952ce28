-------------------------- MODULE MCHostedRecords --------------------------
(***************************************************************************)
(* HostedRecords on a small instance.  Requests are interchangeable, and   *)
(* so are domains.                                                         *)
(***************************************************************************)
EXTENDS HostedRecords, TLC

HostedSymmetry == Permutations(Requests) \cup Permutations(Domains)

Disturbances ==
    Cardinality(leaked) + Cardinality(torn) + Cardinality(crossed) + (IF drifted /\ (leaked = {} \/ issued > 1) THEN 1 ELSE 0)

AtWork == {r \in Requests : req[r].at # "idle"}

\* Once something went wrong that the service cannot put right by itself, the
\* run goes on with one domain and one request; the daily count meets one
\* request at a time; two domains have few records; a third id is issued only while the zone is empty.
FewDisturbances ==
    /\ Disturbances <= 1
    /\ Disturbances = 1 =>
           /\ crossed = {}
           /\ Cardinality(AtWork) <= 1
           /\ Cardinality(Hosted \cup {x.domain : x \in zone}) <= 1
    /\ cron.at = "observe" => Cardinality(AtWork) <= 1
    /\ Cardinality({x.domain : x \in zone}) > 1 => Cardinality(zone) <= 3
    /\ issued > 2 => zone = {}

=============================================================================
