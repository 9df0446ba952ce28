----------------------------- MODULE MCDomains ------------------------------
(***************************************************************************)
(* Two workspaces and two names, a domain and its subdomain.  The first    *)
(* workspace holds both from before verification existed, neither has   *)
(* a published record.                                                     *)
(***************************************************************************)
EXTENDS Domains, TLC

CONSTANTS holder, claimant, apex, sub

MCParents(n) == IF n = sub THEN {apex} ELSE {}

Unverified(n, parent, record) ==
    [ws |-> holder, name |-> n, via |-> "legacy", parent |-> parent,
     record |-> record, evicted |-> FALSE, upto |-> 0]

MCLegacy == <<Unverified(apex, 0, 0), Unverified(sub, 1, 0)>>

Claimed == {<<w, n>> \in Workspaces \X Names : claims[w][n] # "none"}

\* A run is followed while it has a claim and nothing else, or no claim and two records
\* or a record and a fault.
OneConcern == 2 * Cardinality(Claimed) + issued + faults <= 2

RequestSymmetry == Permutations(Requests)

=============================================================================
