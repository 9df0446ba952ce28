------------------------------ MODULE MCFunnel ------------------------------
(***************************************************************************)
(* The onboarding sequence on a small instance.                            *)
(***************************************************************************)
EXTENDS Funnel, TLC

Symmetry == Permutations(Addresses) \cup Permutations(Runs)

=============================================================================
