---------------------------- MODULE MCMembership ----------------------------
(***************************************************************************)
(* Membership on a small instance.  Requests, users and invitations are    *)
(* interchangeable.  A run is not followed beyond the first workspace      *)
(* whose ownership came to someone who was being taken out.                *)
(***************************************************************************)
EXTENDS Membership, TLC

TeamSymmetry ==
    Permutations(Users) \cup Permutations(Invites) \cup Permutations(Handlers)

NotRacedBefore == raced = {}

=============================================================================
