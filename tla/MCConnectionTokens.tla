------------------------- MODULE MCConnectionTokens -------------------------
(***************************************************************************)
(* ConnectionTokens on small instances.  Isolates are interchangeable      *)
(* model values, so the runs of safety properties identify states up to    *)
(* renaming them.                                                          *)
(***************************************************************************)
EXTENDS ConnectionTokens, TLC

IsolateSymmetry == Permutations(Isolates)

(* At most one access token is revoked alone.  Once the owner has authorized *)
(* again, at most three pairs are issued in all, one grant is revoked, no    *)
(* access token is revoked alone and no unstored pair dies with its call:    *)
(* the cross product of those with a reconnect is cut off.                   *)
Reconnected == issued[2] > 0

FewFaults ==
    /\ Cardinality(killed) <= 1
    /\ Reconnected =>
           /\ issued[1] + issued[2] <= 3
           /\ Cardinality(revoked) <= 1
           /\ killed = {}
           /\ lost = {}

(* No access token is revoked alone: the half of a disconnect that does not  *)
(* end the grant.                                                            *)
NoneKilled == killed = {}

(* Where keys rotate too, the owner does not reconnect or disconnect         *)
(* meanwhile: the other run has that, without new keys.                      *)
OwnerOrDeploy == deploy > 1 => owner.at = "idle"

=============================================================================
