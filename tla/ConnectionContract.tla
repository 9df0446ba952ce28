------------------------- MODULE ConnectionContract -------------------------
(***************************************************************************)
(* What a stored Cloudflare connection promises to everyone who reads it,  *)
(* whatever isolates, retries and key rotations happen behind it.  The     *)
(* detailed protocol is ConnectionTokens; this module only says how the    *)
(* pair (status, stored token pair) of one row may move:                   *)
(*                                                                         *)
(*   - within one grant the stored token pair only moves forward;          *)
(*   - only a reconnect brings in another grant, always a newer one, and   *)
(*     only a reconnect makes a broken connection active again;            *)
(*   - a removed connection never comes back.                              *)
(***************************************************************************)
EXTENDS Naturals

VARIABLES
    status,   \* "active", "broken" or "gone" (the row is deleted)
    pair      \* [grant, n]: the n-th token pair of a grant, sealed in the row

vars == <<status, pair>>

Init ==
    /\ status = "active"
    /\ pair = [grant |-> 1, n |-> 1]

\* A refresh stores a later pair of the same grant; the status is not touched.
Rotate ==
    /\ status # "gone"
    /\ pair'.grant = pair.grant
    /\ pair'.n > pair.n
    /\ UNCHANGED status

Break ==
    /\ status = "active"
    /\ status' = "broken"
    /\ UNCHANGED pair

Reconnect ==
    /\ status # "gone"
    /\ status' = "active"
    /\ pair'.grant > pair.grant
    /\ pair'.n = 1

Remove ==
    /\ status # "gone"
    /\ status' = "gone"
    /\ UNCHANGED pair

Next == Rotate \/ Break \/ Reconnect \/ Remove

Spec == Init /\ [][Next]_vars

=============================================================================
