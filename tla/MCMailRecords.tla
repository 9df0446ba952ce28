--------------------------- MODULE MCMailRecords ---------------------------
(***************************************************************************)
(* MailRecords on a small instance.                                        *)
(***************************************************************************)
EXTENDS MailRecords, TLC

RequestSymmetry == Permutations(Requests)

\* SPF and MTA-STS share nothing but the requests and the domain: each is followed while
\* the other one is as in the beginning.
Quiet(jobs) == Doing(jobs) = {}
OneFeature ==
    \/ texts = 1 /\ ranges = 1 /\ flattening = NoFlattening /\ ~Flat(spf)
         /\ Quiet({"flatten", "refresh", "restore", "apply"})
    \/ zone = {} /\ policy = NoPolicy /\ mx = 0 /\ clock = 1 /\ created = 0
         /\ Quiet({"enable", "update", "disable"})

=============================================================================
