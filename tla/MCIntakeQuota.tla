--------------------------- MODULE MCIntakeQuota ---------------------------
(***************************************************************************)
(* IntakeQuota on a small instance.  Handlers are interchangeable, and so  *)
(* are reporters of one kind.                                              *)
(***************************************************************************)
EXTENDS IntakeQuota, FiniteSetsExt, TLC

CONSTANT MaxMessages   \* bound: messages in all

QuotaSymmetry ==
    Permutations(Mails) \cup Permutations(Unknown) \cup Permutations(Claimed)

FewMessages == MapThenSumSet(LAMBDA k : sent[k], Keys) <= MaxMessages

=============================================================================
