---------------------------- MODULE IntakeQuota ----------------------------
(***************************************************************************)
(* The allowance of ONE report address on ONE day: how many messages, and  *)
(* how many bytes, each reporter may deliver (src/hosted/intake.ts and     *)
(* tryConsume in packages/db/src/queries/intake.ts).                       *)
(*                                                                         *)
(* Three kinds of reporters share the table intake_usage: well-known ones, *)
(* proven ones nothing is known of, who compete for slots and share a      *)
(* daily total, and unproven ones, counted by the sender they claim and    *)
(* past the slots in one overflow bucket.                                  *)
(*                                                                         *)
(* One action is one D1 statement.  A mail handler runs tryConsume once;   *)
(* handlers of different mails interleave between their statements, and    *)
(* any of them may fail after any statement.                               *)
(***************************************************************************)
EXTENDS Integers, FiniteSets

CONSTANTS
    Mails,        \* mail handlers that run at the same time
    Known,        \* WELL_KNOWN_REPORTERS
    Unknown,      \* proven reporter domains that are not well known
    Claimed,      \* '~domain': senders an unproven message claims
    Overflow,     \* '~': the bucket of the claimed senders without a slot
    Nobody,       \* no key
    Sizes,        \* message sizes, in bytes
    MaxSent,      \* bound: messages per reporter
    MaxReports, MaxBytes, MaxSlots,               \* a proven reporter's limits
    ClaimedReports, ClaimedBytes, ClaimedSlots,   \* a claimed sender's
    TotalReports, TotalBytes                      \* all Unknown together

Unproven == Claimed \cup {Overflow}
Keys     == Known \cup Unknown \cup Unproven
Usage    == [reports : Nat, bytes : Nat]
Nothing  == [reports |-> 0, bytes |-> 0]

ASSUME KeysAssumption ==
    /\ Known \cap Unknown = {}
    /\ (Known \cup Unknown) \cap Unproven = {}
    /\ Overflow \notin Claimed
    /\ Nobody \notin Keys

ASSUME FiniteAssumption ==
    IsFiniteSet(Mails) /\ IsFiniteSet(Claimed) /\ Mails # {}

\* intakeLimits: every limit is a positive number.
ASSUME LimitsAssumption ==
    /\ Sizes \subseteq Nat
    /\ MaxReports \in Nat \ {0} /\ MaxBytes \in Nat \ {0} /\ MaxSlots \in Nat \ {0}
    /\ ClaimedReports \in Nat \ {0} /\ ClaimedBytes \in Nat \ {0} /\ ClaimedSlots \in Nat \ {0}
    /\ TotalReports \in Nat \ {0} /\ TotalBytes \in Nat \ {0}
    /\ MaxSent \in Nat

VARIABLES
    rows,      \* the reporters that have a row in intake_usage
    used,      \* their reports and bytes (nothing without a row)
    total,     \* the row '*': what unknown reporters used together
    mail,      \* per handler: the next statement and the call's locals
    sent,      \* history: messages each reporter sent
    accepted,  \* history: messages accepted, by the key that was charged
    taken,     \* history: what was accepted from unknown reporters, in all
    evicted    \* history: reporters that lost their slot

vars == <<rows, used, total, mail, sent, accepted, taken, evicted>>
table == <<rows, used, total>>
history == <<sent, accepted, taken, evicted>>

-----------------------------------------------------------------------------
Places == {"idle", "look", "slots", "victim", "evict", "charge", "total", "refund"}

Handler == [at : Places, key : Keys \cup {Nobody}, size : Sizes \cup {0},
            victim : Unknown \cup {Nobody}]

Idle == [at |-> "idle", key |-> Nobody, size |-> 0, victim |-> Nobody]

Goto(p, place) == mail' = [mail EXCEPT ![p].at = place]
Leave(p)       == mail' = [mail EXCEPT ![p] = Idle]

Limit(k) == IF k \in Unproven
            THEN [reports |-> ClaimedReports, bytes |-> ClaimedBytes, slots |-> ClaimedSlots]
            ELSE [reports |-> MaxReports, bytes |-> MaxBytes, slots |-> MaxSlots]

Add(u, s)  == [reports |-> u.reports + 1, bytes |-> u.bytes + s]
Fits(u, s, limit) == u.reports < limit.reports /\ u.bytes + s <= limit.bytes

\* The rows that use a slot, of the kind of key k.
Slots(k) == IF k \in Unproven THEN rows \cap Unproven ELSE rows \cap Unknown

Init ==
    /\ rows = {}
    /\ used = [k \in Keys |-> Nothing]
    /\ total = Nothing
    /\ mail = [p \in Mails |-> Idle]
    /\ sent = [k \in Keys |-> 0]
    /\ accepted = [k \in Keys |-> 0]
    /\ taken = Nothing
    /\ evicted = {}

-----------------------------------------------------------------------------
\* A message for the address arrives; one larger than a whole day's allowance
\* is refused at once and counts nothing.
Arrive(p, k, s) ==
    /\ mail[p].at = "idle"
    /\ sent[k] < MaxSent
    /\ sent' = [sent EXCEPT ![k] = @ + 1]
    /\ mail' = IF s > Limit(k).bytes THEN mail
               ELSE [mail EXCEPT ![p] = [at |-> "look", key |-> k, size |-> s, victim |-> Nobody]]
    /\ UNCHANGED <<table, accepted, taken, evicted>>

\* Has the reporter a row?  If not, and it is not well known, it needs a slot.
LookUp(p) ==
    /\ mail[p].at = "look"
    /\ Goto(p, IF mail[p].key \in rows \cup Known THEN "charge" ELSE "slots")
    /\ UNCHANGED <<table, history>>

\* Mutant of CountSlots: claimed senders are not sent to the overflow bucket.
CountSlotsUnbounded(p) ==
    /\ mail[p].at = "slots"
    /\ Goto(p, IF mail[p].key \in Unproven \/ Cardinality(Slots(mail[p].key)) < Limit(mail[p].key).slots
               THEN "charge" ELSE "victim")
    /\ UNCHANGED <<table, history>>

\* Are the slots taken?  Then an unproven sender falls into the overflow
\* bucket, and for a proven reporter another one has to go.
CountSlots(p) ==
    /\ mail[p].at = "slots"
    /\ LET k == mail[p].key
           full == Cardinality(Slots(k)) >= Limit(k).slots
       IN  mail' = [mail EXCEPT ![p].at = IF full /\ k \notin Unproven THEN "victim" ELSE "charge",
                                ![p].key = IF full /\ k \in Unproven THEN Overflow ELSE @]
    /\ UNCHANGED <<table, history>>

NotMore(u, v) == u.reports < v.reports \/ (u.reports = v.reports /\ u.bytes <= v.bytes)
LeastUsed == {v \in rows \cap Unknown : \A w \in rows \cap Unknown : NotMore(used[v], used[w])}

\* Mutant of PickVictim: the newcomer takes over the row instead of the slot.
PickVictimsRow(p) ==
    /\ mail[p].at = "victim"
    /\ \/ \E v \in LeastUsed : mail' = [mail EXCEPT ![p].at = "charge", ![p].key = v]
       \/ rows \cap Unknown = {} /\ Goto(p, "charge")
    /\ UNCHANGED <<table, history>>

\* The least-used unknown reporter, if a row is still there.
PickVictim(p) ==
    /\ mail[p].at = "victim"
    /\ \/ \E v \in LeastUsed :
             mail' = [mail EXCEPT ![p].at = "evict", ![p].victim = v]
       \/ rows \cap Unknown = {} /\ Goto(p, "charge")
    /\ UNCHANGED <<table, history>>

\* Mutant of Evict: what the evicted reporter used leaves the total as well.
EvictAndForget(p) ==
    /\ mail[p].at = "evict"
    /\ LET v == mail[p].victim
       IN  /\ rows' = rows \ {v}
           /\ used' = [used EXCEPT ![v] = Nothing]
           /\ total' = [reports |-> total.reports - used[v].reports, bytes |-> total.bytes - used[v].bytes]
           /\ evicted' = evicted \cup {v}
    /\ Goto(p, "charge")
    /\ UNCHANGED <<sent, accepted, taken>>

\* Its row is deleted: by now it may be gone already, or be back in use.
Evict(p) ==
    /\ mail[p].at = "evict"
    /\ LET v == mail[p].victim
       IN  /\ rows' = rows \ {v}
           /\ used' = [used EXCEPT ![v] = Nothing]
           /\ evicted' = evicted \cup {v}
    /\ Goto(p, "charge")
    /\ UNCHANGED <<total, sent, accepted, taken>>

Accept(p) ==
    /\ accepted' = [accepted EXCEPT ![mail[p].key] = @ + 1]
    /\ Leave(p)

\* INSERT ... ON CONFLICT DO UPDATE ... WHERE it still fits: a new row always
\* takes the message.  Only unknown reporters are counted in the total too.
Charge(p) ==
    /\ mail[p].at = "charge"
    /\ LET k == mail[p].key
           s == mail[p].size
       IN  IF k \notin rows \/ Fits(used[k], s, Limit(k))
           THEN /\ rows' = rows \cup {k}
                /\ used' = [used EXCEPT ![k] = Add(@, s)]
                /\ IF k \in Unknown THEN Goto(p, "total") /\ UNCHANGED accepted
                                    ELSE Accept(p)
           ELSE Leave(p) /\ UNCHANGED <<rows, used, accepted>>
    /\ UNCHANGED <<total, sent, taken, evicted>>

TotalFits(s) ==
    total.reports = 0 \/ Fits(total, s, [reports |-> TotalReports, bytes |-> TotalBytes])

\* The same for the row '*', which is never deleted nor given back.
ChargeTotal(p) ==
    /\ mail[p].at = "total"
    /\ IF TotalFits(mail[p].size)
       THEN /\ total' = Add(total, mail[p].size)
            /\ taken' = Add(taken, mail[p].size)
            /\ Accept(p)
       ELSE Goto(p, "refund") /\ UNCHANGED <<total, taken, accepted>>
    /\ UNCHANGED <<rows, used, sent, evicted>>

AtLeast0(n) == IF n < 0 THEN 0 ELSE n

\* Mutant of Refund: the whole row goes, with what others are counted in it.
RefundRow(p) ==
    /\ mail[p].at = "refund"
    /\ used' = [used EXCEPT ![mail[p].key] = Nothing]
    /\ Leave(p)
    /\ UNCHANGED <<rows, total, history>>

\* Mutant of Refund: no floor at zero, where the row has been replaced.
RefundBelowZero(p) ==
    /\ mail[p].at = "refund"
    /\ used' = [used EXCEPT ![mail[p].key] = [reports |-> @.reports - 1, bytes |-> @.bytes - mail[p].size]]
    /\ Leave(p)
    /\ UNCHANGED <<rows, total, history>>

\* Over the total: give the reporter back what was just counted for it.  Its
\* row may have been deleted since, or be a new one.
Refund(p) ==
    /\ mail[p].at = "refund"
    /\ used' = [used EXCEPT ![mail[p].key] = [reports |-> AtLeast0(@.reports - 1),
                                              bytes |-> AtLeast0(@.bytes - mail[p].size)]]
    /\ Leave(p)
    /\ UNCHANGED <<rows, total, history>>

\* D1 charged the total but reported an error, or the handler died there:
\* the sender delivers the message again.
TotalUnacknowledged(p) ==
    /\ mail[p].at = "total"
    /\ TotalFits(mail[p].size)
    /\ total' = Add(total, mail[p].size)
    /\ Leave(p)
    /\ UNCHANGED <<rows, used, history>>

\* A statement fails: what was charged stays charged.
Abort(p) ==
    /\ mail[p].at # "idle"
    /\ Leave(p)
    /\ UNCHANGED <<table, history>>

Consume(p) ==
    \/ LookUp(p) \/ CountSlots(p) \/ PickVictim(p) \/ Evict(p)
    \/ Charge(p) \/ ChargeTotal(p) \/ Refund(p)

Next ==
    \E p \in Mails :
        \/ \E k \in Keys, s \in Sizes : Arrive(p, k, s)
        \/ Consume(p)
        \/ TotalUnacknowledged(p) \/ Abort(p)

Spec == Init /\ [][Next]_vars

-----------------------------------------------------------------------------
(* Properties                                                              *)

TypeOK ==
    /\ rows \subseteq Keys
    /\ used \in [Keys -> Usage]
    /\ total \in Usage
    /\ mail \in [Mails -> Handler]
    /\ sent \in [Keys -> Nat]
    /\ accepted \in [Keys -> Nat]
    /\ taken \in Usage
    /\ evicted \subseteq Unknown

Largest(m, n) == IF m > n THEN m ELSE n

\* queries/intake.ts:90-92, "reporters that come and go cannot each bring a
\* fresh allowance": whatever the slots do, what was accepted in a day from
\* unknown reporters is within the total.  The first message of a day is let
\* in even where the total allows fewer bytes than one reporter may send.
UnknownWithinTotal ==
    /\ taken.reports <= TotalReports
    /\ taken.bytes <= Largest(TotalBytes, MaxBytes)

\* queries/intake.ts:89-93: a reporter that never lost its slot gets no more
\* than its own allowance, however its messages interleave with refunds,
\* evictions and failures.
OwnAllowance ==
    \A k \in Keys \ evicted : accepted[k] <= Limit(k).reports

\* hosted/intake.ts:74-78, "junk cannot use up a proven reporter's allowance":
\* a reporter's row counts nobody's messages but its own.
NoSharedAllowance ==
    \A k \in Keys \ {Overflow} : used[k].reports <= sent[k]

\* queries/intake.ts:70, and "best-effort bound" at :54: claimed senders have a
\* row of their own up to the slots, plus those that counted at the same time.
ClaimedSlotsBounded ==
    Cardinality(rows \cap Claimed) <= ClaimedSlots - 1 + Cardinality(Mails)

-----------------------------------------------------------------------------
(* The inductive invariant: why the above holds, whatever the constants.    *)

\* Only proven reporters without a standing take part in slots and the total.
SoundHandler(p) ==
    LET m == mail[p]
    IN  /\ m.at # "idle" =>
               m.key \in Keys /\ m.size \in Sizes /\ m.size <= Limit(m.key).bytes
        /\ m.at = "slots" => m.key \notin Known
        /\ m.at \in {"victim", "evict", "total", "refund"} => m.key \in Unknown
        /\ m.at = "evict" => m.victim \in Unknown

Rowless == \A k \in Keys \ rows : used[k] = Nothing

\* Handlers whose message is charged to k and not accepted yet.
Charged(k) == {p \in Mails : mail[p].key = k /\ mail[p].at \in {"total", "refund"}}

\* Handlers whose message of k is not charged yet.
Coming(k) == {p \in Mails : mail[p].key = k /\
                  mail[p].at \in {"look", "slots", "victim", "evict", "charge"}}

\* Handlers about to insert a row for a claimed sender.
Adding == {p \in Mails : mail[p].at = "charge" /\ mail[p].key \in Claimed \ rows}

\* What was taken is counted in the total, and the total is capped.
TotalCounts ==
    /\ taken.reports <= total.reports /\ taken.bytes <= total.bytes
    /\ total.reports = 0 => total.bytes = 0
    /\ total.reports <= TotalReports
    /\ total.bytes <= Largest(TotalBytes, MaxBytes)

\* A row that was never deleted counts all that was accepted or may yet be.
OwnCounts(k) ==
    /\ used[k].reports <= Limit(k).reports
    /\ k \notin evicted => accepted[k] + Cardinality(Charged(k)) <= used[k].reports

SentCounts(k) == k # Overflow => used[k].reports + Cardinality(Coming(k)) <= sent[k]

SlotsCount ==
    Cardinality(rows \cap Claimed) + Cardinality(Adding) <= ClaimedSlots - 1 + Cardinality(Mails)

QInv ==
    /\ TypeOK
    /\ \A p \in Mails : SoundHandler(p)
    /\ Rowless
    /\ TotalCounts
    /\ \A k \in Keys : OwnCounts(k) /\ SentCounts(k)
    /\ SlotsCount

=============================================================================
