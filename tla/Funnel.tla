------------------------------- MODULE Funnel -------------------------------
(***************************************************************************)
(* The onboarding mails after a free check (src/funnel/sequence.ts,        *)
(* enroll.ts, cron.ts and packages/db/src/queries/funnel.ts): leads are    *)
(* enrolled, get one mail per step from the daily run, and leave by        *)
(* unsubscribing, bouncing, becoming a user or being stopped by hand.      *)
(*                                                                         *)
(* A run works through the leads it has read, one await at a time, while   *)
(* another run and the HTTP requests do the same; each can die.  Time is   *)
(* counted in days: an invocation is over long before the next.            *)
(***************************************************************************)
EXTENDS Integers, Sequences, FiniteSets

CONSTANTS
    Addresses,  \* normalised e-mail addresses
    Runs,       \* invocations of the sequence that run at the same time
    Steps,      \* mails of the sequence
    NeedsUrl,   \* steps (from 0) whose mail needs BOOKING_URL
    Limits,     \* how many leads a run may take
    Gap,        \* bound: days to the next mail
    Late,       \* bound: days overdue that are told apart
    MaxLeads,   \* bound: leads ever created
    MaxFaults   \* bound: deaths and refusals of the provider's configuration

ASSUME FunnelAssumption ==
    /\ IsFiniteSet(Addresses)
    /\ Steps \in Nat \ {0} /\ Gap \in Nat \ {0} /\ Late \in Nat
    /\ MaxLeads \in Nat /\ MaxFaults \in Nat

VARIABLES
    lead,       \* per address: its row in leads
    created,    \* rows inserted so far: the last id
    sent,       \* history, per id: the steps that went out, or may have
    suppressed, \* addresses in the suppression list
    checked,    \* addresses whose enrolment found them not suppressed
    leaving,    \* addresses being unsubscribed: suppressed, lead not deleted yet
    booking,    \* BOOKING_URL is set
    ran,        \* the sequence ran today
    run,        \* per run: the await it is at and the leads still to do
    faults      \* faults so far

vars == <<lead, created, sent, suppressed, checked, leaving, booking, ran, run, faults>>

\* stopped: replied, booked or converted. A stop is for good.
Stops    == {"stopped", "bounced"}
Statuses == {"active", "completed"} \cup Stops
NoLead   == [status |-> "absent"]
\* due: days until next_send_at (0 where it is null or says nothing).
Lead     == [id : 1..MaxLeads, status : Statuses, step : 0..Steps, due : (-Late)..Gap]
\* What a run has read of a lead.
Copy     == [email : Addresses, id : 1..MaxLeads, step : 0..Steps, due : (-Late)..Gap]

Places == {"idle", "decide", "advance", "vet", "send", "suppress", "restore"}
Idle   == [at |-> "idle", todo |-> <<>>]

Active(e) == lead[e].status = "active"
IsRow(e, id) == lead[e] # NoLead /\ lead[e].id = id
This(r)   == Head(run[r].todo)
Goto(r, place) == run' = [run EXCEPT ![r].at = place]
\* On to the next lead, or the run is over.
NextLead(r) == run' = [run EXCEPT ![r] = IF Len(@.todo) > 1 THEN [at |-> "decide", todo |-> Tail(@.todo)]
                                         ELSE Idle]
Break(r)    == run' = [run EXCEPT ![r] = Idle]

Init ==
    /\ lead = [e \in Addresses |-> NoLead]
    /\ created = 0
    /\ sent = [i \in 1..MaxLeads |-> <<>>]
    /\ suppressed = {} /\ checked = {} /\ leaving = {}
    /\ booking \in BOOLEAN /\ ran = FALSE
    /\ run = [r \in Runs |-> Idle]
    /\ faults = 0

-----------------------------------------------------------------------------
(* Requests                                                                *)

\* enrollLead: the suppression list is asked, then the lead is inserted.
StartEnroll(e) ==
    /\ e \notin suppressed \cup checked
    /\ checked' = checked \cup {e}
    /\ UNCHANGED <<lead, created, sent, suppressed, leaving, booking, ran, run, faults>>

\* Mutant of Enroll: a second check starts the sequence again.
EnrollAgain(e) ==
    /\ e \in checked
    /\ lead[e] = NoLead => created < MaxLeads
    /\ checked' = checked \ {e}
    /\ created' = IF lead[e] = NoLead THEN created + 1 ELSE created
    /\ lead' = [lead EXCEPT ![e] = [id |-> IF lead[e] = NoLead THEN created + 1 ELSE lead[e].id,
                                    status |-> "active", step |-> 0, due |-> 1]]
    /\ UNCHANGED <<sent, suppressed, leaving, booking, ran, run, faults>>

\* upsert: an address that is known keeps its place.
Enroll(e) ==
    /\ e \in checked
    /\ lead[e] = NoLead => created < MaxLeads
    /\ checked' = checked \ {e}
    /\ IF lead[e] = NoLead
       THEN /\ created' = created + 1
            /\ lead' = [lead EXCEPT ![e] = [id |-> created + 1, status |-> "active", step |-> 0, due |-> 1]]
       ELSE UNCHANGED <<lead, created>>
    /\ UNCHANGED <<sent, suppressed, leaving, booking, ran, run, faults>>

EnrollFails(e) ==
    /\ e \in checked
    /\ checked' = checked \ {e}
    /\ UNCHANGED <<lead, created, sent, suppressed, leaving, booking, ran, run, faults>>

\* unsubscribeEmail: suppressed first, for good.  A link of any mail will do.
Unsubscribe(e) ==
    /\ e \notin leaving
    /\ suppressed' = suppressed \cup {e}
    /\ leaving' = leaving \cup {e}
    /\ UNCHANGED <<lead, created, sent, checked, booking, ran, run, faults>>

Forget(e) ==
    /\ e \in leaving
    /\ lead' = [lead EXCEPT ![e] = NoLead]
    /\ leaving' = leaving \ {e}
    /\ UNCHANGED <<created, sent, suppressed, checked, booking, ran, run, faults>>

ForgetFails(e) ==
    /\ e \in leaving
    /\ leaving' = leaving \ {e}
    /\ UNCHANGED <<lead, created, sent, suppressed, checked, booking, ran, run, faults>>

\* setStatus: nothing is due any more.
Stopped(e, status) == [lead EXCEPT ![e].status = status, ![e].due = 0]

\* stopLead: the owner records that they replied, booked or bought.
StopLead(e) ==
    /\ lead[e] # NoLead
    /\ lead' = Stopped(e, "stopped")
    /\ UNCHANGED <<created, sent, suppressed, checked, leaving, booking, ran, run, faults>>

\* The operator sets BOOKING_URL.
SetBooking ==
    /\ ~booking
    /\ booking' = TRUE
    /\ UNCHANGED <<lead, created, sent, suppressed, checked, leaving, ran, run, faults>>

-----------------------------------------------------------------------------
(* The daily run                                                           *)

Due(e) == Active(e) /\ lead[e].due <= 0

CopyOf(e) == [email |-> e, id |-> lead[e].id, step |-> lead[e].step, due |-> lead[e].due]

\* leads.due: oldest first.
Batch(s, limit) ==
    LET taken == {s[i].email : i \in 1..Len(s)}
    IN  /\ Len(s) <= limit /\ Cardinality(taken) = Len(s)
        /\ \A i \in 1..Len(s) : Due(s[i].email) /\ s[i] = CopyOf(s[i].email)
        /\ \A i, j \in 1..Len(s) : i < j => s[i].due <= s[j].due
        /\ \A e \in Addresses \ taken :
               Due(e) => Len(s) = limit /\ \A i \in 1..Len(s) : s[i].due <= lead[e].due

Batches == UNION {[1..n -> {CopyOf(e) : e \in {f \in Addresses : Due(f)}}] : n \in 1..Cardinality(Addresses)}

StartRun(r) ==
    /\ run[r] = Idle
    /\ \E limit \in Limits, s \in Batches :
           /\ Batch(s, limit)
           /\ run' = [run EXCEPT ![r] = [at |-> "decide", todo |-> s]]
    /\ ran' = TRUE
    /\ UNCHANGED <<lead, created, sent, suppressed, checked, leaving, booking, faults>>

Held(r) == This(r).step \in NeedsUrl /\ ~booking

\* Suppressed: the lead goes.
Drop(r) ==
    /\ run[r].at = "decide"
    /\ This(r).email \in suppressed
    /\ lead' = [lead EXCEPT ![This(r).email] = NoLead]
    /\ NextLead(r)
    /\ UNCHANGED <<created, sent, suppressed, checked, leaving, booking, ran, faults>>

\* They have an account by now.
Convert(r) ==
    /\ run[r].at = "decide"
    /\ This(r).email \notin suppressed
    /\ lead' = IF IsRow(This(r).email, This(r).id) THEN Stopped(This(r).email, "stopped") ELSE lead
    /\ NextLead(r)
    /\ UNCHANGED <<created, sent, suppressed, checked, leaving, booking, ran, faults>>

\* Mutant of Hold: the lead stays due, at the head of the queue.
HoldAndStay(r) ==
    /\ run[r].at = "decide"
    /\ This(r).email \notin suppressed /\ Held(r)
    /\ NextLead(r)
    /\ UNCHANGED <<lead, created, sent, suppressed, checked, leaving, booking, ran, faults>>

\* release: pushed out a day, or held leads would fill every batch.
Hold(r) ==
    /\ run[r].at = "decide"
    /\ This(r).email \notin suppressed /\ Held(r)
    /\ LET e == This(r).email
       IN  lead' = IF IsRow(e, This(r).id) /\ Active(e) THEN [lead EXCEPT ![e].due = 1] ELSE lead
    /\ NextLead(r)
    /\ UNCHANGED <<created, sent, suppressed, checked, leaving, booking, ran, faults>>

Proceed(r) ==
    /\ run[r].at = "decide"
    /\ This(r).email \notin suppressed /\ ~Held(r)
    /\ Goto(r, "advance")
    /\ UNCHANGED <<lead, created, sent, suppressed, checked, leaving, booking, ran, faults>>

\* The row is as it was read: active, at that step and still due.
Unmoved(r) ==
    LET e == This(r).email
    IN  IsRow(e, This(r).id) /\ Due(e) /\ lead[e].step = This(r).step

\* Mutant of Advance: the last step is not the end (nextDue compares with > for >=).
AdvancePast(r) ==
    /\ run[r].at = "advance"
    /\ IF Unmoved(r)
       THEN /\ lead' = [lead EXCEPT ![This(r).email].step = @ + 1, ![This(r).email].due = 1]
            /\ Goto(r, "vet")
       ELSE NextLead(r) /\ UNCHANGED lead
    /\ UNCHANGED <<created, sent, suppressed, checked, leaving, booking, ran, faults>>

\* Mutant of Advance: the mail goes out whether or not the step was won.
AdvanceAnyway(r) ==
    /\ run[r].at = "advance"
    /\ lead' = IF Unmoved(r)
               THEN [lead EXCEPT ![This(r).email].step = @ + 1, ![This(r).email].due = 1] ELSE lead
    /\ Goto(r, "vet")
    /\ UNCHANGED <<created, sent, suppressed, checked, leaving, booking, ran, faults>>

\* The step counts as sent before it is: only the run that moves it sends.
Advance(r) ==
    /\ run[r].at = "advance"
    /\ LET e == This(r).email
           n == This(r).step + 1
       IN  IF Unmoved(r)
           THEN /\ IF n = Steps
                   THEN lead' = [lead EXCEPT ![e].step = n, ![e].status = "completed", ![e].due = 0]
                   ELSE \E d \in 1..Gap : lead' = [lead EXCEPT ![e].step = n, ![e].due = d]
                /\ Goto(r, "vet")
           ELSE NextLead(r) /\ UNCHANGED lead
    /\ UNCHANGED <<created, sent, suppressed, checked, leaving, booking, ran, faults>>

\* sendNonTransactional asks the suppression list again, right before sending.
Vet(r) ==
    /\ run[r].at = "vet"
    /\ IF This(r).email \in suppressed
       THEN lead' = [lead EXCEPT ![This(r).email] = NoLead] /\ NextLead(r)
       ELSE Goto(r, "send") /\ UNCHANGED lead
    /\ UNCHANGED <<created, sent, suppressed, checked, leaving, booking, ran, faults>>

Out(r) == sent' = [sent EXCEPT ![This(r).id] = Append(@, This(r).step)]

\* The provider takes the mail.
Send(r) ==
    /\ run[r].at = "send"
    /\ Out(r)
    /\ NextLead(r)
    /\ UNCHANGED <<lead, created, suppressed, checked, leaving, booking, ran, faults>>

\* No answer, or one that says nothing: the mail may have gone out.  The step
\* stays marked, and the run stops.
SendUnclear(r) ==
    /\ run[r].at = "send"
    /\ faults < MaxFaults
    /\ Out(r)
    /\ Break(r)
    /\ faults' = faults + 1
    /\ UNCHANGED <<lead, created, suppressed, checked, leaving, booking, ran>>

\* The recipient is refused.
Bounce(r) ==
    /\ run[r].at = "send"
    /\ LET e == This(r).email
       IN  lead' = IF IsRow(e, This(r).id) THEN Stopped(e, "bounced") ELSE lead
    /\ Goto(r, "suppress")
    /\ UNCHANGED <<created, sent, suppressed, checked, leaving, booking, ran, faults>>

Suppress(r) ==
    /\ run[r].at = "suppress"
    /\ suppressed' = suppressed \cup {This(r).email}
    /\ NextLead(r)
    /\ UNCHANGED <<lead, created, sent, checked, leaving, booking, ran, faults>>

\* A fault of the configuration, or an error before the send: nothing went out.
Refuse(r) ==
    /\ run[r].at = "send"
    /\ faults < MaxFaults
    /\ Goto(r, "restore")
    /\ faults' = faults + 1
    /\ UNCHANGED <<lead, created, sent, suppressed, checked, leaving, booking, ran>>

\* The step is put back, with the status the lead had, and the run stops.
Restore(r) ==
    /\ run[r].at = "restore"
    /\ LET e == This(r).email
       IN  lead' = IF IsRow(e, This(r).id) /\ lead[e].step = This(r).step + 1
                   THEN [lead EXCEPT ![e].step = This(r).step, ![e].due = This(r).due, ![e].status = "active"]
                   ELSE lead
    /\ Break(r)
    /\ UNCHANGED <<created, sent, suppressed, checked, leaving, booking, ran, faults>>

\* The isolate dies, or a statement fails before anything is marked.
Die(r) ==
    /\ run[r] # Idle
    /\ faults < MaxFaults
    /\ Break(r)
    /\ faults' = faults + 1
    /\ UNCHANGED <<lead, created, sent, suppressed, checked, leaving, booking, ran>>

\* A day passes: the cron has fired, and its run is over.
Day ==
    /\ \A r \in Runs : run[r] = Idle
    /\ ran \/ \A e \in Addresses : ~Due(e)
    /\ lead' = [e \in Addresses |-> IF Active(e) /\ lead[e].due > -Late
                                    THEN [lead[e] EXCEPT !.due = @ - 1] ELSE lead[e]]
    /\ ran' = FALSE
    /\ UNCHANGED <<created, sent, suppressed, checked, leaving, booking, run, faults>>

\* Retention: no activity for a year.
Expire(e) ==
    /\ lead[e] # NoLead
    /\ \A r \in Runs : run[r] = Idle
    /\ lead' = [lead EXCEPT ![e] = NoLead]
    /\ UNCHANGED <<created, sent, suppressed, checked, leaving, booking, ran, run, faults>>

-----------------------------------------------------------------------------
Work(r) ==
    \/ Drop(r) \/ Hold(r) \/ Proceed(r) \/ Advance(r) \/ Vet(r)
    \/ Send(r) \/ Suppress(r) \/ Restore(r)

Chance(r) == Convert(r) \/ SendUnclear(r) \/ Bounce(r) \/ Refuse(r) \/ Die(r)

Next ==
    \/ \E e \in Addresses :
           \/ StartEnroll(e) \/ Enroll(e) \/ EnrollFails(e)
           \/ Unsubscribe(e) \/ Forget(e) \/ ForgetFails(e)
           \/ StopLead(e) \/ Expire(e)
    \/ \E r \in Runs : StartRun(r) \/ Work(r) \/ Chance(r)
    \/ SetBooking \/ Day

Spec == Init /\ [][Next]_vars

-----------------------------------------------------------------------------
(* Properties                                                              *)

TypeOK ==
    /\ lead \in [Addresses -> Lead \cup {NoLead}]
    /\ created \in 0..MaxLeads
    /\ sent \in [1..MaxLeads -> Seq(0..(Steps - 1))]
    /\ suppressed \subseteq Addresses /\ checked \subseteq Addresses /\ leaving \subseteq suppressed
    /\ booking \in BOOLEAN /\ ran \in BOOLEAN
    /\ \A r \in Runs : run[r].at \in Places /\ run[r].todo \in Seq(Copy)
    /\ faults \in 0..MaxFaults

\* sequence.ts:4, "a repeated or overlapping run, or a crash right after the
\* provider accepted the mail, can never send a step twice": a lead gets its
\* mails in order, each once.
EachStepOnce == \A i \in 1..MaxLeads : \A m, n \in 1..Len(sent[i]) : m < n => sent[i][m] < sent[i][n]

\* enroll.ts:55: a lead that was stopped by hand, bounced or has an account by now
\* stays stopped: no second check, no other run and no new row with its address starts
\* it again.  One step may: a run that had marked the next mail of this very row
\* before the stop, could not send it, and puts back what it had read.
StopHolds ==
    [][\A e \in Addresses :
          lead[e].status \in Stops /\ lead'[e].status = "active" =>
              \E r \in Runs : /\ run[r].at = "restore" /\ This(r).email = e
                            /\ This(r).id = lead[e].id /\ This(r).step + 1 = lead[e].step]_vars

\* sequence.ts:85: held leads do not starve the rest, whatever they wait for.
\* Every other lead is in front of a lead at most once: nobody waits longer than
\* there are others, and a day more for each run that was cut short.
NotStarved ==
    \A e \in Addresses : Active(e) => -lead[e].due < Cardinality(Addresses) + faults

=============================================================================
