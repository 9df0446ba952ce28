------------------------------ MODULE Reports ------------------------------
(***************************************************************************)
(* The aggregate reports of a domain: storing what the mail handlers       *)
(* deliver, the mail about the first one (src/dmarc/store-report.ts), and  *)
(* the daily retention run (src/lifecycle/retention.ts), which deletes     *)
(* records, reports and raw XML in bounded statements out of one budget    *)
(* (packages/db/src/queries/global-lifecycle.ts).                          *)
(***************************************************************************)
EXTENDS FiniteSets, FiniteSetsExt, Functions, Integers

CONSTANTS
    Handlers,       \* mail handlers at work at the same time
    Keys,           \* report_id's that reporters send
    Size,           \* records per report
    Window,         \* reportsDays
    RawDays,        \* rawDays
    Batch,          \* limits.batch
    RecordBatch,    \* limits.recordBatch
    Statements,     \* the budget of a run
    MaxDeliveries,  \* bound: mails with a report
    MaxOthers,      \* bound: expired rows of the other tables
    MaxFaults       \* bound: statements and mails that fail, handlers and runs that die

\* A run must get past the tables that are clean: here 2 statements for the reports and
\* one for the raw XML leave one for the rest (in the code 12 of 300).
ASSUME BoundsAssumption ==
    /\ Size \in Nat \ {0} /\ Window \in Nat \ {0} /\ RawDays \in Nat
    /\ Batch \in Nat \ {0} /\ RecordBatch \in Nat \ {0} /\ Statements \in Nat \ 0..3
    /\ MaxDeliveries \in Nat /\ MaxOthers \in Nat /\ MaxFaults \in Nat
    /\ IsFiniteSet(Handlers)

VARIABLES
    row,        \* aggregate_reports by id, each with the number of its report_records
    age,        \* days since date_end of what a key reports on
    others,     \* expired rows of the tables that are swept last
    req,        \* per handler: its next step and the report it stored
    sweep,      \* the retention run: its next statement and what the budget has left
    clean,      \* tables the run reports neither as truncated nor as failed
    ran,        \* has today's run begun
    mails,      \* first-report mails sent
    taken,      \* deliveries so far
    swept,      \* history: reports that the run deleted
    torn,       \* history: reports whose handler stopped before their records
    crossed,    \* history: two handlers stored a report at the same time
    faults      \* history: faults so far

vars == <<row, age, others, req, sweep, clean, ran, mails, taken, swept, torn, crossed, faults>>

store   == <<row, swept>>
run     == <<others, sweep, clean, ran>>
history == <<torn, crossed>>

-----------------------------------------------------------------------------
Ids    == 1..MaxDeliveries  \* AUTOINCREMENT: the number of the delivery
NoRow  == [key |-> "none"]
Stored == {i \in Ids : row[i] # NoRow}
Idle == [at |-> "idle", id |-> 0]

\* date_end < cutoff or created_at < cutoff.
Past(i, days) == row[i].age > days \/ age[row[i].key] > days
Expired    == {i \in Stored : Past(i, Window)}
RawExpired == {i \in Stored : row[i].raw /\ row[i].age > RawDays}

\* A statement takes the first n.
Least(S, n) == {i \in S : Cardinality({j \in S : j < i}) < n}

Init ==     \* of some keys the period ended long ago
    /\ row = [i \in Ids |-> NoRow]
    /\ age \in [Keys -> {0, Window + 1}]
    /\ others \in 0..MaxOthers
    /\ req = [h \in Handlers |-> Idle]
    /\ sweep = [at |-> "idle", left |-> Statements] /\ clean = {} /\ ran = FALSE
    /\ mails = 0 /\ taken = 0 /\ swept = 0
    /\ torn = {} /\ crossed = FALSE /\ faults = 0

-----------------------------------------------------------------------------
(* Storing a report                                                        *)

Goto(h, place) == req' = [req EXCEPT ![h].at = place]
Over(h) == req' = [req EXCEPT ![h] = Idle]

Had(k) == \E i \in Stored : row[i].key = k

\* insertAggregate, and how a handler goes on when the report conflicts with one
\* that was delivered before.
DeliverIf(conflict, h, k, after) ==
    /\ req[h] = Idle
    /\ taken < MaxDeliveries /\ taken' = taken + 1
    /\ IF conflict
       THEN req' = [req EXCEPT ![h].at = after] /\ UNCHANGED <<row, crossed>>
       ELSE /\ row' = [row EXCEPT ![taken + 1] = [key |-> k, age |-> 0, records |-> 0, raw |-> RawDays > 0]]
            /\ req' = [req EXCEPT ![h] = [at |-> "records", id |-> taken + 1]]
            /\ crossed' = (crossed \/ \E g \in Handlers : req[g] # Idle)
    /\ UNCHANGED <<age, run, mails, swept, torn, faults>>

\* Mutants of Deliver: a duplicate is not the end of it; nothing conflicts.
DeliverOn(h, k)    == DeliverIf(Had(k), h, k, "count")
DeliverTwice(h, k) == DeliverIf(FALSE, h, k, "idle")

Deliver(h, k) == DeliverIf(Had(k), h, k, "idle")

\* insertRecords: one batch, which fails when the report is gone.
Records(h) ==
    LET i == req[h].id
    IN  /\ req[h].at = "records"
        /\ IF i \in Stored
           THEN row' = [row EXCEPT ![i].records = Size] /\ Goto(h, "count")
           ELSE Over(h) /\ UNCHANGED row
        /\ UNCHANGED <<age, run, mails, taken, swept, history, faults>>

\* countForDomain: is it the only one?
Count(h) ==
    /\ req[h].at = "count"
    /\ IF Cardinality(Stored) = 1 THEN Goto(h, "mail") ELSE Over(h)
    /\ UNCHANGED <<store, age, run, mails, taken, history, faults>>

Mail(h) ==
    /\ req[h].at = "mail"
    /\ mails' = mails + 1
    /\ Over(h)
    /\ UNCHANGED <<store, age, run, taken, history, faults>>

\* A statement or the mail fails, or the isolate dies.
Die(h) ==
    /\ req[h] # Idle
    /\ faults < MaxFaults /\ faults' = faults + 1
    /\ torn' = IF req[h].at = "records" THEN torn \cup {req[h].id} ELSE torn
    /\ Over(h)
    /\ UNCHANGED <<store, age, run, mails, taken, crossed>>

-----------------------------------------------------------------------------
(* The retention run                                                       *)

\* runRetention.
StartWith(left) ==
    /\ ~ran
    /\ ran' = TRUE
    /\ sweep' = [at |-> "records", left |-> left]
    /\ clean' = {}
    /\ UNCHANGED <<store, age, others, req, mails, taken, history, faults>>

\* A mutant of StartRun: the limits are made once, not per run.
StartWithTheRest == StartWith(sweep.left)

StartRun == StartWith(Statements)

Table == IF sweep.at = "records" THEN "reports" ELSE sweep.at
After == CASE Table = "reports" -> "raw" [] Table = "raw" -> "others" [] Table = "others" -> "idle"

\* The table's last statement said whether more are probably waiting.
Loop(more, again) ==
    /\ sweep' = [at |-> IF more THEN again ELSE After, left |-> sweep.left - 1]
    /\ clean' = IF more THEN clean ELSE clean \cup {Table}

\* The records of expired reports go first, as many as a statement may delete.
SweepRecordsOf(S) ==
    LET n == Min({RecordBatch, SumFunction([i \in S |-> row[i].records])})
    IN  /\ sweep.at = "records" /\ sweep.left > 0
        /\ \E cut \in [S -> 0..Size] :
               /\ \A i \in S : cut[i] <= row[i].records
               /\ SumFunction(cut) = n
               /\ row' = [i \in Ids |-> IF i \in S THEN [row[i] EXCEPT !.records = @ - cut[i]] ELSE row[i]]
        /\ sweep' = [at |-> IF n < RecordBatch THEN "reports" ELSE "records", left |-> sweep.left - 1]
        /\ UNCHANGED <<age, others, req, clean, ran, mails, taken, swept, history, faults>>

\* A mutant of SweepRecords: a day too early.
SweepRecordsEarly == SweepRecordsOf({i \in Stored : Past(i, Window - 1)})

SweepRecords == SweepRecordsOf(Expired)

\* The reports by id.  Records that were stored meanwhile go along.
Leaving == Least(Expired, Batch)
SweepReportsWhile(more) ==
    /\ sweep.at = "reports" /\ sweep.left > 0
    /\ row' = [i \in Ids |-> IF i \in Leaving THEN NoRow ELSE row[i]]
    /\ swept' = swept + Cardinality(Leaving)
    /\ Loop(more, "records")
    /\ UNCHANGED <<age, others, req, ran, mails, taken, history, faults>>

\* A mutant of SweepReports: a full statement passes for the last one.
SweepReportsOnce == SweepReportsWhile(Cardinality(Leaving) > Batch)

SweepReports == SweepReportsWhile(Cardinality(Leaving) >= Batch)

\* clearRawXml: the parsed rows stay.
ClearRaw ==
    LET cleared == Least(RawExpired, Batch)
    IN  /\ sweep.at = "raw" /\ sweep.left > 0
        /\ row' = [i \in Ids |-> IF i \in cleared THEN [row[i] EXCEPT !.raw = FALSE] ELSE row[i]]
        /\ Loop(Cardinality(cleared) >= Batch, "raw")
        /\ UNCHANGED <<age, others, req, ran, mails, taken, swept, history, faults>>

\* The sweeps of the other tables are the same loop, with one statement a step.
SweepOthers ==
    LET n == Min({Batch, others})
    IN  /\ sweep.at = "others" /\ sweep.left > 0
        /\ others' = others - n
        /\ Loop(n >= Batch, "others")
        /\ UNCHANGED <<store, age, req, ran, mails, taken, history, faults>>

\* The budget is spent: the sweep is truncated.
Truncate ==
    /\ sweep.at # "idle" /\ sweep.left = 0
    /\ sweep' = [sweep EXCEPT !.at = After]
    /\ UNCHANGED <<store, age, others, req, clean, ran, mails, taken, history, faults>>

\* A statement fails: the other sweeps still run.  Or the isolate dies.
SweepFails ==
    /\ sweep.at # "idle"
    /\ faults < MaxFaults /\ faults' = faults + 1
    /\ \E next \in {After, "idle"} : sweep' = [sweep EXCEPT !.at = next, !.left = IF @ > 0 THEN @ - 1 ELSE 0]
    /\ UNCHANGED <<store, age, others, req, clean, ran, mails, taken, history>>

\* A day: no handler lives that long.  A day without its run is a fault.
Day ==
    /\ sweep.at = "idle" /\ \A h \in Handlers : req[h] = Idle
    /\ ~ran => faults < MaxFaults
    /\ faults' = IF ran THEN faults ELSE faults + 1
    /\ ran' = FALSE
    /\ age' = [k \in Keys |-> Min({age[k] + 1, Window + 1})]
    /\ row' = [i \in Ids |-> IF i \in Stored THEN [row[i] EXCEPT !.age = Min({@ + 1, Window + 1})] ELSE NoRow]
    /\ UNCHANGED <<others, req, sweep, clean, mails, taken, swept, history>>

-----------------------------------------------------------------------------
Step(h) == Records(h) \/ Count(h) \/ Mail(h)
Run == StartRun \/ SweepRecords \/ SweepReports \/ ClearRaw \/ SweepOthers \/ Truncate

Next ==
    \/ \E h \in Handlers : Step(h) \/ Die(h) \/ \E k \in Keys : Deliver(h, k)
    \/ Run \/ SweepFails
    \/ Day

Spec == Init /\ [][Next]_vars

\* A handler and a run go on: statements settle.  Cloudflare triggers the run each
\* day, and days pass.
FairSpec ==
    /\ Spec
    /\ \A h \in Handlers : WF_vars(Step(h))
    /\ WF_vars(Run)
    /\ WF_vars(Day)

-----------------------------------------------------------------------------
(* Properties                                                              *)

Row == [key : Keys, age : 0..(Window + 1), records : 0..Size, raw : BOOLEAN]

\* The variables keep their types, and the unique key of schema.ts:150 holds.
TypeOK ==
    /\ row \in [Ids -> Row \cup {NoRow}]
    /\ age \in [Keys -> 0..(Window + 1)]
    /\ others \in 0..MaxOthers
    /\ req \in [Handlers -> [at : {"idle", "records", "count", "mail"}, id : 0..MaxDeliveries]]
    /\ sweep \in [at : {"idle", "records", "reports", "raw", "others"}, left : 0..Statements]
    /\ clean \subseteq {"reports", "raw", "others"}
    /\ ran \in BOOLEAN /\ mails \in Nat /\ taken \in 0..MaxDeliveries /\ swept \in Nat
    /\ torn \subseteq Ids /\ crossed \in BOOLEAN /\ faults \in 0..MaxFaults
    /\ \A i, j \in Stored : row[i].key = row[j].key => i = j

\* store-report.ts:3, "re-deliveries are silently skipped", and retention.ts: a report
\* has its records, all of them and once, unless its handler is about to store them
\* or stopped short of it, or its window is over.
RecordsComplete ==
    \A i \in Stored : \/ row[i].records = Size
                      \/ \E h \in Handlers : req[h].at = "records" /\ req[h].id = i
                      \/ i \in torn
                      \/ i \in Expired

\* first-report.ts:1, "fires once per domain": again only after reports were deleted,
\* however many mails are delivered twice or at the same time; and whoever has a
\* report has been told of a first one, unless something failed or two handlers
\* counted each other's.
FirstMailOnce ==
    /\ mails <= 1 + swept
    /\ Stored # {} /\ (\A h \in Handlers : req[h] = Idle) => mails > 0 \/ crossed \/ faults > 0

\* retention.ts:6, "truncated sweeps say so": a table the run reports without a
\* remark has nothing in it that should have gone.
SweepHonest ==
    [][\A t \in clean' \ clean : CASE t = "reports" -> Expired' = {}
                                   [] t = "raw"     -> RawExpired' = {}
                                   [] t = "others"  -> others' = 0]_vars

Backlog == Expired # {} \/ RawExpired # {} \/ others > 0

\* retention.ts:6, "a big backlog is worked off over several days", though the first
\* table may take the budget of many of them.
Drained == Backlog ~> ~Backlog

=============================================================================
