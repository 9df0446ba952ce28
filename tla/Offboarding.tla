---------------------------- MODULE Offboarding ----------------------------
(***************************************************************************)
(* The life of the OAuth grants a workspace holds, from the authorization  *)
(* callback to the revocation: the single-use state, connecting and        *)
(* reconnecting (src/connections/routes.ts, service.ts), disconnecting,    *)
(* erasing the workspace (src/workspaces/routes.ts), the tombstones of     *)
(* grants whose revocation was not confirmed, and the daily cron that      *)
(* retries them and gives up (src/lifecycle/revoke.ts).                    *)
(*                                                                         *)
(* A connection is named by the grant it was made with.  Refreshing keeps  *)
(* the grant and is the business of ConnectionTokens.                      *)
(***************************************************************************)
EXTENDS FiniteSets, FiniteSetsExt, Integers, Sequences

CONSTANTS
    Requests,   \* requests that run at the same time
    Flows,      \* authorization attempts: the states that are signed
    MaxGrants,  \* bound: grants issued
    MaxCalls,   \* bound: callbacks, disconnects and erasures
    Ttl,        \* STATE_TTL_SECONDS
    Slack,      \* the 60 seconds a used marker outlives its state
    MaxClock,   \* bound: the clock of one day, in units of Slack
    MaxAge,     \* MAX_TOMBSTONE_AGE_DAYS
    Limit,      \* tombstones listed per run
    MaxTombs,   \* bound: tombstones written
    MaxFaults   \* bound: statements that fail, requests and runs that die

ASSUME BoundsAssumption ==
    /\ MaxGrants \in Nat \ {0} /\ MaxCalls \in Nat /\ Ttl \in Nat \ {0} /\ Slack \in Nat \ {0} /\ MaxClock \in Nat
    /\ MaxAge \in Nat \ {0} /\ Limit \in Nat \ {0} /\ MaxTombs \in Nat /\ MaxFaults \in Nat
    /\ IsFiniteSet(Requests)

VARIABLES
    workspace,  \* does it still have its row
    row,        \* cloudflare_connections: the grant of each connection, 0 without a row
    flow,       \* per authorization attempt: when its state was signed, and for which connection
    used,       \* settings: the marker of a used state, the second it may go; 0 without a row
    live,       \* grants that Cloudflare honours
    got,        \* grants issued so far
    req,        \* per request: its next step and what it holds
    tombs,      \* revocation_tombstones by creation
    cron,       \* the daily run: its next step and the tombstones it listed
    ran,        \* has today's run begun
    clock,      \* seconds of today
    spent,      \* history: exchanges per authorization attempt
    dropped,    \* history: grants the code let go of without a record
    calls,      \* requests begun so far
    crowded,    \* history: a run had more tombstones than it lists
    faults      \* history: faults so far

vars == <<workspace, row, flow, used, live, got, req, tombs, cron, ran, clock, spent, dropped, calls, crowded, faults>>

grants  == <<workspace, row, live, got>>
daily   == <<tombs, cron, ran, clock, crowded>>

-----------------------------------------------------------------------------
Grants == 1..MaxGrants
None   == 0

Unsigned == [at |-> -1, for |-> -1]
Idle     == [at |-> "idle"]
Goto(r, place) == req' = [req EXCEPT ![r].at = place]
Over(r) == req' = [req EXCEPT ![r] = Idle]

Gone    == [grant |-> None, age |-> 0, tries |-> 0]
Waiting == {i \in DOMAIN tombs : tombs[i] # Gone}
Rest    == [at |-> "idle", todo |-> {}]

\* Connection c is being taken away without its grant being read again: by a
\* disconnect, or by an erasure that has it behind it or never listed it.
Leaving(c) ==
    \E r \in Requests : /\ req[r].at # "idle"
                        /\ \/ req[r].job = "erase" /\ c \notin req[r].todo
                           \/ req[r].job = "disconnect" /\ req[r].conn = c

Init ==     \* a workspace with one connection, or with none
    /\ workspace = TRUE
    /\ got \in {0, 1} /\ live = 1..got
    /\ row = [c \in Grants |-> IF c \in live THEN c ELSE None]
    /\ flow = [f \in Flows |-> Unsigned]
    /\ used = [f \in Flows |-> 0]
    /\ req = [r \in Requests |-> Idle]
    /\ tombs = <<>> /\ cron = Rest /\ ran = FALSE /\ clock = 0
    /\ spent = [f \in Flows |-> 0]
    /\ dropped = {}
    /\ calls = 0 /\ crowded = FALSE /\ faults = 0

-----------------------------------------------------------------------------
(* Authorizing                                                             *)

\* POST oauth/start: sign a state, for a new connection or to reconnect one.
StartFlow(f, c) ==
    /\ workspace
    /\ flow[f] = Unsigned
    /\ c # None => row[c] # None
    /\ flow' = [flow EXCEPT ![f] = [at |-> clock, for |-> c]]
    /\ UNCHANGED <<grants, daily, used, req, spent, dropped, faults, calls>>

\* oauthCallback: the state is verified against the time of the request.
StartCallback(r, f) ==
    /\ workspace
    /\ req[r] = Idle
    /\ flow[f] # Unsigned
    /\ clock < flow[f].at + Ttl
    /\ calls < MaxCalls /\ calls' = calls + 1
    /\ req' = [req EXCEPT ![r] = [at |-> "sweep", job |-> "callback", flow |-> f, now |-> clock, grant |-> None]]
    /\ UNCHANGED <<grants, daily, flow, used, spent, dropped, faults>>

\* settings.deleteExpired
SweepUsed(r) ==
    /\ req[r].at = "sweep"
    /\ used' = [f \in Flows |-> IF used[f] <= req[r].now THEN 0 ELSE used[f]]
    /\ Goto(r, "claim")
    /\ UNCHANGED <<grants, daily, flow, spent, dropped, faults, calls>>

\* settings.claim: one callback takes the marker.  Without the workspace the
\* statement fails.
ClaimUntil(r, until) ==
    /\ req[r].at = "claim"
    /\ IF workspace /\ used[req[r].flow] = 0
       THEN used' = [used EXCEPT ![req[r].flow] = until] /\ Goto(r, "exchange")
       ELSE Over(r) /\ UNCHANGED used
    /\ UNCHANGED <<grants, daily, flow, spent, dropped, faults, calls>>

\* A mutant of Claim: the marker does not wait for its state to expire.
ClaimBriefly(r) == ClaimUntil(r, req[r].now + Slack)

Claim(r) == ClaimUntil(r, req[r].now + Ttl + Slack)

\* exchangeCode.  The answer may be lost.
Exchange(r) ==
    /\ req[r].at = "exchange"
    /\ got < MaxGrants
    /\ got' = got + 1
    /\ live' = live \cup {got + 1}
    /\ spent' = [spent EXCEPT ![req[r].flow] = @ + 1]
    /\ req' = [req EXCEPT ![r].at = IF flow[req[r].flow].for = None THEN "insert" ELSE "read", ![r].grant = got + 1]
    /\ UNCHANGED <<workspace, row, daily, flow, used, dropped, faults, calls>>

\* The user denied access, or the code was refused.
Refused(r) ==
    /\ req[r].at = "exchange"
    /\ Over(r)
    /\ UNCHANGED <<grants, daily, flow, used, spent, dropped, faults, calls>>

\* The code lets go of g here without a record of it.
Drops(g) == dropped' = dropped \cup {g}

\* addOAuth: a new connection.  Without the workspace the statement fails.
Insert(r) ==
    /\ req[r].at = "insert"
    /\ IF workspace THEN row' = [row EXCEPT ![req[r].grant] = req[r].grant] ELSE UNCHANGED row
    /\ IF Leaving(req[r].grant) \/ ~workspace THEN Drops(req[r].grant) ELSE UNCHANGED dropped
    /\ Over(r)
    /\ UNCHANGED <<workspace, live, got, daily, flow, used, spent, faults, calls>>

\* addOAuth with replace reads the connection; it may be gone by now.
ReadConnection(r) ==
    /\ req[r].at = "read"
    /\ IF row[flow[req[r].flow].for] = None
       THEN Over(r) /\ Drops(req[r].grant)
       ELSE Goto(r, "account") /\ UNCHANGED dropped
    /\ UNCHANGED <<grants, daily, flow, used, spent, faults, calls>>

\* assertSameCfAccount: a grant for another Cloudflare account is given back, as
\* far as Cloudflare answers.
CheckAccount(r) ==
    /\ req[r].at = "account"
    /\ \/ Goto(r, "reactivate") /\ UNCHANGED <<live, dropped>>
       \/ Over(r) /\ live' = live \ {req[r].grant} /\ UNCHANGED dropped
       \/ Over(r) /\ Drops(req[r].grant) /\ UNCHANGED live
    /\ UNCHANGED <<workspace, row, got, daily, flow, used, spent, faults, calls>>

\* reactivate: the row, if there still is one, holds the new grant from now on.
Reactivate(r) ==
    LET c == flow[req[r].flow].for
        g == req[r].grant
    IN  /\ req[r].at = "reactivate"
        /\ IF row[c] = None
           THEN Drops(g) /\ UNCHANGED row
           ELSE /\ row' = [row EXCEPT ![c] = g]
                /\ dropped' = dropped \cup {row[c]} \cup (IF Leaving(c) THEN {g} ELSE {})
        /\ Over(r)
        /\ UNCHANGED <<workspace, live, got, daily, flow, used, spent, faults, calls>>

-----------------------------------------------------------------------------
(* Disconnecting and erasing                                               *)

\* disconnect reads the row.
StartDisconnect(r, c) ==
    /\ workspace /\ row[c] # None
    /\ req[r] = Idle
    /\ calls < MaxCalls /\ calls' = calls + 1
    /\ req' = [req EXCEPT ![r] = [at |-> "revoke", job |-> "disconnect", conn |-> c, grant |-> row[c], todo |-> {}]]
    /\ UNCHANGED <<grants, daily, flow, used, spent, dropped, faults>>

\* revokeWorkspaceConnections lists the connections, after the domains are gone.
StartErase(r) ==
    /\ workspace
    /\ req[r] = Idle
    /\ calls < MaxCalls /\ calls' = calls + 1
    /\ req' = [req EXCEPT ![r] = [at |-> "next", job |-> "erase", conn |-> None, grant |-> None,
                                  todo |-> {c \in Grants : row[c] # None}]]
    /\ UNCHANGED <<grants, daily, flow, used, spent, dropped, faults>>

\* disconnectKeepingFailedGrant reads the next connection, if it is still there.
NextConnection(r) ==
    /\ req[r].at = "next"
    /\ IF req[r].todo = {} THEN Goto(r, "purge")
       ELSE LET c == Min(req[r].todo)
            IN  req' = [req EXCEPT ![r].todo = @ \ {c}, ![r].conn = c, ![r].grant = row[c],
                                   ![r].at = IF row[c] = None THEN "next" ELSE "revoke"]
    /\ UNCHANGED <<grants, daily, flow, used, spent, dropped, faults, calls>>

\* revokeSealedGrant asks for the refresh token and for the access token, and is
\* content with either.  Only the first one ends the grant; its answer may be lost.
RevokeSealed(g, confirmed) ==
    \/ confirmed /\ live' = live \ {g} /\ UNCHANGED dropped
    \/ confirmed /\ Drops(g) /\ UNCHANGED live
    \/ ~confirmed /\ live' = live \ {g} /\ UNCHANGED dropped
    \/ ~confirmed /\ UNCHANGED <<live, dropped>>

Keeping == {r \in Requests : req[r].at = "keep"}

\* A disconnect goes on either way, an erasure first keeps what was not confirmed.
RevokeThen(r, unconfirmed) ==
    /\ req[r].at = "revoke"
    /\ \E confirmed \in BOOLEAN :
           /\ RevokeSealed(req[r].grant, confirmed)
           /\ confirmed \/ req[r].job = "disconnect" \/ Len(tombs) + Cardinality(Keeping) < MaxTombs
           /\ Goto(r, IF confirmed \/ req[r].job = "disconnect" THEN "drop" ELSE unconfirmed)
    /\ UNCHANGED <<workspace, row, got, daily, flow, used, spent, faults, calls>>

\* A mutant of Revoke: nothing is kept for the cron.
RevokeOnly(r) == RevokeThen(r, "drop")

Revoke(r) == RevokeThen(r, "keep")

\* tombstones.add
Keep(r) ==
    /\ req[r].at = "keep"
    /\ tombs' = Append(tombs, [grant |-> req[r].grant, age |-> 0, tries |-> 0])
    /\ Goto(r, "drop")
    /\ UNCHANGED <<grants, cron, ran, clock, crowded, flow, used, spent, dropped, faults, calls>>

\* connections.delete removes the row whatever it holds by now.
Drop(r) ==
    LET c == req[r].conn
    IN  /\ req[r].at = "drop"
        /\ row' = [row EXCEPT ![c] = None]
        /\ IF req[r].job = "disconnect"
           THEN /\ Over(r)
                /\ Drops(req[r].grant)
           ELSE Goto(r, "next") /\ UNCHANGED dropped
        /\ UNCHANGED <<workspace, live, got, daily, flow, used, spent, faults, calls>>

\* workspaces.purge: one batch, with every table that has the workspace's id.
PurgeLeaving(r, markers) ==
    /\ req[r].at = "purge"
    /\ workspace' = FALSE
    /\ row' = [c \in Grants |-> None]
    /\ used' = markers
    /\ Over(r)
    /\ UNCHANGED <<live, got, daily, flow, spent, dropped, faults, calls>>

\* A mutant of Purge: the settings are not among the tables.
PurgeLessSettings(r) == PurgeLeaving(r, used)

Purge(r) == PurgeLeaving(r, [f \in Flows |-> 0])

\* A step fails or the isolate dies.  What a callback was still holding is lost.
Die(r) ==
    /\ req[r] # Idle
    /\ faults < MaxFaults
    /\ faults' = faults + 1
    /\ IF req[r].job = "callback" /\ req[r].grant # None THEN Drops(req[r].grant) ELSE UNCHANGED dropped
    /\ Over(r)
    /\ UNCHANGED <<grants, daily, flow, used, spent, calls>>

-----------------------------------------------------------------------------
(* The daily cron                                                          *)

\* The oldest tombstones, as many as a run lists.
Listed == {i \in Waiting : Cardinality({j \in Waiting : j < i}) < Limit}

\* retryRevocations: tombstones.list
StartRun ==
    /\ ~ran /\ cron = Rest
    /\ ran' = TRUE
    /\ cron' = IF Waiting = {} THEN Rest ELSE [at |-> "next", todo |-> Listed]
    /\ crowded' = (crowded \/ Cardinality(Waiting) > Limit)
    /\ UNCHANGED <<grants, tombs, clock, flow, used, req, spent, dropped, faults, calls>>

\* They are dealt with in that order.
Tomb == Min(cron.todo)
Proceed == cron' = IF cron.todo = {Tomb} THEN Rest ELSE [at |-> "next", todo |-> cron.todo \ {Tomb}]

\* Too old: recorded in the audit log, and deleted.  The mutant: a day too early.
GiveUpAfter(days) ==
    /\ cron.at = "next"
    /\ tombs[Tomb].age > days
    /\ Drops(tombs[Tomb].grant)
    /\ tombs' = [tombs EXCEPT ![Tomb] = Gone]
    /\ Proceed
    /\ UNCHANGED <<grants, ran, clock, crowded, flow, used, req, spent, faults, calls>>

GiveUpEarly == GiveUpAfter(MaxAge - 1)

GiveUp == GiveUpAfter(MaxAge)

\* Try again.
Retry ==
    /\ cron.at = "next"
    /\ tombs[Tomb].age <= MaxAge
    /\ \E confirmed \in BOOLEAN :
           /\ RevokeSealed(tombs[Tomb].grant, confirmed)
           /\ cron' = [cron EXCEPT !.at = IF confirmed THEN "bury" ELSE "note"]
    /\ UNCHANGED <<workspace, row, got, tombs, ran, clock, crowded, flow, used, req, spent, faults, calls>>

\* tombstones.delete
Bury ==
    /\ cron.at = "bury"
    /\ tombs' = [tombs EXCEPT ![Tomb] = Gone]
    /\ Proceed
    /\ UNCHANGED <<grants, ran, clock, crowded, flow, used, req, spent, dropped, faults, calls>>

\* tombstones.failed counts the attempt (here up to MaxAge) and leaves created_at alone.
NoteAs(age) ==
    /\ cron.at = "note"
    /\ tombs' = [tombs EXCEPT ![Tomb].tries = IF @ < MaxAge THEN @ + 1 ELSE @, ![Tomb].age = age]
    /\ Proceed
    /\ UNCHANGED <<grants, ran, clock, crowded, flow, used, req, spent, dropped, faults, calls>>

\* A mutant of Note: the failure makes it a tombstone of today.
NoteAfresh == NoteAs(0)

Note == NoteAs(tombs[Tomb].age)

\* A statement of the run fails, which ends it, or the isolate dies.
RunDies ==
    /\ cron # Rest
    /\ faults < MaxFaults
    /\ faults' = faults + 1
    /\ cron' = Rest
    /\ UNCHANGED <<grants, tombs, ran, clock, crowded, flow, used, req, spent, dropped, calls>>

-----------------------------------------------------------------------------
(* Time                                                                    *)

\* A second.  Between the verification of a state and the claim of its marker
\* stand two statements, which answer within Slack.
Tick ==
    /\ clock < MaxClock
    /\ \A r \in Requests : req[r].at \in {"sweep", "claim"} => clock < req[r].now + Slack
    /\ clock' = clock + 1
    /\ UNCHANGED <<grants, tombs, cron, ran, crowded, flow, used, req, spent, dropped, faults, calls>>

\* A day: no request lives that long, and no state, whose marker does not matter
\* any more then.  A day without its run is a fault.
Day ==
    /\ \A r \in Requests : req[r] = Idle
    /\ cron = Rest
    /\ ~ran => faults < MaxFaults
    /\ faults' = IF ran THEN faults ELSE faults + 1
    /\ ran' = FALSE
    /\ clock' = 0
    /\ flow' = [f \in Flows |-> IF flow[f] = Unsigned THEN Unsigned ELSE [flow[f] EXCEPT !.at = -Ttl]]
    /\ used' = [f \in Flows |-> 0]
    /\ tombs' = [i \in DOMAIN tombs |-> IF i \in Waiting /\ tombs[i].age <= MaxAge
                                        THEN [tombs[i] EXCEPT !.age = @ + 1] ELSE tombs[i]]
    /\ UNCHANGED <<grants, cron, crowded, req, spent, dropped, calls>>

-----------------------------------------------------------------------------
Start(r) ==
    \/ \E f \in Flows : StartCallback(r, f)
    \/ \E c \in Grants : StartDisconnect(r, c)
    \/ StartErase(r)

Step(r) ==
    \/ SweepUsed(r) \/ Claim(r) \/ Exchange(r) \/ Refused(r) \/ Insert(r)
    \/ ReadConnection(r) \/ CheckAccount(r) \/ Reactivate(r)
    \/ NextConnection(r) \/ Revoke(r) \/ Keep(r) \/ Drop(r) \/ Purge(r)

Run == StartRun \/ GiveUp \/ Retry \/ Bury \/ Note

Next ==
    \/ \E f \in Flows : \E c \in Grants \cup {None} : StartFlow(f, c)
    \/ \E r \in Requests : Start(r) \/ Step(r) \/ Die(r)
    \/ Run \/ RunDies
    \/ Tick \/ Day

Spec == Init /\ [][Next]_vars

\* A request that has begun goes on: statements and fetches settle, whatever they
\* answer.  So does the run, which Cloudflare triggers each day, and days pass.
FairSpec ==
    /\ Spec
    /\ \A r \in Requests : WF_vars(Step(r))
    /\ WF_vars(Run)
    /\ WF_vars(Day)

-----------------------------------------------------------------------------
(* Properties                                                              *)

Callback == [at : {"sweep", "claim", "exchange", "insert", "read", "account", "reactivate"}, job : {"callback"},
             flow : Flows, now : 0..MaxClock, grant : 0..MaxGrants]
Taking   == [at : {"next", "revoke", "keep", "drop", "purge"}, job : {"disconnect", "erase"},
             conn : 0..MaxGrants, grant : 0..MaxGrants, todo : SUBSET Grants]
Tombs    == [grant : 0..MaxGrants, age : 0..(MaxAge + 1), tries : 0..MaxAge]

\* The variables keep their types, and connections and markers their foreign key:
\* there are none once the workspace is gone (schema.ts:621, :288).
TypeOK ==
    /\ workspace \in BOOLEAN
    /\ row \in [Grants -> 0..MaxGrants]
    /\ flow \in [Flows -> [at : -Ttl..MaxClock, for : 0..MaxGrants] \cup {Unsigned}]
    /\ used \in [Flows -> Nat]
    /\ ~workspace => (\A c \in Grants : row[c] = None) /\ (\A f \in Flows : used[f] = 0)
    /\ live \subseteq 1..got /\ got \in 0..MaxGrants
    /\ req \in [Requests -> Callback \cup Taking \cup {Idle}]
    /\ tombs \in Seq(Tombs) /\ Len(tombs) <= MaxTombs
    /\ cron.at \in {"idle", "next", "bury", "note"} /\ cron.todo \subseteq Waiting
    /\ ran \in BOOLEAN /\ clock \in 0..MaxClock
    /\ spent \in [Flows -> Nat] /\ dropped \subseteq 1..got
    /\ calls \in 0..MaxCalls /\ crowded \in BOOLEAN /\ faults \in 0..MaxFaults

\* routes.ts:276, "Single use": however often a callback is delivered, before or
\* after others clean the markers up, its state is exchanged once.
StateSpentOnce == \A f \in Flows : spent[f] <= 1

\* service.ts:286, "a grant is never dropped without a record to retry it from": a
\* grant that Cloudflare honours is in a row, in the hands of a callback or in a
\* tombstone, whatever fails, unless one of the steps above let go of it: a
\* disconnect, a reconnection (the grant it replaces), half a revocation, 30 days of
\* retries, a callback that fails or that an erasure overtakes.
NothingForgotten ==
    \A g \in live : \/ g \in {row[c] : c \in Grants}
                    \/ \E r \in Requests : req[r] # Idle /\ req[r].job = "callback" /\ req[r].grant = g
                    \/ g \in {tombs[i].grant : i \in Waiting}
                    \/ g \in dropped

\* revoke.ts:12: a grant that is still honoured is only given up on after a try on
\* each day of MAX_TOMBSTONE_AGE_DAYS, but for the faults, and as long as the
\* tombstones fit in one run.
GivenUpLate ==
    [][\A i \in Waiting :
           tombs'[i] = Gone /\ tombs[i].grant \in live' \ dropped
               => tombs[i].tries + faults >= MaxAge \/ crowded]_vars

\* revoke.ts:54: the sealed token of a deleted workspace does not stay for ever.
TombstonesEnd ==
    \A i \in 1..MaxTombs :
        (i \in DOMAIN tombs /\ tombs[i] # Gone) ~> (i \in DOMAIN tombs /\ tombs[i] = Gone)

=============================================================================
