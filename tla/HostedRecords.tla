--------------------------- MODULE HostedRecords ---------------------------
(***************************************************************************)
(* The DNS records a deployment hosts for its customers' domains           *)
(* (src/hosted/service.ts): enabling, rotating the report address,         *)
(* removing MTA-STS, disabling, and the daily count of the zone.           *)
(*                                                                         *)
(* A domain's records exist in three places that change one statement or   *)
(* one Cloudflare call at a time: the zone, the row in hosted_domains (the *)
(* ids of its records), and the row in intake_tokens (the report address   *)
(* that is accepted).  Requests interleave between these steps, each step  *)
(* may fail, and the isolate may die.                                      *)
(***************************************************************************)
EXTENDS Integers, Sequences, FiniteSets

CONSTANTS
    Requests,   \* requests that run at the same time
    Domains,    \* domains of one workspace
    MaxIds,     \* bound: hosted ids and tokens that are generated
    Cap,        \* maxHostedDomainsPerWorkspace
    Limit       \* PRO_RECORD_LIMIT

ASSUME BoundsAssumption ==
    /\ MaxIds \in Nat /\ Cap \in Nat /\ Limit \in Nat
    /\ IsFiniteSet(Requests) /\ Requests # {}
    /\ IsFiniteSet(Domains) /\ Domains # {}

VARIABLES
    zone,     \* the records in the hosted zone
    row,      \* per domain: its row in hosted_domains
    token,    \* per domain: its row in intake_tokens
    mtaSts,   \* the domains with a row in mta_sts_config
    count,    \* hosted_zones.record_count
    req,      \* per request: its next step and its locals
    cron,     \* the daily count: the number of records it listed
    issued,   \* hosted ids and tokens generated so far
    leaked,   \* history: domains an enabling could not take back everything of
    torn,     \* history: domains with a rotation that stopped half way
    crossed,  \* history: domains on which requests overlapped that should not
    drifted   \* history: the count misses a record, or counts one too many

vars == <<zone, row, token, mtaSts, count, req, cron, issued, leaked, torn, crossed, drifted>>
store == <<zone, row, token, mtaSts, count>>
history == <<leaked, torn, crossed, drifted>>

-----------------------------------------------------------------------------
Always == <<"dmarc", "spf", "tls">>
All    == <<"dmarc", "spf", "tls", "txt", "host">>
Kinds  == {"dmarc", "spf", "tls", "txt", "host"}
MtaKinds == {"txt", "host"}
Carriers == {"dmarc", "tls"}   \* the records that name the report address

Ids    == 0..MaxIds            \* 0: none
NoRow  == [hid |-> 0, ids |-> [k \in Kinds |-> 0]]
NoToken == [cur |-> 0, prev |-> 0]
Row    == [hid : Ids, ids : [Kinds -> Ids]]
Token  == [cur : Ids, prev : Ids]

\* A record: its id is the hosted id it was made for and its kind.
Record == [id : Ids, kind : Kinds, domain : Domains, token : Ids]

Places == {"idle", "insert", "accept", "write", "count", "config", "finish",
           "undo", "undoConfig", "undoToken", "undoRow", "uncount",
           "dmarc", "tls", "remove", "forget", "forgetConfig", "forgetToken", "forgetRow"}
Ops  == {"none", "enable", "rotate", "disable", "trim"}
Idle == [op |-> "none", at |-> "idle", domain |-> CHOOSE d \in Domains : TRUE,
         new |-> 0, mta |-> FALSE, made |-> 0, row |-> NoRow]
Request == [op : Ops, at : Places, domain : Domains, new : Ids, mta : BOOLEAN,
            made : 0..5, row : Row]

Plan(r)   == IF req[r].mta THEN All ELSE Always
Domain(r) == req[r].domain
At(r, op, place) == req[r].op \in op /\ req[r].at = place
Goto(r, place)   == req' = [req EXCEPT ![r].at = place]
Leave(r)         == req' = [req EXCEPT ![r] = Idle]

\* Mutant of AtLeast0: the count may go below zero.
Unclamped(n) == n

\* addCount never goes below zero.
AtLeast0(n) == IF n < 0 THEN 0 ELSE n
Hosted == {d \in Domains : row[d] # NoRow}
Busy(d) == {r \in Requests : req[r].at # "idle" /\ Domain(r) = d}

Init ==
    /\ zone = {}
    /\ row = [d \in Domains |-> NoRow]
    /\ token = [d \in Domains |-> NoToken]
    /\ mtaSts = {}
    /\ count = 0
    /\ req = [r \in Requests |-> Idle]
    /\ cron = [at |-> "idle", seen |-> 0]
    /\ issued = 0
    /\ leaked = {} /\ torn = {} /\ crossed = {} /\ drifted = FALSE

-----------------------------------------------------------------------------
(* Admission: the reads at the start of each request.                      *)

\* Nothing keeps two requests on one domain apart.  Two enablings are told
\* apart by the insert; any other pair may undo each other's work.
Cross(op, d) ==
    crossed' = IF \E s \in Busy(d) : {op, req[s].op} # {"enable"}
               THEN crossed \cup {d} ELSE crossed

\* chooseZone: room for all the records of one more domain.
Room(n) == count + n <= Limit

\* Mutant of Admitted: the cap is not checked.
AdmittedAnyNumber(d, m) ==
    row[d] = NoRow /\ Room(Len(IF m THEN All ELSE Always))

Admitted(d, m) ==
    /\ row[d] = NoRow
    /\ Cardinality(Hosted) < Cap
    /\ Room(Len(IF m THEN All ELSE Always))

StartEnable(r, d, m) ==
    /\ req[r].at = "idle"
    /\ Admitted(d, m)
    /\ issued < MaxIds
    /\ issued' = issued + 1
    /\ req' = [req EXCEPT ![r] = [op |-> "enable", at |-> "insert", domain |-> d,
                                  new |-> issued + 1, mta |-> m, made |-> 0, row |-> NoRow]]
    /\ Cross("enable", d)
    /\ UNCHANGED <<store, cron, leaked, torn, drifted>>

StartRotate(r, d) ==
    /\ req[r].at = "idle"
    /\ row[d].ids["dmarc"] # 0 /\ row[d].ids["tls"] # 0
    /\ issued < MaxIds
    /\ issued' = issued + 1
    /\ req' = [req EXCEPT ![r] = [Idle EXCEPT !.op = "rotate", !.at = "dmarc", !.domain = d,
                                              !.new = issued + 1, !.row = row[d]]]
    /\ Cross("rotate", d)
    /\ UNCHANGED <<store, cron, leaked, torn, drifted>>

\* "trim": only the MTA-STS records go (removeHostedMtaSts).
StartRemoval(r, d, op) ==
    /\ req[r].at = "idle"
    /\ row[d] # NoRow
    /\ req' = [req EXCEPT ![r] = [Idle EXCEPT !.op = op, !.at = "remove", !.domain = d, !.row = row[d],
                                              !.made = IF op = "trim" THEN Len(Always) ELSE 0]]
    /\ Cross(op, d)
    /\ UNCHANGED <<store, cron, issued, leaked, torn, drifted>>

-----------------------------------------------------------------------------
(* Enabling                                                                *)

\* domain_id is the primary key: the later of two enablings fails here, and
\* has nothing to take back.
Insert(r) ==
    /\ At(r, {"enable"}, "insert")
    /\ IF row[Domain(r)] = NoRow
       THEN /\ row' = [row EXCEPT ![Domain(r)] = [NoRow EXCEPT !.hid = req[r].new]]
            /\ Goto(r, "accept")
       ELSE Leave(r) /\ UNCHANGED row
    /\ UNCHANGED <<zone, token, mtaSts, count, cron, issued, history>>

\* intake.set: a first token, or a new one with the old one in its grace.
SetToken(d, t) == token' = [token EXCEPT ![d] = [cur |-> t, prev |-> @.cur]]

\* Enabling: the address is accepted before any record names it.
AcceptToken(r) ==
    /\ At(r, {"enable"}, "accept")
    /\ SetToken(Domain(r), req[r].new)
    /\ Goto(r, "write")
    /\ UNCHANGED <<zone, row, mtaSts, count, cron, issued, history>>

NewRecord(r) ==
    LET k == Plan(r)[req[r].made + 1]
    IN  [id |-> req[r].new, kind |-> k, domain |-> Domain(r),
         token |-> IF k \in Carriers THEN req[r].new ELSE 0]

AfterCount(r) ==
    IF req[r].made < Len(Plan(r)) THEN "write" ELSE IF req[r].mta THEN "config" ELSE "finish"

\* One record is created ...
Write(r) ==
    /\ At(r, {"enable"}, "write")
    /\ zone' = zone \cup {NewRecord(r)}
    /\ req' = [req EXCEPT ![r].made = @ + 1, ![r].at = "count"]
    /\ UNCHANGED <<row, token, mtaSts, count, cron, issued, history>>

\* ... and counted: addCount(1).
Count(r) ==
    /\ At(r, {"enable"}, "count")
    /\ count' = count + 1
    /\ Goto(r, AfterCount(r))
    /\ UNCHANGED <<zone, row, token, mtaSts, cron, issued, history>>

\* Cloudflare made the record and the answer was lost: nobody knows its id.
WriteUnacknowledged(r) ==
    /\ At(r, {"enable"}, "write")
    /\ zone' = zone \cup {NewRecord(r)}
    /\ Goto(r, "undo")
    /\ leaked' = leaked \cup {Domain(r)}
    /\ drifted' = TRUE
    /\ UNCHANGED <<row, token, mtaSts, count, cron, issued, torn, crossed>>

InsertConfig(r) ==
    /\ At(r, {"enable"}, "config")
    /\ IF Domain(r) \in mtaSts THEN Goto(r, "undo") /\ UNCHANGED mtaSts
       ELSE mtaSts' = mtaSts \cup {Domain(r)} /\ Goto(r, "finish")
    /\ UNCHANGED <<zone, row, token, count, cron, issued, history>>

\* setRecords: an UPDATE, which finds no row once the domain is disabled.
Finish(r) ==
    /\ At(r, {"enable"}, "finish")
    /\ row' = IF row[Domain(r)] = NoRow THEN row
              ELSE [row EXCEPT ![Domain(r)].ids =
                       [k \in Kinds |-> IF k \in MtaKinds /\ ~req[r].mta THEN 0 ELSE req[r].new]]
    /\ Leave(r)
    /\ UNCHANGED <<zone, token, mtaSts, count, cron, issued, history>>

Tried == {"write", "count", "config", "finish"}

\* A step within the try block fails.  A record that D1 did not count is taken
\* back and counted off.
EnableFails(r) ==
    /\ req[r].op = "enable" /\ req[r].at \in Tried
    /\ Goto(r, "undo")
    /\ drifted' = (drifted \/ req[r].at = "count")
    /\ UNCHANGED <<store, cron, issued, leaked, torn, crossed>>

\* Writer.remove: what the zone holds under an id, at the expected name.
Found(id, k) == {x \in zone : x.id = id /\ x.kind = k}

\* Mutant of Undo: only the record that was written last is taken back.
UndoOne(r) ==
    /\ At(r, {"enable"}, "undo")
    /\ IF req[r].made = 0 THEN Goto(r, "undoConfig") /\ UNCHANGED zone
       ELSE /\ zone' = zone \ Found(req[r].new, Plan(r)[req[r].made])
            /\ req' = [req EXCEPT ![r].made = 0, ![r].at = "uncount"]
    /\ UNCHANGED <<row, token, mtaSts, count, cron, issued, history>>

\* All or nothing: the records that were made are removed, the last one
\* first; remove() tells nobody whether the record was still there.
Undo(r) ==
    /\ At(r, {"enable"}, "undo")
    /\ IF req[r].made = 0 THEN Goto(r, "undoConfig") /\ UNCHANGED <<zone, drifted>>
       ELSE LET gone == Found(req[r].new, Plan(r)[req[r].made])
            IN  /\ zone' = zone \ gone
                /\ drifted' = (drifted \/ gone = {})
                /\ req' = [req EXCEPT ![r].made = @ - 1, ![r].at = "uncount"]
    /\ UNCHANGED <<row, token, mtaSts, count, cron, issued, leaked, torn, crossed>>

\* A removal that fails is passed over: the record stays.
UndoFails(r) ==
    /\ At(r, {"enable"}, "undo")
    /\ req[r].made # 0
    /\ req' = [req EXCEPT ![r].made = @ - 1]
    /\ leaked' = leaked \cup {Domain(r)}
    /\ UNCHANGED <<store, cron, issued, torn, crossed, drifted>>

\* addCount(-1), after a removal of an enabling, a disabling or a trimming; then the next one.
AfterUncount(r) == IF req[r].op = "enable" THEN "undo" ELSE "remove"
Uncount(r) ==
    /\ req[r].at = "uncount"
    /\ count' = AtLeast0(count - 1)
    /\ Goto(r, AfterUncount(r))
    /\ UNCHANGED <<zone, row, token, mtaSts, cron, issued, history>>

\* The record is gone and D1 does not count it, or the answer of the removal
\* was lost: an enabling passes over this as well.
UncountFails(r) ==
    /\ At(r, {"enable"}, "uncount")
    /\ Goto(r, AfterUncount(r))
    /\ drifted' = TRUE
    /\ UNCHANGED <<store, cron, issued, leaked, torn, crossed>>

AfterUndo(p) == CASE p = "undoConfig" -> "undoToken" [] p = "undoToken" -> "undoRow"
                  [] p = "undoRow" -> "idle" [] p = "forgetConfig" -> "forgetToken"
                  [] p = "forgetToken" -> "forgetRow" [] p = "forgetRow" -> "idle"

Proceed(r) == IF AfterUndo(req[r].at) = "idle" THEN Leave(r) ELSE Goto(r, AfterUndo(req[r].at))

\* The rows of a domain go, the one in hosted_domains last: mtaSts.delete,
\* intake.delete, hosted.delete, of an enabling and of a disabling alike.
DeleteRow(r) ==
    LET d == Domain(r)
    IN  /\ \/ req[r].at \in {"undoConfig", "forgetConfig"} /\ mtaSts' = mtaSts \ {d} /\ UNCHANGED <<token, row>>
           \/ req[r].at \in {"undoToken", "forgetToken"} /\ token' = [token EXCEPT ![d] = NoToken] /\ UNCHANGED <<mtaSts, row>>
           \/ req[r].at \in {"undoRow", "forgetRow"} /\ row' = [row EXCEPT ![d] = NoRow] /\ UNCHANGED <<mtaSts, token>>
        /\ Proceed(r)
        /\ UNCHANGED <<zone, count, cron, issued, history>>

\* An enabling passes over a row it cannot delete.  The row in hosted_domains
\* still lets the owner disable the domain.
DeleteRowFails(r) ==
    /\ req[r].at \in {"undoConfig", "undoToken", "undoRow"}
    /\ Proceed(r)
    /\ leaked' = IF req[r].at = "undoRow" THEN leaked ELSE leaked \cup {Domain(r)}
    /\ UNCHANGED <<store, cron, issued, torn, crossed, drifted>>

-----------------------------------------------------------------------------
(* Rotation                                                                *)

\* The content of a record, if it is there, is replaced: setContent.
Retarget(r, k, next) ==
    /\ At(r, {"rotate"}, k)
    /\ LET old == Found(req[r].row.ids[k], k)
       IN  /\ old # {} /\ req[r].row.ids[k] = req[r].row.hid
           /\ zone' = (zone \ old) \cup {[x EXCEPT !.token = req[r].new] : x \in old}
    /\ Goto(r, next)
    /\ UNCHANGED <<row, token, mtaSts, count, cron, issued, history>>

\* The new address is accepted once both records name it.  The row is made
\* again should the domain have been disabled meanwhile.
AcceptRotated(r) ==
    /\ At(r, {"rotate"}, "accept")
    /\ SetToken(Domain(r), req[r].new)
    /\ Leave(r)
    /\ UNCHANGED <<zone, row, mtaSts, count, cron, issued, history>>

\* TOKEN_ROTATION_GRACE_SECONDS have passed.
GraceEnds(d) ==
    /\ token[d].prev # 0
    /\ token' = [token EXCEPT ![d].prev = 0]
    /\ UNCHANGED <<zone, row, mtaSts, count, req, cron, issued, history>>

-----------------------------------------------------------------------------
(* Disabling, and removing MTA-STS alone                                   *)

Target(r) == All[req[r].made + 1]

\* Mutant of Remove: a record that was gone already is counted off again.
RemoveAndCount(r) ==
    /\ At(r, {"disable", "trim"}, "remove")
    /\ req[r].made < Len(All)
    /\ LET id == req[r].row.ids[Target(r)]
       IN  /\ id = 0 \/ id = req[r].row.hid
           /\ zone' = zone \ Found(id, Target(r))
           /\ req' = [req EXCEPT ![r].made = @ + 1, ![r].at = IF id = 0 THEN "remove" ELSE "uncount"]
    /\ UNCHANGED <<row, token, mtaSts, count, cron, issued, history>>

\* The next record of the row goes, and is to be counted off if it was there;
\* a record under another name is refused, and the request fails.
Remove(r) ==
    /\ At(r, {"disable", "trim"}, "remove")
    /\ req[r].made < Len(All)
    /\ LET id == req[r].row.ids[Target(r)]
           gone == Found(id, Target(r))
       IN  /\ id = 0 \/ id = req[r].row.hid \/ gone = {}
           /\ zone' = zone \ gone
           /\ req' = [req EXCEPT ![r].made = @ + 1, ![r].at = IF gone = {} THEN "remove" ELSE "uncount"]
    /\ UNCHANGED <<row, token, mtaSts, count, cron, issued, history>>

\* All records are gone: a disabling forgets the domain, the removal of
\* MTA-STS clears the two ids first.
Removed(r) ==
    /\ At(r, {"disable", "trim"}, "remove")
    /\ req[r].made = Len(All)
    /\ IF req[r].op = "disable" THEN Goto(r, "forgetConfig") /\ UNCHANGED row
       ELSE /\ Goto(r, "forget")
            /\ row' = IF row[Domain(r)] = NoRow THEN row
                      ELSE [row EXCEPT ![Domain(r)].ids = [k \in Kinds |-> IF k \in MtaKinds THEN 0 ELSE @[k]]]
    /\ UNCHANGED <<zone, token, mtaSts, count, cron, issued, history>>

ForgetConfig(r) ==
    /\ At(r, {"trim"}, "forget")
    /\ mtaSts' = mtaSts \ {Domain(r)}
    /\ Leave(r)
    /\ UNCHANGED <<zone, row, token, count, cron, issued, history>>

-----------------------------------------------------------------------------
\* A call fails outside a try, or the isolate dies: the request is over.  An
\* enabling that dies leaves the records it made; a rotation that
\* stops after the first record has published an address nobody accepts; and a
\* record that was made or removed may never be counted.
Abort(r) ==
    /\ req[r].at # "idle"
    /\ leaked' = IF req[r].op = "enable" /\ req[r].made # 0 THEN leaked \cup {Domain(r)} ELSE leaked
    /\ torn' = IF req[r].op = "rotate" /\ req[r].at # "dmarc" THEN torn \cup {Domain(r)} ELSE torn
    /\ drifted' = (drifted \/ req[r].at \in {"count", "uncount"})
    /\ Leave(r)
    /\ UNCHANGED <<store, cron, issued, crossed>>

\* The requests between a call and its count.
Counting == {r \in Requests : req[r].at \in {"count", "uncount"}}

\* reconcileZones lists the zone ...
ListZone ==
    /\ cron.at = "idle"
    /\ cron' = [at |-> "observe", seen |-> Cardinality(zone)]
    /\ UNCHANGED <<store, req, issued, history>>

\* ... and stores what it counted, over what was counted since.  That is not the
\* count where the zone has changed, nor where a count of a call is still to come.
Observe ==
    /\ cron.at = "observe"
    /\ count' = cron.seen
    /\ drifted' = (cron.seen # Cardinality(zone) \/ Counting # {})
    /\ cron' = [at |-> "idle", seen |-> 0]
    /\ UNCHANGED <<zone, row, token, mtaSts, req, issued, leaked, torn, crossed>>

Enable(r) ==
    \/ Insert(r) \/ AcceptToken(r) \/ Write(r) \/ WriteUnacknowledged(r) \/ Count(r)
    \/ InsertConfig(r) \/ Finish(r) \/ EnableFails(r) \/ Undo(r) \/ UndoFails(r) \/ UncountFails(r) \/ DeleteRowFails(r)

\* Mutant of Rotate: the TLS-RPT record keeps the old address.
RotateDmarc(r) == Retarget(r, "dmarc", "accept") \/ AcceptRotated(r)

Rotate(r) == Retarget(r, "dmarc", "tls") \/ Retarget(r, "tls", "accept") \/ AcceptRotated(r)

Disable(r) == Remove(r) \/ Removed(r) \/ ForgetConfig(r)

Next ==
    \/ \E r \in Requests, d \in Domains :
           \/ \E m \in BOOLEAN : StartEnable(r, d, m)
           \/ StartRotate(r, d)
           \/ \E op \in {"disable", "trim"} : StartRemoval(r, d, op)
    \/ \E r \in Requests : Enable(r) \/ Rotate(r) \/ Disable(r) \/ Uncount(r) \/ DeleteRow(r) \/ Abort(r)
    \/ \E d \in Domains : GraceEnds(d)
    \/ ListZone \/ Observe

Spec == Init /\ [][Next]_vars

-----------------------------------------------------------------------------
(* Properties                                                              *)

TypeOK ==
    /\ zone \subseteq Record
    /\ row \in [Domains -> Row]
    /\ token \in [Domains -> Token]
    /\ mtaSts \subseteq Domains
    /\ count \in Nat
    /\ req \in [Requests -> Request]
    /\ cron \in [at : {"idle", "observe"}, seen : Nat]
    /\ issued \in Ids
    /\ leaked \subseteq Domains /\ torn \subseteq Domains /\ crossed \subseteq Domains
    /\ drifted \in BOOLEAN

\* service.ts:185 "All or nothing", and router.ts:349 "nothing is orphaned": a
\* domain without a row that no request works on has no record in the zone and
\* no address that is accepted, whatever failed on the way, unless a step of
\* the cleanup itself failed or requests crossed.
NothingLeftBehind ==
    \A d \in Domains \ (leaked \cup crossed) :
        row[d] = NoRow /\ Busy(d) = {} =>
            /\ \A x \in zone : x.domain # d
            /\ token[d] = NoToken /\ d \notin mtaSts

\* service.ts:224, "Publish the new address first, then accept it": the
\* address in a record of a domain is the one that is accepted, or the one
\* before it within its grace, once no request works on the domain.
PublishedAccepted(d) ==
    Busy(d) = {} =>
        \A x \in zone : x.domain = d /\ x.id = row[d].hid /\ x.kind \in Carriers =>
            x.token \in {token[d].cur, token[d].prev} \ {0}

\* service.ts:224 holds for all domains where no rotation stopped half way, no cleanup
\* failed and no requests crossed.
PublishedIsAccepted ==
    \A d \in Domains \ (leaked \cup crossed \cup torn) : PublishedAccepted(d)

\* The record an enabling has made last, where it is still to be counted.
ToCount == UNION {Found(req[r].new, Plan(r)[req[r].made]) : r \in {s \in Requests : At(s, {"enable"}, "count")}}
ToUncount == {r \in Requests : req[r].at = "uncount"}

\* zones.ts:4, "We track the count per zone": between a call and its count included,
\* the count is the number of the records that were counted, those being counted off
\* among them.  However often a disabling is tried again and an enabling takes back what
\* it made, unless a count or an answer was lost or a record was gone when an enabling took it
\* back; a daily count that finds no request between a call and its count, and the
\* zone as it was listed, puts all of that right.
CountExact ==
    drifted \/ count = Cardinality(zone \ ToCount) + Cardinality(ToUncount)

\* service.ts:115: the cap is checked before the row is inserted, so only the
\* enablings that run at the same time can pass it.
CapBounded == Cardinality(Hosted) <= Cap - 1 + Cardinality(Requests)

=============================================================================
