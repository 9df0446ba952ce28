---------------------------- MODULE MailRecords ----------------------------
(***************************************************************************)
(* The SPF and MTA-STS records that the Worker writes in a domain's own    *)
(* zone, as the routes of src/api/router.ts and the daily jobs of          *)
(* src/cron.ts do: flattening, refreshing and restoring the SPF record     *)
(* (src/email/spf-flattener.ts); provisioning MTA-STS, announcing a new    *)
(* policy and removing it (src/email/mta-sts.ts); and what is left of them *)
(* when the domain itself is deleted.                                      *)
(*                                                                         *)
(* An SPF record is abstracted to the text a customer wrote and, when it   *)
(* is flat, the providers' ranges it lists.                                *)
(***************************************************************************)
EXTENDS Integers, FiniteSets

CONSTANTS
    Requests,   \* requests and jobs on the domain at the same time
    MaxTexts,   \* bound: SPF records that somebody wrote
    MaxRanges,  \* bound: versions of the address ranges of the mail providers
    MaxMx,      \* bound: versions of the domain's MX hosts
    MaxRecords, \* bound: MTA-STS records created
    MaxClock,   \* bound: seconds that are told apart
    MaxFaults   \* bound: calls that fail and requests that die

ASSUME MailAssumption ==
    /\ MaxTexts \in Nat \ {0} /\ MaxRanges \in Nat \ {0} /\ MaxMx \in Nat \ {0}
    /\ MaxRecords \in Nat /\ MaxClock \in Nat \ {0} /\ MaxFaults \in Nat
    /\ IsFiniteSet(Requests)

VARIABLES
    domain,     \* its row in domains: "held" or "gone"
    spf,        \* the SPF record in the zone
    texts,      \* the last text somebody wrote
    ranges,     \* what the providers publish now
    flattening, \* spf_flatten_config: canonical_record, whether cf_record_id is known
    zone,       \* the MTA-STS and TLS-RPT records in the zone
    created,    \* MTA-STS records created so far
    policy,     \* mta_sts_config: what the Worker serves, policy_id, the record ids
    mx,         \* the domain's MX hosts, 0 while there are none
    clock,      \* the second of a policy id
    cache,      \* what a sending server has fetched last, and under which id
    req,        \* per request: its next step and what it holds
    spoiled,    \* history: the customer's text slipped away
    stray,      \* history: records that a request left without a row
    last,       \* history: the last policy id generated
    hasty,      \* history: two policy ids within a second
    faults      \* history: faults so far

vars == <<domain, spf, texts, ranges, flattening, zone, created, policy, mx, clock, cache,
          req, spoiled, stray, last, hasty, faults>>

\* No step of either half touches the domain.
spfVars == <<domain, spf, texts, ranges, flattening, spoiled>>
stsVars == <<domain, zone, created, policy, mx, clock, cache, stray, last, hasty>>

-----------------------------------------------------------------------------
Spf == [text : 1..MaxTexts, flat : 0..MaxRanges]
Written(t) == [text |-> t, flat |-> 0]
Flat(s)    == s.flat # 0

NoFlattening == [canonical |-> Written(0), found |-> FALSE]

Kinds    == {"txt", "rpt", "host"}    \* _mta-sts, _smtp._tls and the CNAME mta-sts
Modes    == {"testing", "enforce"}
NoIds    == [k \in Kinds |-> 0]
NoPolicy == [mode |-> "off", mx |-> 0, id |-> 0, recs |-> NoIds]

Idle == [job |-> "none", at |-> "idle"]
Goto(r, place) == req' = [req EXCEPT ![r].at = place]
Done(r) == req' = [req EXCEPT ![r] = Idle]

\* A route or a daily job begins with a domain that it finds in its workspace.
Begins(r) == req[r] = Idle /\ domain = "held"

Doing(jobs) == {r \in Requests : req[r].job \in jobs}
Flatteners  == Doing({"flatten", "refresh"})

Fault == faults < MaxFaults /\ faults' = faults + 1

Init ==
    /\ domain = "held"
    /\ spf = Written(1) /\ texts = 1 /\ ranges = 1 /\ flattening = NoFlattening
    /\ zone = {} /\ created = 0 /\ policy = NoPolicy /\ mx = 0 /\ clock = 1
    /\ cache = [id |-> 0, mode |-> "off", mx |-> 0, early |-> FALSE]
    /\ req = [r \in Requests |-> Idle]
    /\ spoiled = FALSE /\ stray = {} /\ last = 0 /\ hasty = FALSE /\ faults = 0

-----------------------------------------------------------------------------
(* Flattening the SPF record                                               *)

\* A domain that is flat is flattened once more.
Again(job) == job = "flatten" /\ Flat(spf)

StartSpf(r, job) ==
    /\ Begins(r)
    /\ req' = [req EXCEPT ![r] = [job |-> job, at |-> "find", raw |-> spf, old |-> spf, new |-> spf]]
    /\ spoiled' = (spoiled \/ Doing({"restore"}) # {} \/ Again(job))
    /\ UNCHANGED <<spf, texts, ranges, flattening, stsVars, faults>>

\* POST: the record's text is looked up before anything else.
StartFlatten(r) == StartSpf(r, "flatten")

\* The daily job, for a domain it finds configured.
StartRefresh(r) == flattening # NoFlattening /\ StartSpf(r, "refresh")

\* findSpfRecord: what is there now is what a disabling will restore.
Find(r) ==
    /\ req[r].at = "find"
    /\ req' = [req EXCEPT ![r].at = "collect", ![r].old = spf]
    /\ spoiled' = (spoiled \/ Again(req[r].job))
    /\ UNCHANGED <<spf, texts, ranges, flattening, stsVars, faults>>

\* collectIps asks the DNS for the domain's own record and follows its includes.
\* A record that is flat has none: it is resolved to itself.
Resolved == IF Flat(spf) THEN spf ELSE [spf EXCEPT !.flat = ranges]
Collect(r) ==
    /\ req[r].at = "collect"
    /\ req' = [req EXCEPT ![r].at = "publish", ![r].new = Resolved]
    /\ UNCHANGED <<spfVars, stsVars, faults>>

\* updateDnsRecord.
Publish(r) ==
    /\ req[r].at = "publish"
    /\ spf' = req[r].new
    /\ Goto(r, IF req[r].job = "flatten" THEN "keep" ELSE "result")
    /\ UNCHANGED <<texts, ranges, flattening, spoiled, stsVars, faults>>

\* upsert: the canonical record is overwritten, the record id only by another.
Upsert(canonical, found) ==
    flattening' = [canonical |-> canonical, found |-> found \/ flattening.found]

\* A mutant of Keep: the record as it is now, not as it was found.
KeepPublished(r) ==
    /\ req[r].at = "keep" /\ domain = "held"
    /\ Upsert(req[r].new, TRUE)
    /\ Goto(r, "result")
    /\ UNCHANGED <<spf, texts, ranges, spoiled, stsVars, faults>>

Keep(r) ==
    /\ req[r].at = "keep" /\ domain = "held"
    /\ Upsert(req[r].old, TRUE)
    /\ Goto(r, "result")
    /\ UNCHANGED <<spf, texts, ranges, spoiled, stsVars, faults>>

\* updateResult, where there still is a row.
Result(r) ==
    /\ req[r].at = "result"
    /\ flattening' = IF flattening = NoFlattening THEN NoFlattening ELSE [flattening EXCEPT !.found = TRUE]
    /\ Done(r)
    /\ UNCHANGED <<spf, texts, ranges, spoiled, stsVars, faults>>

\* A call fails, the last one perhaps after it had its effect.  POST keeps the text
\* it looked up first with the error; the daily job only notes the error.
FlattenFails(r) ==
    /\ req[r].at \in {"find", "collect", "publish"}
    /\ Fault
    /\ spf' \in {spf} \cup (IF req[r].at = "publish" THEN {req[r].new} ELSE {})
    /\ IF req[r].job = "flatten" THEN Goto(r, "excuse") ELSE Done(r)
    /\ UNCHANGED <<texts, ranges, flattening, spoiled, stsVars>>

KeepError(r) ==
    /\ req[r].at = "excuse" /\ domain = "held"
    /\ Upsert(req[r].raw, FALSE)
    /\ Done(r)
    /\ UNCHANGED <<spf, texts, ranges, spoiled, stsVars, faults>>

\* The row of a domain that is gone is refused, by its foreign key.
KeepRefused(r) ==
    /\ req[r].at \in {"keep", "excuse"} /\ domain = "gone"
    /\ Done(r)
    /\ UNCHANGED <<spfVars, stsVars, faults>>

\* DELETE: the canonical record is put back if it is known where, then the row goes.
StartRestore(r) ==
    /\ Begins(r)
    /\ flattening # NoFlattening
    /\ req' = [req EXCEPT ![r] = [job |-> "restore", at |-> IF flattening.found THEN "restore" ELSE "forget",
                                  old |-> flattening.canonical]]
    /\ spoiled' = (spoiled \/ Flatteners # {} \/ (~flattening.found /\ Flat(spf)))
    /\ UNCHANGED <<spf, texts, ranges, flattening, stsVars, faults>>

Restore(r) ==
    /\ req[r].at = "restore"
    /\ spf' = req[r].old
    /\ Goto(r, "forget")
    /\ UNCHANGED <<texts, ranges, flattening, spoiled, stsVars, faults>>

\* "Non-fatal": the row goes all the same.
RestoreFails(r) ==
    /\ req[r].at = "restore"
    /\ Fault
    /\ Goto(r, "forget")
    /\ spoiled' = TRUE
    /\ UNCHANGED <<spf, texts, ranges, flattening, stsVars>>

ForgetFlattening(r) ==
    /\ req[r].at = "forget"
    /\ flattening' = NoFlattening
    /\ Done(r)
    /\ UNCHANGED <<spf, texts, ranges, spoiled, stsVars, faults>>

\* The wizard edits the record of a domain that is not flattened, as it has checked.
StartApply(r) ==
    /\ Begins(r)
    /\ flattening = NoFlattening
    /\ req' = [req EXCEPT ![r] = [job |-> "apply", at |-> "apply"]]
    /\ UNCHANGED <<spfVars, stsVars, faults>>

Rewrite ==
    /\ texts < MaxTexts /\ texts' = texts + 1
    /\ spf' = Written(texts + 1)
    /\ spoiled' = (spoiled \/ flattening # NoFlattening \/ Flatteners # {})
    /\ UNCHANGED <<ranges, flattening, stsVars, faults>>

Apply(r) ==
    /\ req[r].at = "apply"
    /\ Rewrite
    /\ Done(r)

\* The customer edits the record at Cloudflare.
CustomerEdits == Rewrite /\ UNCHANGED req

ProvidersChange ==
    /\ ranges < MaxRanges /\ ranges' = ranges + 1
    /\ UNCHANGED <<spf, texts, flattening, spoiled, stsVars, req, faults>>

-----------------------------------------------------------------------------
(* MTA-STS                                                                 *)

\* generatePolicyId: the time, in seconds.
Generate == last' = clock /\ hasty' = (hasty \/ last = clock)

\* POST: not enabled yet; the mode of a policy that the domain has already, or testing.
StartEnableAnyhow(r) ==
    /\ Begins(r)
    /\ policy = NoPolicy
    /\ Generate
    /\ \E mode \in Modes :
           req' = [req EXCEPT ![r] = [job |-> "enable", at |-> "txt",
                                      row |-> [mode |-> mode, mx |-> mx, id |-> clock, recs |-> NoIds]]]
    /\ UNCHANGED <<spfVars, zone, created, policy, mx, clock, cache, stray, faults>>

\* A domain without MX hosts is refused.
StartEnable(r) == mx # 0 /\ StartEnableAnyhow(r)

After == [txt |-> "rpt", rpt |-> "host", host |-> "insert"]

Made(k, id) == [n |-> created + 1, kind |-> k, id |-> IF k = "txt" THEN id ELSE 0]

\* Cloudflare refuses a record that is there already.
Refused(new) == \E x \in zone : x.kind = new.kind /\ x.id = new.id

\* provisionMtaSts: the records, one after the other.
Create(r) ==
    /\ req[r].at \in Kinds
    /\ ~Refused(Made(req[r].at, req[r].row.id))
    /\ created < MaxRecords /\ created' = created + 1
    /\ zone' = zone \cup {Made(req[r].at, req[r].row.id)}
    /\ req' = [req EXCEPT ![r].at = After[@], ![r].row.recs[req[r].at] = created + 1]
    /\ UNCHANGED <<spfVars, policy, mx, clock, cache, stray, last, hasty, faults>>

Numbers(recs) == {recs[k] : k \in Kinds} \ {0}
InZone(S) == S \cap {x.n : x \in zone}

\* A call is refused or fails, perhaps after it had its effect: nothing is taken back.
CreateFails(r) ==
    /\ req[r].at \in Kinds
    /\ LET new     == Made(req[r].at, req[r].row.id)
           left(S) == stray' = stray \cup InZone(Numbers(req[r].row.recs)) \cup S
       IN  \/ Refused(new) /\ left({}) /\ UNCHANGED <<zone, created, faults>>
           \/ Fault /\ left({}) /\ UNCHANGED <<zone, created>>
           \/ /\ Fault /\ ~Refused(new)
              /\ created < MaxRecords /\ created' = created + 1
              /\ zone' = zone \cup {new} /\ left({created + 1})
    /\ Done(r)
    /\ UNCHANGED <<spfVars, policy, mx, clock, cache, last, hasty>>

\* The row, whose key is the domain: another enabling may have been faster, or the
\* domain gone.
Insert(r) ==
    /\ req[r].at = "insert"
    /\ IF policy = NoPolicy /\ domain = "held"
       THEN policy' = req[r].row /\ UNCHANGED stray
       ELSE stray' = stray \cup InZone(Numbers(req[r].row.recs)) /\ UNCHANGED policy
    /\ Done(r)
    /\ UNCHANGED <<spfVars, zone, created, mx, clock, cache, last, hasty, faults>>

\* PATCH with a mode, or with the MX hosts of the moment if there are any, as the daily
\* job does where they have changed ("off" and 0: left alone).
Changes == [mode : Modes, mx : {0}] \cup [mode : {"off"}, mx : {mx} \ {0}]
StartUpdateAs(r, id) ==
    /\ Begins(r)
    /\ policy # NoPolicy
    /\ \E c \in Changes :
           req' = [req EXCEPT ![r] = [job |-> "update", at |-> "announce", id |-> id,
                                      txt |-> policy.recs["txt"], change |-> c]]
    /\ UNCHANGED <<spfVars, zone, created, policy, mx, clock, cache, stray, faults>>

\* A mutant of StartUpdate: the id stays.
StartUpdateQuietly(r) == StartUpdateAs(r, policy.id) /\ UNCHANGED <<last, hasty>>

StartUpdate(r) == Generate /\ StartUpdateAs(r, clock)

\* updateMtaStsTxtRecord: the new id first.  Without the record the request fails.
Shown(txt, id) == {IF x.n = txt THEN [x EXCEPT !.id = id] ELSE x : x \in zone}
Announce(r) ==
    /\ req[r].at = "announce"
    /\ zone' = Shown(req[r].txt, req[r].id)
    /\ IF req[r].txt \in InZone({req[r].txt}) THEN Goto(r, "change") ELSE Done(r)
    /\ UNCHANGED <<spfVars, created, policy, mx, clock, cache, stray, last, hasty, faults>>

AnnounceFails(r) ==
    /\ req[r].at = "announce"
    /\ Fault
    /\ zone' \in {zone, Shown(req[r].txt, req[r].id)}
    /\ Done(r)
    /\ UNCHANGED <<spfVars, created, policy, mx, clock, cache, stray, last, hasty>>

\* updateMode, updateMxHosts: the row of the domain, whichever it is by now.
Change(r) ==
    LET c == req[r].change
    IN  /\ req[r].at = "change"
        /\ policy' = IF policy = NoPolicy THEN NoPolicy
                     ELSE [policy EXCEPT !.id = req[r].id,
                                         !.mode = IF c.mode = "off" THEN @ ELSE c.mode,
                                         !.mx = IF c.mx = 0 THEN @ ELSE c.mx]
        /\ Done(r)
        /\ UNCHANGED <<spfVars, zone, created, mx, clock, cache, stray, last, hasty, faults>>

\* DELETE: the records of the row it read, then the row.
StartDisable(r) ==
    /\ Begins(r)
    /\ policy # NoPolicy
    /\ req' = [req EXCEPT ![r] = [job |-> "disable", at |-> "deprovision", recs |-> policy.recs]]
    /\ UNCHANGED <<spfVars, stsVars, faults>>

\* deprovisionMtaSts: three deletions at once, and what fails is passed over.
DeprovisionExcept(r, failed) ==
    /\ zone' = {x \in zone : x.n \in Numbers(req[r].recs) => x.n \in failed}
    /\ stray' = stray \cup failed
    /\ IF failed = {} THEN UNCHANGED faults ELSE Fault
    /\ Goto(r, "remove")
    /\ UNCHANGED <<spfVars, created, policy, mx, clock, cache, last, hasty>>

\* A mutant of Deprovision: the TLS-RPT record is not among them.
DeprovisionTwo(r) ==
    /\ req[r].at = "deprovision"
    /\ zone' = {x \in zone : x.n \notin Numbers([req[r].recs EXCEPT !["rpt"] = 0])}
    /\ Goto(r, "remove")
    /\ UNCHANGED <<spfVars, created, policy, mx, clock, cache, stray, last, hasty, faults>>

Deprovision(r) ==
    /\ req[r].at = "deprovision"
    /\ \E failed \in SUBSET InZone(Numbers(req[r].recs)) : DeprovisionExcept(r, failed)

\* Another disabling and an enabling may have put another row in its place.
Remove(r) ==
    /\ req[r].at = "remove"
    /\ policy' = NoPolicy
    /\ stray' = IF policy.recs = req[r].recs THEN stray ELSE stray \cup InZone(Numbers(policy.recs))
    /\ Done(r)
    /\ UNCHANGED <<spfVars, zone, created, mx, clock, cache, last, hasty, faults>>

-----------------------------------------------------------------------------
(* Around them                                                             *)

\* A sending server reads the record and, if its id is new to it, the policy.  It
\* may do so while an update is between the two.
Fetch ==
    \E x \in zone :
        /\ policy # NoPolicy /\ x.n = policy.recs["txt"] /\ x.id # cache.id
        /\ cache' = [id |-> x.id, mode |-> policy.mode, mx |-> policy.mx,
                     early |-> Doing({"update", "disable"}) # {}]
        /\ UNCHANGED <<spfVars, zone, created, policy, mx, clock, stray, last, hasty, req, faults>>

MxChange ==
    /\ mx < MaxMx /\ mx' = mx + 1
    /\ UNCHANGED <<spfVars, zone, created, policy, clock, cache, stray, last, hasty, req, faults>>

Tick ==
    /\ clock < MaxClock /\ clock' = clock + 1
    /\ UNCHANGED <<spfVars, zone, created, policy, mx, cache, stray, last, hasty, req, faults>>

\* A statement fails outside a try, or the isolate dies.
Die(r) ==
    /\ req[r] # Idle
    /\ Fault
    /\ spoiled' = (spoiled \/ req[r].at \in {"keep", "excuse"})
    /\ stray' = IF req[r].job = "enable" THEN stray \cup InZone(Numbers(req[r].row.recs)) ELSE stray
    /\ Done(r)
    /\ UNCHANGED <<domain, spf, texts, ranges, flattening, zone, created, policy, mx, clock, cache, last, hasty>>

\* domains.delete, also of a workspace that is erased or of a domain that was evicted
\* 30 days ago (until then nothing begins on it): both rows go with the domain.  The
\* zone is left as it is.
Delete ==
    /\ domain = "held" /\ domain' = "gone"
    /\ flattening' = NoFlattening /\ policy' = NoPolicy
    /\ UNCHANGED <<spf, texts, ranges, spoiled, zone, created, mx, clock, cache,
                   stray, last, hasty, req, faults>>

-----------------------------------------------------------------------------
SpfStep(r) ==
    \/ StartFlatten(r) \/ StartRefresh(r) \/ Find(r) \/ Collect(r) \/ Publish(r) \/ Keep(r) \/ Result(r)
    \/ FlattenFails(r) \/ KeepError(r) \/ KeepRefused(r)
    \/ StartRestore(r) \/ Restore(r) \/ RestoreFails(r) \/ ForgetFlattening(r)
    \/ StartApply(r) \/ Apply(r)

StsStep(r) ==
    \/ StartEnable(r) \/ Create(r) \/ CreateFails(r) \/ Insert(r)
    \/ StartUpdate(r) \/ Announce(r) \/ AnnounceFails(r) \/ Change(r)
    \/ StartDisable(r) \/ Deprovision(r) \/ Remove(r)

Next ==
    \/ \E r \in Requests : SpfStep(r) \/ StsStep(r) \/ Die(r)
    \/ CustomerEdits \/ ProvidersChange \/ Fetch \/ MxChange \/ Tick \/ Delete

Spec == Init /\ [][Next]_vars

-----------------------------------------------------------------------------
(* Properties                                                              *)

Record == [n : 1..MaxRecords, kind : Kinds, id : 0..MaxClock]
Recs   == [Kinds -> 0..MaxRecords]
Row    == [mode : Modes, mx : 1..MaxMx, id : 1..MaxClock, recs : Recs]

FlattenRequest ==
    [job : {"flatten", "refresh"}, at : {"find", "collect", "publish", "keep", "result", "excuse"},
     raw : Spf, old : Spf, new : Spf]
RestoreRequest == [job : {"restore"}, at : {"restore", "forget"}, old : Spf]
ApplyRequest   == [job : {"apply"}, at : {"apply"}]
EnableRequest  == [job : {"enable"}, at : Kinds \cup {"insert"}, row : Row]
UpdateRequest  == [job : {"update"}, at : {"announce", "change"}, id : 1..MaxClock, txt : 0..MaxRecords,
                   change : [mode : Modes \cup {"off"}, mx : 0..MaxMx]]
DisableRequest == [job : {"disable"}, at : {"deprovision", "remove"}, recs : Recs]

Request == {Idle} \cup FlattenRequest \cup RestoreRequest \cup ApplyRequest
               \cup EnableRequest \cup UpdateRequest \cup DisableRequest

\* The variables keep their types; so no policy is stored that lists no MX hosts
\* (cron.ts:171, "never publish an MTA-STS policy that lists no mx hosts"), and no
\* record number is given twice.
TypeOK ==
    /\ domain \in {"held", "gone"}
    /\ spf \in Spf /\ texts \in 1..MaxTexts /\ ranges \in 1..MaxRanges
    /\ flattening \in [canonical : Spf, found : BOOLEAN] \cup {NoFlattening}
    /\ zone \subseteq Record /\ \A x, y \in zone : x.n = y.n => x = y
    /\ created \in 0..MaxRecords /\ \A x \in zone : x.n <= created
    /\ policy \in Row \cup {NoPolicy}
    /\ mx \in 0..MaxMx /\ clock \in 1..MaxClock
    /\ cache \in [id : 0..MaxClock, mode : Modes \cup {"off"}, mx : 0..MaxMx, early : BOOLEAN]
    /\ req \in [Requests -> Request]
    /\ spoiled \in BOOLEAN /\ stray \subseteq 1..created
    /\ last \in 0..clock /\ hasty \in BOOLEAN /\ faults \in 0..MaxFaults

\* router.ts:46, "restore canonical record", and the text of the wizard
\* (SpfFlattenPage.tsx:165): while the record is flat and the domain not deleted, the text
\* it was made from can be put back: it is in the row, or a request is about to store
\* it.  However many requests flatten and refresh at once and fail, unless the text was
\* edited meanwhile, a disabling met a flattening, could not restore or did not know what
\* had been published, a flat domain was flattened once more, or a request died between
\* publishing and storing.  With the domain (router.ts:357) the text is dropped, and the
\* flat record stays.
OriginalKept ==
    domain = "held" /\ Flat(spf) /\ ~spoiled =>
        LET original == Written(spf.text)
        IN  \/ flattening.canonical = original
            \/ \E r \in Flatteners : \/ req[r].at = "keep" /\ req[r].old = original
                                     \/ req[r].at = "excuse" /\ req[r].raw = original

\* mta-sts.ts, "Remove all three DNS records": until the domain is deleted, every record
\* in the zone is named by the row or in the hands of the request that made it, or was
\* left by one that failed half way or that met another.
RecordsAccounted ==
    domain = "held" =>
        \A x \in zone : \/ x.n \in stray
                       \/ x.n \in Numbers(policy.recs)
                       \/ \E r \in Doing({"enable"}) : x.n \in Numbers(req[r].row.recs)

\* mta-sts.ts:273, "new policy_id (after mode or MX change)": a sender that
\* knows the id in the record knows the policy, once no update is at work; but for
\* one that fetched the old policy under the new id while an update was between the two
\* and for ids of the same second.
SendersCurrent ==
    policy # NoPolicy /\ Doing({"update", "disable"}) = {} /\ ~hasty =>
        \A x \in zone : x.n = policy.recs["txt"] /\ x.id = cache.id /\ ~cache.early =>
            cache.mode = policy.mode /\ cache.mx = policy.mx

\* SpfFlattenPage.tsx:169, "if your mail providers add or change IPs the record updates
\* itself": a refresh resolves to what the providers publish at that time.
RefreshFollowsProviders ==
    [][\A r \in Doing({"refresh"}) :
          req[r].at = "collect" /\ req'[r].at = "publish" => req'[r].new.flat = ranges]_vars

=============================================================================
