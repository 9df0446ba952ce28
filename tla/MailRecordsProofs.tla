-------------------------- MODULE MailRecordsProofs --------------------------
(***************************************************************************)
(* The safety properties of MailRecords hold for any number of requests    *)
(* and jobs on the domain.  SPF and MTA-STS share no variable but req, so  *)
(* the inductive invariant has a part for each, and each part has one      *)
(* lemma for the steps of the other.  The parts hold until the domain is   *)
(* deleted; from then on there is no row.                                  *)
(***************************************************************************)
EXTENDS MailRecords, TLAPS

\* The jobs of each half, and a request that has a policy id.
SpfJobs == {"flatten", "refresh", "restore"}
StsJobs == {"enable", "update", "disable"}
Id(r)   == IF req[r].job = "enable" THEN req[r].row.id ELSE req[r].id

-----------------------------------------------------------------------------
(* SPF                                                                     *)

\* Only POST stores something.
Roles == \A r \in Requests : req[r].at \in {"keep", "excuse"} => req[r].job = "flatten"

\* What a flattening holds is the text that is in the zone.
HoldsText ==
    \A r \in Flatteners :
        /\ req[r].job = "flatten" => req[r].raw = Written(spf.text) /\ req[r].old = Written(spf.text)
        /\ req[r].at = "publish" => req[r].new.text = spf.text

\* What a restoring holds is a text, and the one in the zone while there is a row.
HoldsOriginal ==
    \A r \in Doing({"restore"}) :
        /\ ~Flat(req[r].old)
        /\ flattening # NoFlattening => req[r].old = Written(spf.text)
        /\ req[r].at = "forget" => ~Flat(spf)

\* Until the text has slipped away.
Flattening ==
    /\ Doing({"restore"}) = {} \/ Flatteners = {}
    /\ HoldsText /\ HoldsOriginal
    /\ flattening # NoFlattening => flattening.canonical = Written(spf.text)
    /\ Doing({"refresh"}) # {} => flattening # NoFlattening

\* OriginalKept, of a domain that is there.
TextKept ==
    Flat(spf) /\ ~spoiled =>
        LET original == Written(spf.text)
        IN  \/ flattening.canonical = original
            \/ \E r \in Flatteners : \/ req[r].at = "keep" /\ req[r].old = original
                                     \/ req[r].at = "excuse" /\ req[r].raw = original

SpfInv == Roles /\ TextKept /\ (~spoiled => Flattening)

-----------------------------------------------------------------------------
(* MTA-STS                                                                 *)

\* Record numbers are those of records that were created.
Numbered ==
    /\ \A k \in Kinds : policy.recs[k] <= created
    /\ \A r \in Doing({"enable"}) : \A k \in Kinds : req[r].row.recs[k] <= created
    /\ \A r \in Doing({"disable"}) : \A k \in Kinds : req[r].recs[k] <= created
    /\ \A r \in Doing({"update"}) : req[r].txt <= created

\* An enabling has the records that it has come past.
Progress ==
    \A r \in Doing({"enable"}) :
        /\ req[r].at = "txt" => req[r].row.recs["txt"] = 0
        /\ req[r].at \in {"txt", "rpt"} => req[r].row.recs["rpt"] = 0
        /\ req[r].at \in {"txt", "rpt", "host"} => req[r].row.recs["host"] = 0

\* What a disabling has not deleted is written down.
Deleted == \A r \in Doing({"disable"}) : req[r].at = "remove" => InZone(Numbers(req[r].recs)) \subseteq stray

\* RecordsAccounted, of a domain that is there.
Listed ==
    \A x \in zone : \/ x.n \in stray
                   \/ x.n \in Numbers(policy.recs)
                   \/ \E r \in Doing({"enable"}) : x.n \in Numbers(req[r].row.recs)

Ledger == Numbered /\ Progress /\ Deleted /\ Listed

\* Ids come from the past.
Ids ==
    /\ policy.id <= last /\ cache.id <= last /\ \A x \in zone : x.id <= last
    /\ \A r \in Doing({"enable", "update"}) : Id(r) <= last

\* The record of an enabling is its own, and shows its id.
Txt(r) == req[r].row.recs["txt"]
Own ==
    /\ \A r \in Doing({"enable"}) : Txt(r) # 0 =>
           /\ Txt(r) # policy.recs["txt"]
           /\ \A s \in Doing({"enable"}) : s # r => Txt(r) # Txt(s)
           /\ \A s \in Doing({"update"}) : Txt(r) # req[s].txt
    /\ \A r \in Doing({"enable"}) : \A x \in zone : x.n = Txt(r) => x.id = req[r].row.id
    /\ \A x \in zone : x.n = policy.recs["txt"] => x.id # 0

\* An id belongs to one request.
Unique ==
    /\ \A r, s \in Doing({"enable", "update"}) : r # s => Id(r) # Id(s)
    /\ \A r \in Doing({"enable"}) : \A x \in zone : x.id = req[r].row.id => x.n = Txt(r)

\* The policy's record shows the id that the sender has fetched.
ShowsCached == \E x \in zone : x.n = policy.recs["txt"] /\ x.id = cache.id

\* A sender that fetched while no update was at work: the ids at work are new to it,
\* and while the record shows its id, the policy is the one it knows and no update
\* is about to change it.
Fetched ==
    /\ \A r \in Doing({"enable", "update"}) : Id(r) # cache.id
    /\ \A r \in Doing({"update"}) :
           ShowsCached => req[r].at = "announce" /\ req[r].txt = policy.recs["txt"]
    /\ policy # NoPolicy /\ ShowsCached => cache.mode = policy.mode /\ cache.mx = policy.mx

Senders == Ids /\ Own /\ (~hasty => Unique) /\ (~hasty /\ ~cache.early => Fetched)

\* The rows have gone with the domain, and do not come back.
Cascaded == domain = "gone" => policy = NoPolicy

MInv == TypeOK /\ Cascaded /\ (domain = "held" => SpfInv /\ Ledger /\ Senders)

-----------------------------------------------------------------------------
(* Types                                                                   *)

\* The two halves of TypeOK, and what they share.
SpfTypes ==
    /\ spf \in Spf /\ texts \in 1..MaxTexts /\ ranges \in 1..MaxRanges
    /\ flattening \in [canonical : Spf, found : BOOLEAN] \cup {NoFlattening} /\ spoiled \in BOOLEAN
StsTypes ==
    /\ zone \subseteq Record /\ \A x, y \in zone : x.n = y.n => x = y
    /\ created \in 0..MaxRecords /\ \A x \in zone : x.n <= created
    /\ policy \in Row \cup {NoPolicy}
    /\ mx \in 0..MaxMx /\ clock \in 1..MaxClock
    /\ cache \in [id : 0..MaxClock, mode : Modes \cup {"off"}, mx : 0..MaxMx, early : BOOLEAN]
    /\ stray \subseteq 1..created /\ last \in 0..clock /\ hasty \in BOOLEAN
Both == domain \in {"held", "gone"} /\ req \in [Requests -> Request] /\ faults \in 0..MaxFaults

LEMMA Halves == TypeOK <=> SpfTypes /\ StsTypes /\ Both
BY DEF TypeOK, SpfTypes, StsTypes, Both

LEMMA Shape ==
    ASSUME Both, NEW r \in Requests
    PROVE  /\ req[r].at \in {"find", "collect", "publish", "keep", "result", "excuse"} => req[r] \in FlattenRequest
           /\ req[r].job \in {"flatten", "refresh"} => req[r] \in FlattenRequest
           /\ req[r].at \in {"restore", "forget"} => req[r] \in RestoreRequest
           /\ req[r].job = "restore" => req[r] \in RestoreRequest
           /\ req[r].at = "apply" => req[r] \in ApplyRequest
           /\ req[r].at \in {"txt", "rpt", "host", "insert"} => req[r] \in EnableRequest
           /\ req[r].job = "enable" => req[r] \in EnableRequest
           /\ req[r].at \in {"announce", "change"} => req[r] \in UpdateRequest
           /\ req[r].job = "update" => req[r] \in UpdateRequest
           /\ req[r].at \in {"deprovision", "remove"} => req[r] \in DisableRequest
           /\ req[r].job = "disable" => req[r] \in DisableRequest
<1>1. req[r] \in Request
  BY DEF Both
<1>2. CASE req[r] = Idle
  BY <1>2 DEF Idle
<1>3. CASE req[r] \in FlattenRequest
  BY <1>3 DEF FlattenRequest
<1>4. CASE req[r] \in RestoreRequest
  BY <1>4 DEF RestoreRequest
<1>5. CASE req[r] \in ApplyRequest
  BY <1>5 DEF ApplyRequest
<1>6. CASE req[r] \in EnableRequest
  BY <1>6 DEF EnableRequest, Kinds
<1>7. CASE req[r] \in UpdateRequest
  BY <1>7 DEF UpdateRequest
<1>8. CASE req[r] \in DisableRequest
  BY <1>8 DEF DisableRequest
<1> QED
  BY <1>1, <1>2, <1>3, <1>4, <1>5, <1>6, <1>7, <1>8 DEF Request

\* One request goes on, the others stay.
Moves(r, v) == req' = [req EXCEPT ![r] = v]

LEMMA Moved ==
    ASSUME Both, NEW r \in Requests, NEW v, Moves(r, v)
    PROVE  /\ req'[r] = v
           /\ \A s \in Requests \ {r} : req'[s] = req[s]
           /\ v \in Request => req' \in [Requests -> Request]
BY DEF Moves, Both

LEMMA WrittenType == \A t \in 1..MaxTexts : Written(t) \in Spf /\ ~Flat(Written(t)) /\ Written(t).text = t
<1>1. 0 \in 0..MaxRanges
  BY MailAssumption
<1> QED
  BY <1>1 DEF Written, Spf, Flat

\* A stored row is not the absent one.
LEMMA Stored ==
    /\ NoFlattening \notin [canonical : Spf, found : BOOLEAN]
    /\ NoFlattening.found = FALSE /\ NoFlattening.canonical = Written(0)
BY DEF NoFlattening, Written, Spf

LEMMA Unflat == ASSUME NEW s \in Spf, ~Flat(s) PROVE s = Written(s.text)
BY DEF Spf, Flat, Written

LEMMA IdleMoves == ASSUME NEW r, Done(r) PROVE Moves(r, Idle) /\ Idle \in Request
BY DEF Done, Moves, Request

-----------------------------------------------------------------------------
(* Where the requests go                                                   *)

LEMMA StartSpfGoes ==
    ASSUME TypeOK, NEW r \in Requests, NEW job \in {"flatten", "refresh"}, StartSpf(r, job)
    PROVE  \E v \in FlattenRequest :
               /\ Moves(r, v) /\ v.job = job /\ v.at = "find"
               /\ v.raw = spf /\ v.old = spf /\ v.new = spf
<1> DEFINE v == [job |-> job, at |-> "find", raw |-> spf, old |-> spf, new |-> spf]
<1>1. v \in FlattenRequest /\ Moves(r, v)
  BY Halves DEF StartSpf, Moves, FlattenRequest, SpfTypes
<1> QED
  BY <1>1

LEMMA FindGoes ==
    ASSUME TypeOK, NEW r \in Requests, Find(r)
    PROVE  \E v \in FlattenRequest :
               /\ Moves(r, v) /\ v.job = req[r].job /\ v.at = "collect"
               /\ v.raw = req[r].raw /\ v.old = spf /\ v.new = req[r].new
<1> DEFINE v == [req[r] EXCEPT !.at = "collect", !.old = spf]
<1>1. req[r] \in FlattenRequest
  BY Halves, Shape DEF Find
<1>2. v \in FlattenRequest /\ Moves(r, v)
  BY <1>1, Halves DEF Find, Goto, Moves, FlattenRequest, SpfTypes
<1>3. v.job = req[r].job /\ v.at = "collect" /\ v.raw = req[r].raw /\ v.old = spf /\ v.new = req[r].new
  BY <1>1 DEF FlattenRequest
<1> QED
  BY <1>2, <1>3

LEMMA ResolvedType == ASSUME TypeOK PROVE Resolved \in Spf /\ Resolved.text = spf.text
BY Halves DEF SpfTypes, Resolved, Spf

LEMMA CollectGoes ==
    ASSUME TypeOK, NEW r \in Requests, Collect(r)
    PROVE  \E v \in FlattenRequest :
               /\ Moves(r, v) /\ v.job = req[r].job /\ v.at = "publish"
               /\ v.raw = req[r].raw /\ v.old = req[r].old /\ v.new = Resolved
<1> DEFINE v == [req[r] EXCEPT !.at = "publish", !.new = Resolved]
<1>1. req[r] \in FlattenRequest
  BY Halves, Shape DEF Collect
<1>2. v \in FlattenRequest /\ Moves(r, v)
  BY <1>1, ResolvedType DEF Collect, Moves, FlattenRequest
<1>3. v.job = req[r].job /\ v.at = "publish" /\ v.raw = req[r].raw /\ v.old = req[r].old /\ v.new = Resolved
  BY <1>1 DEF FlattenRequest
<1> QED
  BY <1>2, <1>3

LEMMA PublishGoes ==
    ASSUME TypeOK, NEW r \in Requests, Publish(r)
    PROVE  \E v \in FlattenRequest :
               /\ Moves(r, v) /\ v.job = req[r].job /\ v.at = (IF req[r].job = "flatten" THEN "keep" ELSE "result")
               /\ v.raw = req[r].raw /\ v.old = req[r].old /\ v.new = req[r].new
<1> DEFINE v == [req[r] EXCEPT !.at = IF req[r].job = "flatten" THEN "keep" ELSE "result"]
<1>1. req[r] \in FlattenRequest
  BY Halves, Shape DEF Publish
<1>2. v \in FlattenRequest /\ Moves(r, v)
  BY <1>1, Halves DEF Publish, Goto, Moves, FlattenRequest, SpfTypes
<1>3. v.job = req[r].job /\ v.at = (IF req[r].job = "flatten" THEN "keep" ELSE "result") /\ v.raw = req[r].raw /\ v.old = req[r].old /\ v.new = req[r].new
  BY <1>1 DEF FlattenRequest
<1> QED
  BY <1>2, <1>3

LEMMA KeepGoes ==
    ASSUME TypeOK, NEW r \in Requests, Keep(r)
    PROVE  \E v \in FlattenRequest :
               /\ Moves(r, v) /\ v.job = req[r].job /\ v.at = "result"
               /\ v.raw = req[r].raw /\ v.old = req[r].old /\ v.new = req[r].new
<1> DEFINE v == [req[r] EXCEPT !.at = "result"]
<1>1. req[r] \in FlattenRequest
  BY Halves, Shape DEF Keep
<1>2. v \in FlattenRequest /\ Moves(r, v)
  BY <1>1, Halves DEF Keep, Goto, Moves, FlattenRequest, SpfTypes
<1>3. v.job = req[r].job /\ v.at = "result" /\ v.raw = req[r].raw /\ v.old = req[r].old /\ v.new = req[r].new
  BY <1>1 DEF FlattenRequest
<1> QED
  BY <1>2, <1>3

LEMMA FlattenFailsGoes ==
    ASSUME TypeOK, NEW r \in Requests, FlattenFails(r), req[r].job = "flatten"
    PROVE  \E v \in FlattenRequest :
               /\ Moves(r, v) /\ v.job = req[r].job /\ v.at = "excuse"
               /\ v.raw = req[r].raw /\ v.old = req[r].old /\ v.new = req[r].new
<1> DEFINE v == [req[r] EXCEPT !.at = "excuse"]
<1>1. req[r] \in FlattenRequest
  BY Halves, Shape DEF FlattenFails
<1>2. v \in FlattenRequest /\ Moves(r, v)
  BY <1>1, Halves DEF FlattenFails, Goto, Moves, FlattenRequest, SpfTypes
<1>3. v.job = req[r].job /\ v.at = "excuse" /\ v.raw = req[r].raw /\ v.old = req[r].old /\ v.new = req[r].new
  BY <1>1 DEF FlattenRequest
<1> QED
  BY <1>2, <1>3

LEMMA StartRestoreGoes ==
    ASSUME TypeOK, NEW r \in Requests, StartRestore(r)
    PROVE  \E v \in RestoreRequest :
               /\ Moves(r, v) /\ v.at = (IF flattening.found THEN "restore" ELSE "forget")
               /\ v.old = flattening.canonical
<1> DEFINE v == [job |-> "restore", at |-> IF flattening.found THEN "restore" ELSE "forget",
                 old |-> flattening.canonical]
<1>1. v \in RestoreRequest /\ Moves(r, v)
  BY Halves DEF StartRestore, Moves, RestoreRequest, SpfTypes
<1> QED
  BY <1>1

LEMMA RestoreGoes ==
    ASSUME TypeOK, NEW r \in Requests, Restore(r) \/ RestoreFails(r)
    PROVE  \E v \in RestoreRequest : Moves(r, v) /\ v.at = "forget" /\ v.old = req[r].old
<1> DEFINE v == [req[r] EXCEPT !.at = "forget"]
<1>1. req[r] \in RestoreRequest
  BY Halves, Shape DEF Restore, RestoreFails
<1>2. v \in RestoreRequest /\ Moves(r, v) /\ v.at = "forget" /\ v.old = req[r].old
  BY <1>1 DEF Restore, RestoreFails, Goto, Moves, RestoreRequest
<1> QED
  BY <1>2

LEMMA StartApplyGoes ==
    ASSUME TypeOK, NEW r \in Requests, StartApply(r)
    PROVE  \E v \in ApplyRequest : Moves(r, v)
<1> DEFINE v == [job |-> "apply", at |-> "apply"]
<1>1. v \in ApplyRequest /\ Moves(r, v)
  BY DEF StartApply, Moves, ApplyRequest
<1> QED
  BY <1>1

LEMMA StsTypesStay == ASSUME StsTypes, UNCHANGED stsVars PROVE StsTypes'
BY DEF StsTypes, stsVars

LEMMA SpfTypesStay == ASSUME SpfTypes, UNCHANGED spfVars PROVE SpfTypes'
BY DEF SpfTypes, spfVars

LEMMA FaultTypes ==
    ASSUME Both, Fault \/ UNCHANGED faults
    PROVE  faults' \in 0..MaxFaults
BY MailAssumption DEF Both, Fault

LEMMA UpsertTypes ==
    ASSUME SpfTypes, NEW canonical \in Spf, NEW found \in BOOLEAN, Upsert(canonical, found)
    PROVE  /\ flattening' \in [canonical : Spf, found : BOOLEAN]
           /\ flattening'.canonical = canonical
<1>1. flattening.found \in BOOLEAN
  BY Stored DEF SpfTypes
<1> QED
  BY <1>1 DEF Upsert

\* What is left to show of a step of the SPF half.
LEMMA SpfTyped ==
    ASSUME TypeOK, NEW r \in Requests, NEW v, Moves(r, v), UNCHANGED stsVars, SpfTypes',
           v \in {Idle} \cup FlattenRequest \cup RestoreRequest \cup ApplyRequest,
           Fault \/ UNCHANGED faults
    PROVE  TypeOK'
<1>1. v \in Request
  BY DEF Request
<1>2. Both'
  BY <1>1, Halves, Moved, FaultTypes DEF Both, stsVars
<1>3. StsTypes'
  BY Halves, StsTypesStay
<1> QED
  BY <1>2, <1>3 DEF TypeOK, SpfTypes, StsTypes, Both

LEMMA SpfKeepsTypes ==
    ASSUME TypeOK, NEW r \in Requests, SpfStep(r)
    PROVE  TypeOK'
<1>1. UNCHANGED stsVars
  BY DEF SpfStep, StartFlatten, StartRefresh, StartSpf, Find, Collect, Publish, Keep, Result, FlattenFails, KeepError,
         KeepRefused, StartRestore, Restore, RestoreFails, ForgetFlattening, StartApply, Apply, Rewrite
<1>2. SpfTypes
  BY Halves
<1>3. ASSUME NEW job \in {"flatten", "refresh"}, StartSpf(r, job) PROVE TypeOK'
  <2>1. SpfTypes' /\ faults' = faults
    BY <1>2, <1>3 DEF StartSpf, SpfTypes
  <2> QED
    BY <1>1, <1>3, <2>1, StartSpfGoes, SpfTyped
<1>4. CASE Find(r)
  <2>1. SpfTypes' /\ faults' = faults
    BY <1>2, <1>4 DEF Find, SpfTypes
  <2> QED
    BY <1>1, <1>4, <2>1, FindGoes, SpfTyped
<1>5. CASE Collect(r)
  <2>1. SpfTypes' /\ faults' = faults
    BY <1>2, <1>5, SpfTypesStay DEF Collect
  <2> QED
    BY <1>1, <1>5, <2>1, CollectGoes, SpfTyped
<1>6. CASE Publish(r)
  <2>1. req[r].new \in Spf
    BY <1>6, Halves, Shape DEF Publish, FlattenRequest
  <2>2. SpfTypes' /\ faults' = faults
    BY <1>2, <1>6, <2>1 DEF Publish, SpfTypes
  <2> QED
    BY <1>1, <1>6, <2>2, PublishGoes, SpfTyped
<1>7. CASE Keep(r)
  <2>1. req[r].old \in Spf
    BY <1>7, Halves, Shape DEF Keep, FlattenRequest
  <2>2. SpfTypes' /\ faults' = faults
    BY <1>2, <1>7, <2>1, UpsertTypes DEF Keep, SpfTypes
  <2> QED
    BY <1>1, <1>7, <2>2, KeepGoes, SpfTyped
<1>8. CASE Result(r)
  <2>1. SpfTypes' /\ faults' = faults
    BY <1>2, <1>8 DEF Result, SpfTypes
  <2> QED
    BY <1>1, <1>8, <2>1, IdleMoves, SpfTyped DEF Result
<1>9. CASE FlattenFails(r)
  <2>1. req[r].new \in Spf
    BY <1>9, Halves, Shape DEF FlattenFails, FlattenRequest
  <2>2. SpfTypes' /\ Fault
    BY <1>2, <1>9, <2>1 DEF FlattenFails, SpfTypes
  <2>3. CASE req[r].job = "flatten"
    BY <1>1, <1>9, <2>2, <2>3, FlattenFailsGoes, SpfTyped
  <2>4. CASE req[r].job # "flatten"
    BY <1>1, <1>9, <2>2, <2>4, IdleMoves, SpfTyped DEF FlattenFails
  <2> QED
    BY <2>3, <2>4
<1>10. CASE KeepError(r)
  <2>1. req[r].raw \in Spf
    BY <1>10, Halves, Shape DEF KeepError, FlattenRequest
  <2>2. SpfTypes' /\ faults' = faults
    BY <1>2, <1>10, <2>1, UpsertTypes DEF KeepError, SpfTypes
  <2> QED
    BY <1>1, <1>10, <2>2, IdleMoves, SpfTyped DEF KeepError
<1>11. CASE StartRestore(r)
  <2>1. SpfTypes' /\ faults' = faults
    BY <1>2, <1>11 DEF StartRestore, SpfTypes
  <2> QED
    BY <1>1, <1>11, <2>1, StartRestoreGoes, SpfTyped
<1>12. CASE Restore(r)
  <2>1. req[r].old \in Spf
    BY <1>12, Halves, Shape DEF Restore, RestoreRequest
  <2>2. SpfTypes' /\ faults' = faults
    BY <1>2, <1>12, <2>1 DEF Restore, SpfTypes
  <2> QED
    BY <1>1, <1>12, <2>2, RestoreGoes, SpfTyped
<1>13. CASE RestoreFails(r)
  <2>1. SpfTypes' /\ Fault
    BY <1>2, <1>13 DEF RestoreFails, SpfTypes
  <2> QED
    BY <1>1, <1>13, <2>1, RestoreGoes, SpfTyped
<1>14. CASE ForgetFlattening(r)
  <2>2. SpfTypes' /\ faults' = faults
    BY <1>2, <1>14 DEF ForgetFlattening, SpfTypes
  <2> QED
    BY <1>1, <1>14, <2>2, IdleMoves, SpfTyped DEF ForgetFlattening
<1>15. CASE StartApply(r)
  <2>1. SpfTypes' /\ faults' = faults
    BY <1>2, <1>15, SpfTypesStay DEF StartApply
  <2> QED
    BY <1>1, <1>15, <2>1, StartApplyGoes, SpfTyped
<1>16. CASE Apply(r)
  <2>1. texts + 1 \in 1..MaxTexts
    BY <1>2, <1>16, MailAssumption DEF Apply, Rewrite, SpfTypes
  <2>2. SpfTypes' /\ faults' = faults
    BY <1>2, <1>16, <2>1, WrittenType DEF Apply, Rewrite, SpfTypes
  <2> QED
    BY <1>1, <1>16, <2>2, IdleMoves, SpfTyped DEF Apply
<1>17. CASE KeepRefused(r)
  <2>1. SpfTypes' /\ faults' = faults
    BY <1>2, <1>17, SpfTypesStay DEF KeepRefused
  <2> QED
    BY <1>1, <1>17, <2>1, IdleMoves, SpfTyped DEF KeepRefused
<1> QED
  BY <1>3, <1>4, <1>5, <1>6, <1>7, <1>8, <1>9, <1>10, <1>11, <1>12, <1>13, <1>14, <1>15, <1>16, <1>17
     DEF SpfStep, StartFlatten, StartRefresh

-----------------------------------------------------------------------------
(* Where the requests on MTA-STS go                                        *)

LEMMA InZoneBounds ==
    ASSUME StsTypes, NEW S
    PROVE  InZone(S) \subseteq 1..created
BY DEF StsTypes, InZone, Record

LEMMA RowShape ==
    ASSUME StsTypes
    PROVE  /\ policy.recs \in Recs
           /\ policy # NoPolicy => policy \in Row
           /\ policy = NoPolicy => policy.recs = NoIds /\ policy.id = 0 /\ policy.mode = "off"
           /\ NoPolicy \notin Row /\ NoIds \in Recs
BY MailAssumption DEF StsTypes, NoPolicy, Row, Recs, NoIds, Modes

LEMMA StartEnableGoes ==
    ASSUME TypeOK, NEW r \in Requests, StartEnable(r)
    PROVE  \E v \in EnableRequest :
               /\ Moves(r, v) /\ v.at = "txt" /\ v.row.id = clock /\ v.row.recs = NoIds
<1>1. PICK mode \in Modes :
          req' = [req EXCEPT ![r] = [job |-> "enable", at |-> "txt",
                                     row |-> [mode |-> mode, mx |-> mx, id |-> clock, recs |-> NoIds]]]
  BY DEF StartEnable, StartEnableAnyhow
<1> DEFINE w == [mode |-> mode, mx |-> mx, id |-> clock, recs |-> NoIds]
           v == [job |-> "enable", at |-> "txt", row |-> w]
<1>2. StsTypes
  BY Halves
<1>3. w \in Row
  BY <1>2, RowShape, MailAssumption DEF StartEnable, StsTypes, Row
<1>4. v \in EnableRequest
  BY <1>3 DEF EnableRequest, Kinds
<1>5. Moves(r, v)
  BY <1>1 DEF Moves
<1> QED
  BY <1>4, <1>5

LEMMA CreateGoes ==
    ASSUME TypeOK, NEW r \in Requests, Create(r)
    PROVE  \E v \in EnableRequest :
               /\ Moves(r, v) /\ v.at = After[req[r].at]
               /\ v.row = [req[r].row EXCEPT !.recs[req[r].at] = created + 1]
               /\ v.row.id = req[r].row.id
               /\ \A k \in Kinds : v.row.recs[k] = IF k = req[r].at THEN created + 1 ELSE req[r].row.recs[k]
<1> DEFINE w == [req[r].row EXCEPT !.recs[req[r].at] = created + 1]
           v == [req[r] EXCEPT !.at = After[@], !.row.recs[req[r].at] = created + 1]
<1>1. req[r] \in EnableRequest /\ req[r].at \in Kinds
  BY Halves, Shape DEF Create, Kinds
<1>2. created + 1 \in 0..MaxRecords
  BY Halves, MailAssumption DEF Create, StsTypes
<1>3. After[req[r].at] \in Kinds \cup {"insert"}
  BY <1>1 DEF After, Kinds
<1>4. w \in Row /\ w.id = req[r].row.id
  BY <1>1, <1>2 DEF Row, Recs, EnableRequest
<1>5. \A k \in Kinds : w.recs[k] = IF k = req[r].at THEN created + 1 ELSE req[r].row.recs[k]
  BY <1>1 DEF Row, Recs, EnableRequest
<1>6. v = [req[r] EXCEPT !.at = After[req[r].at], !.row = w]
  OBVIOUS
<1>7. v \in EnableRequest /\ v.at = After[req[r].at] /\ v.row = w
  <2>1. w \in Row
    BY <1>4
  <2> HIDE DEF v, w
  <2> QED
    BY <1>1, <1>3, <1>6, <2>1 DEF EnableRequest
<1>8. Moves(r, v)
  BY DEF Create, Moves
<1>9. /\ v \in EnableRequest /\ Moves(r, v) /\ v.at = After[req[r].at]
      /\ v.row = [req[r].row EXCEPT !.recs[req[r].at] = created + 1]
      /\ v.row.id = req[r].row.id
      /\ \A k \in Kinds : v.row.recs[k] = IF k = req[r].at THEN created + 1 ELSE req[r].row.recs[k]
  BY <1>4, <1>5, <1>7, <1>8
<1> HIDE DEF v
<1> QED
  BY <1>9

LEMMA StartUpdateGoes ==
    ASSUME TypeOK, NEW r \in Requests, StartUpdate(r)
    PROVE  \E v \in UpdateRequest :
               /\ Moves(r, v) /\ v.at = "announce" /\ v.id = clock /\ v.txt = policy.recs["txt"]
<1>1. PICK c \in Changes :
          req' = [req EXCEPT ![r] = [job |-> "update", at |-> "announce", id |-> clock,
                                     txt |-> policy.recs["txt"], change |-> c]]
  BY DEF StartUpdate, StartUpdateAs
<1> DEFINE v == [job |-> "update", at |-> "announce", id |-> clock, txt |-> policy.recs["txt"], change |-> c]
<1>2. StsTypes
  BY Halves
<1>3. c \in [mode : Modes \cup {"off"}, mx : 0..MaxMx]
  BY <1>2, MailAssumption DEF Changes, StsTypes
<1>4. policy.recs["txt"] \in 0..MaxRecords /\ clock \in 1..MaxClock
  BY <1>2, RowShape DEF Recs, Kinds, StsTypes
<1>5. v \in UpdateRequest
  BY <1>3, <1>4 DEF UpdateRequest
<1>6. Moves(r, v)
  BY <1>1 DEF Moves
<1> QED
  BY <1>5, <1>6

LEMMA AnnounceGoes ==
    ASSUME TypeOK, NEW r \in Requests, Announce(r), req[r].txt \in InZone({req[r].txt})
    PROVE  \E v \in UpdateRequest :
               Moves(r, v) /\ v.at = "change" /\ v.id = req[r].id /\ v.txt = req[r].txt
<1> DEFINE v == [req[r] EXCEPT !.at = "change"]
<1>1. req[r] \in UpdateRequest
  BY Halves, Shape DEF Announce
<1>2. v \in UpdateRequest /\ v.at = "change" /\ v.id = req[r].id /\ v.txt = req[r].txt
  BY <1>1 DEF UpdateRequest
<1>3. Moves(r, v)
  BY DEF Announce, Goto, Moves
<1> QED
  BY <1>2, <1>3

LEMMA StartDisableGoes ==
    ASSUME TypeOK, NEW r \in Requests, StartDisable(r)
    PROVE  \E v \in DisableRequest :
               Moves(r, v) /\ v.at = "deprovision" /\ v.recs = policy.recs
<1> DEFINE v == [job |-> "disable", at |-> "deprovision", recs |-> policy.recs]
<1>1. v \in DisableRequest
  BY Halves, RowShape DEF DisableRequest
<1>2. Moves(r, v)
  BY DEF StartDisable, Moves
<1> QED
  BY <1>1, <1>2

LEMMA DeprovisionGoes ==
    ASSUME TypeOK, NEW r \in Requests, Deprovision(r)
    PROVE  \E v \in DisableRequest :
               Moves(r, v) /\ v.at = "remove" /\ v.recs = req[r].recs
<1> DEFINE v == [req[r] EXCEPT !.at = "remove"]
<1>1. req[r] \in DisableRequest
  BY Halves, Shape DEF Deprovision
<1>2. v \in DisableRequest /\ v.at = "remove" /\ v.recs = req[r].recs
  BY <1>1 DEF DisableRequest
<1>3. Moves(r, v)
  BY DEF Deprovision, DeprovisionExcept, Goto, Moves
<1> QED
  BY <1>2, <1>3

-----------------------------------------------------------------------------
(* Types of the MTA-STS half                                               *)

LEMMA StsTyped ==
    ASSUME TypeOK, NEW r \in Requests, NEW v, Moves(r, v), UNCHANGED spfVars, StsTypes',
           v \in {Idle} \cup EnableRequest \cup UpdateRequest \cup DisableRequest,
           Fault \/ UNCHANGED faults
    PROVE  TypeOK'
<1>1. v \in Request
  BY DEF Request
<1>2. Both'
  BY <1>1, Halves, Moved, FaultTypes DEF Both, spfVars
<1>3. SpfTypes'
  BY Halves, SpfTypesStay
<1> QED
  BY <1>2, <1>3 DEF TypeOK, SpfTypes, StsTypes, Both

\* A record that is created: its number is new.
LEMMA MadeType ==
    ASSUME StsTypes, NEW k \in Kinds, NEW id \in 1..MaxClock, created < MaxRecords
    PROVE  /\ Made(k, id) \in Record /\ Made(k, id).n = created + 1
           /\ Made(k, id).id = (IF k = "txt" THEN id ELSE 0)
           /\ created + 1 \in 1..MaxRecords
           /\ \A x \in zone : x.n # created + 1
BY MailAssumption DEF StsTypes, Made, Record

LEMMA ZoneGrows ==
    ASSUME StsTypes, NEW k \in Kinds, NEW id \in 1..MaxClock, created < MaxRecords, created' = created + 1,
           zone' = zone \cup {Made(k, id)}
    PROVE  /\ zone' \subseteq Record /\ \A x, y \in zone' : x.n = y.n => x = y
           /\ created' \in 0..MaxRecords /\ \A x \in zone' : x.n <= created'
<1>1. /\ Made(k, id) \in Record /\ Made(k, id).n = created + 1
      /\ created + 1 \in 1..MaxRecords /\ \A x \in zone : x.n # created + 1
  BY MadeType
<1>2. zone \subseteq Record /\ created \in Nat /\ \A x \in zone : x.n <= created
  BY DEF StsTypes
<1>3. \A x \in zone' : x.n <= created'
  <2> SUFFICES ASSUME NEW x \in zone' PROVE x.n <= created'
    OBVIOUS
  <2>1. CASE x \in zone
    <3>1. x.n \in Nat /\ x.n <= created
      BY <1>2, <2>1 DEF Record
    <3> QED
      BY <1>2, <3>1
  <2>2. CASE x = Made(k, id)
    BY <1>1, <1>2, <2>2
  <2> QED
    BY <2>1, <2>2
<1>4. \A x, y \in zone' : x.n = y.n => x = y
  BY <1>1 DEF StsTypes
<1> QED
  BY <1>1, <1>2, <1>3, <1>4

\* Announcing an id changes the id of one record.
LEMMA ShownRecord ==
    ASSUME StsTypes, NEW txt, NEW id \in 1..MaxClock, NEW x \in zone
    PROVE  LET y == IF x.n = txt THEN [x EXCEPT !.id = id] ELSE x
           IN  /\ y \in Record /\ y.n = x.n /\ y.id = (IF x.n = txt THEN id ELSE x.id)
               /\ x.n # txt => y = x
<1>1. x \in Record /\ id \in 0..MaxClock
  BY MailAssumption DEF StsTypes
<1> QED
  BY <1>1 DEF Record

LEMMA ShownFrom ==
    ASSUME StsTypes, NEW txt, NEW id \in 1..MaxClock, NEW y \in Shown(txt, id)
    PROVE  /\ y \in Record
           /\ \E x \in zone : y.n = x.n /\ y.id = (IF x.n = txt THEN id ELSE x.id) /\ (x.n # txt => y = x)
<1>1. PICK x \in zone : y = IF x.n = txt THEN [x EXCEPT !.id = id] ELSE x
  BY DEF Shown
<1>2. y \in Record /\ y.n = x.n /\ y.id = (IF x.n = txt THEN id ELSE x.id) /\ (x.n # txt => y = x)
  BY <1>1, ShownRecord
<1> QED
  BY <1>2

LEMMA ShownTo ==
    ASSUME StsTypes, NEW txt, NEW id \in 1..MaxClock, NEW x \in zone
    PROVE  \E y \in Shown(txt, id) : y.n = x.n /\ y.id = (IF x.n = txt THEN id ELSE x.id)
<1> DEFINE y == IF x.n = txt THEN [x EXCEPT !.id = id] ELSE x
<1>1. y \in Shown(txt, id)
  BY DEF Shown
<1>2. y.n = x.n /\ y.id = (IF x.n = txt THEN id ELSE x.id)
  BY ShownRecord
<1> QED
  BY <1>1, <1>2

LEMMA ShownOnce ==
    ASSUME StsTypes, NEW txt, NEW id \in 1..MaxClock,
           NEW y \in Shown(txt, id), NEW z \in Shown(txt, id), y.n = z.n
    PROVE  y = z
<1>1. PICK w \in zone : y = IF w.n = txt THEN [w EXCEPT !.id = id] ELSE w
  BY DEF Shown
<1>2. PICK x \in zone : z = IF x.n = txt THEN [x EXCEPT !.id = id] ELSE x
  BY DEF Shown
<1>3. y.n = w.n /\ z.n = x.n
  BY <1>1, <1>2, ShownRecord
<1>4. w = x
  BY <1>3 DEF StsTypes
<1> QED
  BY <1>1, <1>2, <1>4

LEMMA NothingShown ==
    ASSUME StsTypes, NEW txt, NEW id \in 1..MaxClock, txt \notin InZone({txt})
    PROVE  Shown(txt, id) = zone
<1>1. \A x \in zone : x.n # txt
  BY DEF InZone
<1> QED
  BY <1>1 DEF Shown

LEMMA StsKeepsTypes ==
    ASSUME TypeOK, NEW r \in Requests, StsStep(r)
    PROVE  TypeOK'
<1>1. UNCHANGED spfVars
  BY DEF StsStep, StartEnable, StartEnableAnyhow, Create, CreateFails, Insert, StartUpdate, StartUpdateAs, Announce,
         AnnounceFails, Change, StartDisable, Deprovision, DeprovisionExcept, Remove
<1>2. StsTypes
  BY Halves
<1>3. CASE StartEnable(r)
  <2>1. StsTypes' /\ faults' = faults
    BY <1>2, <1>3 DEF StartEnable, StartEnableAnyhow, Generate, StsTypes
  <2> QED
    BY <1>1, <1>3, <2>1, StartEnableGoes, StsTyped
<1>4. CASE Create(r)
  <2>1. req[r] \in EnableRequest /\ req[r].at \in Kinds
    BY <1>4, Halves, Shape DEF Create, Kinds
  <2>2. req[r].row.id \in 1..MaxClock
    BY <2>1 DEF EnableRequest, Row
  <2>3. stray \subseteq 1..created'
    BY <1>2, <1>4 DEF Create, StsTypes
  <2>4. /\ zone' \subseteq Record /\ \A x, y \in zone' : x.n = y.n => x = y
        /\ created' \in 0..MaxRecords /\ \A x \in zone' : x.n <= created'
    BY <1>2, <1>4, <2>1, <2>2, ZoneGrows DEF Create
  <2>5. StsTypes' /\ faults' = faults
    BY <1>2, <1>4, <2>3, <2>4 DEF Create, StsTypes
  <2> QED
    BY <1>1, <1>4, <2>5, CreateGoes, StsTyped
<1>5. CASE CreateFails(r)
  <2>1. req[r] \in EnableRequest /\ req[r].at \in Kinds
    BY <1>5, Halves, Shape DEF CreateFails, Kinds
  <2>2. req[r].row.id \in 1..MaxClock
    BY <2>1 DEF EnableRequest, Row
  <2> DEFINE mine == InZone(Numbers(req[r].row.recs))
             new  == Made(req[r].at, req[r].row.id)
  <2>3. mine \subseteq 1..created
    BY <1>2, InZoneBounds
  <2>4. /\ Fault \/ UNCHANGED faults
        /\ UNCHANGED <<policy, mx, clock, cache, last, hasty>>
        /\ \/ UNCHANGED <<zone, created>> /\ stray' = stray \cup mine \cup {}
           \/ /\ created < MaxRecords /\ created' = created + 1
              /\ zone' = zone \cup {new} /\ stray' = stray \cup mine \cup {created + 1}
    BY <1>5 DEF CreateFails
  <2>5. created < MaxRecords /\ created' = created + 1 /\ zone' = zone \cup {new} =>
            /\ zone' \subseteq Record /\ \A x, y \in zone' : x.n = y.n => x = y
            /\ created' \in 0..MaxRecords /\ \A x \in zone' : x.n <= created'
    BY <1>2, <2>1, <2>2, ZoneGrows
  <2> HIDE DEF mine, new
  <2>6. stray' \subseteq 1..created'
    <3>1. created \in Nat /\ stray \subseteq 1..created
      BY <1>2, MailAssumption DEF StsTypes
    <3>2. CASE created' = created /\ stray' = stray \cup mine \cup {}
      BY <2>3, <3>1, <3>2
    <3>3. CASE created' = created + 1 /\ stray' = stray \cup mine \cup {created + 1}
      BY <2>3, <3>1, <3>3
    <3> QED
      BY <2>4, <3>2, <3>3
  <2>7. StsTypes'
    BY <1>2, <2>4, <2>5, <2>6 DEF StsTypes
  <2> QED
    BY <1>1, <1>5, <2>4, <2>7, IdleMoves, StsTyped DEF CreateFails
<1>6. CASE Insert(r)
  <2>1. req[r].row \in Row
    BY <1>6, Halves, Shape DEF Insert, EnableRequest
  <2>2. InZone(Numbers(req[r].row.recs)) \subseteq 1..created
    BY <1>2, InZoneBounds
  <2>3. StsTypes' /\ faults' = faults
    BY <1>2, <1>6, <2>1, <2>2 DEF Insert, StsTypes
  <2> QED
    BY <1>1, <1>6, <2>3, IdleMoves, StsTyped DEF Insert
<1>7. CASE StartUpdate(r)
  <2>1. StsTypes' /\ faults' = faults
    BY <1>2, <1>7 DEF StartUpdate, StartUpdateAs, Generate, StsTypes
  <2> QED
    BY <1>1, <1>7, <2>1, StartUpdateGoes, StsTyped
<1>8. ASSUME req[r].at = "announce", zone' \in {zone, Shown(req[r].txt, req[r].id)},
             UNCHANGED <<created, policy, mx, clock, cache, stray, last, hasty>>
      PROVE  StsTypes'
  <2>1. req[r].id \in 1..MaxClock
    BY <1>8, Halves, Shape DEF UpdateRequest
  <2>2. \A y \in Shown(req[r].txt, req[r].id) : y \in Record /\ \E x \in zone : y.n = x.n
    BY <1>2, <2>1, ShownFrom
  <2>3. \A y, z \in Shown(req[r].txt, req[r].id) : y.n = z.n => y = z
    BY <1>2, <2>1, ShownOnce
  <2>4. \A x \in Shown(req[r].txt, req[r].id) : x.n <= created
    BY <1>2, <2>2 DEF StsTypes
  <2> QED
    BY <1>2, <1>8, <2>2, <2>3, <2>4 DEF StsTypes
<1>9. CASE Announce(r)
  <2>1. StsTypes' /\ faults' = faults
    BY <1>8, <1>9 DEF Announce
  <2>2. CASE req[r].txt \in InZone({req[r].txt})
    BY <1>1, <1>9, <2>1, <2>2, AnnounceGoes, StsTyped
  <2>3. CASE req[r].txt \notin InZone({req[r].txt})
    BY <1>1, <1>9, <2>1, <2>3, IdleMoves, StsTyped DEF Announce
  <2> QED
    BY <2>2, <2>3
<1>10. CASE AnnounceFails(r)
  <2>1. StsTypes' /\ Fault
    BY <1>8, <1>10 DEF AnnounceFails
  <2> QED
    BY <1>1, <1>10, <2>1, IdleMoves, StsTyped DEF AnnounceFails
<1>11. CASE Change(r)
  <2>1. req[r] \in UpdateRequest
    BY <1>11, Halves, Shape DEF Change
  <2>2. req[r].id \in 1..MaxClock /\ req[r].change \in [mode : Modes \cup {"off"}, mx : 0..MaxMx]
    BY <2>1 DEF UpdateRequest
  <2>3. policy' \in Row \cup {NoPolicy}
    <3>1. CASE policy = NoPolicy
      BY <1>11, <3>1 DEF Change
    <3>2. CASE policy # NoPolicy
      <4>1. policy \in Row
        BY <1>2, <3>2, RowShape
      <4>2. policy' = [policy EXCEPT !.id = req[r].id,
                                     !.mode = IF req[r].change.mode = "off" THEN @ ELSE req[r].change.mode,
                                     !.mx = IF req[r].change.mx = 0 THEN @ ELSE req[r].change.mx]
        BY <1>11, <3>2 DEF Change
      <4>3. req[r].change.mode # "off" => req[r].change.mode \in Modes
        BY <2>2
      <4>4. req[r].change.mx # 0 => req[r].change.mx \in 1..MaxMx
        BY <2>2, MailAssumption
      <4> QED
        BY <2>2, <4>1, <4>2, <4>3, <4>4 DEF Row
    <3> QED
      BY <3>1, <3>2
  <2>4. StsTypes' /\ faults' = faults
    BY <1>2, <1>11, <2>3 DEF Change, StsTypes
  <2> QED
    BY <1>1, <1>11, <2>4, IdleMoves, StsTyped DEF Change
<1>12. CASE StartDisable(r)
  <2>1. StsTypes' /\ faults' = faults
    BY <1>2, <1>12, StsTypesStay DEF StartDisable
  <2> QED
    BY <1>1, <1>12, <2>1, StartDisableGoes, StsTyped
<1>13. CASE Deprovision(r)
  <2>1. PICK failed \in SUBSET InZone(Numbers(req[r].recs)) : DeprovisionExcept(r, failed)
    BY <1>13 DEF Deprovision
  <2>2. failed \subseteq 1..created
    BY <1>2, <2>1, InZoneBounds
  <2>3. StsTypes'
    BY <1>2, <2>1, <2>2 DEF DeprovisionExcept, StsTypes
  <2>4. Fault \/ UNCHANGED faults
    BY <2>1 DEF DeprovisionExcept
  <2> QED
    BY <1>1, <1>13, <2>3, <2>4, DeprovisionGoes, StsTyped
<1>14. CASE Remove(r)
  <2>1. InZone(Numbers(policy.recs)) \subseteq 1..created
    BY <1>2, InZoneBounds
  <2>2. StsTypes' /\ faults' = faults
    BY <1>2, <1>14, <2>1 DEF Remove, StsTypes
  <2> QED
    BY <1>1, <1>14, <2>2, IdleMoves, StsTyped DEF Remove
<1> QED
  BY <1>3, <1>4, <1>5, <1>6, <1>7, <1>9, <1>10, <1>11, <1>12, <1>13, <1>14 DEF StsStep

-----------------------------------------------------------------------------
(* Types of the other steps                                                *)

LEMMA OutsideKeepsTypes ==
    ASSUME TypeOK, CustomerEdits \/ ProvidersChange \/ Fetch \/ MxChange \/ Tick \/ Delete
    PROVE  TypeOK'
<1>1. SpfTypes /\ StsTypes /\ Both
  BY Halves
<1>2. CASE CustomerEdits
  <2>1. texts + 1 \in 1..MaxTexts
    BY <1>1, <1>2, MailAssumption DEF CustomerEdits, Rewrite, SpfTypes
  <2>2. SpfTypes'
    BY <1>1, <1>2, <2>1, WrittenType DEF CustomerEdits, Rewrite, SpfTypes
  <2>3. StsTypes'
    BY <1>1, <1>2, StsTypesStay DEF CustomerEdits, Rewrite
  <2> QED
    BY <1>1, <1>2, <2>2, <2>3 DEF CustomerEdits, Rewrite, TypeOK, SpfTypes, StsTypes, Both, stsVars
<1>3. CASE ProvidersChange
  <2>1. SpfTypes'
    BY <1>1, <1>3, MailAssumption DEF ProvidersChange, SpfTypes
  <2>2. StsTypes'
    BY <1>1, <1>3, StsTypesStay DEF ProvidersChange
  <2> QED
    BY <1>1, <1>3, <2>1, <2>2 DEF ProvidersChange, TypeOK, SpfTypes, StsTypes, Both, stsVars
<1>4. CASE Fetch
  <2>1. PICK x \in zone : cache' = [id |-> x.id, mode |-> policy.mode, mx |-> policy.mx,
                                    early |-> Doing({"update", "disable"}) # {}] /\ policy # NoPolicy
    BY <1>4 DEF Fetch
  <2>2. x.id \in 0..MaxClock /\ policy \in Row
    BY <1>1, <2>1, RowShape DEF StsTypes, Record
  <2>3. cache' \in [id : 0..MaxClock, mode : Modes \cup {"off"}, mx : 0..MaxMx, early : BOOLEAN]
    BY <2>1, <2>2, MailAssumption DEF Row
  <2>4. StsTypes'
    BY <1>1, <1>4, <2>3 DEF Fetch, StsTypes
  <2>5. SpfTypes'
    BY <1>1, <1>4, SpfTypesStay DEF Fetch
  <2> QED
    BY <1>1, <1>4, <2>4, <2>5 DEF Fetch, TypeOK, SpfTypes, StsTypes, Both, spfVars
<1>5. CASE MxChange
  <2>1. StsTypes'
    BY <1>1, <1>5, MailAssumption DEF MxChange, StsTypes
  <2>2. SpfTypes'
    BY <1>1, <1>5, SpfTypesStay DEF MxChange
  <2> QED
    BY <1>1, <1>5, <2>1, <2>2 DEF MxChange, TypeOK, SpfTypes, StsTypes, Both, spfVars
<1>6. CASE Tick
  <2>1. StsTypes'
    BY <1>1, <1>6, MailAssumption DEF Tick, StsTypes
  <2>2. SpfTypes'
    BY <1>1, <1>6, SpfTypesStay DEF Tick
  <2> QED
    BY <1>1, <1>6, <2>1, <2>2 DEF Tick, TypeOK, SpfTypes, StsTypes, Both, spfVars
<1>7. CASE Delete
  BY <1>1, <1>7 DEF Delete, TypeOK, SpfTypes, StsTypes, Both
<1> QED
  BY <1>2, <1>3, <1>4, <1>5, <1>6, <1>7

LEMMA DieKeepsTypes ==
    ASSUME TypeOK, NEW r \in Requests, Die(r)
    PROVE  TypeOK'
<1>1. SpfTypes /\ StsTypes
  BY Halves
<1>2. SpfTypes'
  BY <1>1 DEF Die, SpfTypes
<1>3. InZone(Numbers(req[r].row.recs)) \subseteq 1..created
  BY <1>1, InZoneBounds
<1>4. StsTypes'
  BY <1>1, <1>3 DEF Die, StsTypes
<1>5. Both'
  BY Halves, Moved, IdleMoves, FaultTypes DEF Die, Both
<1> QED
  BY <1>2, <1>4, <1>5 DEF TypeOK, SpfTypes, StsTypes, Both

LEMMA InitTypes == Init => TypeOK
<1> SUFFICES ASSUME Init PROVE TypeOK
  OBVIOUS
<1>1. /\ 1 \in 1..MaxTexts /\ 1 \in 1..MaxRanges /\ 1 \in 1..MaxClock
      /\ 0 \in 0..MaxRecords /\ 0 \in 0..MaxMx /\ 0 \in 0..MaxClock
  BY MailAssumption
<1>2. SpfTypes
  <2>1. Written(1) \in Spf
    BY <1>1, WrittenType
  <2> QED
    BY <1>1, <2>1 DEF Init, SpfTypes
<1>3. StsTypes
  <2>1. [id |-> 0, mode |-> "off", mx |-> 0, early |-> FALSE]
            \in [id : 0..MaxClock, mode : Modes \cup {"off"}, mx : 0..MaxMx, early : BOOLEAN]
    BY <1>1
  <2>2. zone \subseteq Record /\ \A x, y \in zone : x.n = y.n => x = y
    BY DEF Init
  <2>3. created \in 0..MaxRecords /\ \A x \in zone : x.n <= created
    BY <1>1 DEF Init
  <2>4. stray \subseteq 1..created /\ last \in 0..clock
    BY DEF Init
  <2>5. policy \in Row \cup {NoPolicy} /\ mx \in 0..MaxMx /\ clock \in 1..MaxClock /\ hasty \in BOOLEAN
    BY <1>1 DEF Init
  <2>6. cache \in [id : 0..MaxClock, mode : Modes \cup {"off"}, mx : 0..MaxMx, early : BOOLEAN]
    BY <2>1 DEF Init
  <2> QED
    BY <2>2, <2>3, <2>4, <2>5, <2>6 DEF StsTypes
<1>4. Both
  BY MailAssumption DEF Init, Both, Request
<1> QED
  BY <1>2, <1>3, <1>4, Halves

LEMMA StepTypes ==
    ASSUME TypeOK, [Next]_vars
    PROVE  TypeOK'
<1>1. CASE Next
  BY <1>1, SpfKeepsTypes, StsKeepsTypes, DieKeepsTypes, OutsideKeepsTypes DEF Next
<1>2. CASE UNCHANGED vars
  BY <1>2 DEF vars, TypeOK
<1> QED
  BY <1>1, <1>2

\* The variables keep their types; no policy is stored that lists no MX hosts, and no
\* record number is given twice (cron.ts:171, mta-sts.ts).
THEOREM MailTypes == Spec => []TypeOK
BY InitTypes, StepTypes, PTL DEF Spec

-----------------------------------------------------------------------------
(* The customer's text                                                     *)

LEMMA Doers ==
    ASSUME Both, NEW r \in Requests, NEW v, Moves(r, v), NEW J
    PROVE  /\ r \in Doing(J)' <=> v.job \in J
           /\ \A s \in Requests \ {r} : s \in Doing(J)' <=> s \in Doing(J)
BY Moved DEF Doing

LEMMA NoneJoins ==
    ASSUME Both, NEW r \in Requests, NEW v, Moves(r, v), NEW J, Doing(J) = {}, v.job \notin J
    PROVE  Doing(J)' = {}
<1>1. Doing(J)' \subseteq Requests
  BY DEF Doing
<1> QED
  BY <1>1, Doers

LEMMA RolesMove ==
    ASSUME Both, Roles, NEW r \in Requests, NEW v, Moves(r, v),
           v.at \in {"keep", "excuse"} => v.job = "flatten"
    PROVE  Roles'
BY Moved DEF Roles

\* The record and what the row knows stay, and r had nothing to store.
LEMMA OriginalStays ==
    ASSUME Both, TextKept, NEW r \in Requests, NEW v, Moves(r, v),
           spf' = spf, flattening'.canonical = flattening.canonical, spoiled => spoiled',
           req[r].at \notin {"keep", "excuse"} \/ spoiled'
    PROVE  TextKept'
<1> SUFFICES ASSUME Flat(spf)', ~spoiled'
             PROVE  \/ flattening'.canonical = Written(spf'.text)
                    \/ \E s \in Flatteners' : \/ req'[s].at = "keep" /\ req'[s].old = Written(spf'.text)
                                              \/ req'[s].at = "excuse" /\ req'[s].raw = Written(spf'.text)
  BY DEF TextKept
<1>1. Flat(spf) /\ ~spoiled
  BY DEF Flat
<1>2. CASE flattening.canonical = Written(spf.text)
  BY <1>2
<1>3. ASSUME NEW s \in Flatteners,
             \/ req[s].at = "keep" /\ req[s].old = Written(spf.text)
             \/ req[s].at = "excuse" /\ req[s].raw = Written(spf.text)
      PROVE  s \in Flatteners' /\ req'[s] = req[s]
  <2>1. s \in Requests \ {r}
    BY <1>3 DEF Flatteners, Doing
  <2> QED
    BY <1>3, <2>1, Moved, Doers DEF Flatteners
<1> QED
  BY <1>1, <1>2, <1>3 DEF TextKept

LEMMA OriginalNamed ==
    ASSUME ~Flat(spf') \/ spoiled' \/ flattening'.canonical = Written(spf'.text)
    PROVE  TextKept'
BY DEF TextKept, Flat

\* A step that leaves the text alone, of a request that is not restoring.
LEMMA TextStays ==
    ASSUME Both, Flattening, NEW r \in Requests, NEW v, Moves(r, v), spf'.text = spf.text,
           v.job # "restore",
           v.job \in {"flatten", "refresh"} => Doing({"restore"}) = {},
           v.job = "flatten" => v.raw = Written(spf.text) /\ v.old = Written(spf.text),
           v.job \in {"flatten", "refresh"} /\ v.at = "publish" => v.new.text = spf.text,
           v.job = "refresh" => flattening' # NoFlattening,
           flattening # NoFlattening => flattening' # NoFlattening,
           flattening' # NoFlattening => flattening'.canonical = Written(spf.text),
           Doing({"restore"}) = {} \/ (spf' = spf /\ flattening' = flattening)
    PROVE  Flattening'
<1>1. \A s \in Requests : /\ s \in Doing({"restore"})' => s # r /\ s \in Doing({"restore"}) /\ req'[s] = req[s]
                          /\ s \in Doing({"refresh"})' => s = r \/ s \in Doing({"refresh"})
                          /\ s \in Flatteners' => s = r \/ (s \in Flatteners /\ req'[s] = req[s])
                          /\ r \in Flatteners' <=> v.job \in {"flatten", "refresh"}
                          /\ r \in Doing({"refresh"})' <=> v.job = "refresh"
  BY Moved, Doers DEF Flatteners
<1>2. \A J : Doing(J)' \subseteq Requests
  BY DEF Doing
<1>3. Doing({"restore"})' = {} \/ Flatteners' = {}
  BY <1>1, <1>2 DEF Flattening, Flatteners
<1>4. HoldsText'
  <2> SUFFICES ASSUME NEW s \in Flatteners'
               PROVE  /\ req'[s].job = "flatten" => req'[s].raw = Written(spf.text) /\ req'[s].old = Written(spf.text)
                      /\ req'[s].at = "publish" => req'[s].new.text = spf.text
    BY DEF HoldsText
  <2>1. s \in Requests
    BY <1>2 DEF Flatteners
  <2>2. CASE s = r
    BY <1>1, <2>2, Moved
  <2>3. CASE s # r
    BY <1>1, <2>1, <2>3 DEF Flattening, HoldsText
  <2> QED
    BY <2>2, <2>3
<1>5. HoldsOriginal'
  BY <1>1, <1>2 DEF Flattening, HoldsOriginal, Flat
<1>6. Doing({"refresh"})' # {} => flattening' # NoFlattening
  BY <1>1, <1>2 DEF Flattening
<1> QED
  BY <1>3, <1>4, <1>5, <1>6 DEF Flattening

\* A step of a flattening that changes neither record nor row.
LEMMA FlattenGoesOn ==
    ASSUME TypeOK, SpfInv, NEW r \in Requests, NEW v \in FlattenRequest, Moves(r, v),
           spf' = spf, flattening' = flattening, spoiled => spoiled',
           req[r].at \notin {"keep", "excuse"}, v.at \notin {"keep", "excuse"},
           ~spoiled' => /\ Doing({"restore"}) = {}
                        /\ v.job = "refresh" => flattening # NoFlattening
                        /\ v.job = "flatten" => v.raw = Written(spf.text) /\ v.old = Written(spf.text)
                        /\ v.at = "publish" => v.new.text = spf.text
    PROVE  SpfInv'
<1>1. Both /\ Roles /\ TextKept
  BY Halves DEF SpfInv
<1>2. Roles' /\ TextKept'
  BY <1>1, RolesMove, OriginalStays
<1>3. ASSUME ~spoiled' PROVE Flattening'
  <2>1. Flattening
    BY <1>3 DEF SpfInv
  <2>2. v.job \in {"flatten", "refresh"}
    BY DEF FlattenRequest
  <2>3. flattening' # NoFlattening => flattening'.canonical = Written(spf.text)
    BY <2>1 DEF Flattening
  <2> QED
    BY <1>1, <1>3, <2>1, <2>2, <2>3, TextStays
<1> QED
  BY <1>2, <1>3 DEF SpfInv

\* A flattening is about to end: the row names the text, or is not touched.
LEMMA FlattenEnds ==
    ASSUME TypeOK, SpfInv, NEW r \in Requests, NEW v, Moves(r, v), r \in Flatteners,
           v.job \notin {"restore"}, v.job \in {"flatten", "refresh"} => v.job = req[r].job,
           v.at \in {"keep", "excuse"} => v.job = "flatten",
           v.job = "flatten" => v.raw = req[r].raw /\ v.old = req[r].old,
           v.at # "publish",
           spf'.text = spf.text, spoiled' = spoiled,
           flattening # NoFlattening => flattening' # NoFlattening,
           ~spoiled /\ flattening' # NoFlattening => flattening'.canonical = Written(spf.text),
           TextKept'
    PROVE  SpfInv'
<1>1. Both /\ Roles
  BY Halves DEF SpfInv
<1>2. Roles'
  BY <1>1, RolesMove
<1>3. ASSUME ~spoiled' PROVE Flattening'
  <2>1. Flattening
    BY <1>3 DEF SpfInv
  <2>2. Doing({"restore"}) = {}
    BY <2>1 DEF Flattening
  <2>3. v.job = "flatten" => v.raw = Written(spf.text) /\ v.old = Written(spf.text)
    BY <2>1 DEF Flattening, HoldsText
  <2>4. v.job = "refresh" => flattening' # NoFlattening
    <3>1. v.job = "refresh" => r \in Doing({"refresh"})
      BY DEF Doing, Flatteners
    <3> QED
      BY <2>1, <3>1 DEF Flattening
  <2> QED
    BY <1>1, <1>3, <2>1, <2>2, <2>3, <2>4, TextStays
<1> QED
  BY <1>2, <1>3 DEF SpfInv

\* A step that concerns neither the record nor its row.
LEMMA SpfRests ==
    ASSUME TypeOK, SpfInv, NEW r \in Requests, NEW v, Moves(r, v),
           spf' = spf, flattening' = flattening, spoiled => spoiled',
           v.job \notin {"flatten", "refresh", "restore"}, v.at \notin {"keep", "excuse"},
           req[r].at \notin {"keep", "excuse"} \/ spoiled'
    PROVE  SpfInv'
<1>1. Both /\ Roles /\ TextKept
  BY Halves DEF SpfInv
<1>2. Roles' /\ TextKept'
  BY <1>1, RolesMove, OriginalStays
<1>3. ASSUME ~spoiled' PROVE Flattening'
  <2>1. Flattening
    BY <1>3 DEF SpfInv
  <2>2. flattening' # NoFlattening => flattening'.canonical = Written(spf.text)
    BY <2>1 DEF Flattening
  <2> QED
    BY <1>1, <1>3, <2>1, <2>2, TextStays
<1> QED
  BY <1>2, <1>3 DEF SpfInv

LEMMA StartSpfSafe ==
    ASSUME TypeOK, SpfInv, NEW r \in Requests, NEW job \in {"flatten", "refresh"}, StartSpf(r, job),
           job = "refresh" => flattening # NoFlattening
    PROVE  SpfInv'
<1>1. PICK v \in FlattenRequest :
          Moves(r, v) /\ v.job = job /\ v.at = "find" /\ v.raw = spf /\ v.old = spf /\ v.new = spf
  BY StartSpfGoes
<1>2. /\ spf' = spf /\ flattening' = flattening /\ (spoiled => spoiled')
      /\ req[r].at \notin {"keep", "excuse"}
      /\ ~spoiled' => Doing({"restore"}) = {} /\ ~Again(job)
  <2>1. req[r].at = "idle"
    BY DEF StartSpf, Begins, Idle
  <2>2. spf' = spf /\ flattening' = flattening /\ spoiled' = (spoiled \/ Doing({"restore"}) # {} \/ Again(job))
    BY DEF StartSpf
  <2> QED
    BY <2>1, <2>2
<1>3. ~Again(job) /\ job = "flatten" => spf = Written(spf.text)
  BY Halves, Unflat DEF Again, SpfTypes
<1> QED
  BY <1>1, <1>2, <1>3, FlattenGoesOn

LEMMA FindSafe ==
    ASSUME TypeOK, SpfInv, NEW r \in Requests, Find(r)
    PROVE  SpfInv'
<1>1. PICK v \in FlattenRequest :
          /\ Moves(r, v) /\ v.job = req[r].job /\ v.at = "collect"
          /\ v.raw = req[r].raw /\ v.old = spf /\ v.new = req[r].new
  BY FindGoes
<1>2. /\ spf' = spf /\ flattening' = flattening /\ (spoiled => spoiled')
      /\ req[r].at \notin {"keep", "excuse"}
      /\ ~spoiled' => ~Again(req[r].job)
  BY DEF Find
<1>3. ~Again(req[r].job) /\ req[r].job = "flatten" => spf = Written(spf.text)
  BY Halves, Unflat DEF Again, SpfTypes
<1>4. r \in Flatteners
  BY Halves, Shape DEF Find, Flatteners, Doing, FlattenRequest
<1>5. r \in Doing({"refresh"}) <=> req[r].job = "refresh"
  BY DEF Doing
<1>6. ~spoiled' => Flattening
  BY <1>2 DEF SpfInv
<1>7. ~spoiled' => /\ Doing({"restore"}) = {}
                   /\ v.job = "refresh" => flattening # NoFlattening
                   /\ v.job = "flatten" => v.raw = Written(spf.text) /\ v.old = Written(spf.text)
  BY <1>1, <1>2, <1>3, <1>4, <1>5, <1>6 DEF Flattening, HoldsText
<1> QED
  BY <1>1, <1>2, <1>7, FlattenGoesOn

LEMMA CollectSafe ==
    ASSUME TypeOK, SpfInv, NEW r \in Requests, Collect(r)
    PROVE  SpfInv'
<1>1. PICK v \in FlattenRequest :
          /\ Moves(r, v) /\ v.job = req[r].job /\ v.at = "publish"
          /\ v.raw = req[r].raw /\ v.old = req[r].old /\ v.new = Resolved
  BY CollectGoes
<1>2. /\ spf' = spf /\ flattening' = flattening /\ spoiled' = spoiled
      /\ req[r].at \notin {"keep", "excuse"}
  BY DEF Collect, spfVars
<1>3. v.new.text = spf.text
  BY <1>1, ResolvedType
<1>4. r \in Flatteners
  BY Halves, Shape DEF Collect, Flatteners, Doing, FlattenRequest
<1>5. r \in Doing({"refresh"}) <=> req[r].job = "refresh"
  BY DEF Doing
<1>6. ~spoiled' => Flattening
  BY <1>2 DEF SpfInv
<1>7. ~spoiled' => /\ Doing({"restore"}) = {}
                   /\ v.job = "refresh" => flattening # NoFlattening
                   /\ v.job = "flatten" => v.raw = Written(spf.text) /\ v.old = Written(spf.text)
  BY <1>1, <1>4, <1>5, <1>6 DEF Flattening, HoldsText
<1> QED
  BY <1>1, <1>2, <1>3, <1>7, FlattenGoesOn

LEMMA PublishSafe ==
    ASSUME TypeOK, SpfInv, NEW r \in Requests, Publish(r)
    PROVE  SpfInv'
<1>1. PICK v \in FlattenRequest :
          /\ Moves(r, v) /\ v.job = req[r].job /\ v.at = (IF req[r].job = "flatten" THEN "keep" ELSE "result")
          /\ v.raw = req[r].raw /\ v.old = req[r].old /\ v.new = req[r].new
  BY PublishGoes
<1>2. spf' = req[r].new /\ flattening' = flattening /\ spoiled' = spoiled /\ req[r].at = "publish"
  BY DEF Publish
<1>3. r \in Flatteners /\ (req[r].job = "refresh" => r \in Doing({"refresh"}))
  BY Halves, Shape DEF Publish, Flatteners, Doing, FlattenRequest
<1>4. v.job \in {"flatten", "refresh"}
  BY DEF FlattenRequest
<1>5. CASE spoiled
  <2>1. Roles'
    BY <1>1, Halves, RolesMove DEF SpfInv
  <2> QED
    BY <1>2, <1>5, <2>1, OriginalNamed DEF SpfInv
<1>6. CASE ~spoiled
  <2>1. Flattening
    BY <1>6 DEF SpfInv
  <2>2. /\ spf'.text = spf.text
        /\ req[r].job = "flatten" => v.at = "keep" /\ v.old = Written(spf.text)
        /\ req[r].job = "refresh" => flattening.canonical = Written(spf.text)
    BY <1>1, <1>2, <1>3, <2>1 DEF Flattening, HoldsText
  <2>3. TextKept'
    <3>1. CASE req[r].job = "refresh"
      BY <1>2, <2>2, <3>1, OriginalNamed
    <3>2. CASE req[r].job = "flatten"
      <4>1. r \in Flatteners' /\ req'[r] = v
        BY <1>1, <3>2, Halves, Moved, Doers DEF Flatteners
      <4> QED
        BY <2>2, <3>2, <4>1 DEF TextKept
    <3> QED
      BY <1>1, <1>4, <3>1, <3>2
  <2>4. ~spoiled /\ flattening' # NoFlattening => flattening'.canonical = Written(spf.text)
    BY <1>2, <2>1 DEF Flattening
  <2> QED
    BY <1>1, <1>2, <1>3, <1>4, <2>2, <2>3, <2>4, FlattenEnds
<1> QED
  BY <1>5, <1>6

\* The row gets the text that was looked up: one that is the zone's until it has slipped away.
LEMMA StoreSafe ==
    ASSUME TypeOK, SpfInv, NEW r \in Requests, NEW v, Moves(r, v), r \in Flatteners,
           v \in {Idle} \cup FlattenRequest, v.at \in {"idle", "result"},
           v # Idle => v.job = req[r].job /\ v.raw = req[r].raw /\ v.old = req[r].old,
           req[r].job = "flatten", spf' = spf, spoiled' = spoiled,
           flattening' \in [canonical : Spf, found : BOOLEAN],
           flattening'.canonical \in {req[r].raw, req[r].old}
    PROVE  SpfInv'
<1>1. v.job \in {"none", "flatten"} /\ (v.job = "flatten" => v # Idle)
  BY DEF Idle
<1>2. flattening' # NoFlattening
  BY Stored
<1>3. ~spoiled => flattening'.canonical = Written(spf.text)
  <2>1. ~spoiled => Flattening
    BY DEF SpfInv
  <2> QED
    BY <2>1 DEF Flattening, HoldsText
<1>4. TextKept'
  BY <1>3, OriginalNamed
<1> QED
  BY <1>1, <1>2, <1>3, <1>4, FlattenEnds

LEMMA KeepSafe ==
    ASSUME TypeOK, SpfInv, NEW r \in Requests, Keep(r)
    PROVE  SpfInv'
<1>1. PICK v \in FlattenRequest :
          /\ Moves(r, v) /\ v.job = req[r].job /\ v.at = "result"
          /\ v.raw = req[r].raw /\ v.old = req[r].old /\ v.new = req[r].new
  BY KeepGoes
<1>2. req[r] \in FlattenRequest /\ req[r].job = "flatten" /\ r \in Flatteners
  BY Halves, Shape DEF Keep, SpfInv, Roles, Flatteners, Doing
<1>3. flattening' \in [canonical : Spf, found : BOOLEAN] /\ flattening'.canonical = req[r].old
  BY <1>2, Halves, UpsertTypes DEF Keep, FlattenRequest
<1>4. spf' = spf /\ spoiled' = spoiled
  BY DEF Keep
<1> QED
  BY <1>1, <1>2, <1>3, <1>4, StoreSafe

LEMMA KeepErrorSafe ==
    ASSUME TypeOK, SpfInv, NEW r \in Requests, KeepError(r)
    PROVE  SpfInv'
<1>1. Moves(r, Idle) /\ Idle.at = "idle"
  BY IdleMoves DEF KeepError, Idle
<1>2. req[r] \in FlattenRequest /\ req[r].job = "flatten" /\ r \in Flatteners
  BY Halves, Shape DEF KeepError, SpfInv, Roles, Flatteners, Doing
<1>3. flattening' \in [canonical : Spf, found : BOOLEAN] /\ flattening'.canonical = req[r].raw
  BY <1>2, Halves, UpsertTypes DEF KeepError, FlattenRequest
<1>4. spf' = spf /\ spoiled' = spoiled
  BY DEF KeepError
<1> QED
  BY <1>1, <1>2, <1>3, <1>4, StoreSafe

LEMMA ResultSafe ==
    ASSUME TypeOK, SpfInv, NEW r \in Requests, Result(r)
    PROVE  SpfInv'
<1>1. Moves(r, Idle) /\ Idle.at = "idle" /\ Idle.job = "none"
  BY IdleMoves DEF Result, Idle
<1>2. r \in Flatteners
  BY Halves, Shape DEF Result, Flatteners, Doing, FlattenRequest
<1>3. flattening'.canonical = flattening.canonical /\ (flattening' = NoFlattening <=> flattening = NoFlattening)
  <2>1. CASE flattening = NoFlattening
    BY <2>1 DEF Result
  <2>2. CASE flattening # NoFlattening
    <3>1. flattening \in [canonical : Spf, found : BOOLEAN]
      BY <2>2, Halves DEF SpfTypes
    <3>2. flattening' = [flattening EXCEPT !.found = TRUE]
      BY <2>2 DEF Result
    <3>3. flattening' \in [canonical : Spf, found : BOOLEAN] /\ flattening'.canonical = flattening.canonical
      BY <3>1, <3>2
    <3> QED
      BY <2>2, <3>3, Stored
  <2> QED
    BY <2>1, <2>2
<1>4. spf' = spf /\ spoiled' = spoiled /\ req[r].at = "result"
  BY DEF Result
<1>5. TextKept'
  BY <1>1, <1>3, <1>4, Halves, OriginalStays DEF SpfInv
<1>6. ~spoiled /\ flattening' # NoFlattening => flattening'.canonical = Written(spf.text)
  BY <1>3 DEF SpfInv, Flattening
<1> QED
  BY <1>1, <1>2, <1>3, <1>4, <1>5, <1>6, FlattenEnds

LEMMA FlattenFailsSafe ==
    ASSUME TypeOK, SpfInv, NEW r \in Requests, FlattenFails(r)
    PROVE  SpfInv'
<1>1. r \in Flatteners /\ req[r].job \in {"flatten", "refresh"} /\ (req[r].job = "refresh" => r \in Doing({"refresh"}))
  BY Halves, Shape DEF FlattenFails, Flatteners, Doing, FlattenRequest
<1>2. /\ req[r].at \in {"find", "collect", "publish"} /\ flattening' = flattening /\ spoiled' = spoiled
      /\ spf' = spf \/ (req[r].at = "publish" /\ spf' = req[r].new)
  BY DEF FlattenFails
<1>3. ~spoiled => /\ spf'.text = spf.text
                  /\ req[r].job = "flatten" => req[r].raw = Written(spf.text)
                  /\ flattening # NoFlattening => flattening.canonical = Written(spf.text)
                  /\ req[r].job = "refresh" => flattening # NoFlattening
  <2> SUFFICES ASSUME Flattening
               PROVE  /\ spf'.text = spf.text
                      /\ req[r].job = "flatten" => req[r].raw = Written(spf.text)
                      /\ flattening # NoFlattening => flattening.canonical = Written(spf.text)
                      /\ req[r].job = "refresh" => flattening # NoFlattening
    BY DEF SpfInv
  <2>1. req[r].at = "publish" => req[r].new.text = spf.text
    BY <1>1 DEF Flattening, HoldsText
  <2> QED
    BY <1>1, <1>2, <2>1 DEF Flattening, HoldsText
<1>4. CASE req[r].job = "flatten"
  <2>1. PICK v \in FlattenRequest :
            /\ Moves(r, v) /\ v.job = req[r].job /\ v.at = "excuse"
            /\ v.raw = req[r].raw /\ v.old = req[r].old /\ v.new = req[r].new
    BY <1>4, FlattenFailsGoes
  <2>2. TextKept'
    <3>1. r \in Flatteners' /\ req'[r] = v
      BY <1>4, <2>1, Halves, Moved, Doers DEF Flatteners
    <3>2. CASE spoiled
      BY <1>2, <3>2, OriginalNamed
    <3>3. CASE ~spoiled
      BY <1>3, <1>4, <2>1, <3>1, <3>3 DEF TextKept
    <3> QED
      BY <3>2, <3>3
  <2>3. CASE spoiled
    <3>1. Roles'
      BY <1>4, <2>1, Halves, RolesMove DEF SpfInv
    <3> QED
      BY <1>2, <2>2, <2>3, <3>1 DEF SpfInv
  <2>4. CASE ~spoiled
    BY <1>1, <1>2, <1>3, <1>4, <2>1, <2>2, <2>4, FlattenEnds
  <2> QED
    BY <2>3, <2>4
<1>5. CASE req[r].job = "refresh"
  <2>1. Moves(r, Idle) /\ Idle.at = "idle" /\ Idle.job = "none"
    BY <1>5, IdleMoves DEF FlattenFails, Idle
  <2>2. TextKept'
    BY <1>2, <1>3, <1>5, OriginalNamed
  <2>3. CASE spoiled
    <3>1. Roles'
      BY <2>1, Halves, RolesMove DEF SpfInv
    <3> QED
      BY <1>2, <2>2, <2>3, <3>1 DEF SpfInv
  <2>4. CASE ~spoiled
    BY <1>1, <1>2, <1>3, <2>1, <2>2, <2>4, FlattenEnds
  <2> QED
    BY <2>3, <2>4
<1> QED
  BY <1>1, <1>4, <1>5

\* A restoring: the text it holds is the zone's while there is a row.
LEMMA StartRestoreSafe ==
    ASSUME TypeOK, SpfInv, NEW r \in Requests, StartRestore(r)
    PROVE  SpfInv'
<1>1. PICK v \in RestoreRequest :
          Moves(r, v) /\ v.at = (IF flattening.found THEN "restore" ELSE "forget") /\ v.old = flattening.canonical
  BY StartRestoreGoes
<1>2. /\ spf' = spf /\ flattening' = flattening
      /\ spoiled' = (spoiled \/ Flatteners # {} \/ (~flattening.found /\ Flat(spf)))
      /\ flattening # NoFlattening
  BY DEF StartRestore
<1>3. req[r].at = "idle" /\ v.job = "restore"
  BY DEF StartRestore, Begins, Idle, RestoreRequest
<1>4. Both /\ Roles /\ TextKept
  BY Halves DEF SpfInv
<1>5. Roles' /\ TextKept'
  BY <1>1, <1>2, <1>3, <1>4, RolesMove, OriginalStays
<1>6. ASSUME ~spoiled' PROVE Flattening'
  <2>1. Flattening /\ Flatteners = {} /\ (flattening.found \/ ~Flat(spf))
    BY <1>2, <1>6 DEF SpfInv
  <2>2. \A J : Doing(J)' \subseteq Requests
    BY DEF Doing
  <2>3. Flatteners' = {} /\ Doing({"refresh"})' = {}
    <3>1. Doing({"refresh"}) = {} /\ v.job \notin {"flatten", "refresh"}
      BY <1>3, <2>1 DEF Flatteners, Doing
    <3> QED
      BY <1>1, <1>4, <2>1, <3>1, NoneJoins DEF Flatteners
  <2>4. v.old = Written(spf.text) /\ ~Flat(v.old)
    <3>1. spf.text \in 1..MaxTexts
      BY Halves DEF SpfTypes, Spf
    <3> QED
      BY <1>1, <1>2, <2>1, <3>1, WrittenType DEF Flattening
  <2>5. HoldsOriginal'
    <3> SUFFICES ASSUME NEW s \in Doing({"restore"})'
                 PROVE  /\ ~Flat(req'[s].old)
                        /\ flattening # NoFlattening => req'[s].old = Written(spf.text)
                        /\ req'[s].at = "forget" => ~Flat(spf)
      BY <1>2 DEF HoldsOriginal, Flat
    <3>1. CASE s = r
      BY <1>1, <1>4, <2>1, <2>4, <3>1, Moved
    <3>2. CASE s # r
      <4>1. s \in Doing({"restore"}) /\ req'[s] = req[s]
        BY <1>1, <1>4, <2>2, <3>2, Doers, Moved
      <4> QED
        BY <2>1, <4>1 DEF Flattening, HoldsOriginal
    <3> QED
      BY <3>1, <3>2
  <2>6. HoldsText'
    BY <2>3 DEF HoldsText
  <2> QED
    BY <1>2, <2>1, <2>3, <2>5, <2>6 DEF Flattening
<1> QED
  BY <1>5, <1>6 DEF SpfInv

LEMMA RestoreSafe ==
    ASSUME TypeOK, SpfInv, NEW r \in Requests, Restore(r)
    PROVE  SpfInv'
<1>1. PICK v \in RestoreRequest : Moves(r, v) /\ v.at = "forget" /\ v.old = req[r].old
  BY RestoreGoes
<1>2. spf' = req[r].old /\ flattening' = flattening /\ spoiled' = spoiled /\ req[r].at = "restore"
  BY DEF Restore
<1>3. v.job = "restore" /\ r \in Doing({"restore"})
  BY Halves, Shape DEF Restore, RestoreRequest, Doing
<1>4. Both /\ Roles
  BY Halves DEF SpfInv
<1>5. Roles'
  BY <1>1, <1>4, RolesMove
<1>6. CASE spoiled
  BY <1>2, <1>5, <1>6, OriginalNamed DEF SpfInv
<1>7. CASE ~spoiled
  <2>1. Flattening /\ Flatteners = {}
    BY <1>3, <1>7 DEF SpfInv, Flattening
  <2>2. \A J : Doing(J)' \subseteq Requests
    BY DEF Doing
  <2>3. Flatteners' = {} /\ Doing({"refresh"})' = {}
    <3>1. Doing({"refresh"}) = {} /\ v.job \notin {"flatten", "refresh"}
      BY <1>3, <2>1 DEF Flatteners, Doing
    <3> QED
      BY <1>1, <1>4, <2>1, <3>1, NoneJoins DEF Flatteners
  <2>4. ~Flat(spf') /\ (flattening # NoFlattening => spf' = Written(spf.text))
    BY <1>2, <1>3, <2>1 DEF Flattening, HoldsOriginal
  <2>5. flattening # NoFlattening => spf'.text = spf.text
    BY <2>4 DEF Written
  <2>6. HoldsOriginal'
    <3> SUFFICES ASSUME NEW s \in Doing({"restore"})'
                 PROVE  /\ ~Flat(req'[s].old)
                        /\ flattening # NoFlattening => req'[s].old = Written(spf'.text)
      BY <1>2, <2>4 DEF HoldsOriginal, Flat
    <3>1. s \in Doing({"restore"}) /\ req'[s].old = req[s].old
      BY <1>1, <1>3, <1>4, <2>2, Doers, Moved
    <3> QED
      BY <2>1, <2>5, <3>1 DEF Flattening, HoldsOriginal
  <2>7. HoldsText'
    BY <2>3 DEF HoldsText
  <2>8. flattening' # NoFlattening => flattening'.canonical = Written(spf'.text)
    BY <1>2, <2>1, <2>5 DEF Flattening
  <2>9. TextKept'
    BY <2>4, OriginalNamed
  <2> QED
    BY <1>5, <2>3, <2>6, <2>7, <2>8, <2>9 DEF SpfInv, Flattening
<1> QED
  BY <1>6, <1>7

LEMMA ForgetSafe ==
    ASSUME TypeOK, SpfInv, NEW r \in Requests, ForgetFlattening(r)
    PROVE  SpfInv'
<1>1. Moves(r, Idle) /\ Idle.at = "idle" /\ Idle.job = "none"
  BY IdleMoves DEF ForgetFlattening, Idle
<1>2. spf' = spf /\ flattening' = NoFlattening /\ spoiled' = spoiled /\ req[r].at = "forget"
  BY DEF ForgetFlattening
<1>3. r \in Doing({"restore"})
  BY Halves, Shape DEF ForgetFlattening, RestoreRequest, Doing
<1>4. Both /\ Roles
  BY Halves DEF SpfInv
<1>5. Roles'
  BY <1>1, <1>4, RolesMove
<1>6. CASE spoiled
  BY <1>2, <1>5, <1>6, OriginalNamed DEF SpfInv
<1>7. CASE ~spoiled
  <2>1. Flattening /\ Flatteners = {} /\ ~Flat(spf)
    BY <1>2, <1>3, <1>7 DEF SpfInv, Flattening, HoldsOriginal
  <2>2. \A J : Doing(J)' \subseteq Requests
    BY DEF Doing
  <2>3. Flatteners' = {} /\ Doing({"refresh"})' = {}
    <3>1. Doing({"refresh"}) = {} /\ Idle.job \notin {"flatten", "refresh"}
      BY <1>1, <2>1 DEF Flatteners, Doing
    <3> QED
      BY <1>1, <1>4, <2>1, <3>1, NoneJoins DEF Flatteners
  <2>4. HoldsOriginal'
    <3> SUFFICES ASSUME NEW s \in Doing({"restore"})'
                 PROVE  ~Flat(req'[s].old)
      BY <1>2, <2>1 DEF HoldsOriginal, Flat
    <3>1. s \in Doing({"restore"}) /\ req'[s] = req[s]
      BY <1>1, <1>4, <2>2, Doers, Moved
    <3> QED
      BY <2>1, <3>1 DEF Flattening, HoldsOriginal
  <2>5. HoldsText'
    BY <2>3 DEF HoldsText
  <2>6. TextKept'
    BY <1>2, <2>1, OriginalNamed
  <2> QED
    BY <1>2, <1>5, <2>3, <2>4, <2>5, <2>6 DEF SpfInv, Flattening
<1> QED
  BY <1>6, <1>7

\* Somebody writes a new text: where nobody has flattened the old one, nothing is lost.
LEMMA RewriteSafe ==
    ASSUME TypeOK, SpfInv, Rewrite, Roles',
           Doing({"restore"})' \subseteq Doing({"restore"}),
           \A s \in Requests : s \in Doing({"restore"})' => req'[s] = req[s],
           ~spoiled' => Flatteners' = {} /\ Doing({"refresh"})' = {}
    PROVE  SpfInv'
<1>1. /\ spf' = Written(texts + 1) /\ flattening' = flattening
      /\ spoiled' = (spoiled \/ flattening # NoFlattening \/ Flatteners # {})
  BY DEF Rewrite
<1>2. texts + 1 \in 1..MaxTexts
  BY Halves, MailAssumption DEF Rewrite, SpfTypes
<1>3. ~Flat(spf')
  BY <1>1, <1>2, WrittenType
<1>4. ASSUME ~spoiled' PROVE Flattening'
  <2>1. Flattening /\ flattening' = NoFlattening
    BY <1>1, <1>4 DEF SpfInv
  <2>2. HoldsOriginal'
    <3> SUFFICES ASSUME NEW s \in Doing({"restore"})'
                 PROVE  ~Flat(req'[s].old)
      BY <1>3, <2>1 DEF HoldsOriginal, Flat
    <3>1. s \in Requests /\ s \in Doing({"restore"}) /\ req'[s] = req[s]
      BY DEF Doing
    <3> QED
      BY <2>1, <3>1 DEF Flattening, HoldsOriginal
  <2>3. HoldsText'
    BY <1>4 DEF HoldsText
  <2> QED
    BY <1>4, <2>1, <2>2, <2>3 DEF Flattening
<1> QED
  BY <1>3, <1>4, OriginalNamed DEF SpfInv

LEMMA ApplySafe ==
    ASSUME TypeOK, SpfInv, NEW r \in Requests, Apply(r)
    PROVE  SpfInv'
<1>1. Moves(r, Idle) /\ Idle.at = "idle" /\ Idle.job = "none" /\ Rewrite
  BY IdleMoves DEF Apply, Idle
<1>2. Both /\ Roles
  BY Halves DEF SpfInv
<1>3. Roles'
  BY <1>1, <1>2, RolesMove
<1>4. r \notin Doing({"restore"})' /\ \A s \in Requests \ {r} : req'[s] = req[s]
  BY <1>1, <1>2, Doers, Moved
<1>5. ASSUME NEW J \in {{"restore"}, {"refresh"}, {"flatten", "refresh"}} PROVE Doing(J)' \subseteq Doing(J)
  <2>1. Doing(J)' \subseteq Requests /\ r \notin Doing(J)'
    BY <1>1, <1>2, Doers DEF Doing
  <2> QED
    BY <1>1, <1>2, <2>1, Doers
<1>6. ~spoiled' => Flatteners = {}
  BY <1>1 DEF Rewrite
<1>7. Doing({"refresh"}) \subseteq Flatteners
  BY DEF Doing, Flatteners
<1>8. ~spoiled' => Flatteners' = {} /\ Doing({"refresh"})' = {}
  BY <1>5, <1>6, <1>7 DEF Flatteners
<1> QED
  BY <1>1, <1>3, <1>4, <1>5, <1>8, RewriteSafe

LEMMA SpfStepSafe ==
    ASSUME TypeOK, SpfInv, domain = "held", NEW r \in Requests, SpfStep(r)
    PROVE  SpfInv'
<1>1. CASE RestoreFails(r)
  <2>1. PICK v \in RestoreRequest : Moves(r, v) /\ v.at = "forget" /\ v.old = req[r].old
    BY <1>1, RestoreGoes
  <2>2. Roles'
    BY <2>1, Halves, RolesMove DEF SpfInv
  <2>3. spoiled'
    BY <1>1 DEF RestoreFails
  <2> QED
    BY <2>2, <2>3, OriginalNamed DEF SpfInv
<1>2. CASE StartApply(r)
  <2>1. PICK v \in ApplyRequest : Moves(r, v)
    BY <1>2, StartApplyGoes
  <2>2. v.job = "apply" /\ v.at = "apply" /\ req[r].at = "idle"
    BY <1>2 DEF ApplyRequest, StartApply, Begins, Idle
  <2>3. spf' = spf /\ flattening' = flattening /\ spoiled' = spoiled
    BY <1>2 DEF StartApply, spfVars
  <2> QED
    BY <2>1, <2>2, <2>3, SpfRests
<1>3. ~KeepRefused(r)
  BY DEF KeepRefused
<1> QED
  BY <1>1, <1>2, <1>3, StartSpfSafe, FindSafe, CollectSafe, PublishSafe, KeepSafe, ResultSafe, FlattenFailsSafe, KeepErrorSafe,
     StartRestoreSafe, RestoreSafe, ForgetSafe, ApplySafe DEF SpfStep, StartFlatten, StartRefresh

\* Where a step of MTA-STS leaves its request.
LEMMA StsGoes ==
    ASSUME TypeOK, NEW r \in Requests, StsStep(r)
    PROVE  /\ \E v \in {Idle} \cup EnableRequest \cup UpdateRequest \cup DisableRequest : Moves(r, v)
           /\ req[r] \in {Idle} \cup EnableRequest \cup UpdateRequest \cup DisableRequest
           /\ UNCHANGED spfVars
<1>1. req[r] \in {Idle} \cup EnableRequest \cup UpdateRequest \cup DisableRequest
  BY Halves, Shape DEF StsStep, Begins, StartEnable, StartEnableAnyhow, Create, CreateFails, Insert, StartUpdate, StartUpdateAs,
     Announce, AnnounceFails, Change, StartDisable, Deprovision, Remove, Kinds
<1>2. UNCHANGED spfVars
  BY DEF StsStep, StartEnable, StartEnableAnyhow, Create, CreateFails, Insert, StartUpdate, StartUpdateAs, Announce,
         AnnounceFails, Change, StartDisable, Deprovision, DeprovisionExcept, Remove
<1>3. ASSUME Done(r) PROVE \E v \in {Idle} : Moves(r, v)
  BY <1>3, IdleMoves
<1>4. ASSUME NEW S, NEW T, S \subseteq T, \E v \in S : Moves(r, v) PROVE \E v \in T : Moves(r, v)
  BY <1>4
<1>5. \E v \in {Idle} \cup EnableRequest \cup UpdateRequest \cup DisableRequest : Moves(r, v)
  <2>1. CASE StartEnable(r)
    BY <2>1, StartEnableGoes
  <2>2. CASE Create(r)
    BY <2>2, CreateGoes
  <2>3. CASE StartUpdate(r)
    BY <2>3, StartUpdateGoes
  <2>4. CASE StartDisable(r)
    BY <2>4, StartDisableGoes
  <2>5. CASE Deprovision(r)
    BY <2>5, DeprovisionGoes
  <2>6. CASE Announce(r) /\ req[r].txt \in InZone({req[r].txt})
    BY <2>6, AnnounceGoes
  <2>7. CASE CreateFails(r) \/ Insert(r) \/ (Announce(r) /\ req[r].txt \notin InZone({req[r].txt}))
               \/ AnnounceFails(r) \/ Change(r) \/ Remove(r)
    BY <1>3, <2>7 DEF CreateFails, Insert, Announce, AnnounceFails, Change, Remove
  <2> QED
    BY <2>1, <2>2, <2>3, <2>4, <2>5, <2>6, <2>7 DEF StsStep
<1> QED
  BY <1>1, <1>2, <1>5

\* Where a step of SPF leaves its request.
LEMMA SpfGoes ==
    ASSUME TypeOK, NEW r \in Requests, SpfStep(r)
    PROVE  /\ \E v \in {Idle} \cup FlattenRequest \cup RestoreRequest \cup ApplyRequest : Moves(r, v)
           /\ req[r] \in {Idle} \cup FlattenRequest \cup RestoreRequest \cup ApplyRequest
           /\ UNCHANGED stsVars
<1>1. UNCHANGED stsVars
  BY DEF SpfStep, StartFlatten, StartRefresh, StartSpf, Find, Collect, Publish, Keep, Result, FlattenFails, KeepError,
         KeepRefused, StartRestore, Restore, RestoreFails, ForgetFlattening, StartApply, Apply, Rewrite
<1>2. req[r] \in {Idle} \cup FlattenRequest \cup RestoreRequest \cup ApplyRequest
  BY Halves, Shape DEF SpfStep, StartFlatten, StartRefresh, StartSpf, Find, Collect, Publish, Keep, Result, FlattenFails,
     KeepError, KeepRefused, StartRestore, Restore, RestoreFails, ForgetFlattening, StartApply, Apply, Begins
<1>3. ASSUME Done(r) PROVE \E v \in {Idle} : Moves(r, v)
  BY <1>3, IdleMoves
<1>4. \E v \in {Idle} \cup FlattenRequest \cup RestoreRequest \cup ApplyRequest : Moves(r, v)
  <2>1. CASE StartFlatten(r) \/ StartRefresh(r)
    BY <2>1, StartSpfGoes DEF StartFlatten, StartRefresh
  <2>2. CASE Find(r)
    BY <2>2, FindGoes
  <2>3. CASE Collect(r)
    BY <2>3, CollectGoes
  <2>4. CASE Publish(r)
    BY <2>4, PublishGoes
  <2>5. CASE Keep(r)
    BY <2>5, KeepGoes
  <2>6. CASE FlattenFails(r) /\ req[r].job = "flatten"
    BY <2>6, FlattenFailsGoes
  <2>7. CASE StartRestore(r)
    BY <2>7, StartRestoreGoes
  <2>8. CASE Restore(r) \/ RestoreFails(r)
    BY <2>8, RestoreGoes
  <2>9. CASE StartApply(r)
    BY <2>9, StartApplyGoes
  <2>10. CASE Result(r) \/ (FlattenFails(r) /\ req[r].job # "flatten") \/ KeepError(r) \/ KeepRefused(r)
              \/ ForgetFlattening(r) \/ Apply(r)
    BY <1>3, <2>10 DEF Result, FlattenFails, KeepError, KeepRefused, ForgetFlattening, Apply
  <2> QED
    BY <2>1, <2>2, <2>3, <2>4, <2>5, <2>6, <2>7, <2>8, <2>9, <2>10 DEF SpfStep
<1> QED
  BY <1>1, <1>2, <1>4

LEMMA StsJobsOnly ==
    ASSUME NEW v \in {Idle} \cup EnableRequest \cup UpdateRequest \cup DisableRequest
    PROVE  v.job \notin {"flatten", "refresh", "restore"} /\ v.at \notin {"keep", "excuse"}
BY DEF Idle, EnableRequest, UpdateRequest, DisableRequest, Kinds

LEMMA SpfInvStep ==
    ASSUME TypeOK, SpfInv, domain = "held", domain' = "held", [Next]_vars
    PROVE  SpfInv'
<1>1. ASSUME NEW r \in Requests, StsStep(r) PROVE SpfInv'
  <2>1. PICK v \in {Idle} \cup EnableRequest \cup UpdateRequest \cup DisableRequest : Moves(r, v)
    BY <1>1, StsGoes
  <2>2. req[r].at \notin {"keep", "excuse"} /\ v.job \notin {"flatten", "refresh", "restore"}
        /\ v.at \notin {"keep", "excuse"}
    BY <1>1, StsGoes, StsJobsOnly
  <2>3. spf' = spf /\ flattening' = flattening /\ spoiled' = spoiled
    BY <1>1, StsGoes DEF spfVars
  <2> QED
    BY <2>1, <2>2, <2>3, SpfRests
<1>2. ASSUME NEW r \in Requests, Die(r) PROVE SpfInv'
  <2>1. Moves(r, Idle) /\ Idle.at = "idle" /\ Idle.job = "none"
    BY <1>2, IdleMoves DEF Die, Idle
  <2>2. spf' = spf /\ flattening' = flattening /\ spoiled' = (spoiled \/ req[r].at \in {"keep", "excuse"})
    BY <1>2 DEF Die
  <2> QED
    BY <2>1, <2>2, SpfRests
<1>3. CASE CustomerEdits
  <2>1. req' = req /\ Rewrite
    BY <1>3 DEF CustomerEdits
  <2>2. Roles' /\ Flatteners' = Flatteners
    BY <2>1 DEF SpfInv, Roles, Flatteners, Doing
  <2>3. \A J : Doing(J)' = Doing(J)
    BY <2>1 DEF Doing
  <2>4. ~spoiled' => Flatteners' = {} /\ Doing({"refresh"})' = {}
    BY <2>1, <2>2, <2>3 DEF Rewrite, Flatteners, Doing
  <2> QED
    BY <2>1, <2>2, <2>3, <2>4, RewriteSafe
<1>4. CASE ProvidersChange \/ Fetch \/ MxChange \/ Tick \/ UNCHANGED vars
  <2>1. spf' = spf /\ flattening' = flattening /\ spoiled' = spoiled /\ req' = req
    BY <1>4 DEF ProvidersChange, Fetch, MxChange, Tick, vars, spfVars
  <2>2. Flatteners' = Flatteners /\ \A J : Doing(J)' = Doing(J)
    BY <2>1 DEF Flatteners, Doing
  <2> QED
    BY <2>1, <2>2 DEF SpfInv, Roles, TextKept, Flattening, HoldsText, HoldsOriginal, Flat
<1>5. ~Delete
  BY DEF Delete
<1> QED
  BY <1>1, <1>2, <1>3, <1>4, <1>5, SpfStepSafe DEF Next

\* A domain that is deleted stays so.
LEMMA Held == ASSUME TypeOK, TypeOK', [Next]_vars, domain' = "held" PROVE domain = "held"
<1>1. ASSUME NEW r \in Requests, SpfStep(r) \/ StsStep(r) \/ Die(r) PROVE domain' = domain
  BY <1>1, SpfGoes, StsGoes DEF Die, spfVars, stsVars
<1>2. CASE CustomerEdits \/ ProvidersChange \/ Fetch \/ MxChange \/ Tick \/ UNCHANGED vars
  BY <1>2 DEF CustomerEdits, Rewrite, ProvidersChange, Fetch, MxChange, Tick, vars, spfVars, stsVars
<1>3. ~Delete
  BY DEF Delete
<1> QED
  BY <1>1, <1>2, <1>3 DEF Next

LEMMA InitSpf == Init => SpfInv
<1> SUFFICES ASSUME Init PROVE SpfInv
  OBVIOUS
<1>1. \A J : Doing(J) = {r \in Requests : "none" \in J}
  BY DEF Init, Doing, Idle
<1>2. Flatteners = {} /\ Doing({"restore"}) = {} /\ Doing({"refresh"}) = {}
  BY <1>1 DEF Flatteners
<1>3. Roles /\ ~Flat(spf) /\ flattening = NoFlattening
  BY DEF Init, Roles, Idle, Flat, Written
<1> QED
  BY <1>2, <1>3 DEF SpfInv, TextKept, Flattening, HoldsText, HoldsOriginal

\* While the record is flat and the domain not deleted, the text it was made from can be
\* put back, however many requests and daily jobs flatten and refresh at once and fail (router.ts,
\* "restore canonical record").
THEOREM OriginalIsKept == Spec => []OriginalKept
<1> DEFINE I == TypeOK /\ (domain = "held" => SpfInv)
<1>1. Init => I
  BY InitTypes, InitSpf
<1>2. I /\ [Next]_vars => I'
  BY StepTypes, Held, SpfInvStep
<1>3. I => OriginalKept
  BY DEF SpfInv, TextKept, OriginalKept
<1> QED
  BY <1>1, <1>2, <1>3, PTL DEF Spec

-----------------------------------------------------------------------------
(* The MTA-STS records                                                     *)

\* The record numbers in the zone, and those an enabling holds.
Named == {x.n : x \in zone}
HeldBy(r, n) == r \in Doing({"enable"}) /\ n \in Numbers(req[r].row.recs)

LEMMA InZoneNamed == \A S : InZone(S) = S \cap Named
BY DEF InZone, Named

LEMMA NamedTypes == ASSUME StsTypes PROVE Named \subseteq 1..created /\ created \in Nat
BY MailAssumption DEF StsTypes, Named, Record

LEMMA Accounted ==
    ASSUME Listed, NEW n \in Named
    PROVE  n \in stray \/ n \in Numbers(policy.recs) \/ \E s \in Requests : HeldBy(s, n)
BY DEF Listed, Named, HeldBy, Doing

\* A request moves, and perhaps the zone, the row and what is written off.
LEMMA LedgerMoves ==
    ASSUME TypeOK, Ledger, NEW r \in Requests, NEW v, Moves(r, v),
           created' \in Nat, created <= created', stray \subseteq stray',
           \A k \in Kinds : policy'.recs[k] <= created',
           v.job = "enable" => /\ \A k \in Kinds : v.row.recs[k] <= created'
                               /\ v.at = "txt" => v.row.recs["txt"] = 0
                               /\ v.at \in {"txt", "rpt"} => v.row.recs["rpt"] = 0
                               /\ v.at \in {"txt", "rpt", "host"} => v.row.recs["host"] = 0,
           v.job = "update" => v.txt <= created',
           v.job = "disable" => /\ \A k \in Kinds : v.recs[k] <= created'
                                /\ v.at = "remove" => Numbers(v.recs) \cap Named' \subseteq stray',
           Named' \cap 1..created \subseteq Named,
           \A n \in Named' : \/ n \in stray' \/ n \in Numbers(policy'.recs)
                             \/ v.job = "enable" /\ n \in Numbers(v.row.recs)
                             \/ \E s \in Requests \ {r} : HeldBy(s, n)
    PROVE  Ledger'
<1>1. /\ Both /\ StsTypes /\ req'[r] = v
      /\ \A s \in Requests \ {r} : req'[s] = req[s]
  BY Halves, Moved
<1>2. ASSUME NEW s \in Requests, s # r
      PROVE  /\ req'[s] = req[s] /\ \A J : s \in Doing(J)' <=> s \in Doing(J)
             /\ s \in Doing({"enable"}) => req[s] \in EnableRequest
             /\ s \in Doing({"update"}) => req[s] \in UpdateRequest
             /\ s \in Doing({"disable"}) => req[s] \in DisableRequest
  BY <1>1, <1>2, Shape DEF Doing
<1>3. \A J : Doing(J)' \subseteq Requests /\ (r \in Doing(J)' <=> v.job \in J)
  BY <1>1 DEF Doing
<1>4. Numbered'
  <2>1. ASSUME NEW s \in Doing({"enable"})', NEW k \in Kinds PROVE req'[s].row.recs[k] <= created'
    <3>1. CASE s = r
      BY <1>1, <1>3, <2>1, <3>1
    <3>2. CASE s # r
      <4>1. req[s].row.recs[k] \in 0..MaxRecords /\ req[s].row.recs[k] <= created /\ req'[s] = req[s]
        BY <1>2, <1>3, <2>1, <3>2 DEF Ledger, Numbered, EnableRequest, Row, Recs
      <4> QED
        BY <1>1, <4>1, NamedTypes
    <3> QED
      BY <3>1, <3>2
  <2>2. ASSUME NEW s \in Doing({"disable"})', NEW k \in Kinds PROVE req'[s].recs[k] <= created'
    <3>1. CASE s = r
      BY <1>1, <1>3, <2>2, <3>1
    <3>2. CASE s # r
      <4>1. req[s].recs[k] \in 0..MaxRecords /\ req[s].recs[k] <= created /\ req'[s] = req[s]
        BY <1>2, <1>3, <2>2, <3>2 DEF Ledger, Numbered, DisableRequest, Recs
      <4> QED
        BY <1>1, <4>1, NamedTypes
    <3> QED
      BY <3>1, <3>2
  <2>3. ASSUME NEW s \in Doing({"update"})' PROVE req'[s].txt <= created'
    <3>1. CASE s = r
      BY <1>1, <1>3, <2>3, <3>1
    <3>2. CASE s # r
      <4>1. req[s].txt \in 0..MaxRecords /\ req[s].txt <= created /\ req'[s] = req[s]
        BY <1>2, <1>3, <2>3, <3>2 DEF Ledger, Numbered, UpdateRequest
      <4> QED
        BY <1>1, <4>1, NamedTypes
    <3> QED
      BY <3>1, <3>2
  <2> QED
    BY <2>1, <2>2, <2>3 DEF Numbered
<1>5. Progress'
  BY <1>1, <1>2, <1>3 DEF Ledger, Progress
<1>6. Deleted'
  <2> SUFFICES ASSUME NEW s \in Doing({"disable"})', req'[s].at = "remove"
               PROVE  Numbers(req'[s].recs) \cap Named' \subseteq stray'
    BY InZoneNamed DEF Deleted, InZone, Named
  <2>1. CASE s = r
    BY <1>1, <1>3, <2>1
  <2>2. CASE s # r
    <3>1. /\ s \in Doing({"disable"}) /\ req'[s] = req[s] /\ req[s] \in DisableRequest
      BY <1>2, <1>3, <2>2
    <3>2. Numbers(req[s].recs) \cap Named \subseteq stray
      BY <3>1, InZoneNamed DEF Ledger, Deleted
    <3>3. Numbers(req[s].recs) \subseteq 1..created
      <4>1. \A k \in Kinds : req[s].recs[k] \in Nat /\ req[s].recs[k] <= created
        BY <3>1 DEF Ledger, Numbered, DisableRequest, Recs
      <4> QED
        BY <1>1, <4>1, NamedTypes DEF Numbers
    <3> QED
      BY <3>1, <3>2, <3>3
  <2> QED
    BY <2>1, <2>2
<1>7. Listed'
  <2> SUFFICES ASSUME NEW x \in zone'
               PROVE  \/ x.n \in stray' \/ x.n \in Numbers(policy'.recs)
                      \/ \E s \in Doing({"enable"})' : x.n \in Numbers(req'[s].row.recs)
    BY DEF Listed, Numbers
  <2>1. x.n \in Named'
    BY DEF Named
  <2>2. CASE v.job = "enable" /\ x.n \in Numbers(v.row.recs)
    BY <1>1, <1>3, <2>2
  <2>3. CASE \E s \in Requests \ {r} : HeldBy(s, x.n)
    BY <1>2, <2>3 DEF HeldBy
  <2> QED
    BY <2>1, <2>2, <2>3
<1> QED
  BY <1>4, <1>5, <1>6, <1>7 DEF Ledger

LEMMA PolicyNumbers ==
    ASSUME StsTypes, Ledger
    PROVE  /\ \A k \in Kinds : policy.recs[k] \in Nat /\ policy.recs[k] <= created
           /\ policy = NoPolicy => Numbers(policy.recs) = {}
           /\ \A k \in Kinds : NoIds[k] = 0
           /\ Numbers(NoIds) = {}
<1>1. \A k \in Kinds : policy.recs[k] \in Nat
  BY RowShape DEF Recs
<1>2. Numbers(NoIds) = {} /\ \A k \in Kinds : NoIds[k] = 0
  BY DEF Numbers, NoIds
<1> QED
  BY <1>1, <1>2 DEF Ledger, Numbered, NoPolicy

\* A request goes on or ends that leaves the records and the row's list of them alone;
\* an enabling that ends writes off what it has made.
LEMMA LedgerRests ==
    ASSUME TypeOK, Ledger, NEW r \in Requests, NEW v, Moves(r, v),
           created' = created, Named' = Named, policy'.recs = policy.recs, stray \subseteq stray',
           v.job \notin {"enable", "disable"},
           v.job = "update" => v.txt <= created,
           req[r].job = "enable" => Numbers(req[r].row.recs) \cap Named \subseteq stray'
    PROVE  Ledger'
<1>1. StsTypes /\ created \in Nat /\ Listed
  BY Halves, NamedTypes DEF Ledger
<1>2. \A n \in Named' : \/ n \in stray' \/ n \in Numbers(policy'.recs)
                        \/ \E s \in Requests \ {r} : HeldBy(s, n)
  <2> SUFFICES ASSUME NEW n \in Named
               PROVE  n \in stray' \/ n \in Numbers(policy.recs) \/ \E s \in Requests \ {r} : HeldBy(s, n)
    OBVIOUS
  <2>1. HeldBy(r, n) => n \in stray'
    BY DEF HeldBy, Doing
  <2> QED
    BY <1>1, <2>1, Accounted
<1>3. \A k \in Kinds : policy'.recs[k] <= created'
  BY <1>1, PolicyNumbers
<1> QED
  BY <1>1, <1>2, <1>3, LedgerMoves

LEMMA StartEnableLedger ==
    ASSUME TypeOK, Ledger, NEW r \in Requests, StartEnable(r)
    PROVE  Ledger'
<1>1. PICK v \in EnableRequest : Moves(r, v) /\ v.at = "txt" /\ v.row.id = clock /\ v.row.recs = NoIds
  BY StartEnableGoes
<1>2. zone' = zone /\ created' = created /\ policy' = policy /\ stray' = stray /\ req[r].job = "none"
  BY DEF StartEnable, StartEnableAnyhow, Begins, Idle
<1>3. StsTypes /\ created \in Nat /\ Listed /\ Named' = Named
  BY <1>2, Halves, NamedTypes DEF Ledger, Named
<1>4. \A n \in Named : n \in stray \/ n \in Numbers(policy.recs) \/ \E s \in Requests \ {r} : HeldBy(s, n)
  <2>1. \A n : ~HeldBy(r, n)
    BY <1>2 DEF HeldBy, Doing
  <2> QED
    BY <1>3, <2>1, Accounted
<1>5. \A k \in Kinds : v.row.recs[k] = 0 /\ policy.recs[k] <= created
  BY <1>1, <1>3, PolicyNumbers
<1>6. "txt" \in Kinds /\ "rpt" \in Kinds /\ "host" \in Kinds /\ v.job = "enable"
  BY DEF Kinds, EnableRequest
<1>7. \A k \in Kinds : v.row.recs[k] <= created'
  BY <1>2, <1>3, <1>5
<1> QED
  BY <1>1, <1>2, <1>3, <1>4, <1>5, <1>6, <1>7, LedgerMoves

LEMMA CreateLedger ==
    ASSUME TypeOK, Ledger, NEW r \in Requests, Create(r)
    PROVE  Ledger'
<1>1. PICK v \in EnableRequest :
               /\ Moves(r, v) /\ v.at = After[req[r].at]
               /\ v.row = [req[r].row EXCEPT !.recs[req[r].at] = created + 1]
               /\ v.row.id = req[r].row.id
               /\ \A k \in Kinds : v.row.recs[k] = IF k = req[r].at THEN created + 1 ELSE req[r].row.recs[k]
  BY CreateGoes
<1>2. /\ zone' = zone \cup {Made(req[r].at, req[r].row.id)} /\ created' = created + 1
      /\ policy' = policy /\ stray' = stray /\ created < MaxRecords
  BY DEF Create
<1>3. req[r] \in EnableRequest /\ req[r].at \in Kinds /\ r \in Doing({"enable"})
  BY Halves, Shape DEF Create, Kinds, Doing, EnableRequest
<1>4. req[r].row.id \in 1..MaxClock /\ \A k \in Kinds : req[r].row.recs[k] \in Nat
  BY <1>3 DEF EnableRequest, Row, Recs
<1>5. StsTypes /\ created \in Nat /\ Listed /\ Named \subseteq 1..created
  BY Halves, NamedTypes DEF Ledger
<1>6. Named' = Named \cup {created + 1}
  <2>1. Made(req[r].at, req[r].row.id).n = created + 1
    BY DEF Made
  <2> QED
    BY <1>2, <2>1 DEF Named
<1>7. \A k \in Kinds : req[r].row.recs[k] <= created /\ (k = req[r].at => req[r].row.recs[k] = 0)
  BY <1>3 DEF Ledger, Numbered, Progress, Kinds
<1>8. /\ \A k \in Kinds : v.row.recs[k] <= created' /\ policy'.recs[k] <= created'
      /\ v.at = "txt" => v.row.recs["txt"] = 0
      /\ v.at \in {"txt", "rpt"} => v.row.recs["rpt"] = 0
      /\ v.at \in {"txt", "rpt", "host"} => v.row.recs["host"] = 0
  <2>1. \A k \in Kinds : v.row.recs[k] <= created'
    BY <1>1, <1>2, <1>4, <1>5, <1>7
  <2>2. \A k \in Kinds : policy'.recs[k] <= created'
    BY <1>2, <1>5, PolicyNumbers
  <2>3. /\ v.at # "txt" /\ (v.at = "rpt" => req[r].at = "txt") /\ (v.at = "host" => req[r].at = "rpt")
    BY <1>1, <1>3 DEF After, Kinds
  <2>4. /\ req[r].at = "txt" => req[r].row.recs["rpt"] = 0 /\ req[r].row.recs["host"] = 0
        /\ req[r].at = "rpt" => req[r].row.recs["host"] = 0
    BY <1>3 DEF Ledger, Progress
  <2> QED
    BY <1>1, <2>1, <2>2, <2>3, <2>4 DEF Kinds
<1>9. \A n \in Named' : \/ n \in stray' \/ n \in Numbers(policy'.recs) \/ n \in Numbers(v.row.recs)
                        \/ \E s \in Requests \ {r} : HeldBy(s, n)
  <2>1. created + 1 \in Numbers(v.row.recs)
    BY <1>1, <1>3, <1>5 DEF Numbers
  <2>2. \A n \in Numbers(req[r].row.recs) : n \in Numbers(v.row.recs)
    BY <1>1, <1>7 DEF Numbers
  <2>3. \A n \in Named : HeldBy(r, n) => n \in Numbers(v.row.recs)
    BY <2>2 DEF HeldBy
  <2> QED
    BY <1>2, <1>5, <1>6, <2>1, <2>3, Accounted
<1>10. Named' \cap 1..created \subseteq Named /\ v.job = "enable" /\ created' \in Nat /\ created <= created'
  BY <1>2, <1>5, <1>6 DEF EnableRequest
<1> QED
  BY <1>1, <1>2, <1>8, <1>9, <1>10, LedgerMoves

LEMMA CreateFailsLedger ==
    ASSUME TypeOK, Ledger, NEW r \in Requests, CreateFails(r)
    PROVE  Ledger'
<1> DEFINE mine == InZone(Numbers(req[r].row.recs))
           new  == Made(req[r].at, req[r].row.id)
<1>1. /\ policy' = policy
      /\ \/ UNCHANGED <<zone, created>> /\ stray' = stray \cup mine \cup {}
         \/ /\ created < MaxRecords /\ created' = created + 1
            /\ zone' = zone \cup {new} /\ stray' = stray \cup mine \cup {created + 1}
  BY DEF CreateFails
<1>2. Moves(r, Idle) /\ Idle.job = "none"
  BY IdleMoves DEF CreateFails, Idle
<1>3. StsTypes /\ created \in Nat /\ Listed /\ Named \subseteq 1..created
  BY Halves, NamedTypes DEF Ledger
<1>4. mine = Numbers(req[r].row.recs) \cap Named /\ new.n = created + 1
  BY InZoneNamed DEF Made
<1> HIDE DEF mine, new
<1>5. CASE UNCHANGED <<zone, created>> /\ stray' = stray \cup mine \cup {}
  <2>1. Named' = Named
    BY <1>5 DEF Named
  <2> QED
    BY <1>1, <1>2, <1>4, <1>5, <2>1, LedgerRests
<1>6. CASE created' = created + 1 /\ zone' = zone \cup {new} /\ stray' = stray \cup mine \cup {created + 1}
  <2>1. Named' = Named \cup {created + 1}
    BY <1>4, <1>6 DEF Named
  <2>2. \A n \in Named' : \/ n \in stray' \/ n \in Numbers(policy'.recs)
                          \/ \E s \in Requests \ {r} : HeldBy(s, n)
    <3>1. \A n \in Named : HeldBy(r, n) => n \in stray'
      BY <1>4, <1>6 DEF HeldBy
    <3> QED
      BY <1>1, <1>3, <1>6, <2>1, <3>1, Accounted
  <2>3. \A k \in Kinds : policy'.recs[k] <= created'
    BY <1>1, <1>3, <1>6, PolicyNumbers
  <2>4. Named' \cap 1..created \subseteq Named /\ created' \in Nat /\ created <= created' /\ stray \subseteq stray'
    BY <1>3, <1>6, <2>1
  <2> QED
    BY <1>2, <2>2, <2>3, <2>4, LedgerMoves
<1> QED
  BY <1>1, <1>5, <1>6

LEMMA InsertLedger ==
    ASSUME TypeOK, Ledger, domain = "held", NEW r \in Requests, Insert(r)
    PROVE  Ledger'
<1>1. Moves(r, Idle) /\ Idle.job = "none" /\ zone' = zone /\ created' = created /\ Named' = Named
  BY IdleMoves DEF Insert, Idle, Named
<1>2. StsTypes /\ created \in Nat /\ Listed /\ Named \subseteq 1..created
  BY Halves, NamedTypes DEF Ledger
<1>3. r \in Doing({"enable"})
  BY Halves, Shape DEF Insert, EnableRequest, Doing
<1>4. CASE policy # NoPolicy
  <2>1. policy' = policy /\ stray' = stray \cup (Numbers(req[r].row.recs) \cap Named)
    BY <1>4, InZoneNamed DEF Insert
  <2> QED
    BY <1>1, <2>1, LedgerRests
<1>5. CASE policy = NoPolicy
  <2>1. policy' = req[r].row /\ stray' = stray
    BY <1>5 DEF Insert
  <2>2. \A n \in Named' : \/ n \in stray' \/ n \in Numbers(policy'.recs)
                          \/ \E s \in Requests \ {r} : HeldBy(s, n)
    <3>1. \A n \in Named : HeldBy(r, n) => n \in Numbers(policy'.recs)
      BY <2>1 DEF HeldBy
    <3>2. Numbers(policy.recs) = {}
      BY <1>2, <1>5, PolicyNumbers
    <3> QED
      BY <1>1, <1>2, <2>1, <3>1, <3>2, Accounted
  <2>3. \A k \in Kinds : policy'.recs[k] <= created'
    BY <1>1, <1>3, <2>1 DEF Ledger, Numbered
  <2> QED
    BY <1>1, <1>2, <2>1, <2>2, <2>3, LedgerMoves
<1> QED
  BY <1>4, <1>5

LEMMA UpdateLedger ==
    ASSUME TypeOK, Ledger, NEW r \in Requests, StartUpdate(r) \/ Announce(r) \/ AnnounceFails(r) \/ Change(r)
    PROVE  Ledger'
<1>1. StsTypes /\ created \in Nat
  BY Halves, NamedTypes
<1>2. created' = created /\ stray' = stray
  BY DEF StartUpdate, StartUpdateAs, Announce, AnnounceFails, Change
<1>3. req[r].job # "enable"
  BY Halves, Shape DEF StartUpdate, StartUpdateAs, Begins, Announce, AnnounceFails, Change, UpdateRequest, Idle
<1>4. policy'.recs = policy.recs
  <2>1. CASE Change(r)
    <3>1. CASE policy = NoPolicy
      BY <2>1, <3>1 DEF Change
    <3>2. CASE policy # NoPolicy
      <4>1. policy \in Row
        BY <1>1, <3>2, RowShape
      <4> QED
        BY <2>1, <3>2, <4>1 DEF Change, Row
    <3> QED
      BY <3>1, <3>2
  <2> QED
    BY <2>1 DEF StartUpdate, StartUpdateAs, Announce, AnnounceFails
<1>5. Named' = Named
  <2>1. ASSUME req[r].at = "announce", zone' = Shown(req[r].txt, req[r].id) PROVE Named' = Named
    <3>1. req[r].id \in 1..MaxClock
      BY <2>1, Halves, Shape DEF UpdateRequest
    <3>2. \A n \in Named' : n \in Named
      BY <1>1, <2>1, <3>1, ShownFrom DEF Named
    <3>3. \A n \in Named : n \in Named'
      BY <1>1, <2>1, <3>1, ShownTo DEF Named
    <3> QED
      BY <3>2, <3>3
  <2>2. CASE zone' = zone
    BY <2>2 DEF Named
  <2> QED
    BY <2>1, <2>2 DEF StartUpdate, StartUpdateAs, Announce, AnnounceFails, Change
<1>6. CASE StartUpdate(r)
  <2>1. PICK v \in UpdateRequest : Moves(r, v) /\ v.at = "announce" /\ v.id = clock /\ v.txt = policy.recs["txt"]
    BY <1>6, StartUpdateGoes
  <2>2. v.txt <= created /\ v.job = "update"
    BY <1>1, <2>1, PolicyNumbers DEF Kinds, UpdateRequest
  <2> QED
    BY <1>2, <1>3, <1>4, <1>5, <2>1, <2>2, LedgerRests
<1>7. CASE Announce(r) /\ req[r].txt \in InZone({req[r].txt})
  <2>1. PICK v \in UpdateRequest : Moves(r, v) /\ v.at = "change" /\ v.id = req[r].id /\ v.txt = req[r].txt
    BY <1>7, AnnounceGoes
  <2>2. r \in Doing({"update"})
    BY <1>7, Halves, Shape DEF Announce, UpdateRequest, Doing
  <2>3. v.txt <= created /\ v.job = "update"
    BY <2>1, <2>2 DEF Ledger, Numbered, UpdateRequest
  <2> QED
    BY <1>2, <1>3, <1>4, <1>5, <2>1, <2>3, LedgerRests
<1>8. CASE Done(r)
  <2>1. Moves(r, Idle) /\ Idle.job = "none"
    BY <1>8, IdleMoves DEF Idle
  <2> QED
    BY <1>2, <1>3, <1>4, <1>5, <2>1, LedgerRests
<1> QED
  BY <1>6, <1>7, <1>8 DEF Announce, AnnounceFails, Change

LEMMA DisableLedger ==
    ASSUME TypeOK, Ledger, NEW r \in Requests, StartDisable(r) \/ Deprovision(r) \/ Remove(r)
    PROVE  Ledger'
<1>1. StsTypes /\ created \in Nat /\ Listed /\ Named \subseteq 1..created
  BY Halves, NamedTypes DEF Ledger
<1>2. \A n : ~HeldBy(r, n)
  BY Halves, Shape DEF StartDisable, Deprovision, Remove, HeldBy, Doing, DisableRequest, Begins, Idle
<1>3. \A n \in Named : n \in stray \/ n \in Numbers(policy.recs) \/ \E s \in Requests \ {r} : HeldBy(s, n)
  BY <1>1, <1>2, Accounted
<1>4. CASE StartDisable(r)
  <2>1. PICK v \in DisableRequest : Moves(r, v) /\ v.at = "deprovision" /\ v.recs = policy.recs
    BY <1>4, StartDisableGoes
  <2>2. zone' = zone /\ created' = created /\ policy' = policy /\ stray' = stray /\ Named' = Named
    BY <1>4 DEF StartDisable, stsVars, Named
  <2>3. v.job = "disable" /\ \A k \in Kinds : v.recs[k] <= created /\ policy.recs[k] <= created
    BY <1>1, <2>1, PolicyNumbers DEF DisableRequest
  <2> QED
    BY <1>1, <1>3, <2>1, <2>2, <2>3, LedgerMoves
<1>5. CASE Deprovision(r)
  <2>1. PICK v \in DisableRequest : Moves(r, v) /\ v.at = "remove" /\ v.recs = req[r].recs
    BY <1>5, DeprovisionGoes
  <2>2. PICK failed \in SUBSET InZone(Numbers(req[r].recs)) : DeprovisionExcept(r, failed)
    BY <1>5 DEF Deprovision
  <2>3. /\ zone' = {x \in zone : x.n \in Numbers(req[r].recs) => x.n \in failed}
        /\ stray' = stray \cup failed /\ created' = created /\ policy' = policy
    BY <2>2 DEF DeprovisionExcept
  <2>4. Named' \subseteq Named /\ Numbers(req[r].recs) \cap Named' \subseteq failed
    BY <2>3 DEF Named
  <2>5. r \in Doing({"disable"})
    BY <1>5, Halves, Shape DEF Deprovision, DisableRequest, Doing
  <2>6. v.job = "disable" /\ \A k \in Kinds : v.recs[k] <= created /\ policy.recs[k] <= created
    BY <1>1, <2>1, <2>5, PolicyNumbers DEF DisableRequest, Ledger, Numbered
  <2> QED
    BY <1>1, <1>3, <2>1, <2>3, <2>4, <2>6, LedgerMoves
<1>6. CASE Remove(r)
  <2>1. Moves(r, Idle) /\ Idle.job = "none"
    BY <1>6, IdleMoves DEF Remove, Idle
  <2>2. /\ policy' = NoPolicy /\ zone' = zone /\ created' = created /\ Named' = Named
        /\ stray' = IF policy.recs = req[r].recs THEN stray ELSE stray \cup (Numbers(policy.recs) \cap Named)
    BY <1>6, InZoneNamed DEF Remove, Named
  <2>3. r \in Doing({"disable"}) /\ req[r].at = "remove"
    BY <1>6, Halves, Shape DEF Remove, DisableRequest, Doing
  <2>4. Numbers(req[r].recs) \cap Named \subseteq stray
    BY <2>3, InZoneNamed DEF Ledger, Deleted
  <2>5. Numbers(policy.recs) \cap Named \subseteq stray' /\ stray \subseteq stray'
    BY <2>2, <2>4
  <2>6. \A k \in Kinds : policy'.recs[k] <= created'
    BY <1>1, <2>2, PolicyNumbers DEF NoPolicy
  <2>7. \A n \in Named' : n \in stray' \/ \E s \in Requests \ {r} : HeldBy(s, n)
    BY <1>3, <2>2, <2>5
  <2> QED
    BY <1>1, <2>1, <2>2, <2>5, <2>6, <2>7, LedgerMoves
<1> QED
  BY <1>4, <1>5, <1>6

LEMMA SpfJobsOnly ==
    ASSUME NEW v \in {Idle} \cup FlattenRequest \cup RestoreRequest \cup ApplyRequest
    PROVE  v.job \notin {"enable", "update", "disable"}
BY DEF Idle, FlattenRequest, RestoreRequest, ApplyRequest

LEMMA LedgerStep ==
    ASSUME TypeOK, Ledger, domain = "held", domain' = "held", [Next]_vars
    PROVE  Ledger'
<1>1. ASSUME NEW r \in Requests, SpfStep(r) PROVE Ledger'
  <2>1. PICK v \in {Idle} \cup FlattenRequest \cup RestoreRequest \cup ApplyRequest : Moves(r, v)
    BY <1>1, SpfGoes
  <2>2. v.job \notin {"enable", "update", "disable"} /\ req[r].job \notin {"enable", "update", "disable"}
    BY <1>1, SpfGoes, SpfJobsOnly
  <2>3. zone' = zone /\ created' = created /\ policy' = policy /\ stray' = stray /\ Named' = Named
    BY <1>1, SpfGoes DEF stsVars, Named
  <2> QED
    BY <2>1, <2>2, <2>3, LedgerRests
<1>2. ASSUME NEW r \in Requests, Die(r) PROVE Ledger'
  <2>1. Moves(r, Idle) /\ Idle.job = "none"
    BY <1>2, IdleMoves DEF Die, Idle
  <2>2. zone' = zone /\ created' = created /\ policy' = policy /\ Named' = Named
    BY <1>2 DEF Die, Named
  <2>3. stray' = IF req[r].job = "enable" THEN stray \cup (Numbers(req[r].row.recs) \cap Named) ELSE stray
    BY <1>2, InZoneNamed DEF Die
  <2>4. stray \subseteq stray' /\ (req[r].job = "enable" => Numbers(req[r].row.recs) \cap Named \subseteq stray')
    BY <2>3
  <2> QED
    BY <2>1, <2>2, <2>4, LedgerRests
<1>3. ASSUME NEW r \in Requests, StsStep(r) PROVE Ledger'
  BY <1>3, StartEnableLedger, CreateLedger, CreateFailsLedger, InsertLedger, UpdateLedger, DisableLedger DEF StsStep
<1>4. CASE CustomerEdits \/ ProvidersChange \/ Fetch \/ MxChange \/ Tick \/ UNCHANGED vars
  <2>1. zone' = zone /\ created' = created /\ policy' = policy /\ stray' = stray /\ req' = req
    BY <1>4 DEF CustomerEdits, Rewrite, ProvidersChange, Fetch, MxChange, Tick, vars, stsVars
  <2>2. (\A J : Doing(J)' = Doing(J)) /\ \A S : InZone(S)' = InZone(S)
    BY <2>1 DEF Doing, InZone
  <2> QED
    BY <2>1, <2>2 DEF Ledger, Numbered, Progress, Deleted, Listed, InZone, Numbers
<1>5. ~Delete
  BY DEF Delete
<1> QED
  BY <1>1, <1>2, <1>3, <1>4, <1>5 DEF Next

LEMMA InitLedger == Init => Ledger
<1> SUFFICES ASSUME Init PROVE Ledger
  OBVIOUS
<1>1. \A J : Doing(J) = {r \in Requests : "none" \in J}
  BY DEF Init, Doing, Idle
<1>2. \A k \in Kinds : policy.recs[k] <= created
  BY DEF Init, NoPolicy, NoIds
<1>3. zone = {}
  BY DEF Init
<1> QED
  BY <1>1, <1>2, <1>3 DEF Ledger, Numbered, Progress, Deleted, Listed

\* Until the domain is deleted, every MTA-STS record in the zone is named by the row, or is in the hands of the
\* request that made it, or was left by one that failed or met another (mta-sts.ts).
THEOREM NoRecordLost == Spec => []RecordsAccounted
<1> DEFINE I == TypeOK /\ (domain = "held" => Ledger)
<1>1. Init => I
  BY InitTypes, InitLedger
<1>2. I /\ [Next]_vars => I'
  BY StepTypes, Held, LedgerStep
<1>3. I => RecordsAccounted
  BY DEF Ledger, Listed, RecordsAccounted
<1> QED
  BY <1>1, <1>2, <1>3, PTL DEF Spec

-----------------------------------------------------------------------------
(* What senders know                                                       *)

\* The id a request holds.
IdOf(v) == IF v.job = "enable" THEN v.row.id ELSE v.id

LEMMA OthersStay ==
    ASSUME Both, NEW r \in Requests, NEW v, Moves(r, v)
    PROVE  /\ \A s \in Requests : s # r => /\ req'[s] = req[s] /\ Id(s)' = Id(s) /\ Txt(s)' = Txt(s)
                                           /\ \A J : s \in Doing(J)' <=> s \in Doing(J)
           /\ req'[r] = v /\ Id(r)' = IdOf(v) /\ Txt(r)' = v.row.recs["txt"]
           /\ \A J : Doing(J)' \subseteq Requests /\ (r \in Doing(J)' <=> v.job \in J)
BY Moved DEF Doing, Id, IdOf, Txt

\* A request that held an id held a known one.
LEMMA IdTypes ==
    ASSUME TypeOK, NEW r \in Requests
    PROVE  /\ r \in Doing({"enable", "update"}) => Id(r) \in 1..MaxClock
           /\ r \in Doing({"enable"}) => /\ req[r] \in EnableRequest /\ Id(r) = req[r].row.id
                                         /\ Txt(r) \in 0..MaxRecords
           /\ r \in Doing({"update"}) => req[r] \in UpdateRequest /\ Id(r) = req[r].id
           /\ r \in Doing({"enable", "update"}) <=> r \in Doing({"enable"}) \/ r \in Doing({"update"})
<1>1. r \in Doing({"enable"}) => req[r] \in EnableRequest /\ req[r].job = "enable"
  BY Halves, Shape DEF Doing
<1>2. r \in Doing({"update"}) => req[r] \in UpdateRequest /\ req[r].job = "update"
  BY Halves, Shape DEF Doing
<1>3. r \in Doing({"enable", "update"}) <=> r \in Doing({"enable"}) \/ r \in Doing({"update"})
  BY DEF Doing
<1>4. r \in Doing({"enable"}) => Id(r) = req[r].row.id /\ Id(r) \in 1..MaxClock /\ Txt(r) \in 0..MaxRecords
  BY <1>1 DEF Id, EnableRequest, Row, Recs, Txt, Kinds
<1>5. r \in Doing({"update"}) => Id(r) = req[r].id /\ Id(r) \in 1..MaxClock
  BY <1>2 DEF Id, UpdateRequest
<1> QED
  BY <1>1, <1>2, <1>3, <1>4, <1>5

LEMMA ZoneTypes ==
    ASSUME TypeOK
    PROVE  /\ \A x \in zone : x.n \in Nat \ {0} /\ x.n <= created /\ x.id \in Nat
           /\ created \in Nat /\ last \in Nat /\ clock \in Nat \ {0} /\ last <= clock
           /\ policy.recs["txt"] \in Nat /\ policy.id \in Nat /\ cache.id \in Nat
           /\ policy = NoPolicy => policy.recs["txt"] = 0
<1>1. StsTypes
  BY Halves
<1>2. policy.recs["txt"] \in Nat /\ (policy = NoPolicy => policy.recs["txt"] = 0)
  BY <1>1, RowShape DEF Recs, Kinds, NoIds
<1>3. policy.id \in Nat
  BY <1>1, RowShape, MailAssumption DEF Row
<1> QED
  BY <1>1, <1>2, <1>3, MailAssumption DEF StsTypes, Record

\* Requests end, records and the row go.
LEMMA SendersShrink ==
    ASSUME TypeOK, Senders, NEW r \in Requests, NEW v, Moves(r, v), v.job \notin {"enable", "update"},
           zone' \subseteq zone, policy' = policy \/ policy' = NoPolicy,
           cache' = cache, last' = last, hasty' = hasty
    PROVE  Senders'
<1>1. Both
  BY Halves
<1>2. ASSUME NEW J \in {{"enable"}, {"update"}, {"enable", "update"}}, NEW s \in Doing(J)'
      PROVE  s \in Doing(J) /\ req'[s] = req[s] /\ Id(s)' = Id(s) /\ Txt(s)' = Txt(s)
  BY <1>1, <1>2, OthersStay
<1>3. NoPolicy.recs["txt"] = 0 /\ NoPolicy.id = 0
  BY DEF NoPolicy, NoIds, Kinds
<1>4. Ids'
  <2>1. policy'.id <= last'
    BY <1>3, ZoneTypes DEF Senders, Ids
  <2> QED
    BY <1>2, <2>1 DEF Senders, Ids
<1>5. Own'
  <2>1. \A s \in Doing({"enable"})' : Txt(s)' # 0 => Txt(s)' # policy'.recs["txt"]
    BY <1>2, <1>3 DEF Senders, Own
  <2>2. \A x \in zone' : x.n = policy'.recs["txt"] => x.id # 0
    BY <1>3, ZoneTypes DEF Senders, Own
  <2> QED
    BY <1>2, <2>1, <2>2 DEF Senders, Own
<1>6. ~hasty' => Unique'
  BY <1>2 DEF Senders, Unique
<1>7. ~hasty' /\ ~cache'.early => Fetched'
  <2> SUFFICES ASSUME Fetched PROVE Fetched'
    BY DEF Senders
  <2>1. ShowsCached' => ShowsCached /\ policy' = policy
    BY <1>3, ZoneTypes DEF ShowsCached
  <2> QED
    BY <1>2, <2>1 DEF Fetched
<1> QED
  BY <1>4, <1>5, <1>6, <1>7 DEF Senders

LEMMA GenerateIds ==
    ASSUME TypeOK, Senders, Generate
    PROVE  /\ last' = clock /\ last <= last' /\ (~hasty' => ~hasty /\ last < clock)
           /\ ~hasty' => /\ policy.id # clock /\ cache.id # clock /\ \A x \in zone : x.id # clock
                         /\ \A s \in Doing({"enable", "update"}) : Id(s) # clock
<1>1. last' = clock /\ last <= last' /\ (~hasty' => ~hasty /\ last < clock)
  <2>1. last \in Nat /\ clock \in Nat /\ last <= clock
    BY ZoneTypes
  <2>2. last' = clock /\ (~hasty' => ~hasty /\ last # clock)
    BY DEF Generate
  <2> QED
    BY <2>1, <2>2
<1>2. \A s \in Doing({"enable", "update"}) : Id(s) \in Nat
  BY IdTypes, MailAssumption DEF Doing
<1> QED
  BY <1>1, <1>2, ZoneTypes DEF Senders, Ids

\* The ids of before are still of the past, and so is the one of r.
LEMMA IdsMove ==
    ASSUME TypeOK, Senders, NEW r \in Requests, NEW v, Moves(r, v),
           last <= last', last' \in Nat, v.job \in {"enable", "update"} => IdOf(v) <= last',
           policy'.id = policy.id \/ policy'.id <= last',
           cache'.id = cache.id \/ cache'.id <= last',
           \A x \in zone' : x.id <= last' \/ \E y \in zone : x.id = y.id
    PROVE  Ids'
<1>1. /\ Both /\ last \in Nat /\ policy.id \in Nat /\ cache.id \in Nat
      /\ \A x \in zone : x.id \in Nat
  BY Halves, ZoneTypes
<1>2. policy'.id <= last' /\ cache'.id <= last'
  BY <1>1 DEF Senders, Ids
<1>3. \A x \in zone' : x.id <= last'
  BY <1>1 DEF Senders, Ids
<1>4. ASSUME NEW s \in Doing({"enable", "update"})' PROVE Id(s)' <= last'
  <2>1. CASE s = r
    BY <1>1, <2>1, OthersStay
  <2>2. CASE s # r
    <3>1. s \in Requests /\ s \in Doing({"enable", "update"}) /\ Id(s)' = Id(s)
      BY <1>1, <2>2, OthersStay
    <3>2. Id(s) \in Nat /\ Id(s) <= last
      BY <3>1, IdTypes, MailAssumption DEF Senders, Ids
    <3> QED
      BY <1>1, <3>1, <3>2
  <2> QED
    BY <2>1, <2>2
<1> QED
  BY <1>2, <1>3, <1>4 DEF Ids

LEMMA StartEnableSenders ==
    ASSUME TypeOK, Senders, NEW r \in Requests, StartEnable(r)
    PROVE  Senders'
<1>1. PICK v \in EnableRequest : Moves(r, v) /\ v.at = "txt" /\ v.row.id = clock /\ v.row.recs = NoIds
  BY StartEnableGoes
<1>2. zone' = zone /\ policy' = policy /\ cache' = cache /\ Generate
  BY DEF StartEnable, StartEnableAnyhow
<1>3. Both /\ v.job = "enable" /\ IdOf(v) = clock /\ v.row.recs["txt"] = 0 /\ clock # 0 /\ clock \in Nat
  BY <1>1, Halves, ZoneTypes DEF EnableRequest, IdOf, NoIds, Kinds
<1>4. /\ last' = clock /\ last <= last' /\ (~hasty' => ~hasty)
      /\ ~hasty' => /\ policy.id # clock /\ cache.id # clock /\ \A x \in zone : x.id # clock
                    /\ \A s \in Doing({"enable", "update"}) : Id(s) # clock
  BY <1>2, GenerateIds
<1>5. ASSUME NEW J \in {{"enable"}, {"update"}, {"enable", "update"}}, NEW s \in Doing(J)', s # r
      PROVE  s \in Doing(J) /\ req'[s] = req[s] /\ Id(s)' = Id(s) /\ Txt(s)' = Txt(s)
  BY <1>1, <1>3, <1>5, OthersStay
<1>6. r \notin Doing({"update"})' /\ req'[r] = v /\ Id(r)' = clock /\ Txt(r)' = 0
  BY <1>1, <1>3, OthersStay
<1>7. Ids'
  BY <1>1, <1>2, <1>3, <1>4, IdsMove
<1>8. Own'
  <2>1. \A x \in zone : x.n # 0
    BY ZoneTypes
  <2> QED
    BY <1>2, <1>5, <1>6, <2>1 DEF Senders, Own
<1>9. ~hasty' => Unique'
  <2> SUFFICES ASSUME ~hasty', Unique PROVE Unique'
    BY <1>4 DEF Senders
  <2>1. ASSUME NEW q \in Doing({"enable", "update"})', NEW s \in Doing({"enable", "update"})', q # s
        PROVE  Id(q)' # Id(s)'
    BY <1>4, <1>5, <1>6, <2>1 DEF Unique
  <2>2. ASSUME NEW s \in Doing({"enable"})', NEW x \in zone', x.id = req'[s].row.id
        PROVE  x.n = Txt(s)'
    <3>1. CASE s = r
      BY <1>1, <1>2, <1>4, <1>6, <2>2, <3>1
    <3>2. CASE s # r
      BY <1>2, <1>5, <2>2, <3>2 DEF Unique
    <3> QED
      BY <3>1, <3>2
  <2> QED
    BY <2>1, <2>2 DEF Unique
<1>10. ~hasty' /\ ~cache'.early => Fetched'
  <2> SUFFICES ASSUME ~hasty', Fetched PROVE Fetched'
    BY <1>2, <1>4 DEF Senders
  <2>1. ShowsCached' <=> ShowsCached
    BY <1>2 DEF ShowsCached
  <2> QED
    BY <1>2, <1>4, <1>5, <1>6, <2>1 DEF Fetched
<1> QED
  BY <1>7, <1>8, <1>9, <1>10 DEF Senders

LEMMA StartUpdateSenders ==
    ASSUME TypeOK, Senders, NEW r \in Requests, StartUpdate(r)
    PROVE  Senders'
<1>1. PICK v \in UpdateRequest : Moves(r, v) /\ v.at = "announce" /\ v.id = clock /\ v.txt = policy.recs["txt"]
  BY StartUpdateGoes
<1>2. zone' = zone /\ policy' = policy /\ cache' = cache /\ Generate
  BY DEF StartUpdate, StartUpdateAs
<1>3. Both /\ v.job = "update" /\ IdOf(v) = clock /\ clock \in Nat
  BY <1>1, Halves, ZoneTypes DEF UpdateRequest, IdOf
<1>4. /\ last' = clock /\ last <= last' /\ (~hasty' => ~hasty)
      /\ ~hasty' => /\ policy.id # clock /\ cache.id # clock /\ \A x \in zone : x.id # clock
                    /\ \A s \in Doing({"enable", "update"}) : Id(s) # clock
  BY <1>2, GenerateIds
<1>5. ASSUME NEW J \in {{"enable"}, {"update"}, {"enable", "update"}}, NEW s \in Doing(J)', s # r
      PROVE  s \in Doing(J) /\ req'[s] = req[s] /\ Id(s)' = Id(s) /\ Txt(s)' = Txt(s)
  BY <1>1, <1>3, <1>5, OthersStay
<1>6. r \notin Doing({"enable"})' /\ req'[r] = v /\ Id(r)' = clock
  BY <1>1, <1>3, OthersStay
<1>7. Ids'
  BY <1>1, <1>2, <1>3, <1>4, IdsMove
<1>8. Own'
  BY <1>1, <1>2, <1>5, <1>6 DEF Senders, Own
<1>9. ~hasty' => Unique'
  <2> SUFFICES ASSUME ~hasty', Unique PROVE Unique'
    BY <1>4 DEF Senders
  <2>1. ASSUME NEW q \in Doing({"enable", "update"})', NEW s \in Doing({"enable", "update"})', q # s
        PROVE  Id(q)' # Id(s)'
    BY <1>4, <1>5, <1>6, <2>1 DEF Unique
  <2>2. ASSUME NEW s \in Doing({"enable"})', NEW x \in zone', x.id = req'[s].row.id
        PROVE  x.n = Txt(s)'
    BY <1>2, <1>5, <1>6, <2>2 DEF Unique
  <2> QED
    BY <2>1, <2>2 DEF Unique
<1>10. ~hasty' /\ ~cache'.early => Fetched'
  <2> SUFFICES ASSUME ~hasty', Fetched PROVE Fetched'
    BY <1>2, <1>4 DEF Senders
  <2>1. ShowsCached' <=> ShowsCached
    BY <1>2 DEF ShowsCached
  <2> QED
    BY <1>1, <1>2, <1>4, <1>5, <1>6, <2>1 DEF Fetched
<1> QED
  BY <1>7, <1>8, <1>9, <1>10 DEF Senders

\* The number of a new record is new to all.
LEMMA NewNumber ==
    ASSUME TypeOK, Ledger
    PROVE  /\ \A x \in zone : x.n # created + 1 /\ x.n # 0
           /\ policy.recs["txt"] # created + 1 /\ created + 1 # 0
           /\ \A s \in Doing({"enable"}) : Txt(s) # created + 1
           /\ \A s \in Doing({"update"}) : req[s].txt # created + 1
<1>1. created \in Nat /\ \A x \in zone : x.n \in Nat \ {0} /\ x.n <= created
  BY ZoneTypes
<1>2. "txt" \in Kinds
  BY DEF Kinds
<1>3. policy.recs["txt"] \in Nat /\ policy.recs["txt"] <= created
  BY <1>2, ZoneTypes DEF Ledger, Numbered
<1>4. ASSUME NEW s \in Doing({"enable"}) PROVE Txt(s) # created + 1
  <2>1. Txt(s) \in Nat /\ Txt(s) <= created
    BY <1>2, IdTypes DEF Ledger, Numbered, Txt, Doing
  <2> QED
    BY <1>1, <2>1
<1>5. ASSUME NEW s \in Doing({"update"}) PROVE req[s].txt # created + 1
  <2>1. req[s] \in UpdateRequest /\ req[s].txt <= created
    BY IdTypes DEF Ledger, Numbered, Doing
  <2>2. req[s].txt \in Nat
    BY <2>1 DEF UpdateRequest
  <2> QED
    BY <1>1, <2>1, <2>2
<1> QED
  BY <1>1, <1>3, <1>4, <1>5

\* A record is created.
LEMMA CreateSenders ==
    ASSUME TypeOK, Senders, Ledger, NEW r \in Requests, Create(r)
    PROVE  Senders'
<1>1. PICK v \in EnableRequest :
               /\ Moves(r, v) /\ v.at = After[req[r].at]
               /\ v.row = [req[r].row EXCEPT !.recs[req[r].at] = created + 1]
               /\ v.row.id = req[r].row.id
               /\ \A k \in Kinds : v.row.recs[k] = IF k = req[r].at THEN created + 1 ELSE req[r].row.recs[k]
  BY CreateGoes
<1> DEFINE new == Made(req[r].at, req[r].row.id)
<1>2. /\ zone' = zone \cup {new} /\ policy' = policy /\ cache' = cache
      /\ last' = last /\ hasty' = hasty
  BY DEF Create
<1>3. Both /\ v.job = "enable" /\ req[r].at \in Kinds /\ r \in Doing({"enable"}) /\ "txt" \in Kinds
  BY Halves, Shape DEF Create, Kinds, Doing, EnableRequest
<1>4. new.n = created + 1 /\ new.id = (IF req[r].at = "txt" THEN req[r].row.id ELSE 0)
  BY DEF Made
<1>5. /\ IdOf(v) = Id(r) /\ Id(r) = req[r].row.id /\ Id(r) \in Nat \ {0}
      /\ req[r].at = "txt" => Txt(r) = 0
  <2>1. req[r].at = "txt" => Txt(r) = 0
    BY <1>3 DEF Ledger, Progress, Txt
  <2> QED
    BY <1>1, <1>3, <2>1, IdTypes, MailAssumption DEF IdOf, Doing
<1> HIDE DEF new
<1>6. /\ \A x \in zone : x.n # created + 1 /\ x.n # 0
      /\ policy.recs["txt"] # created + 1 /\ created + 1 # 0
      /\ \A s \in Doing({"enable"}) : Txt(s) # created + 1
      /\ \A s \in Doing({"update"}) : req[s].txt # created + 1
  BY NewNumber
<1>7. ASSUME NEW J \in {{"enable"}, {"update"}, {"enable", "update"}}, NEW s \in Doing(J)', s # r
      PROVE  s \in Doing(J) /\ req'[s] = req[s] /\ Id(s)' = Id(s) /\ Txt(s)' = Txt(s)
  BY <1>1, <1>3, <1>7, OthersStay
<1>8. /\ r \notin Doing({"update"})' /\ req'[r] = v /\ Id(r)' = Id(r) /\ req'[r].row.id = Id(r)
      /\ Txt(r)' = IF req[r].at = "txt" THEN created + 1 ELSE Txt(r)
  <2>1. /\ req'[r] = v /\ Id(r)' = IdOf(v) /\ Txt(r)' = v.row.recs["txt"]
        /\ r \in Doing({"update"})' <=> v.job \in {"update"}
    BY <1>1, <1>3, OthersStay
  <2>2. v.row.recs["txt"] = IF req[r].at = "txt" THEN created + 1 ELSE Txt(r)
    BY <1>1, <1>3 DEF Txt
  <2> QED
    BY <1>1, <1>3, <1>5, <2>1, <2>2
<1>9. Ids'
  <2>1. Id(r) <= last
    BY <1>3 DEF Senders, Ids, Doing
  <2>2. \A x \in zone' : x.id <= last' \/ \E y \in zone : x.id = y.id
    BY <1>2, <1>4, <1>5, <2>1, ZoneTypes
  <2>3. last <= last' /\ last' \in Nat
    BY <1>2, ZoneTypes
  <2> QED
    BY <1>1, <1>2, <1>5, <2>1, <2>2, <2>3, IdsMove
<1>10. Own'
  <2>1. ASSUME NEW s \in Doing({"enable"})', Txt(s)' # 0
        PROVE  /\ Txt(s)' # policy'.recs["txt"]
               /\ \A q \in Doing({"enable"})' : q # s => Txt(s)' # Txt(q)'
               /\ \A q \in Doing({"update"})' : Txt(s)' # req'[q].txt
    <3>1. s = r \/ s \in Doing({"enable"})
      BY <1>7
    <3>2. Txt(s)' # policy'.recs["txt"]
      BY <1>2, <1>3, <1>6, <1>7, <1>8, <2>1 DEF Senders, Own
    <3>3. ASSUME NEW q \in Doing({"enable"})', q # s PROVE Txt(s)' # Txt(q)'
      BY <1>3, <1>6, <1>7, <1>8, <2>1, <3>3 DEF Senders, Own
    <3>4. ASSUME NEW q \in Doing({"update"})' PROVE Txt(s)' # req'[q].txt
      BY <1>3, <1>6, <1>7, <1>8, <2>1, <3>4 DEF Senders, Own
    <3> QED
      BY <3>2, <3>3, <3>4
  <2>2. ASSUME NEW s \in Doing({"enable"})', NEW x \in zone', x.n = Txt(s)'
        PROVE  x.id = req'[s].row.id
    <3>1. CASE x \in zone
      BY <1>3, <1>6, <1>7, <1>8, <2>2, <3>1, <1>5 DEF Senders, Own
    <3>2. CASE x = new
      <4>1. s = r
        BY <1>4, <1>6, <1>7, <2>2, <3>2
      <4>2. req[r].at = "txt"
        BY <1>3, <1>4, <1>6, <1>8, <2>2, <3>2, <4>1
      <4> QED
        BY <1>4, <1>5, <1>8, <3>2, <4>1, <4>2
    <3> QED
      BY <1>2, <2>2, <3>1, <3>2
  <2>3. \A x \in zone' : x.n = policy'.recs["txt"] => x.id # 0
    BY <1>2, <1>4, <1>6 DEF Senders, Own
  <2> QED
    BY <2>1, <2>2, <2>3 DEF Own
<1>11. ~hasty' => Unique'
  <2> SUFFICES ASSUME Unique PROVE Unique'
    BY <1>2 DEF Senders
  <2>1. ASSUME NEW q \in Doing({"enable", "update"})', NEW s \in Doing({"enable", "update"})', q # s
        PROVE  Id(q)' # Id(s)'
    <3>1. /\ q \in Doing({"enable", "update"}) /\ Id(q)' = Id(q)
          /\ s \in Doing({"enable", "update"}) /\ Id(s)' = Id(s)
      BY <1>3, <1>7, <1>8 DEF Doing
    <3> QED
      BY <2>1, <3>1 DEF Unique
  <2>2. ASSUME NEW s \in Doing({"enable"})', NEW x \in zone', x.id = req'[s].row.id
        PROVE  x.n = Txt(s)'
    <3>1. s \in Doing({"enable"}) /\ req'[s].row.id = req[s].row.id /\ Id(s) = req[s].row.id /\ Id(s) # 0
      BY <1>1, <1>3, <1>7, <1>8, IdTypes, MailAssumption DEF Doing
    <3>2. CASE x \in zone
      <4>1. x.n = Txt(s)
        BY <2>2, <3>1, <3>2 DEF Unique
      <4>2. s = r => req[r].at # "txt"
        BY <1>5, <1>6, <3>2, <4>1
      <4> QED
        BY <1>7, <1>8, <4>1, <4>2
    <3>3. CASE x = new
      <4>1. req[r].at = "txt" /\ Id(s) = Id(r)
        BY <1>4, <1>5, <2>2, <3>1, <3>3
      <4>2. s = r
        BY <1>3, <3>1, <4>1 DEF Unique, Doing
      <4> QED
        BY <1>4, <1>8, <3>3, <4>1, <4>2
    <3> QED
      BY <1>2, <2>2, <3>2, <3>3
  <2> QED
    BY <2>1, <2>2 DEF Unique
<1>12. ~hasty' /\ ~cache'.early => Fetched'
  <2> SUFFICES ASSUME Fetched PROVE Fetched'
    BY <1>2 DEF Senders
  <2>1. ShowsCached' <=> ShowsCached
    BY <1>2, <1>4, <1>6 DEF ShowsCached
  <2>2. r \in Doing({"enable", "update"})
    BY <1>3 DEF Doing
  <2> QED
    BY <1>2, <1>7, <1>8, <2>1, <2>2 DEF Fetched
<1> QED
  BY <1>9, <1>10, <1>11, <1>12 DEF Senders

\* A record is created for a request that fails all the same.
LEMMA CreateFailsSenders ==
    ASSUME TypeOK, Senders, Ledger, NEW r \in Requests, CreateFails(r)
    PROVE  Senders'
<1> DEFINE new == Made(req[r].at, req[r].row.id)
<1>1. /\ policy' = policy /\ cache' = cache /\ last' = last /\ hasty' = hasty
      /\ zone' = zone \/ zone' = zone \cup {new}
  BY DEF CreateFails
<1>2. Moves(r, Idle) /\ Idle.job = "none" /\ Both
  BY Halves, IdleMoves DEF CreateFails, Idle
<1>3. CASE zone' = zone
  BY <1>1, <1>2, <1>3, SendersShrink
<1>4. CASE zone' = zone \cup {new}
  <2>1. r \in Doing({"enable"}) /\ r \in Doing({"enable", "update"})
    BY Halves, Shape DEF CreateFails, Kinds, Doing, EnableRequest
  <2>2. new.n = created + 1 /\ (new.id = Id(r) \/ new.id = 0) /\ Id(r) \in Nat \ {0}
    BY <2>1, IdTypes, MailAssumption DEF Made
  <2> HIDE DEF new
  <2>3. /\ \A x \in zone : x.n # created + 1 /\ x.n # 0
        /\ policy.recs["txt"] # created + 1
        /\ \A s \in Doing({"enable"}) : Txt(s) # created + 1
    BY NewNumber
  <2>4. ASSUME NEW J \in {{"enable"}, {"update"}, {"enable", "update"}}, NEW s \in Doing(J)'
        PROVE  s # r /\ s \in Doing(J) /\ req'[s] = req[s] /\ Id(s)' = Id(s) /\ Txt(s)' = Txt(s)
    BY <1>2, <2>4, OthersStay
  <2>5. Ids'
    <3>1. Id(r) <= last
      BY <2>1 DEF Senders, Ids
    <3>2. \A x \in zone' : x.id <= last' \/ \E y \in zone : x.id = y.id
      BY <1>1, <1>4, <2>2, <3>1, ZoneTypes
    <3>3. last <= last' /\ last' \in Nat
      BY <1>1, ZoneTypes
    <3> QED
      BY <1>1, <1>2, <3>2, <3>3, IdsMove
  <2>6. Own'
    BY <1>1, <1>4, <2>2, <2>3, <2>4 DEF Senders, Own
  <2>7. ~hasty' => Unique'
    <3> SUFFICES ASSUME Unique PROVE Unique'
      BY <1>1 DEF Senders
    <3>1. \A q, s \in Doing({"enable", "update"})' : q # s => Id(q)' # Id(s)'
      BY <2>4 DEF Unique
    <3>2. ASSUME NEW s \in Doing({"enable"})', NEW x \in zone', x.id = req'[s].row.id
          PROVE  x.n = Txt(s)'
      <4>1. /\ s # r /\ s \in Doing({"enable"}) /\ req'[s] = req[s] /\ Txt(s)' = Txt(s)
        BY <2>4
      <4>2. s \in Doing({"enable", "update"}) /\ Id(s) = req[s].row.id /\ Id(s) # 0
        BY <4>1, IdTypes, MailAssumption DEF Doing
      <4>3. x # new
        BY <2>1, <2>2, <3>2, <4>1, <4>2 DEF Unique
      <4> QED
        BY <1>4, <3>2, <4>1, <4>3 DEF Unique
    <3> QED
      BY <3>1, <3>2 DEF Unique
  <2>8. ~hasty' /\ ~cache'.early => Fetched'
    <3> SUFFICES ASSUME Fetched PROVE Fetched'
      BY <1>1 DEF Senders
    <3>1. ShowsCached' <=> ShowsCached
      BY <1>1, <1>4, <2>2, <2>3 DEF ShowsCached
    <3> QED
      BY <1>1, <2>4, <3>1 DEF Fetched
  <2> QED
    BY <2>5, <2>6, <2>7, <2>8 DEF Senders
<1> QED
  BY <1>1, <1>3, <1>4

LEMMA InsertSenders ==
    ASSUME TypeOK, Senders, domain = "held", NEW r \in Requests, Insert(r)
    PROVE  Senders'
<1>1. zone' = zone /\ cache' = cache /\ last' = last /\ hasty' = hasty
  BY DEF Insert
<1>2. Moves(r, Idle) /\ Idle.job = "none" /\ Both
  BY Halves, IdleMoves DEF Insert, Idle
<1>3. CASE policy # NoPolicy
  <2>1. policy' = policy
    BY <1>3 DEF Insert
  <2> QED
    BY <1>1, <1>2, <2>1, SendersShrink
<1>4. CASE policy = NoPolicy
  <2>1. policy' = req[r].row
    BY <1>4 DEF Insert
  <2>2. r \in Doing({"enable"}) /\ r \in Doing({"enable", "update"})
    BY Halves, Shape DEF Insert, EnableRequest, Doing
  <2>3. Id(r) = req[r].row.id /\ Id(r) # 0 /\ policy'.recs["txt"] = Txt(r) /\ policy'.id = Id(r)
    BY <2>1, <2>2, IdTypes, MailAssumption DEF Txt
  <2>4. ASSUME NEW J \in {{"enable"}, {"update"}, {"enable", "update"}}, NEW s \in Doing(J)'
        PROVE  s # r /\ s \in Doing(J) /\ req'[s] = req[s] /\ Id(s)' = Id(s) /\ Txt(s)' = Txt(s)
    BY <1>2, <2>4, OthersStay
  <2>5. Ids'
    <3>1. Id(r) <= last /\ last \in Nat
      BY <2>2, ZoneTypes DEF Senders, Ids
    <3> QED
      BY <1>1, <1>2, <2>3, <3>1, IdsMove
  <2>6. Own'
    <3>1. \A s \in Doing({"enable"}) : Txt(s) # 0 /\ s # r => Txt(s) # Txt(r)
      BY <2>2 DEF Senders, Own
    <3>2. \A x \in zone : x.n = Txt(r) => x.id = Id(r)
      BY <2>2, <2>3 DEF Senders, Own
    <3> QED
      BY <1>1, <2>3, <2>4, <3>1, <3>2 DEF Senders, Own
  <2>7. ~hasty' => Unique'
    BY <1>1, <2>4 DEF Senders, Unique
  <2>8. ~hasty' /\ ~cache'.early => Fetched'
    <3> SUFFICES ASSUME Fetched PROVE Fetched'
      BY <1>1 DEF Senders
    <3>1. ~ShowsCached'
      BY <1>1, <2>2, <2>3 DEF Senders, Own, Fetched, ShowsCached
    <3> QED
      BY <1>1, <2>4, <3>1 DEF Fetched
  <2> QED
    BY <2>5, <2>6, <2>7, <2>8 DEF Senders
<1> QED
  BY <1>3, <1>4

\* An id is announced: whether the update goes on or not, the record shows no id that a
\* sender knows.
LEMMA AnnounceSenders ==
    ASSUME TypeOK, Senders, NEW r \in Requests, Announce(r) \/ AnnounceFails(r)
    PROVE  Senders'
<1>1. /\ policy' = policy /\ cache' = cache /\ last' = last /\ hasty' = hasty
      /\ zone' = zone \/ zone' = Shown(req[r].txt, req[r].id)
  BY DEF Announce, AnnounceFails
<1>2. /\ Both /\ r \in Doing({"update"}) /\ r \in Doing({"enable", "update"}) /\ req[r] \in UpdateRequest
      /\ req[r].at = "announce"
  BY Halves, Shape DEF Announce, AnnounceFails, Doing, UpdateRequest
<1>3. req[r].id \in 1..MaxClock /\ Id(r) = req[r].id /\ Id(r) # 0 /\ Id(r) <= last
  BY <1>2, IdTypes, MailAssumption DEF UpdateRequest, Senders, Ids
<1>4. StsTypes
  BY Halves
<1>5. PICK v \in {Idle} \cup UpdateRequest :
          /\ Moves(r, v) /\ v.job \in {"none", "update"}
          /\ v.job = "update" => /\ v.at = "change" /\ v.id = req[r].id /\ v.txt = req[r].txt
                                 /\ zone' = Shown(req[r].txt, req[r].id)
  <2>1. CASE Announce(r) /\ req[r].txt \in InZone({req[r].txt})
    <3>1. PICK v \in UpdateRequest : Moves(r, v) /\ v.at = "change" /\ v.id = req[r].id /\ v.txt = req[r].txt
      BY <2>1, AnnounceGoes
    <3>2. v.job = "update" /\ zone' = Shown(req[r].txt, req[r].id)
      BY <2>1 DEF Announce, UpdateRequest
    <3> QED
      BY <3>1, <3>2
  <2>2. CASE Done(r)
    BY <2>2, IdleMoves DEF Idle
  <2> QED
    BY <2>1, <2>2 DEF Announce, AnnounceFails
<1>6. CASE zone' = zone /\ v.job = "none"
  BY <1>1, <1>5, <1>6, SendersShrink
<1>7. CASE zone' = Shown(req[r].txt, req[r].id)
  <2>1. ASSUME NEW y \in zone'
        PROVE  \E x \in zone : /\ y.n = x.n /\ y.id = (IF x.n = req[r].txt THEN Id(r) ELSE x.id)
    BY <1>3, <1>4, <1>7, <2>1, ShownFrom
  <2>2. /\ \A s \in Requests : s # r =>
               /\ req'[s] = req[s] /\ Id(s)' = Id(s) /\ Txt(s)' = Txt(s)
               /\ \A J : s \in Doing(J)' <=> s \in Doing(J)
        /\ \A J : Doing(J)' \subseteq Requests /\ (r \in Doing(J)' <=> v.job \in J)
        /\ req'[r] = v
    BY <1>2, <1>5, OthersStay
  <2>3. ASSUME NEW J \in {{"enable"}, {"update"}, {"enable", "update"}}, NEW s \in Doing(J)'
        PROVE  /\ s \in Doing(J) /\ Id(s)' = Id(s)
               /\ J = {"enable"} => s # r /\ Txt(s)' = Txt(s) /\ req'[s] = req[s]
               /\ J = {"update"} => req'[s].txt = req[s].txt
               /\ s # r => req'[s] = req[s]
    <3>1. CASE s = r
      <4>1. v.job = "update" /\ "update" \in J
        BY <1>5, <2>2, <2>3, <3>1
      <4>2. Id(r)' = Id(r)
        BY <1>3, <1>5, <2>2, <4>1 DEF Id
      <4> QED
        BY <1>2, <1>5, <2>2, <3>1, <4>1, <4>2
    <3>2. CASE s # r
      BY <2>2, <2>3, <3>2
    <3> QED
      BY <3>1, <3>2
  <2>4. Ids'
    <3>1. v.job \in {"enable", "update"} => IdOf(v) <= last'
      BY <1>1, <1>3, <1>5 DEF IdOf
    <3>2. \A x \in zone' : x.id <= last' \/ \E y \in zone : x.id = y.id
      BY <1>1, <1>3, <2>1
    <3>3. last <= last' /\ last' \in Nat
      BY <1>1, ZoneTypes
    <3> QED
      BY <1>1, <1>2, <1>5, <3>1, <3>2, <3>3, IdsMove
  <2>5. Own'
    <3>1. ASSUME NEW s \in Doing({"enable"})', Txt(s)' # 0
          PROVE  /\ Txt(s)' # policy'.recs["txt"]
                 /\ \A q \in Doing({"enable"})' : q # s => Txt(s)' # Txt(q)'
                 /\ \A q \in Doing({"update"})' : Txt(s)' # req'[q].txt
      BY <1>1, <2>3, <3>1 DEF Senders, Own
    <3>2. ASSUME NEW s \in Doing({"enable"})', NEW y \in zone', y.n = Txt(s)'
          PROVE  y.id = req'[s].row.id
      <4>1. s \in Doing({"enable"}) /\ Txt(s)' = Txt(s) /\ req'[s] = req[s]
        BY <2>3
      <4>2. PICK x \in zone : y.n = x.n /\ y.id = (IF x.n = req[r].txt THEN Id(r) ELSE x.id)
        BY <2>1
      <4>3. x.n # 0
        BY ZoneTypes
      <4>4. x.n # req[r].txt /\ x.id = req[s].row.id
        BY <1>2, <3>2, <4>1, <4>2, <4>3 DEF Senders, Own
      <4> QED
        BY <4>1, <4>2, <4>4
    <3>3. ASSUME NEW y \in zone', y.n = policy'.recs["txt"] PROVE y.id # 0
      BY <1>1, <1>3, <2>1, <3>3 DEF Senders, Own
    <3> QED
      BY <3>1, <3>2, <3>3 DEF Own
  <2>6. ~hasty' => Unique'
    <3> SUFFICES ASSUME Unique PROVE Unique'
      BY <1>1 DEF Senders
    <3>1. \A q, s \in Doing({"enable", "update"})' : q # s => Id(q)' # Id(s)'
      BY <2>3 DEF Unique
    <3>2. ASSUME NEW s \in Doing({"enable"})', NEW y \in zone', y.id = req'[s].row.id
          PROVE  y.n = Txt(s)'
      <4>1. s \in Doing({"enable"}) /\ Txt(s)' = Txt(s) /\ req'[s] = req[s] /\ s # r
        BY <2>3
      <4>2. PICK x \in zone : y.n = x.n /\ y.id = (IF x.n = req[r].txt THEN Id(r) ELSE x.id)
        BY <2>1
      <4>3. s \in Doing({"enable", "update"}) /\ Id(s) = req[s].row.id /\ Id(s) # Id(r)
        BY <1>2, <4>1, IdTypes DEF Unique, Doing
      <4>4. x.id = req[s].row.id
        BY <3>2, <4>1, <4>2, <4>3
      <4> QED
        BY <4>1, <4>2, <4>4 DEF Unique
    <3> QED
      BY <3>1, <3>2 DEF Unique
  <2>7. ~hasty' /\ ~cache'.early => Fetched'
    <3> SUFFICES ASSUME Fetched PROVE Fetched'
      BY <1>1 DEF Senders
    <3>1. ~ShowsCached'
      <4> SUFFICES ASSUME NEW y \in zone', y.n = policy.recs["txt"], y.id = cache.id PROVE FALSE
        BY <1>1 DEF ShowsCached
      <4>1. PICK x \in zone : y.n = x.n /\ y.id = (IF x.n = req[r].txt THEN Id(r) ELSE x.id)
        BY <2>1
      <4>2. x.n # req[r].txt
        BY <1>2, <4>1 DEF Fetched
      <4>3. ShowsCached
        BY <4>1, <4>2 DEF ShowsCached
      <4> QED
        BY <1>2, <4>1, <4>2, <4>3 DEF Fetched
    <3>2. \A s \in Doing({"enable", "update"})' : Id(s)' # cache'.id
      BY <1>1, <2>3 DEF Fetched
    <3> QED
      BY <1>1, <3>1, <3>2 DEF Fetched
  <2> QED
    BY <2>4, <2>5, <2>6, <2>7 DEF Senders
<1> QED
  BY <1>1, <1>5, <1>6, <1>7

\* The policy follows the id: no sender can know it under the id it shows.
LEMMA ChangeSenders ==
    ASSUME TypeOK, Senders, NEW r \in Requests, Change(r)
    PROVE  Senders'
<1>1. zone' = zone /\ cache' = cache /\ last' = last /\ hasty' = hasty
  BY DEF Change
<1>2. Moves(r, Idle) /\ Idle.job = "none" /\ Both
  BY Halves, IdleMoves DEF Change, Idle
<1>3. r \in Doing({"update"}) /\ r \in Doing({"enable", "update"}) /\ req[r].at = "change"
  BY Halves, Shape DEF Change, Doing, UpdateRequest
<1>4. CASE policy = NoPolicy
  <2>1. policy' = policy
    BY <1>4 DEF Change
  <2> QED
    BY <1>1, <1>2, <2>1, SendersShrink
<1>5. CASE policy # NoPolicy
  <2>1. policy'.recs = policy.recs /\ policy'.id = Id(r)
    <3>1. policy \in Row
      BY <1>5, Halves, RowShape
    <3>2. policy'.recs = policy.recs /\ policy'.id = req[r].id
      BY <1>5, <3>1 DEF Change, Row
    <3> QED
      BY <1>3, <3>2, IdTypes
  <2>2. ASSUME NEW J \in {{"enable"}, {"update"}, {"enable", "update"}}, NEW s \in Doing(J)'
        PROVE  s # r /\ s \in Doing(J) /\ req'[s] = req[s] /\ Id(s)' = Id(s) /\ Txt(s)' = Txt(s)
    BY <1>2, <2>2, OthersStay
  <2>3. Ids'
    <3>1. Id(r) <= last /\ last \in Nat
      BY <1>3, ZoneTypes DEF Senders, Ids
    <3> QED
      BY <1>1, <1>2, <2>1, <3>1, IdsMove
  <2>4. Own'
    BY <1>1, <2>1, <2>2 DEF Senders, Own
  <2>5. ~hasty' => Unique'
    BY <1>1, <2>2 DEF Senders, Unique
  <2>6. ~hasty' /\ ~cache'.early => Fetched'
    <3> SUFFICES ASSUME Fetched PROVE Fetched'
      BY <1>1 DEF Senders
    <3>1. ~ShowsCached
      BY <1>3 DEF Fetched
    <3>2. ~ShowsCached'
      BY <1>1, <2>1, <3>1 DEF ShowsCached
    <3> QED
      BY <1>1, <2>2, <3>2 DEF Fetched
  <2> QED
    BY <2>3, <2>4, <2>5, <2>6 DEF Senders
<1> QED
  BY <1>4, <1>5

\* A sender fetches the policy: what is announced later has another id.
LEMMA FetchSenders ==
    ASSUME TypeOK, Senders, Fetch
    PROVE  Senders'
<1>1. PICK x \in zone : /\ policy # NoPolicy /\ x.n = policy.recs["txt"]
                        /\ cache' = [id |-> x.id, mode |-> policy.mode, mx |-> policy.mx,
                                     early |-> Doing({"update", "disable"}) # {}]
  BY DEF Fetch
<1>2. /\ zone' = zone /\ policy' = policy /\ last' = last /\ hasty' = hasty /\ req' = req
      /\ cache'.id = x.id /\ cache'.mode = policy.mode /\ cache'.mx = policy.mx
      /\ cache'.early = (Doing({"update", "disable"}) # {})
  BY <1>1 DEF Fetch
<1>3. \A J : Doing(J)' = Doing(J)
  BY <1>2 DEF Doing
<1>4. \A s : Id(s)' = Id(s) /\ Txt(s)' = Txt(s)
  BY <1>2 DEF Id, Txt
<1>5. Ids' /\ Own' /\ (~hasty' => Unique')
  BY <1>2, <1>3, <1>4 DEF Senders, Ids, Own, Unique
<1>6. ~hasty' /\ ~cache'.early => Fetched'
  <2> SUFFICES ASSUME Unique, Doing({"update", "disable"}) = {} PROVE Fetched'
    BY <1>2 DEF Senders
  <2>1. Doing({"update"}) = {}
    BY DEF Doing
  <2>2. ASSUME NEW s \in Doing({"enable", "update"}) PROVE Id(s) # x.id
    <3>1. s \in Doing({"enable"}) /\ Id(s) = req[s].row.id
      BY <2>1, <2>2, IdTypes DEF Doing
    <3>2. x.n # 0
      BY ZoneTypes
    <3>3. x.n # Txt(s)
      BY <1>1, <3>1, <3>2 DEF Senders, Own
    <3> QED
      BY <3>1, <3>3 DEF Unique
  <2> QED
    BY <1>2, <1>3, <1>4, <2>1, <2>2 DEF Fetched
<1> QED
  BY <1>5, <1>6 DEF Senders

LEMMA SendersStep ==
    ASSUME TypeOK, Senders, Ledger, domain = "held", domain' = "held", [Next]_vars
    PROVE  Senders'
<1>1. ASSUME NEW r \in Requests, SpfStep(r) PROVE Senders'
  <2>1. PICK v \in {Idle} \cup FlattenRequest \cup RestoreRequest \cup ApplyRequest : Moves(r, v)
    BY <1>1, SpfGoes
  <2>2. zone' = zone /\ policy' = policy /\ cache' = cache /\ last' = last /\ hasty' = hasty
    BY <1>1, SpfGoes DEF stsVars
  <2> QED
    BY <2>1, <2>2, SpfJobsOnly, SendersShrink
<1>2. ASSUME NEW r \in Requests, Die(r) PROVE Senders'
  <2>1. Moves(r, Idle) /\ Idle.job = "none"
    BY <1>2, IdleMoves DEF Die, Idle
  <2> QED
    BY <1>2, <2>1, SendersShrink DEF Die
<1>3. ASSUME NEW r \in Requests, StartDisable(r) \/ Deprovision(r) \/ Remove(r) PROVE Senders'
  <2>1. PICK v \in {Idle} \cup DisableRequest : Moves(r, v)
    BY <1>3, StartDisableGoes, DeprovisionGoes, IdleMoves DEF Remove
  <2>2. v.job \notin {"enable", "update"}
    BY DEF Idle, DisableRequest
  <2>3. zone' \subseteq zone /\ (policy' = policy \/ policy' = NoPolicy) /\ cache' = cache /\ last' = last /\ hasty' = hasty
    BY <1>3 DEF StartDisable, stsVars, Deprovision, DeprovisionExcept, Remove
  <2> QED
    BY <2>1, <2>2, <2>3, SendersShrink
<1>4. ASSUME NEW r \in Requests, StsStep(r) PROVE Senders'
  BY <1>3, <1>4, StartEnableSenders, CreateSenders, CreateFailsSenders, InsertSenders, StartUpdateSenders,
     AnnounceSenders, ChangeSenders DEF StsStep
<1>5. CASE CustomerEdits \/ ProvidersChange \/ MxChange \/ Tick \/ UNCHANGED vars
  <2>1. zone' = zone /\ policy' = policy /\ cache' = cache /\ last' = last /\ hasty' = hasty /\ req' = req
    BY <1>5 DEF CustomerEdits, Rewrite, ProvidersChange, MxChange, Tick, vars, stsVars
  <2>2. (\A J : Doing(J)' = Doing(J)) /\ (\A s : Id(s)' = Id(s) /\ Txt(s)' = Txt(s)) /\ ShowsCached' = ShowsCached
    BY <2>1 DEF Doing, Id, Txt, ShowsCached
  <2> QED
    BY <2>1, <2>2 DEF Senders, Ids, Own, Unique, Fetched
<1>6. ~Delete
  BY DEF Delete
<1> QED
  BY <1>1, <1>2, <1>4, <1>5, <1>6, FetchSenders DEF Next

LEMMA InitSenders == Init => Senders
<1> SUFFICES ASSUME Init PROVE Senders
  OBVIOUS
<1>1. \A J : Doing(J) = {r \in Requests : "none" \in J}
  BY DEF Init, Doing, Idle
<1>2. Doing({"enable"}) = {} /\ Doing({"update"}) = {} /\ Doing({"enable", "update"}) = {}
  BY <1>1
<1>3. zone = {} /\ policy = NoPolicy /\ policy.id = 0 /\ cache.id = 0 /\ last = 0
  BY DEF Init, NoPolicy
<1> QED
  BY <1>2, <1>3 DEF Senders, Ids, Own, Unique, Fetched

LEMMA CascadedStep == ASSUME TypeOK, TypeOK', Cascaded, [Next]_vars PROVE Cascaded'
<1> SUFFICES ASSUME domain' = "gone" PROVE policy' = NoPolicy
  BY DEF Cascaded
<1>1. CASE Delete
  BY <1>1 DEF Delete
<1>2. ASSUME NEW r \in Requests, SpfStep(r) \/ Die(r) PROVE domain' = domain /\ policy' = policy
  BY <1>2, SpfGoes DEF Die, stsVars
<1>3. CASE CustomerEdits \/ ProvidersChange \/ Fetch \/ MxChange \/ Tick \/ UNCHANGED vars
  <2>1. domain' = domain /\ policy' = policy
    BY <1>3 DEF CustomerEdits, Rewrite, ProvidersChange, Fetch, MxChange, Tick, vars, spfVars, stsVars
  <2> QED
    BY <2>1 DEF Cascaded
<1>4. ASSUME NEW r \in Requests, StsStep(r) PROVE policy' = NoPolicy
  <2>1. domain = "gone" /\ policy = NoPolicy
    BY <1>4, StsGoes DEF Cascaded, spfVars
  <2>2. policy' = policy \/ policy' = NoPolicy
    BY <1>4, <2>1 DEF StsStep, StartEnable, StartEnableAnyhow, Create, CreateFails, Insert, StartUpdate, StartUpdateAs,
       Announce, AnnounceFails, Change, StartDisable, Deprovision, DeprovisionExcept, Remove, stsVars
  <2> QED
    BY <2>1, <2>2
<1> QED
  BY <1>1, <1>2, <1>3, <1>4 DEF Next, Cascaded

\* A sender that knows the id in the record knows the policy once no update is at work,
\* but for one that fetched between an announcement and its change and for ids of one
\* second (mta-sts.ts, updateMtaStsTxtRecord).
THEOREM SendersFollow == Spec => []SendersCurrent
<1>1. Init => MInv
  BY InitTypes, InitSpf, InitLedger, InitSenders DEF MInv, Cascaded, Init
<1>2. MInv /\ [Next]_vars => MInv'
  BY StepTypes, Held, SpfInvStep, LedgerStep, SendersStep, CascadedStep DEF MInv
<1>3. MInv => SendersCurrent
  <2>1. Senders => SendersCurrent
    BY DEF Senders, Fetched, ShowsCached, SendersCurrent
  <2>2. policy = NoPolicy => SendersCurrent
    BY DEF SendersCurrent
  <2> QED
    BY <2>1, <2>2 DEF MInv, Cascaded, TypeOK
<1> QED
  BY <1>1, <1>2, <1>3, PTL DEF Spec

=============================================================================
