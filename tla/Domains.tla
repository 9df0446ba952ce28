------------------------------ MODULE Domains -------------------------------
(***************************************************************************)
(* Who monitors a domain on the hosted service (src/domains/ownership.ts,  *)
(* remove.ts, bulk.ts, src/dns/provision.ts and the routes that call them):*)
(* a workspace claims a name, proves it, takes it from an unproven         *)
(* ("legacy") holder, publishes the record that authorises its reports,    *)
(* and gives the domain up again.                                          *)
(*                                                                         *)
(* The statements of a request are steps of their own; requests of all     *)
(* workspaces interleave and can die.  What DNS and Cloudflare answer to a *)
(* proof is not known beforehand.  Hosted records have their own module.   *)
(***************************************************************************)
EXTENDS Integers, Sequences, FiniteSets

CONSTANTS
    Workspaces,
    Names,      \* domain names
    Parents(_), \* the names a domain is a subdomain of
    Requests,   \* requests at work at the same time
    Legacy,     \* the rows from before verification existed: a sequence of Row
    MaxClaims,  \* MAX_PENDING_CLAIMS
    MaxRows,    \* bound: domains ever inserted
    MaxRecords, \* bound: DNS records ever created
    MaxFaults   \* bound: dead requests, failed Cloudflare calls, workspaces not set up

VARIABLES
    rows,       \* table domains, by id
    inserted,   \* rows inserted so far: the last id
    claims,     \* table domain_claims: per workspace and name
    zone,       \* authorisation records that exist at Cloudflare
    issued,     \* records created so far
    req,        \* per request: the await it is at and what it has read
    stray,      \* history: records whose removal failed or that two requests dealt with
    late,       \* history: claims entered after another workspace had the name
    faults      \* faults so far

vars == <<rows, inserted, claims, zone, issued, req, stray, late, faults>>

Ids == 1..MaxRows
\* evicted: detached, the name is free.  upto (history): the last id when its eviction read the tree.
Row == [ws : Workspaces, name : Names, via : {"legacy", "proven"}, parent : 0..MaxRows,
        record : 0..MaxRecords, evicted : BOOLEAN, upto : 0..MaxRows]
NoRow == [ws |-> "none"]

\* The legacy rows keep the unique index and the foreign key, and their records are the
\* first ones that were created.  Subdomains have no subdomains here.
LegacyRecords == {Legacy[i].record : i \in 1..Len(Legacy)} \ {0}
ASSUME LegacyAssumption ==
    /\ MaxRows \in Nat /\ MaxRecords \in Nat /\ MaxClaims \in Nat /\ MaxFaults \in Nat /\ Requests # {}
    /\ \A n \in Names : \A p \in Parents(n) : p \in Names /\ Parents(p) = {}
    /\ Legacy \in Seq(Row) /\ Len(Legacy) <= MaxRows
    /\ \A i, j \in 1..Len(Legacy) : Legacy[i].name = Legacy[j].name => i = j
    /\ \A i \in 1..Len(Legacy) :
           /\ ~Legacy[i].evicted
           /\ Legacy[i].parent # 0 =>
                  /\ Legacy[i].parent <= Len(Legacy)
                  /\ Legacy[Legacy[i].parent].ws = Legacy[i].ws
                  /\ Legacy[Legacy[i].parent].name \in Parents(Legacy[i].name)
    /\ Cardinality(LegacyRecords) \in 0..MaxRecords
    /\ LegacyRecords = 1..Cardinality(LegacyRecords)

Exists(i) == rows[i] # NoRow
Live(i)   == Exists(i) /\ ~rows[i].evicted
Holds(i, w, n) == Live(i) /\ rows[i].ws = w /\ rows[i].name = n

Idle == [at |-> "idle"]
Goto(q, place) == req' = [req EXCEPT ![q].at = place]
Over(q) == req' = [req EXCEPT ![q] = Idle]

Own(w, n) == \E i \in Ids : Holds(i, w, n)
OwnedByOther(w, n) == \E i \in Ids : \E v \in Workspaces \ {w} : Holds(i, v, n) /\ rows[i].via # "legacy"
ProvenByParent(w, n) == \E i \in Ids : \E p \in Parents(n) : Holds(i, w, p) /\ rows[i].via # "legacy"
Claims(w) == {n \in Names : claims[w][n] # "none"}

Init ==
    /\ rows = [i \in Ids |-> IF i <= Len(Legacy) THEN Legacy[i] ELSE NoRow]
    /\ inserted = Len(Legacy)
    /\ claims = [w \in Workspaces |-> [n \in Names |-> "none"]]
    /\ zone = LegacyRecords
    /\ issued = Cardinality(zone)
    /\ req = [q \in Requests |-> Idle]
    /\ stray = {} /\ late = {}
    /\ faults = 0

-----------------------------------------------------------------------------
(* Claims                                                                  *)

\* admitDomain: a domain that is ours already needs no proof (its insert reports the
\* duplicate, unless the row has gone by then); one that is nobody else's does.
StartAdd(q, w, n) ==
    /\ req[q] = Idle
    /\ Own(w, n) \/ ~OwnedByOther(w, n)
    /\ req' = [req EXCEPT ![q] =
           IF Own(w, n) THEN [at |-> "parent", ws |-> w, name |-> n, tree |-> <<>>]
           ELSE [at |-> "prove", ws |-> w, name |-> n, claimed |-> FALSE, tree |-> <<>>]]
    /\ UNCHANGED <<rows, inserted, claims, zone, issued, stray, late, faults>>

\* verifyClaim: the claim is read; another workspace may have won.
StartVerify(q, w, n) ==
    /\ req[q] = Idle
    /\ claims[w][n] # "none"
    /\ req' = [req EXCEPT ![q] = [at |-> IF OwnedByOther(w, n) THEN "taken" ELSE "prove",
                                  ws |-> w, name |-> n, claimed |-> TRUE, tree |-> <<>>]]
    /\ UNCHANGED <<rows, inserted, claims, zone, issued, stray, late, faults>>

Taken(q) ==
    /\ req[q].at = "taken"
    /\ claims' = [claims EXCEPT ![req[q].ws][req[q].name] = IF @ = "none" THEN @ ELSE "lost"]
    /\ Over(q)
    /\ UNCHANGED <<rows, inserted, zone, issued, stray, late, faults>>

\* Proven by a parent, by a zone of a connection or by the TXT record of the claim.
Proven(q) ==
    /\ req[q].at = "prove"
    /\ req' = [req EXCEPT ![q] = [at |-> "find", ws |-> @.ws, name |-> @.name, tree |-> <<>>]]
    /\ UNCHANGED <<rows, inserted, claims, zone, issued, stray, late, faults>>

Unproven(q) ==
    /\ req[q].at = "prove"
    /\ ~ProvenByParent(req[q].ws, req[q].name)
    /\ IF req[q].claimed THEN Over(q) ELSE Goto(q, "claim")
    /\ UNCHANGED <<rows, inserted, claims, zone, issued, stray, late, faults>>

\* A pending claim is shown again; a lost one starts again.
ReadClaim(q) ==
    /\ req[q].at = "claim"
    /\ LET mine == claims[req[q].ws][req[q].name]
       IN  IF mine = "pending" THEN Over(q) ELSE Goto(q, "count")
    /\ claims' = [claims EXCEPT ![req[q].ws][req[q].name] = IF @ = "lost" THEN "none" ELSE @]
    /\ UNCHANGED <<rows, inserted, zone, issued, stray, late, faults>>

CountClaims(q) ==
    /\ req[q].at = "count"
    /\ IF Cardinality(Claims(req[q].ws)) >= MaxClaims THEN Over(q) ELSE Goto(q, "upsert")
    /\ UNCHANGED <<rows, inserted, claims, zone, issued, stray, late, faults>>

Upsert(q) ==
    /\ req[q].at = "upsert"
    /\ claims' = [claims EXCEPT ![req[q].ws][req[q].name] = IF @ = "none" THEN "pending" ELSE @]
    /\ late' = IF OwnedByOther(req[q].ws, req[q].name) THEN late \cup {<<req[q].ws, req[q].name>>} ELSE late
    /\ Over(q)
    /\ UNCHANGED <<rows, inserted, zone, issued, stray, faults>>

GiveUp(w, n) ==
    /\ claims[w][n] # "none"
    /\ claims' = [claims EXCEPT ![w][n] = "none"]
    /\ UNCHANGED <<rows, inserted, zone, issued, req, stray, late, faults>>

-----------------------------------------------------------------------------
(* Eviction                                                                *)

\* The rows to take with i, children first (domain names here have one level).
Below(i) == {j \in Ids : Live(j) /\ rows[j].parent = i /\ rows[j].ws = rows[i].ws}
Copy(i)  == [id |-> i, record |-> rows[i].record]
Orders(S) == {s \in [1..Cardinality(S) -> S] : \A j \in S : \E k \in DOMAIN s : s[k] = j}
TreesOf(i) == {[k \in 1..(Len(s) + 1) |-> IF k > Len(s) THEN Copy(i) ELSE Copy(s[k])] : s \in Orders(Below(i))}

Victims(w, n) == {i \in Ids : Live(i) /\ rows[i].name = n /\ rows[i].ws # w /\ rows[i].via = "legacy"}

\* One of these trees is to go, if there is any.
FindAmong(q, trees) ==
    /\ req[q].at = "find"
    /\ IF trees = {} THEN Goto(q, "parent")
       ELSE \E t \in trees :
                req' = [req EXCEPT ![q] = [at |-> "clean", ws |-> @.ws, name |-> @.name, tree |-> t, upto |-> inserted]]
    /\ UNCHANGED <<rows, inserted, claims, zone, issued, stray, late, faults>>

\* Mutants of FindHolder: only the domain itself is taken; proven holders are not spared.
FindRoot(q) == FindAmong(q, {<<Copy(i)>> : i \in Victims(req[q].ws, req[q].name)})
FindAnyHolder(q) ==
    FindAmong(q, UNION {TreesOf(i) : i \in {j \in Ids : Live(j) /\ rows[j].name = req[q].name /\ rows[j].ws # req[q].ws}})

\* evictLegacyHolder reads the holder and its tree.
FindHolder(q) == FindAmong(q, UNION {TreesOf(i) : i \in Victims(req[q].ws, req[q].name)})

Target(q) == Head(req[q].tree)

\* removeAuthRecord: the record that was read goes.  A failure is only logged.
Clean(q) ==
    /\ req[q].at = "clean"
    /\ zone' = zone \ {Target(q).record}
    /\ Goto(q, "detach")
    /\ UNCHANGED <<rows, inserted, claims, issued, stray, late, faults>>

CleanFails(q) ==
    /\ req[q].at = "clean"
    /\ faults < MaxFaults
    /\ faults' = faults + 1
    /\ stray' = stray \cup ({Target(q).record} \cap zone)
    /\ Goto(q, "detach")
    /\ UNCHANGED <<rows, inserted, claims, zone, issued, late>>

\* detach: renamed and hidden, whatever has become of the row.
Detach(q) ==
    LET i == Target(q).id
    IN  /\ req[q].at = "detach"
        /\ rows' = IF Exists(i) THEN [rows EXCEPT ![i].evicted = TRUE, ![i].record = 0, ![i].upto = req[q].upto]
                   ELSE rows
        /\ stray' = IF Exists(i) THEN stray \cup (zone \cap ({rows[i].record} \ {Target(q).record})) ELSE stray
        /\ req' = [req EXCEPT ![q].tree = Tail(@), ![q].at = IF Len(req[q].tree) = 1 THEN "parent" ELSE "clean"]
        /\ UNCHANGED <<inserted, claims, zone, issued, late, faults>>

-----------------------------------------------------------------------------
(* A verified domain                                                       *)

\* createVerifiedDomain: the workspace has no reports domain yet, proven or not.
NotSetUp(q) ==
    /\ req[q].at = "parent"
    /\ faults < MaxFaults
    /\ faults' = faults + 1
    /\ Over(q)
    /\ UNCHANGED <<rows, inserted, claims, zone, issued, stray, late>>

\* domains.insert looks for the parent's row.
FindParent(q) ==
    /\ req[q].at = "parent"
    /\ LET own == {i \in Ids : \E p \in Parents(req[q].name) : Holds(i, req[q].ws, p)}
       IN  req' = [req EXCEPT ![q] = [at |-> "insert", ws |-> @.ws, name |-> @.name, tree |-> <<>>,
                                      parent |-> IF own = {} THEN 0 ELSE CHOOSE i \in own : TRUE]]
    /\ UNCHANGED <<rows, inserted, claims, zone, issued, stray, late, faults>>

\* The name is unique among all workspaces; a parent that is gone fails the foreign key.
Insert(q) ==
    LET up == req[q].parent
        fits == /\ \A i \in Ids : Live(i) => rows[i].name # req[q].name
                /\ up # 0 => Exists(up)
    IN  /\ req[q].at = "insert"
        /\ IF fits
           THEN /\ inserted < MaxRows
                /\ inserted' = inserted + 1
                /\ rows' = [rows EXCEPT ![inserted + 1] =
                       [ws |-> req[q].ws, name |-> req[q].name, via |-> "proven", parent |-> up,
                        record |-> 0, evicted |-> FALSE, upto |-> 0]]
                /\ Goto(q, "settle")
           ELSE Over(q) /\ UNCHANGED <<rows, inserted>>
        /\ UNCHANGED <<claims, zone, issued, stray, late, faults>>

\* settleClaims: our claim goes, then everyone else's is lost.
Settle(q) ==
    /\ req[q].at = "settle"
    /\ claims' = [claims EXCEPT ![req[q].ws][req[q].name] = "none"]
    /\ Goto(q, "lose")
    /\ UNCHANGED <<rows, inserted, zone, issued, stray, late, faults>>

\* Mutant of Lose: the others' claims stay as they are.
LoseNothing(q) ==
    /\ req[q].at = "lose"
    /\ Over(q)
    /\ UNCHANGED <<rows, inserted, claims, zone, issued, stray, late, faults>>

Lose(q) ==
    /\ req[q].at = "lose"
    /\ claims' = [w \in Workspaces |->
           IF w = req[q].ws THEN claims[w]
           ELSE [claims[w] EXCEPT ![req[q].name] = IF @ = "none" THEN @ ELSE "lost"]]
    /\ Over(q)
    /\ UNCHANGED <<rows, inserted, zone, issued, stray, late, faults>>

-----------------------------------------------------------------------------
(* The authorisation record                                                *)

\* apply-dmarc provisions a domain that has no record yet.
StartProvision(q, i) ==
    /\ req[q] = Idle
    /\ Live(i) /\ rows[i].record = 0
    /\ req' = [req EXCEPT ![q] = [at |-> "publish", id |-> i]]
    /\ UNCHANGED <<rows, inserted, claims, zone, issued, stray, late, faults>>

\* provisionDomain: the record is created at Cloudflare,
Publish(q) ==
    /\ req[q].at = "publish"
    /\ issued < MaxRecords
    /\ issued' = issued + 1
    /\ zone' = zone \cup {issued + 1}
    /\ req' = [req EXCEPT ![q] = [at |-> "store", id |-> @.id, record |-> issued + 1]]
    /\ UNCHANGED <<rows, inserted, claims, stray, late, faults>>

\* or not: the user is told to do it by hand.
PublishFails(q) ==
    /\ req[q].at = "publish"
    /\ Over(q)
    /\ UNCHANGED <<rows, inserted, claims, zone, issued, stray, late, faults>>

\* setDnsRecord: over whatever the row names by now, if it is still there.
Store(q) ==
    LET i == req[q].id
        k == req[q].record
    IN  /\ req[q].at = "store"
        /\ rows' = IF Exists(i) THEN [rows EXCEPT ![i].record = k] ELSE rows
        /\ stray' = stray \cup (zone \cap IF Live(i) THEN {rows[i].record} ELSE {k})
        /\ Over(q)
        /\ UNCHANGED <<inserted, claims, zone, issued, late, faults>>

-----------------------------------------------------------------------------
(* The end of a domain                                                     *)

\* deleteDomain reads the row.
StartDelete(q, i) ==
    /\ req[q] = Idle
    /\ Live(i)
    /\ req' = [req EXCEPT ![q] = [at |-> "drop", id |-> i, record |-> rows[i].record]]
    /\ UNCHANGED <<rows, inserted, claims, zone, issued, stray, late, faults>>

\* ON DELETE SET NULL.
Without(i) == [j \in Ids |-> IF j = i THEN NoRow
                             ELSE IF Exists(j) /\ rows[j].parent = i THEN [rows[j] EXCEPT !.parent = 0]
                             ELSE rows[j]]

DropRow(q, after, remaining) ==
    LET i == req[q].id
    IN  /\ req[q].at = "drop"
        /\ rows' = remaining
        /\ stray' = IF Exists(i) THEN stray \cup (zone \cap ({rows[i].record} \ {req[q].record})) ELSE stray
        /\ IF after = "idle" THEN Over(q) ELSE Goto(q, after)
        /\ UNCHANGED <<inserted, claims, zone, issued, late, faults>>

\* Mutants of Drop: the record is forgotten; the children keep pointing at the row.
DropOnly(q) == DropRow(q, "idle", Without(req[q].id))
DropLoose(q) == DropRow(q, "unpublish", [rows EXCEPT ![req[q].id] = NoRow])

Drop(q) == DropRow(q, "unpublish", Without(req[q].id))

\* The record that was read before goes last.
Unpublish(q) ==
    /\ req[q].at = "unpublish"
    /\ zone' = zone \ {req[q].record}
    /\ Over(q)
    /\ UNCHANGED <<rows, inserted, claims, issued, stray, late, faults>>

UnpublishFails(q) ==
    /\ req[q].at = "unpublish"
    /\ faults < MaxFaults
    /\ faults' = faults + 1
    /\ stray' = stray \cup ({req[q].record} \cap zone)
    /\ Over(q)
    /\ UNCHANGED <<rows, inserted, claims, zone, issued, late>>

\* Retention: an evicted domain goes after EVICTED_KEEP_DAYS.
Purge(i) ==
    /\ Exists(i) /\ rows[i].evicted
    /\ rows' = Without(i)
    /\ UNCHANGED <<inserted, claims, zone, issued, req, stray, late, faults>>

InHand(q) == IF req[q].at \in {"store", "unpublish"} THEN {req[q].record} ELSE {}

\* The isolate dies, or a statement throws.
Die(q) ==
    /\ req[q] # Idle
    /\ faults < MaxFaults
    /\ faults' = faults + 1
    /\ stray' = stray \cup (zone \cap InHand(q))
    /\ Over(q)
    /\ UNCHANGED <<rows, inserted, claims, zone, issued, late>>

Step(q) ==
    \/ Taken(q) \/ Proven(q) \/ Unproven(q) \/ ReadClaim(q) \/ CountClaims(q) \/ Upsert(q)
    \/ FindHolder(q) \/ Clean(q) \/ CleanFails(q) \/ Detach(q)
    \/ NotSetUp(q) \/ FindParent(q) \/ Insert(q) \/ Settle(q) \/ Lose(q)
    \/ Publish(q) \/ PublishFails(q) \/ Store(q)
    \/ Drop(q) \/ Unpublish(q) \/ UnpublishFails(q) \/ Die(q)

Next ==
    \/ \E q \in Requests : Step(q)
    \/ \E q \in Requests, w \in Workspaces, n \in Names : StartAdd(q, w, n) \/ StartVerify(q, w, n)
    \/ \E w \in Workspaces, n \in Names : GiveUp(w, n)
    \/ \E q \in Requests, i \in Ids : StartProvision(q, i) \/ StartDelete(q, i)
    \/ \E i \in Ids : Purge(i)

Spec == Init /\ [][Next]_vars

-----------------------------------------------------------------------------
(* Properties                                                              *)

Targets == [id : Ids, record : 0..MaxRecords]
\* Includes the foreign key: a parent is a row, of the same workspace.
TypeOK ==
    /\ rows \in [Ids -> Row \cup {NoRow}]
    /\ \A i \in Ids : Exists(i) /\ rows[i].parent # 0 =>
           Exists(rows[i].parent) /\ rows[rows[i].parent].ws = rows[i].ws
    /\ inserted \in 0..MaxRows /\ issued \in 0..MaxRecords /\ faults \in 0..MaxFaults
    /\ claims \in [Workspaces -> [Names -> {"none", "pending", "lost"}]]
    /\ zone \subseteq 1..issued /\ stray \subseteq 1..issued /\ late \subseteq Workspaces \X Names
    /\ \A q \in Requests :
           /\ req[q].at \in {"taken", "prove", "claim", "count", "upsert", "find", "settle", "lose",
                             "clean", "detach", "parent", "insert", "publish", "store", "drop", "unpublish", "idle"}
           /\ req[q].at \in {"clean", "detach"} => req[q].tree \in Seq(Targets) /\ req[q].tree # <<>>

\* ownership.ts:11, "when one verifies, the others are marked lost": unless the winner's
\* request dies, or the other's, which had found the name free before, enters the claim afterwards.
OthersLost ==
    \A w \in Workspaces, n \in Names :
        claims[w][n] = "pending" /\ OwnedByOther(w, n) =>
            \/ faults > 0 \/ <<w, n>> \in late
            \/ \E q \in Requests : req[q].at \in {"settle", "lose"} /\ req[q].name = n /\ req[q].ws # w

\* ownership.ts:9, "the first workspace to verify wins": a proven domain leaves its
\* workspace by that workspace's own deletion, or below an unproven one that another
\* workspace has proven; however many requests prove one name at once.
OnlyUnprovenLose ==
    [][\A i \in Ids : Live(i) /\ ~(Live(i))' =>
          \E q \in Requests :
              \/ req[q].at = "drop" /\ req[q].id = i
              \/ /\ req[q].at = "detach" /\ Target(q).id = i /\ req[q].ws # rows[i].ws
                 /\ rows[i].name = req[q].name => rows[i].via = "legacy"]_vars

\* ownership.ts:125, "so no live child is left pointing at a detached parent": none
\* that was there when the eviction read the tree; one inserted since then may be.
NoStrayChild ==
    \A i \in Ids : Live(i) /\ rows[i].parent # 0 =>
        LET p == rows[rows[i].parent] IN p.evicted => i > p.upto

\* provision.ts:12, "stored in domains.dns_record_id so we can delete it when the
\* domain is removed": every record at Cloudflare is named by a domain or in the hands
\* of a request, except where a call failed or two requests dealt with one domain.
RecordsAccounted ==
    \A k \in zone \ stray :
        \/ \E i \in Ids : Live(i) /\ rows[i].record = k
        \/ \E q \in Requests : k \in InHand(q)

=============================================================================
