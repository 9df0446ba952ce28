# Inbox Angel in TLA+

Inbox Angel is a Cloudflare Worker over D1 (SQLite). It receives DMARC reports by mail, watches the DNS of its
customers' domains, and changes that DNS through Cloudflare accounts its customers connect. A Worker keeps nothing
between requests, so every protocol below is a sequence of single D1 statements and HTTP calls that several isolates
run at once. Each statement is atomic and sequences of them are not, which is where this code can go wrong. The models
place one action between two awaits.

Each module stands alone, `ConnectionTokens` with the contract it implements (`ConnectionContract`) excepted. To get
into them, read `Reports` first (short, with fairness and a proof), then `Domains`, and `ConnectionTokens` for a
refinement.

## The system

| Component | Keeps | Operations | Talks to | Hard behaviour | What makes it correct | Module |
|---|---|---|---|---|---|---|
| Cloudflare connections (`connections/service.ts`) | a row per connection: status, sealed tokens | connect, open, re-seal, refresh, retry, break, reconnect, disconnect | OAuth server, API client, notifier | single-use refresh tokens and several isolates, key rotation, lost answers | the usable token is never mislaid, a broken row only comes back by a reconnect, one alert | `ConnectionTokens`, `ConnectionContract` |
| Connection routes (`connections/routes.ts`) | a signed state, a used marker | start, callback, disconnect | connections, `settings` | double callbacks, clean-up of markers | a state is used once | `Offboarding` |
| API client (`tenancy/cf-client.ts`) | zone allow-list, a token | send, zoneFor | Cloudflare | stale allow-list, blocked child zones | nothing outside the list is reached | `ConnectionTokens` (send only) |
| Hosted records (`hosted/service.ts`) | hosted row, records in our zones, zone counters | enable, rotate, trim, disable, daily count | Cloudflare, intake | failure between DNS and D1, concurrent rotations | an address that is published is accepted, nothing is orphaned | `HostedRecords` |
| Intake (`hosted/intake.ts`, `queries/intake.ts`) | report tokens, daily counters | resolveToken, tryConsume | mail handler | counters shared by all inbound mails | caps are kept, legitimate reporters are not starved | `IntakeQuota`, `HostedRecords` |
| Report storage (`dmarc/store-report.ts`) | aggregate reports and their records | store, first-report mail | mail handler | redelivery, crash between inserts | a report is stored once and whole | `Reports` |
| Retention (`lifecycle/retention.ts`) | a budget per run | sweep the tables | cron | a budget shared by all tables | every backlog is worked off, and said to be done only then | `Reports` |
| Funnel (`funnel/`, `mail/`) | leads, suppressions | enroll, advance, send, stop, restore | mailer, unsubscribe links | overlapping runs, unsubscribe and bounce meanwhile | a step is sent once, a stopped lead stays stopped | `Funnel` |
| Domains (`domains/`, `dns/provision.ts`) | domains, pending claims, record ids | claim, verify, evict, provision, remove | DNS, workspaces | two workspaces prove one domain, a tree read and detached row by row | one verified holder, no record forgotten | `Domains` |
| Workspaces, accounts, sign-up (`workspaces/`, `account/`, `auth/`) | users, memberships, invitations | set up, invite, join, leave, hand over, remove, erase | better-auth | a request acts on what it read | one owner, no login deleted while it belongs somewhere | `Membership` |
| Offboarding (`lifecycle/revoke.ts`) | tombstones of unrevoked grants | erase, disconnect, retry, give up | connections, cron | erasing while a callback inserts; failed revocations | no grant dropped unrecorded | `Offboarding` |
| Monitor (`cron.ts`, `monitor/`) | a baseline per subscription | check, alert | DNS, mail | crash between baseline and alert | a change is announced | plan |
| MTA-STS, SPF flattening (`email/`, `cron.ts`) | the customer's SPF record, the policy, record ids | flatten, refresh, restore; enable, change, disable | Cloudflare, DNS, senders' caches | half-finished sequences, the daily job meeting a request | the customer's record can be restored, what is created is remembered, senders follow the policy | `MailRecords` |
| DMARC rollout, DNS checks | nothing | pure functions | analytics | boundaries | advice never goes back a stage by itself | plan |
| Analytics, digest, parsing, dashboard, telemetry, tools | nothing of a protocol's own | reads, formatting | D1 | none beyond their inputs | outside the scope of these models | |

`PROJECT.json` lists every component with its sources and status, and under `hazards` each place in the code where
an order of steps matters that tests hardly reach.

How the parts meet. The modules cut the system where components share no row, or share one that only one of them
writes. A report address belongs to a domain, whatever account manages it, so `IntakeQuota` and `ConnectionTokens`
share nothing. `Offboarding` takes over where `ConnectionTokens` stops caring: it follows a grant from its exchange to
its revocation and leaves out refreshing, which keeps the grant. `Domains` and `HostedRecords` meet in deleting a
domain, which disables its records first; each has its own half. `Membership` and `Offboarding` meet in erasing a
workspace, where the purge cascades over all its rows at once.

## Modules

| Module | Contents |
|---|---|
| `ConnectionContract` | the abstract specification of one stored connection: its status and its token pair |
| `ConnectionTokens` | the detailed protocol, its properties and its inductive invariant |
| `ConnectionTokensProofs` | the invariant is inductive; refinement, keys, custody, alerts |
| `IntakeQuota`, `IntakeQuotaProofs` | the daily allowance of a report address; its five properties as theorems |
| `HostedRecords`, `HostedRecordsProofs` | the hosted DNS records of a workspace's domains; its five properties as theorems |
| `Membership` | users, workspaces, roles and invitations (`TeamSpec`) |
| `Funnel`, `FunnelProofs` | the onboarding mails; its safety properties as theorems |
| `Domains`, `DomainsProofs` | claims, proofs, eviction, provisioning; its five properties as theorems |
| `Offboarding` | grants from the callback to the revocation |
| `WorkspaceProofs` | the safety properties of `Offboarding` and of `Membership` as theorems |
| `Reports`, `ReportsProofs` | aggregate reports and the retention run; its safety properties as theorems |
| `MailRecords`, `MailRecordsProofs` | the SPF and MTA-STS records in a customer's own zone; its four safety properties as theorems |
| `MC*` | for each of these, symmetry sets and state constraints for model checking |

### ConnectionTokens and the code

| Variable | Code |
|---|---|
| `row` | the `cloudflare_connections` row: `auth_type`, `status` (`"gone"` once deleted), `token_envelope` |
| `ctl[p]` | the await at which isolate p's call stands, why it wants a token, the re-reads it made, and the fresh pair that is only in a local variable |
| `opened[p]`, `pinned[p]` | `ConnectionService.#opened` and the token a `CfClient` keeps after a retry (`this.#token = fresh`) |
| `dep[p]`, `deploy` | the deployment an isolate runs and the newest one: its keys, and whether OAuth is configured |
| `owner` | the request of the owner in progress (`addOAuth` with `replace`, `replaceToken`, `disconnect`) |
| `issued`, `revoked`, `killed`, `expired` | the authorization server: pairs issued per grant, revoked grants, revoked access tokens, expiry |
| `lost`, `alerts` | history: grants whose newest pair died in memory; alerts sent |

| Actions | Code |
|---|---|
| `BuildClient`, `Call`, `OpenRow`, `Reseal`, `UseOpened` | `clientFor`, `#build`, `#send` up to its token, `#current`, `#open` |
| `StartRefresh`, `RefreshGranted`, `RefreshRefused`, `AnswerLost`, `Poll`, `Store`, `Reread` | `#doRefresh`, await by await |
| `Send`, `Resend`, `Unauthorized`, `MarkBroken`, `Alert` | `#send`, its retry, `#unauthorized`, `#break`, `notifyConnectionBroken` |
| `Abort`, `StoreUnacknowledged`, `BreakUnacknowledged`, `Discard` | a failed await; a write applied but reported as failed; the end of an isolate |
| `Authorize`, `CheckAccount`, `Reactivate`, `Disconnect`, `RevokeGrant`, `Delete`, `OwnerAbort` | the owner's requests |
| `Expire`, `CustomerRevokes`, `Deploy` | time, Cloudflare's dashboard, the operator |

A token pair is a grant and a number. An envelope is a pair and the key it is sealed under; sealing is otherwise
abstract, `Opens` says whether the key is still configured. Compare-and-swap is `CanSwap` and `Swap`.

What the model narrows:

- An instance makes one API call at a time. Concurrent calls of one instance share `#opened` and `#refreshing` and move
  together; the extra forced refresh that a second 401 of the same instance may start is not covered.
- One owner request is in progress at a time.
- The authorization server rotates refresh tokens, which is the case the code's comments name (single use). A server
  that does not rotate is easier: the stored refresh token stays usable.
- Expiry is ordered: the pairs of a grant expire in the order they were issued.
- The two statements of `delete` (unlink the domains, delete the row) are one step: nothing here reads the links.
- A client still held after `invalidate()` is dropped with the instance.
- `last_used_at`, labels, scopes and the zone allow-list are left out.

### IntakeQuota and the code

| Variable | Code |
|---|---|
| `rows`, `used` | the `intake_usage` rows of one domain and one day, by `reporter`: their `reports` and `bytes` |
| `total` | the row `TOTAL_ROW` (`'*'`) |
| `mail[p]` | the await at which a mail handler's `tryConsume` stands, with `reporter`, `bytes` and `victim` |
| `sent`, `accepted`, `taken`, `evicted` | history: messages per reporter, those accepted, what unknown reporters got, who lost a slot |

| Actions | Code |
|---|---|
| `Arrive` | `handleHostedEmail` up to `tryConsume`, and its first return (a message larger than a day's allowance) |
| `LookUp`, `CountSlots`, `PickVictim`, `Evict` | `seen`, `distinct`, `victim` and its deletion |
| `Charge`, `ChargeTotal`, `Refund` | the reporter's upsert, the total's, and the give-back |
| `TotalUnacknowledged`, `Abort` | a statement that fails, and the total's upsert applied but reported as failed |

Reporters are values of three sets: `Known` (`WELL_KNOWN_REPORTERS`), `Unknown` (proven, no standing) and `Claimed`
(the `~domain` keys of unproven senders) with the bucket `Overflow` (`~`). Which of them a message belongs to is an
input: how a sender is proven is the business of `sender-proof.ts`, which reads only the message. What the model
narrows: one address and one day, since rows of other domains or days are never read; a charge of the reporter's row
that is applied and reported as failed is covered by `Charge` followed by `Abort` for unknown reporters, and for the
others by counting the message as accepted, which only makes the bounds harder to keep.

### HostedRecords and the code

| Variable | Code |
|---|---|
| `zone` | the records in the hosted Cloudflare zone: the hosted id in their name, their kind, the address they name |
| `row`, `token`, `mtaSts`, `count` | `hosted_domains` (the hosted id and five record ids), `intake_tokens` (current and previous token), `mta_sts_config`, `hosted_zones.record_count` |
| `req[r]` | the await at which a request stands, with the id it generated, the records made so far and the row it read |
| `cron` | `reconcileZones`: what it listed and has not stored yet |
| `leaked`, `torn`, `crossed`, `drifted` | history: a failed step of a clean-up; a rotation that stopped half way; overlapping requests on one domain; a count that misses a record or has one too many |

| Actions | Code |
|---|---|
| `StartEnable`, `Insert`, `AcceptToken`, `Write`, `WriteUnacknowledged`, `Count`, `InsertConfig`, `Finish` | `enableHosted`: a record is created (or its answer lost), then counted |
| `EnableFails`, `Undo`, `UndoFails`, `Uncount`, `UncountFails`, `DeleteRow`, `DeleteRowFails` | its catch block: records last one first, each counted off after it went, then the rows; each failure passed over |
| `StartRotate`, `Retarget`, `AcceptRotated`, `GraceEnds` | `rotateHostedToken`, the 72 hours of the old token |
| `StartRemoval`, `Remove`, `Uncount`, `Removed`, `DeleteRow`, `ForgetConfig` | `disableHosted` and `removeHostedMtaSts` (operation `trim`) |
| `Abort`, `ListZone`, `Observe` | a failed statement outside a try, or a dead isolate; the daily count |

The model narrows: one workspace and one zone; at most one token generation per request; pointers (CNAMEs in the
customer's DNS), hosted SPF, canaries and the policy host are left out; a Cloudflare id is the hosted id and the kind;
the daily listing is one step, whatever its pages. A call and its count are two steps, and the daily count can list or
store between them. `CountExact` therefore says what the count is between the two as well (`ToCount`, `ToUncount`), and
a daily count that came between, or that listed an older zone, sets `drifted`: the record is then counted once more, and
the count is off by one until the next day.

### Membership and the code

| Variable | Code |
|---|---|
| `accounts`, `spaces`, `role` | `users`, `workspaces`, `memberships` |
| `invite[i]` | an `invitations` row: pending, or used, revoked or expired |
| `act[r]` | the next statement of a request and what it has read: the membership it acts under, the people or workspaces it still has to delete |
| `raced` | history: workspaces whose ownership was handed to someone whom another request was taking out |

| Actions | Code |
|---|---|
| `Setup`, `ClaimOwnership`, `Forget` | first sign-up, the conditional insert of the owner, undoing a lost claim |
| `StartCreate`, `Create`; `StartInvite`, `SendInvite` | a new workspace; an invitation |
| `StartAccept`, `CreateAccount`, `SpendInvite`, `Join`, `InviteEnds` | accepting one, with or without an account; its expiry or revocation |
| `StartLeave`, `LeaveWorkspace`, `StartTransfer`, `Transfer` | the two conditional statements of `queries/workspaces.ts` |
| `StartRemove`, `RemoveMember`, `RemoveLogin`, `RemoveOrphan`, `RevokeInvites` | removing a member, deleting the login that has no workspace left |
| `StartEraseWorkspace`, `StartDeleteAccount`, `ListMembers`, `EraseWorkspace`, `DeleteOrphan`, `DeleteUser`, `Abort` | erasing a workspace, deleting an account with the workspaces it owns alone |

The model narrows: a self-hosted instance (no OAuth sign-up); a new workspace or account gets a new id, so a deleted
one is not made again while a request holds its id (`Unused`, `Forgotten`); the reads behind `impactOf` are one step;
the legacy column `users.role` and the other rows of an erased workspace are left out. Outcomes the model shows and
no property excludes: a removed member with a second invitation can join again; an invitation of a removed admin that
is inserted after `revokeInvitesBy` stays; two simultaneous departures can leave a user in no workspace; deleting an
account can purge a workspace that someone joined after the check.

### Funnel and the code

| Variable | Code |
|---|---|
| `lead[e]`, `created` | the `leads` row of an address, with days instead of times; the last id |
| `suppressed`, `checked`, `leaving` | the suppression list; an enrolment between its check and its upsert; an unsubscription between its two statements |
| `booking` | whether `BOOKING_URL` is set |
| `run[r]`, `ran` | a run: the await it is at and the leads it read; whether the cron ran today |
| `sent`, `faults` | history: mails per lead; faults so far |

| Actions | Code |
|---|---|
| `StartEnroll`, `Enroll`, `EnrollAgain`, `EnrollFails` | `enroll.ts`: the suppression check, the upsert |
| `Unsubscribe`, `Forget`, `ForgetFails`, `StopLead`, `Expire` | leaving by the link, a stop by hand, retention |
| `StartRun`, `Drop`, `Convert`, `Hold`, `Proceed`, `Advance` | `sequence.ts`: the leads that are due, and what is decided about each |
| `Vet`, `Send`, `SendUnclear`, `Bounce`, `Suppress`, `Refuse`, `Restore`, `Die` | the mailer's suppression check, the outcomes of a send, putting a lead back |

The model narrows: replied, booked and converted are one status `stopped`; monitor subscriptions, readiness blockers,
tokens and the texts are left out; `Day` needs the day's run to have happened if a lead is due, or counts a fault. A
suppressed lead leaves at the next run that takes it, a mail may go out between the mailer's check and an unsubscribe,
and a crash between advancing and sending loses one mail, as the code intends.

### Domains and the code

| Variable | Code |
|---|---|
| `rows`, `inserted` | `domains` by id, with `evicted_at`, the parent and `dns_record_id`; `upto` is history: the last id when the eviction read the tree |
| `claims` | `domain_claims`, per workspace and name |
| `zone`, `issued` | the authorisation records at Cloudflare; how many were made |
| `req[q]` | the await at which a request stands, with the tree it read |
| `stray`, `late`, `faults` | history: records whose removal failed or that two requests dealt with; claims entered after the name was proven; faults |

| Actions | Code |
|---|---|
| `StartAdd`, `StartVerify`, `Taken`, `Proven`, `Unproven`, `ReadClaim`, `CountClaims`, `Upsert`, `GiveUp` | `ownership.ts`: entering a claim, checking its proof |
| `FindHolder`, `Clean`, `CleanFails`, `Detach` | `evictDomain`: the tree of the holder, its records, children first |
| `NotSetUp`, `FindParent`, `Insert`, `Settle`, `Lose` | `createVerifiedDomain`, then settling the claims |
| `StartProvision`, `Publish`, `PublishFails`, `Store` | `provision.ts` |
| `StartDelete`, `Drop`, `Unpublish`, `UnpublishFails`, `Purge`, `Die` | deleting a domain, the retention of evicted ones |

The model narrows: what DNS answers to a proof is open; the base-domain path and bulk import take the same steps; a
subdomain has no subdomains. Outcomes the model shows: the limit on pending claims can be passed by the requests at
work at the same time, less one; two evictions of one tree detach a row twice and renew `evicted_at`; an eviction
happens before `createVerifiedDomain` finds that no reports domain is configured; a proven child goes with its
unproven parent, as the code intends; a claim entered after the winner settled stays pending. A workspace that adds a
name it holds already needs no proof (`existing`) and normally fails at the unique name; when its unproven row is
evicted or deleted in between, the insert succeeds, and the row counts as proven.

### Offboarding and the code

| Variable | Code |
|---|---|
| `workspace`, `row` | the workspace's row; `cloudflare_connections`: the grant each connection holds |
| `flow`, `used`, `clock` | a signed state; its used marker in `settings`; the seconds of a day |
| `live`, `got` | the grants Cloudflare honours; grants issued |
| `req[r]` | a callback, a disconnect or an erasure: its next step and what it holds |
| `tombs`, `cron`, `ran` | `revocation_tombstones`; the daily run |
| `spent`, `dropped`, `crowded`, `calls`, `faults` | history: exchanges per state; grants the code let go of; a run with more tombstones than it lists; requests; faults |

| Actions | Code |
|---|---|
| `StartFlow`, `StartCallback`, `SweepUsed`, `Claim`, `Exchange`, `Refused` | `oauth/start`, the callback up to the exchange |
| `Insert`, `ReadConnection`, `CheckAccount`, `Reactivate` | `addOAuth`: a new row, or the replacement of a grant |
| `StartDisconnect`, `StartErase`, `NextConnection`, `Revoke`, `Keep`, `Drop`, `Purge`, `Die` | disconnecting and erasing |
| `StartRun`, `GiveUp`, `Retry`, `Bury`, `Note`, `RunDies`, `Tick`, `Day` | `lifecycle/revoke.ts`, time |

The model narrows: pasted tokens, zones and the signature of the state are left out; runs do not overlap; `Day` passes
when no request is at work. Outcomes the model names (`dropped`) instead of excluding them: reconnecting overwrites the
old grant without revoking it; a disconnect drops a grant whose revocation is not confirmed, by its own comment; a grant
whose replaced connection vanished is neither kept nor given back; a connection that a callback inserts during an
erasure is purged unrevoked. Beyond 100 tombstones the newer ones can reach their 30 days untried (`crowded`).

### Reports and the code

| Variable | Code |
|---|---|
| `row` | `aggregate_reports` with the number of its `report_records` and whether it has raw XML |
| `age` | days since the end of the period a report is about |
| `req[h]` | a mail handler in `storeReport` |
| `sweep`, `clean`, `ran`, `others` | the retention run: next statement, budget, tables reported clean; the tables swept after reports |
| `mails`, `taken`, `swept`, `torn`, `crossed`, `faults` | history: first-report mails, deliveries, deleted reports, reports without records, two at once, faults |

| Actions | Code |
|---|---|
| `Deliver`, `Records`, `Count`, `Mail`, `Die` | the insert with its unique key, the records, the count, the mail |
| `StartRun`, `SweepRecords`, `SweepReports`, `ClearRaw`, `SweepOthers`, `Truncate`, `SweepFails`, `Day` | `retention.ts` and `global-lifecycle.ts`, a statement at a time |

The model narrows: one domain; nine sweeps of one statement each stand as one table `others`; TLS reports, one upsert,
are left out. Outcomes the model shows: when the records fail after the report's row was inserted (`torn`), a redelivery
is a duplicate and does not repair it; two reports stored at once may each count the other, and no mail goes out
(`crossed`); after retention deleted the reports the mail can be sent again.

### MailRecords and the code

| Variable | Code |
|---|---|
| `domain` | whether its row in `domains` is there |
| `spf`, `texts`, `ranges` | the domain's SPF record in its zone: the text it stems from and, if flat, the ranges it lists; the last text written; what the providers publish now |
| `flattening` | `spf_flatten_config`: `canonical_record`, and whether `cf_record_id` is known |
| `zone`, `created` | the `_mta-sts`, `_smtp._tls` and `mta-sts` records; how many were made |
| `policy`, `mx`, `clock` | `mta_sts_config`: mode, MX hosts, `policy_id`, record ids; the domain's MX hosts; the second a policy id is made of |
| `cache` | what a sending server fetched last (`index.ts:110`), and under which id |
| `req[r]` | the await at which a request or job stands, with what it read |
| `spoiled`, `stray`, `hasty`, `last`, `faults` | history: the ways in which a text gets lost; records left without a row; two policy ids of one second, and the last one; faults |

| Actions | Code |
|---|---|
| `StartFlatten`, `StartRefresh`, `Find`, `Collect`, `Publish`, `Keep`, `Result`, `FlattenFails`, `KeepError`, `KeepRefused` | `POST spf-flatten` and the daily job over `flattenSpf`; a row refused by the foreign key |
| `StartRestore`, `Restore`, `RestoreFails`, `ForgetFlattening` | `DELETE spf-flatten` |
| `StartApply`, `Apply`, `CustomerEdits`, `ProvidersChange` | the wizard's edit, refused while flattened; edits elsewhere; the providers |
| `StartEnable`, `Create`, `CreateFails`, `Insert` | `POST mta-sts`: `provisionMtaSts`, a record at a time, then the row |
| `StartUpdate`, `Announce`, `AnnounceFails`, `Change` | `PATCH mta-sts` and the daily MX job: the TXT record, then the row |
| `StartDisable`, `Deprovision`, `Remove` | `DELETE mta-sts` |
| `Delete` | `domains.delete`: of one domain, of a workspace, of a domain evicted 30 days ago; both rows go by cascade, the zone stays |
| `Fetch`, `MxChange`, `Tick`, `Die` | a sending server, DNS, time, a statement that throws or a dead isolate |

The model narrows: one domain, not hosted; a record is in the domain's own zone; the DNS the code asks is as fresh as
the zone; mechanisms that flattening keeps verbatim are part of the text. `OneFeature` follows SPF and MTA-STS one at
a time, as they share no row but the domain's. A deleted domain that is added again is not followed: it starts without
rows, in a zone that may still have the old records. Nor is the eviction of a domain, which only ends what can begin
on it; what drops the rows is the deletion 30 days later. `OriginalKept` and `RecordsAccounted` speak of a domain that
is not deleted: `Delete` leaves the records in the zone and drops the text (see the remarks). Outcomes the model names instead of
excluding them: a flat domain that is flattened once more overwrites the customer's record with the flat one (`upsert`
sets `canonical_record`, and the route does not refuse it); a failed restore deletes the row that holds the text; a
patch that took effect although it failed leaves a row without `cf_record_id`, and disabling then skips the restore; a
daily refresh that meets a disabling publishes the flat record again after the row has gone. Enabling MTA-STS that
fails half way leaves records that make each retry fail at the TLS-RPT record. A sender that fetches between the
announcement and the change keeps the old policy under the new id until it expires, and two updates within a second
share an id.

## Runs

| Run | Instance | Shows |
|---|---|---|
| `tokens_refresh` | 2 isolates, 2 grants, 3 pairs, 1 key, OAuth | `Custody`, `AlertsBounded`, `ImplementsContract` |
| `tokens_live` | 2 isolates, 1 grant, 2 pairs, 2 deploys with different keys, OAuth on the first one only; OAuth and pasted tokens | `TypeOK`, `KeysMoveForward`, and under fairness `CallEnds` |
| `reseal_race` | 2 isolates, 2 keys | a counterexample to `LoserAdoptsAnUnspentPair` |
| `intake_quota` | 2 mails at a time and 4 in all, of 2 sizes; 1 known, 2 unknown, 3 claimed reporters; 1 slot of each kind | `UnknownWithinTotal`, `OwnAllowance`, `NoSharedAllowance`, `ClaimedSlotsBounded` |
| `hosted_records` | 2 requests, 3 domains, 3 ids, cap 1, room for 5 records | `NothingLeftBehind`, `PublishedIsAccepted`, `CountExact`, `CapBounded` |
| `membership` | 3 users, 2 workspaces, 2 invitations, 2 requests | `TypeOK` with the foreign keys, `OneOwner`, `OwnedUnlessRaced`, `OnlyOrphansGo` |
| `funnel` | 2 addresses, 2 overlapping runs, 2 steps, the second one held without a booking link, 1 lead per run, 1 fault | `EachStepOnce`, `NotStarved`, `StopHolds` |
| `domains` | 2 workspaces, a domain and its subdomain held unproven by one of them, 2 requests, 1 more row, 1 fault | `TypeOK`, `NoStrayChild`, `OthersLost`, `RecordsAccounted`, `OnlyUnprovenLose` |
| `offboarding` | 2 requests and 3 in all, 1 authorization, 2 grants, 2 days of retries, 2 tombstones of which a run lists 1, 1 fault | `TypeOK`, `StateSpentOnce`, `NothingForgotten`, `GivenUpLate`, and under fairness `TombstonesEnd` |
| `reports` | 2 handlers, 2 keys, 3 deliveries, 2 records each, a window of 2 days, 4 statements a run, 1 fault | `TypeOK`, `RecordsComplete`, `FirstMailOnce`, `SweepHonest`, and under fairness `Drained` |
| `mail_records` | 2 requests or jobs, 2 texts, 2 versions of the ranges, 2 of the MX hosts, 4 records, 2 seconds, 1 fault | `TypeOK`, `OriginalKept`, `RecordsAccounted`, `SendersCurrent` |
| `spf_refresh` | 1 request or job, 2 versions of the ranges, no fault | a counterexample to `RefreshFollowsProviders` |

Bounds. Every race of the code is between two of its actors: two isolates or requests, or one of them and the owner or
the cron; so two are enough to meet, and what they meet in takes one or two rows. In the connections three pairs let a
refresh follow a refresh; two grants let a whole life of a connection, alert included, be followed by another; two
deploys give a reader with the old key and a writer with the new one. In `intake_quota` one slot makes every second
unknown reporter evict the first, limits of one to three messages are reached by four, and three claimed senders make
one overflow while two race for the slot. `TotalBytes` is below `MaxBytes` on purpose: the first message of a day is
inserted without asking the total, which is why `UnknownWithinTotal` bounds the bytes by the larger of the two. In
`hosted_records` three ids let a domain be enabled and rotated twice, the limit of five records is just one domain
with MTA-STS, and cap one is passed by two requests. In `membership` two owners are two of three users, and the third
one is removed, invited or erases his account meanwhile. In `funnel` a limit of one lead makes the second address
wait; `Late` exceeds the bound of `NotStarved`, so the saturation is not what keeps it. In `domains` the holder's tree
has the domain and the subdomain, and one row can still be inserted below. In `offboarding` two tombstones and a list
of one meet `crowded`. In `reports` four statements clear neither two tables at a time nor always one. In
`mail_records` four records are those of one enabling and the first one of another that meets it, and two seconds give
one update an id of its own and the next one the same.

`TypeOK` of `IntakeQuota`, `HostedRecords` and `Funnel` is proved and not run.

State constraints keep some runs within minutes: `FewFaults`, `NoneKilled` and `OwnerOrDeploy` (connections),
`FewDisturbances` (`hosted_records`), `OneFeature` (`mail_records`), `NotRacedBefore` (`membership`), `OneConcern`
(`domains`), `TwoAtATime` (`offboarding`, `reports`). Each bounds how many faults or concerns of a behaviour combine
and is explained in its MC module. The theorems have no such bounds. `CONSTRAINT` and liveness: the constrained runs
with fairness are three. `TwoAtATime` leaves out behaviours in which a third actor starts while two are at work, not
the steps of those two; `OwnerOrDeploy` leaves out those in which the owner acts although there are two deployments,
and neither the owner nor a deployment is fair. So an actor that must go on is never cut short.

Fairness. `ConnectionTokens!FairSpec` says that an isolate with a call in progress goes on with it: D1 statements and
fetches settle and timers fire, as the platform guarantees while a request runs. For a refresh in flight that includes
giving up. Nobody must make calls, nothing must succeed, and no action of the owner or of the world is fair.
`tokens_live` leaves out the access tokens revoked alone (`NoneKilled`): the half of a disconnect that does not end the
grant. `Offboarding!FairSpec` and `Reports!FairSpec` say the same of requests and handlers (`Step`), and that the daily
trigger fires (`Run`) and days pass (`Day`), as the Worker's cron schedule does. Deaths and failures are not fair and
are bounded by `MaxFaults`: a run that dies every day would drain nothing.

Deadlock. In the connections every state has a step (a client can always be built), so deadlock stays checked in their
three runs. The other runs end when the messages, ids, rows, calls or invitations of their bounds are used up, so there it
is not.

## What is proved

For all numbers of isolates, grants, pairs, deploys and keys, from the assumptions that `ConnectionTokens` names
(`BoundsAssumption`, `ConfigAssumption`, `NoneAssumption`):

| Theorem | Statement |
|---|---|
| `TypeCorrect` | `Spec => []TypeOK` |
| `RowImplementsContract` | `Spec => Contract!Spec`: every step moves the row as the contract allows, or leaves it |
| `KeysNeverGoBack` | within a grant the envelope's key never becomes older |
| `NewestPairIsKept` | with one encryption key (`MaxDeploy = 1`), the newest pair of a live grant is in the row or in the hands of an isolate whose swap will succeed, unless its holder died |
| `OneAlertPerGrant` | alerts sent, plus those being sent, plus the one an active row may still cause, never exceed the grants connected |

The argument. None of these is inductive alone. `IInv` adds what the code relies on without saying so. An envelope that
an isolate has open is never ahead of the row (`BehindRow`), so a swap that succeeds replaces what was read and nothing
newer. A pair in hand is the direct successor of the one opened, and was issued (`FreshFollows`), so a swap moves
the pair forward by one. The grant an owner brings is newer than the stored one and unused (`OwnerAhead`), so a
reconnect is a step forward as well. `HoldsWhatItUses` and `PinnedWhileOpen` tie the control point to the caches. Each
action has a lemma that it preserves `IInv`. `Custody` and `AlertsBounded` are then inductive relative to it. Refinement
and the key order are step properties that hold in every step from `IInv`.

For all numbers of handlers, all sets of reporters and all positive limits, from `KeysAssumption`, `FiniteAssumption` and
`LimitsAssumption` of `IntakeQuota`:

| Theorem | Statement |
|---|---|
| `QuotaTypeCorrect` | `Spec => []TypeOK`: no refund makes a counter negative |
| `UnknownReportersCapped` | what all unknown reporters got accepted in a day is within the total |
| `AllowanceKept` | a reporter that kept its slot got no more than its allowance |
| `AllowanceNotShared` | nobody's messages are counted in another's row |
| `ClaimedRowsBounded` | claimed senders have at most `ClaimedSlots - 1` rows plus one per handler at work |

The argument counts handlers. `QInv` says that a row which was never deleted counts what was accepted plus the handlers
that have charged it and not finished (`OwnCounts`), so a refund never takes back more than its own message; that a
row counts at most what was sent less what is still on its way (`SentCounts`); and that claimed rows plus the handlers
about to insert one are bounded (`SlotsCount`): such a handler saw a free slot, and at that moment all handlers
together can add one row each. `SoundHandler` supplies that only unknown reporters reach the statements on slots and
the total; well-known ones skip the slots, which is why `CountSlots` may send the others on to an eviction.

The slots of proven reporters have no such bound, and none is proved: two handlers that pick the same victim free one
slot and add two rows, and the surplus stays for the day. The comment at `queries/intake.ts:54` calls the bound best
effort.

`WorkspaceProofs` holds the theorems of two modules. For all numbers of requests, authorizations, grants, tombstones,
days and faults, from `BoundsAssumption` (the bounds are numbers, the requests at work finitely many):

| Theorem | Statement |
|---|---|
| `OffboardingTypes` | `Spec => []TypeOK`, the foreign keys of rows and markers included |
| `SpentOnce` | `StateSpentOnce`: a state is exchanged at most once |
| `GrantsRemembered` | `NothingForgotten`: a grant that is honoured has a row, a callback or a tombstone, or the code let go of it (`dropped`) |
| `TriedEachDay` | `GivenUpLate`: a tombstone of a grant still honoured is given up only after a try a day, less the faults, while a run lists them all |

Of the invariant's four parts, `Data` is what a request holds at each of its steps. `SpentOnce` needs to know why a
marker that was swept does no harm: a request is at `claim` only within `Slack` of the second its state was verified
(`Timing`), and a state that was spent is `Closed`, that is its marker outlives it, or it has expired with nobody about
to claim it, or the workspace is gone (`Spending`). `GrantsRemembered` needs, besides itself, that a callback's grant is
its own and no connection is named after it yet (`Owns`), that whoever takes a connection away holds the grant of its
row unless that was let go of (`Leaves`), and that a tombstone about to be deleted is not needed (`Buried`): then a row
loses only grants that are `Settled`. `TriedEachDay` needs that a tombstone is at most a day older than its tries and
the faults, and no older once the run of the day has dealt with it (`Aging`); that a run which lists no more than
`Limit` of them lists all of them is a fact about cardinalities (`StartRunAging`).

For all numbers of users, workspaces, invitations and requests, from no assumption on the constants (the names of
`Membership` begin with `Team` where both modules have one, so that `WorkspaceProofs` can extend both):

| Theorem | Statement |
|---|---|
| `MembershipTypes` | `TeamSpec => []TeamTypeOK`, the foreign keys of memberships included |
| `AtMostOneOwner` | no workspace ever has two owners |
| `OwnersRemain` | `OwnedUnlessRaced`: a workspace with members keeps an owner, unless two requests met (`raced`) |
| `OrphansOnly` | `OnlyOrphansGo`: a request deletes somebody else's login only when it belonged to no workspace |

`MInv` has two halves. `Stored` is what the tables hold; `Control` is what a request between two of its statements has
made sure of: it never erases the default workspace, an invitation never makes an owner. A conditional statement needs
`Stored` only, because it re-reads what it depends on; that is why a stale request does no harm here.

`OwnersRemain` needs `OInv` on top of it: nobody else is at work on a user who is just signing in (`SignUps`), who is
about to be removed does not own the workspace (`Removals`), a user being deleted owns only workspaces that are still to
be erased (`Deletions`), and a workspace somebody has come into has an owner (`Ruled`).

For any number of addresses, steps, overlapping runs, leads per run and faults, from `FunnelAssumption`, in
`FunnelProofs`:

| Theorem | Statement |
|---|---|
| `FunnelTypes` | `Spec => []TypeOK` |
| `NoStepTwice` | `EachStepOnce`: no lead is sent a step twice |
| `StopsHold` | `StopHolds`: a lead that is stopped stays stopped |
| `NobodyStarves` | `NotStarved`: a lead that is due waits fewer days than there are addresses and were faults |

`FInv` says that what a run holds is a row as it once was (`Copies`), that a row only moves on (`Moved`), that of all
runs which advanced a lead at most one has the lead in hand (`OneHand`), and that the mails sent are behind the row
(`Behind`). The compare-and-swap on the step then makes `EachStepOnce` inductive.

`NobodyStarves` counts. `Front(c)` is who is as old as the lead that was read as `c`, or older, or about to be put back;
`Wait(c, k)` bounds its size plus the days waited by the addresses and the faults, with `k - 1` days to spare. `Patient`
says that whoever is due has the day to come covered, and, once a run started today, a spare day too or a run's
`Promise` to serve it or somebody in its front. Keeping a promise takes one out of the front, a fault pays for one that
is broken, and `Day` spends the spare day. Why a run that reaches a lead either serves it or finds it served is `Queue`:
a row that is due is what any run has read of it (`Fresh`), all runs of a day read the same (`Agree`), oldest first
(`Sorted`). `Late`, where the model stops counting days, is no premise: either it is smaller than the bound, or it is
never reached.

For any number of handlers, keys, deliveries, tables, statements and faults, from `BoundsAssumption`, in
`ReportsProofs`:

| Theorem | Statement |
|---|---|
| `ReportsTypes` | `Spec => []TypeOK` |
| `RecordsKept` | `RecordsComplete`: a stored report has all its records, or is one whose insertion was cut short |
| `FirstMailIsOne` | `FirstMailOnce`: one first-report mail, and one more for each time that retention emptied the table |
| `HonestSweeps` | `SweepHonest`: a sweep says "clean" only of tables without a backlog |

`FirstMailOnce` needs a count: mails and mailing handlers are at most the reports swept plus one, and with the handlers
at work at most those swept and stored (`Counted`). `Alone` says what a handler knows that no other one has crossed.

For any number of requests, workspaces, rows, records and faults, and any tree of names one level deep, from
`LegacyAssumption`, in `DomainsProofs`:

| Theorem | Statement |
|---|---|
| `DomainsTypes` | `Spec => []TypeOK` |
| `NoChildLeft` | `NoStrayChild`: an eviction leaves no child attached, but for one inserted after it read the tree |
| `ClaimsLost` | `OthersLost`: once a name is proven, the claims of others on it are lost |
| `UnprovenLose` | `OnlyUnprovenLose`: nobody who proved a name is evicted from it |
| `NoRecordForgotten` | `RecordsAccounted`: each authorisation record is in a row, in the hands of a request, or known to be stray |

`Core` holds the shapes of requests, ids in order of insertion, and what the reader of a tree knows about it (`Seen`,
`Trees`, `Found`). `Ledger` keeps the books of the records and is inductive relative to `Core`.

For any number of requests, domains, ids and faults and any cap, from `BoundsAssumption`, in `HostedRecordsProofs`:

| Theorem | Statement |
|---|---|
| `HostedTypes` | `Spec => []TypeOK` |
| `CapKept` | `CapBounded`: the cap is passed by at most the requests at work at once, less one |
| `CountKept` | `CountExact`: between every call and its count, the stored count is right unless `drifted` |
| `AllOrNothing` | `NothingLeftBehind`: an enabling that failed leaves neither rows nor records, unless its clean-up failed too |
| `PublishedThenAccepted` | `PublishedIsAccepted`: a published report address is accepted, unless a rotation stopped half way or two requests met on the domain |

`CapKept` counts hosted domains and inserts that wait (`Full`). The others are a statement about each domain that no
failed clean-up and no encounter of two requests has touched (`Sound`): who works on it works alone, and each place of
the request says which records and rows exist by then (`Relies`, `Took`). `CountKept` needs two more facts: the id of an
enabling is in no row and in no other request (`Fresh`), and the record it has still to count is in the zone (`Present`),
so nobody can have removed it before it was counted.

For any number of requests or jobs, texts, ranges, records, seconds and faults, from `MailAssumption`, in
`MailRecordsProofs`:

| Theorem | Statement |
|---|---|
| `MailTypes` | `Spec => []TypeOK`: no policy without MX hosts, no record number twice |
| `OriginalIsKept` | `OriginalKept`: until the domain is deleted |
| `NoRecordLost` | `RecordsAccounted`: until the domain is deleted |
| `SendersFollow` | `SendersCurrent` |

Each of the four has its own invariant on top of the types. `SpfInv`: while the text has not slipped away, nobody
restores beside a flattening, and every text held by a request, in the row or in the zone is the same one (`HoldsText`,
`HoldsOriginal`). `Ledger`: records are numbered in order, an enabling has made those before its next step and none
after (`Progress`), and what a removal has deleted is not there (`Deleted`). `Senders`: the ids at work are pairwise
different and different from every id that is public (`Ids`, `Unique`), each request knows a TXT record of its own
(`Own`), and while the record shows the cached id, no update on it has announced yet and the cached policy is the one in
the row (`Fetched`). `Unique` is what `hasty` takes away: an id is a second. They are kept while the domain is held; once it
is gone it stays so, and there is no row any more (`Cascaded`).

### Only model-checked

- Liveness, which is out of the prover's reach as it has no rules for fairness and ENABLED: `CallEnds`, `TombstonesEnd`,
  `Drained`.
- The two disagreements below, which are counterexamples. `NewestPairIsKept` needs its one-key assumption: with two keys
  `reseal_race` shows how it fails.

No model has a recursive operator, and nothing is proved by induction over data: sequences of steps are the only
recursion here.

## Where code and comments disagree

Two runs are counterexamples:

- `reseal_race`. `service.ts:452` says of a lost swap "Lost the race to another writer: theirs is the valid one now."
  While keys rotate, the other writer may only have re-sealed the pair that this refresh has just spent. The fresh pair
  is dropped, the row keeps a spent refresh token, and the connection breaks at its next refresh.
- `spf_refresh`. `SpfFlattenPage.tsx:169` tells the customer "so if your mail providers add or change IPs the record
  updates itself". The daily job (`cron.ts:97`) resolves the domain's live record (`collectIps` at
  `spf-flattener.ts:145`), which is flat already and has no include left; the stored canonical record is not read. The
  job for hosted domains (`hosted/cron.ts`) starts from the stored source.

Remarks met while modelling, without a run of their own:

- A late refusal of an old grant breaks the connection that the owner has just reconnected: `markBroken`
  (`queries/connections.ts:118`) asks for the status only, while `docs/cloudflare-oauth.md:85` speaks of the connection
  whose refresh was refused.
- The header of `connections/service.ts` (line 8) says a second 401 marks the connection broken; the client raises
  `CfAuthError` and the row stays active. `docs/cloudflare-oauth.md:259` says a connection whose key was dropped turns
  `broken`; `#open` rethrows, as line 82 of the same page says. A grant counts as revoked when one of its two
  revocations succeeds (`first || second`, `service.ts:507`), the refresh token's or the access token's, against
  `service.ts:286`.
- `hosted/service.ts:224` says a published address is always accepted; a rotation that stops half way (`torn`) breaks
  that. `router.ts:349` says "nothing is orphaned"; a disabling that meets another request on the domain can leave
  records, and one that meets a rotation makes the token's row again. A failed deletion is counted off all the same.
- `account/routes.ts:5` and `router.ts:1608` assume that a workspace keeps its owner; ownership handed to someone whom
  another request is just deleting or removing leaves it without one (`raced`).
- A report whose records fail after its row was inserted is never repaired by redelivery (`dmarc-report.ts:124`). Two
  reports stored at once may send no first-report mail.
- A child inserted between the reading of a tree and its detachment stays attached (`ownership.ts:125`).
- `WorkspaceSection.tsx:113` tells an owner that deleting the workspace removes its domains "(and the DNS records Inbox
  Angel added for them)", and `router.ts:349` says "nothing is orphaned". `deleteDomain` removes the records of a hosted
  domain and the authorisation record. For MTA-STS in the customer's own zone it drops the row with the ids by cascade
  (`router.ts:357`), and the three records stay: one request, no fault (`Delete` in `MailRecords`). In the same way the
  flat SPF record stays and the customer's original text is gone with its row.
- Flattening a flat domain again overwrites the customer's record with the flat one. "Non-fatal — delete config anyway
  so user can retry" in `router.ts`: what could be retried with goes with the row. `router.ts:1217` says the next cron
  run would overwrite a wizard's edit; the job reads the live record and would take it up.
- `generatePolicyId` has a resolution of one second. `hosted/service.ts:289` explains why an id must be new; the PATCH of
  a domain that is not hosted does not use `nextPolicyId`. Its id is announced before the row changes, so a sender that
  fetches in between keeps the old policy for a day, against "(after mode or MX change)" at `mta-sts.ts:273`.

## Not modelled

Tenancy and its sharding, parsing of reports, DMARC rollout advice, analytics, the digest, the free check, setup of
e-mail routing, telemetry, the DNS checks, the database package, the web dashboard, the operator's tools. Most of their
code, which is most of the repository's, validates input, reads and formats; an action on it would have one step and
nothing to interleave with. The map therefore stays near a tenth of the implementation's lines: the state machines of
the system are there, their surroundings are not. Each module's section above says what it narrows.

## Plan

1. The monitor's baselines and alerts (`cron.ts:211`): a change is stored before it is announced.
2. The rest of the mail records: the TLS-RPT routes, records in the legacy base zone.
3. The zone allow-list and the write policy (`policyFor`, `zoneFor`) as pure operators against a reference definition.
4. The relay and the monitor's opt-in: signed, single-use links.
5. Pure algorithms over bounded inputs: the DMARC rollout advice, the counting of SPF lookups.
