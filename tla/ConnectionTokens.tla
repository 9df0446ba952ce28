-------------------------- MODULE ConnectionTokens --------------------------
(***************************************************************************)
(* The token life of ONE Cloudflare connection of one workspace: the row   *)
(* in D1, the authorization server behind it, the Worker isolates that     *)
(* open, re-seal and refresh its tokens at the same time, and the owner    *)
(* who reconnects or disconnects it (src/connections/service.ts and        *)
(* packages/db/src/queries/connections.ts).                                *)
(*                                                                         *)
(* One action is the code between two awaits: a D1 statement, a call to    *)
(* Cloudflare, or a sleep ends it.  An isolate stands for one              *)
(* ConnectionService instance making one Cloudflare API call at a time;    *)
(* concurrent calls of one instance share the opened envelope and the      *)
(* in-flight refresh (#opened, #refreshing), so they move together.        *)
(***************************************************************************)
EXTENDS Integers, FiniteSets

CONSTANTS
    Isolates,     \* ConnectionService instances that may use the connection
    None,         \* no opened envelope / no token pair in hand
    MaxGrants,    \* bound: authorizations the owner gives, the first one included
    MaxPairs,     \* bound: token pairs issued for one grant
    MaxDeploy,    \* bound: deploys; deploy d seals with encryption key d
    KeysKept,     \* how many keys TOKEN_ENCRYPTION_KEY lists, newest first
    OAuthDeploys, \* the deploys on which OAuth is configured
    AuthTypes     \* how the connection was made: "oauth", "token" or either

Grants  == 1 .. MaxGrants
Deploys == 1 .. MaxDeploy

\* The n-th token pair of a grant.  A pasted API token is pair 1 of its "grant".
Pair == [grant : Grants, n : 1 .. MaxPairs]

\* A sealed envelope: the pair and the id of the key that sealed it.
Envelope == [pair : Pair, key : Deploys]

ASSUME BoundsAssumption ==
    /\ MaxGrants \in Nat \ {0}
    /\ MaxPairs  \in Nat \ {0}
    /\ MaxDeploy \in Nat \ {0}
    /\ KeysKept  \in Nat \ {0}

ASSUME ConfigAssumption ==
    /\ OAuthDeploys \subseteq Deploys
    /\ AuthTypes \subseteq {"oauth", "token"}
    /\ IsFiniteSet(Isolates)

ASSUME NoneAssumption == None \notin Pair /\ None \notin Envelope

VARIABLES
    row,      \* the cloudflare_connections row: auth type, status, envelope
    ctl,      \* per isolate: where its current call stands
    opened,   \* per isolate: the opened envelope it caches (#opened), or None
    pinned,   \* per isolate: the pair its CfClient kept after a retried 401, or None
    dep,      \* per isolate: the deploy (configuration) it runs
    deploy,   \* the newest deploy
    owner,    \* the owner's reconnect or disconnect request in progress
    issued,   \* authorization server: pairs issued per grant (0: grant not given)
    revoked,  \* authorization server: grants that are revoked
    killed,   \* authorization server: pairs whose access token alone was revoked
    expired,  \* per grant: its pairs 1 .. expired[g] have an access token past its expiry
    lost,     \* history: grants whose newest pair vanished before it was stored
    alerts    \* history: "connection broken" alerts sent

serverVars == <<issued, revoked, killed, expired>>
isoVars    == <<ctl, opened, pinned, dep>>
vars == <<row, ctl, opened, pinned, dep, deploy, owner,
          issued, revoked, killed, expired, lost, alerts>>

-----------------------------------------------------------------------------
(* An isolate's control: `at` is the await it stands at, `goal` why it      *)
(* wants a token (first send, a 401 to answer, the forced refresh after     *)
(* it), `polls` the re-reads made after a refused refresh, `fresh` the pair *)
(* the server just issued and that is not stored yet.                       *)

Places == {"off", "idle", "token", "reseal", "refresh", "asking", "poll",
           "store", "reread", "send", "resend", "unauth", "break", "alert"}

Control == [at : Places, goal : {"send", "unauth", "forced"},
            polls : 0 .. 2, fresh : Pair \cup {None}]

At(place) == [at |-> place, goal |-> "send", polls |-> 0, fresh |-> None]

Goto(p, place) == ctl' = [ctl EXCEPT ![p].at = place]
Finish(p)      == ctl' = [ctl EXCEPT ![p] = At("idle")]

HasRefresh == row.auth = "oauth"

\* TokenCrypto.open: the key id of the envelope is one of the listed keys.
Opens(p, env) == env.key <= dep[p] /\ env.key > dep[p] - KeysKept

\* The authorization server still accepts the refresh token of this pair:
\* refresh tokens are single-use, only the newest pair of a grant has one.
Accepts(t) == t.grant \notin revoked /\ t.n = issued[t.grant]

\* TokenMaterial.expired, on the isolate's clock (60 s before the real expiry).
Expired(t) == t.n <= expired[t.grant]

\* Cloudflare's API accepts the access token, expiry aside.
Works(t) == t.grant \notin revoked /\ t \notin killed

Init ==
    /\ \E a \in AuthTypes :
         row = [auth |-> a, status |-> "active",
                env |-> [pair |-> [grant |-> 1, n |-> 1], key |-> 1]]
    /\ ctl = [p \in Isolates |-> At("off")]
    /\ opened = [p \in Isolates |-> None]
    /\ pinned = [p \in Isolates |-> None]
    /\ dep = [p \in Isolates |-> 1]
    /\ deploy = 1
    /\ owner = [at |-> "idle", env |-> None]
    /\ issued = [g \in Grants |-> IF g = 1 THEN 1 ELSE 0]
    /\ revoked = {}
    /\ killed = {}
    /\ expired = [g \in Grants |-> 0]
    /\ lost = {}
    /\ alerts = 0

-----------------------------------------------------------------------------
(* Getting a token (clientFor, #build, #current, #open)                    *)

\* clientFor / #build: read the row, hand out a client only for an active one.
BuildClient(p) ==
    /\ ctl[p].at = "off"
    /\ \E d \in {dep[p], deploy} : dep' = [dep EXCEPT ![p] = d]
    /\ Goto(p, IF row.status = "active" THEN "idle" ELSE "off")
    /\ UNCHANGED <<row, opened, pinned, deploy, owner, lost, alerts>>
    /\ UNCHANGED serverVars

\* The caller makes an API request: CfClient.#send asks for the bearer, unless
\* an earlier retry left it with a token of its own.
Call(p) ==
    /\ ctl[p].at = "idle"
    /\ Goto(p, IF pinned[p] = None THEN "token" ELSE "send")
    /\ UNCHANGED <<row, opened, pinned, dep, deploy, owner, lost, alerts>>
    /\ UNCHANGED serverVars

\* #open: read the row, refuse a missing or inactive one, open the envelope;
\* one sealed under an older key is re-sealed next.
OpenRow(p) ==
    /\ ctl[p].at = "token"
    /\ opened[p] = None
    /\ IF row.status = "active" /\ Opens(p, row.env)
       THEN /\ opened' = [opened EXCEPT ![p] = row.env]
            /\ Goto(p, IF row.env.key = dep[p] THEN "token" ELSE "reseal")
       ELSE Finish(p) /\ UNCHANGED opened
    /\ UNCHANGED <<row, pinned, dep, deploy, owner, lost, alerts>>
    /\ UNCHANGED serverVars

\* Mutants of CanSwap: a swap that forgets what it read, that compares the
\* tokens and not their envelope, and one refused to a broken connection.
CanSwapAnything(expected)  == row.status # "gone"
CanSwapSamePair(expected)  == row.status # "gone" /\ row.env.pair = expected.pair
CanSwapIfActive(expected)  == row.status = "active" /\ row.env = expected

\* swapEnvelope: UPDATE ... WHERE token_envelope = expected.
CanSwap(expected) == row.status # "gone" /\ row.env = expected
Swap(next) == row' = [row EXCEPT !.env = next]

\* Mutant of Reseal: the new envelope is written whatever the row holds.
ResealBlindly(p) ==
    /\ ctl[p].at = "reseal"
    /\ row.status # "gone"
    /\ Swap([opened[p] EXCEPT !.key = dep[p]])
    /\ opened' = [opened EXCEPT ![p].key = dep[p]]
    /\ Goto(p, "token")
    /\ UNCHANGED <<pinned, dep, deploy, owner, lost, alerts>>
    /\ UNCHANGED serverVars

\* Re-seal under the current key while holding the plaintext.  The write may
\* fail, or succeed and be reported as failed (.catch(() => false)): then the
\* isolate keeps the old envelope although the row holds the new one.
Reseal(p) ==
    /\ ctl[p].at = "reseal"
    /\ LET sealed == [opened[p] EXCEPT !.key = dep[p]]
       IN  \/ /\ CanSwap(opened[p])
              /\ Swap(sealed)
              /\ opened' \in {opened, [opened EXCEPT ![p] = sealed]}
           \/ UNCHANGED <<row, opened>>
    /\ Goto(p, "token")
    /\ UNCHANGED <<pinned, dep, deploy, owner, lost, alerts>>
    /\ UNCHANGED serverVars

\* What an isolate does once it has a token: send, force a refresh to answer a
\* 401, or compare the forced refresh with the token that was refused.
TokenReady(p, env) ==
    ctl' = [ctl EXCEPT ![p] =
        CASE ctl[p].goal = "send"   -> At("send")
          [] ctl[p].goal = "unauth" ->
               IF HasRefresh THEN [At("refresh") EXCEPT !.goal = "forced"] ELSE At("break")
          [] ctl[p].goal = "forced" ->
               IF env.pair # opened[p].pair THEN At("resend") ELSE At("break")]

\* #current with an envelope at hand: use it, or refresh it if it has expired.
UseOpened(p) ==
    /\ ctl[p].at = "token"
    /\ opened[p] # None
    /\ IF HasRefresh /\ Expired(opened[p].pair)
       THEN Goto(p, "refresh")
       ELSE TokenReady(p, opened[p])
    /\ UNCHANGED <<row, opened, pinned, dep, deploy, owner, lost, alerts>>
    /\ UNCHANGED serverVars

-----------------------------------------------------------------------------
(* Refreshing (#doRefresh).  opened[p] is `from`, the envelope refreshed.  *)

\* The row must still exist and OAuth be configured, or the connection breaks.
StartRefresh(p) ==
    /\ ctl[p].at = "refresh"
    /\ CASE row.status = "gone" -> Finish(p)
         [] row.status # "gone" /\ dep[p] \in OAuthDeploys -> Goto(p, "asking")
         [] OTHER -> Goto(p, "break")
    /\ UNCHANGED <<row, opened, pinned, dep, deploy, owner, lost, alerts>>
    /\ UNCHANGED serverVars

\* The authorization server issues the next pair of the grant.
Issue(t) ==
    /\ Accepts(t)
    /\ issued[t.grant] < MaxPairs
    /\ issued' = [issued EXCEPT ![t.grant] = @ + 1]
    /\ UNCHANGED <<revoked, killed, expired>>

RefreshGranted(p) ==
    /\ ctl[p].at = "asking"
    /\ LET t == opened[p].pair
       IN  /\ Issue(t)
           /\ ctl' = [ctl EXCEPT ![p].at = "store",
                                 ![p].fresh = [grant |-> t.grant, n |-> issued[t.grant] + 1]]
    /\ UNCHANGED <<row, opened, pinned, dep, deploy, owner, lost, alerts>>

\* The server rotated the token but its answer never arrives.
AnswerLost(p) ==
    /\ ctl[p].at = "asking"
    /\ Issue(opened[p].pair)
    /\ lost' = lost \cup {opened[p].pair.grant}
    /\ Finish(p)
    /\ UNCHANGED <<row, opened, pinned, dep, deploy, owner, alerts>>

\* A permanent refusal (4xx): somebody may have refreshed first, so re-read.
RefreshRefused(p) ==
    /\ ctl[p].at = "asking"
    /\ ~ Accepts(opened[p].pair)
    /\ Goto(p, "poll")
    /\ UNCHANGED <<row, opened, pinned, dep, deploy, owner, lost, alerts>>
    /\ UNCHANGED serverVars

Adopt(p, env) ==
    /\ opened' = [opened EXCEPT ![p] = env]
    /\ TokenReady(p, env)

\* Mutants of Poll: re-reads that never give up, and one re-read too many.
PollForever(p) ==
    /\ ctl[p].at = "poll"
    /\ IF /\ row.status = "active" /\ row.env # opened[p]
          /\ Opens(p, row.env) /\ ~ Expired(row.env.pair)
       THEN Adopt(p, row.env)
       ELSE UNCHANGED <<ctl, opened>>
    /\ UNCHANGED <<row, pinned, dep, deploy, owner, lost, alerts>>
    /\ UNCHANGED serverVars

PollOnceMore(p) ==
    /\ ctl[p].at = "poll"
    /\ IF ctl[p].polls = 3 THEN Goto(p, "break") ELSE ctl' = [ctl EXCEPT ![p].polls = @ + 1]
    /\ UNCHANGED <<row, opened, pinned, dep, deploy, owner, lost, alerts>>
    /\ UNCHANGED serverVars

\* The re-reads after 0, 300 and 700 ms: adopt another active, unexpired
\* envelope; after the third the connection is declared broken.
Poll(p) ==
    /\ ctl[p].at = "poll"
    /\ IF /\ row.status = "active" /\ row.env # opened[p]
          /\ Opens(p, row.env) /\ ~ Expired(row.env.pair)
       THEN Adopt(p, row.env)
       ELSE /\ IF ctl[p].polls = 2 THEN Goto(p, "break")
                                   ELSE ctl' = [ctl EXCEPT ![p].polls = @ + 1]
            /\ UNCHANGED opened
    /\ UNCHANGED <<row, pinned, dep, deploy, owner, lost, alerts>>
    /\ UNCHANGED serverVars

\* Seal the new pair and compare-and-swap it over the envelope refreshed.
Store(p) ==
    /\ ctl[p].at = "store"
    /\ LET sealed == [pair |-> ctl[p].fresh, key |-> dep[p]]
       IN  IF CanSwap(opened[p])
           THEN Swap(sealed) /\ Adopt(p, sealed)
           ELSE /\ ctl' = [ctl EXCEPT ![p].at = "reread", ![p].fresh = None]
                /\ UNCHANGED <<row, opened>>
    /\ UNCHANGED <<pinned, dep, deploy, owner, lost, alerts>>
    /\ UNCHANGED serverVars

\* D1 applied the swap but reported an error: the call fails, the instance
\* keeps the old envelope cached.
StoreUnacknowledged(p) ==
    /\ ctl[p].at = "store"
    /\ CanSwap(opened[p])
    /\ Swap([pair |-> ctl[p].fresh, key |-> dep[p]])
    /\ Finish(p)
    /\ UNCHANGED <<opened, pinned, dep, deploy, owner, lost, alerts>>
    /\ UNCHANGED serverVars

\* The swap was lost to another writer: use what the row holds now.
Reread(p) ==
    /\ ctl[p].at = "reread"
    /\ IF row.status # "gone" /\ Opens(p, row.env)
       THEN Adopt(p, row.env)
       ELSE Finish(p) /\ UNCHANGED opened
    /\ UNCHANGED <<row, pinned, dep, deploy, owner, lost, alerts>>
    /\ UNCHANGED serverVars

-----------------------------------------------------------------------------
(* Sending (CfClient.#send), answering a 401 (#unauthorized), breaking     *)

\* Cloudflare answers the call.  An access token past its expiry may still be
\* accepted for the 60 s of skew, or be refused.
Send(p) ==
    /\ ctl[p].at = "send"
    /\ LET t == IF pinned[p] = None THEN opened[p].pair ELSE pinned[p]
       IN  \/ Works(t) /\ Finish(p)
           \/ ~ Works(t) /\ Goto(p, "unauth")
           \/ Expired(t) /\ Goto(p, "unauth")
    /\ UNCHANGED <<row, opened, pinned, dep, deploy, owner, lost, alerts>>
    /\ UNCHANGED serverVars

\* Once a retry is due the client keeps the fresh token (this.#token = fresh).
Pin(p) ==
    pinned' = IF ctl[p].at = "resend" THEN [pinned EXCEPT ![p] = opened[p].pair] ELSE pinned

\* The one retry: a second 401 is a CfAuthError, the connection stays as it is.
Resend(p) ==
    /\ ctl[p].at = "resend"
    /\ Pin(p)
    /\ Finish(p)
    /\ UNCHANGED <<row, opened, dep, deploy, owner, lost, alerts>>
    /\ UNCHANGED serverVars

Unauthorized(p) ==
    /\ ctl[p].at = "unauth"
    /\ IF row.status = "gone" THEN Finish(p)
       ELSE ctl' = [ctl EXCEPT ![p] = IF HasRefresh
                                      THEN [At("token") EXCEPT !.goal = "unauth"]
                                      ELSE At("break")]
    /\ UNCHANGED <<row, opened, pinned, dep, deploy, owner, lost, alerts>>
    /\ UNCHANGED serverVars

\* Mutant of MarkBroken: every isolate that sees the failure alerts.
MarkBrokenAndAlert(p) ==
    /\ ctl[p].at = "break"
    /\ row' = [row EXCEPT !.status = IF @ = "active" THEN "broken" ELSE @]
    /\ ctl' = [ctl EXCEPT ![p] = At("alert")]
    /\ opened' = [opened EXCEPT ![p] = None]
    /\ pinned' = [pinned EXCEPT ![p] = None]
    /\ UNCHANGED <<dep, deploy, owner, lost, alerts>>
    /\ UNCHANGED serverVars

\* #break: markBroken only changes an active row, whatever envelope it holds;
\* the caches are dropped, and the caller that made the change alerts.
MarkBroken(p) ==
    /\ ctl[p].at = "break"
    /\ IF row.status = "active"
       THEN /\ row' = [row EXCEPT !.status = "broken"]
            /\ ctl' = [ctl EXCEPT ![p] = At("alert")]
       ELSE /\ ctl' = [ctl EXCEPT ![p] = At("off")]
            /\ UNCHANGED row
    /\ opened' = [opened EXCEPT ![p] = None]
    /\ pinned' = [pinned EXCEPT ![p] = None]
    /\ UNCHANGED <<dep, deploy, owner, lost, alerts>>
    /\ UNCHANGED serverVars

\* D1 marked the row but reported an error: nobody alerts, the caches stay.
BreakUnacknowledged(p) ==
    /\ ctl[p].at = "break"
    /\ row.status = "active"
    /\ row' = [row EXCEPT !.status = "broken"]
    /\ Finish(p)
    /\ UNCHANGED <<opened, pinned, dep, deploy, owner, lost, alerts>>
    /\ UNCHANGED serverVars

Alert(p) ==
    /\ ctl[p].at = "alert"
    /\ alerts' = alerts + 1
    /\ ctl' = [ctl EXCEPT ![p] = At("off")]
    /\ UNCHANGED <<row, opened, pinned, dep, deploy, owner, lost>>
    /\ UNCHANGED serverVars

\* A pair in hand and not stored is gone with the call that held it.
Forfeit(p) ==
    lost' = IF ctl[p].at = "store" THEN lost \cup {ctl[p].fresh.grant} ELSE lost

\* A D1 statement or a request to Cloudflare fails (network, 5xx, 429): the
\* error reaches the caller, the instance lives on with what it has cached.
Abort(p) ==
    /\ ctl[p].at \notin {"off", "idle"}
    /\ ctl' = [ctl EXCEPT ![p] = IF @.at = "alert" THEN At("off") ELSE At("idle")]
    /\ Forfeit(p)
    /\ Pin(p)
    /\ UNCHANGED <<row, opened, dep, deploy, owner, alerts>>
    /\ UNCHANGED serverVars

\* The request ends or its isolate dies, with everything it had in memory.
Discard(p) ==
    /\ ctl[p].at # "off"
    /\ ctl' = [ctl EXCEPT ![p] = At("off")]
    /\ opened' = [opened EXCEPT ![p] = None]
    /\ pinned' = [pinned EXCEPT ![p] = None]
    /\ Forfeit(p)
    /\ UNCHANGED <<row, dep, deploy, owner, alerts>>
    /\ UNCHANGED serverVars

-----------------------------------------------------------------------------
(* The owner: reconnect (addOAuth with replace, replaceToken), disconnect  *)

OwnerGoto(place) == owner' = [owner EXCEPT !.at = place]
OwnerDone == owner' = [at |-> "idle", env |-> None]

\* The owner authorizes again (or pastes a new token): a new grant.
Authorize(g) ==
    /\ owner.at = "idle"
    /\ HasRefresh => deploy \in OAuthDeploys
    /\ issued[g] = 0
    /\ \A h \in Grants : h < g => issued[h] > 0
    /\ issued' = [issued EXCEPT ![g] = 1]
    /\ owner' = [at |-> "authorized", env |-> [pair |-> [grant |-> g, n |-> 1], key |-> deploy]]
    /\ UNCHANGED <<row, deploy, lost, alerts, revoked, killed, expired>>
    /\ UNCHANGED isoVars

\* The connection must exist, and the new grant see its Cloudflare account; an
\* OAuth grant for another account is given back (best effort).
CheckAccount ==
    /\ owner.at = "authorized"
    /\ \/ row.status = "gone" /\ OwnerDone /\ UNCHANGED revoked
       \/ row.status # "gone" /\ OwnerGoto("same") /\ UNCHANGED revoked
       \/ /\ row.status # "gone"
          /\ OwnerDone
          /\ revoked' \in {revoked} \cup
                 (IF HasRefresh /\ deploy \in OAuthDeploys THEN {revoked \cup {owner.env.pair.grant}} ELSE {})
    /\ UNCHANGED <<row, deploy, lost, alerts, issued, killed, expired>>
    /\ UNCHANGED isoVars

\* reactivate: unconditional on the envelope it replaces.
Reactivate ==
    /\ owner.at = "same"
    /\ row' = IF row.status = "gone" THEN row
              ELSE [row EXCEPT !.status = "active", !.env = owner.env]
    /\ OwnerDone
    /\ UNCHANGED <<deploy, lost, alerts>>
    /\ UNCHANGED isoVars
    /\ UNCHANGED serverVars

\* disconnect: read the sealed grant first.
Disconnect ==
    /\ owner.at = "idle"
    /\ row.status # "gone"
    /\ owner' = [at |-> IF HasRefresh THEN "revoking" ELSE "deleting", env |-> row.env]
    /\ UNCHANGED <<row, deploy, lost, alerts>>
    /\ UNCHANGED isoVars
    /\ UNCHANGED serverVars

\* revokeSealedGrant: with the configuration and the key at hand, revoke the
\* refresh token, then the access token; each call may fail, and a refresh
\* token already spent revokes nothing.
RevokeGrant ==
    /\ owner.at = "revoking"
    /\ LET t == owner.env.pair
           possible == deploy \in OAuthDeploys /\ owner.env.key > deploy - KeysKept
       IN  /\ revoked' \in {revoked} \cup
                  (IF possible /\ Accepts(t) THEN {revoked \cup {t.grant}} ELSE {})
           /\ killed' \in {killed} \cup (IF possible THEN {killed \cup {t}} ELSE {})
    /\ OwnerGoto("deleting")
    /\ UNCHANGED <<row, deploy, lost, alerts, issued, expired>>
    /\ UNCHANGED isoVars

Delete ==
    /\ owner.at = "deleting"
    /\ row' = [row EXCEPT !.status = "gone"]
    /\ OwnerDone
    /\ UNCHANGED <<deploy, lost, alerts>>
    /\ UNCHANGED isoVars
    /\ UNCHANGED serverVars

OwnerAbort ==
    /\ owner.at # "idle"
    /\ OwnerDone
    /\ UNCHANGED <<row, deploy, lost, alerts>>
    /\ UNCHANGED isoVars
    /\ UNCHANGED serverVars

-----------------------------------------------------------------------------
(* The world: time, the customer at Cloudflare's dashboard, new deploys    *)

\* The pairs of a grant live equally long, so they expire in the order issued.
Expire(g) ==
    /\ expired[g] < issued[g]
    /\ expired' = [expired EXCEPT ![g] = @ + 1]
    /\ UNCHANGED <<row, deploy, owner, issued, revoked, killed, lost, alerts>>
    /\ UNCHANGED isoVars

CustomerRevokes(g) ==
    /\ issued[g] > 0
    /\ g \notin revoked
    /\ revoked' = revoked \cup {g}
    /\ UNCHANGED <<row, deploy, owner, issued, killed, expired, lost, alerts>>
    /\ UNCHANGED isoVars

Deploy ==
    /\ deploy < MaxDeploy
    /\ deploy' = deploy + 1
    /\ UNCHANGED <<row, owner, lost, alerts>>
    /\ UNCHANGED isoVars
    /\ UNCHANGED serverVars

-----------------------------------------------------------------------------
(* The steps of an isolate that has a call to finish.                      *)
Progress(p) ==
    \/ OpenRow(p) \/ Reseal(p) \/ UseOpened(p)
    \/ StartRefresh(p) \/ RefreshGranted(p) \/ RefreshRefused(p)
    \/ Poll(p) \/ Store(p) \/ Reread(p)
    \/ Send(p) \/ Resend(p) \/ Unauthorized(p) \/ MarkBroken(p) \/ Alert(p)

Faults(p) ==
    \/ AnswerLost(p) \/ StoreUnacknowledged(p) \/ BreakUnacknowledged(p)
    \/ Abort(p) \/ Discard(p)

OwnerNext ==
    \/ \E g \in Grants : Authorize(g)
    \/ CheckAccount \/ Reactivate
    \/ Disconnect \/ RevokeGrant \/ Delete
    \/ OwnerAbort

WorldNext ==
    \/ \E g \in Grants : Expire(g) \/ CustomerRevokes(g)
    \/ Deploy

Next ==
    \/ \E p \in Isolates : BuildClient(p) \/ Call(p) \/ Progress(p) \/ Faults(p)
    \/ OwnerNext
    \/ WorldNext

Spec == Init /\ [][Next]_vars

(***************************************************************************)
(* A running isolate goes on with the call it has begun: each await ends   *)
(* (D1 and fetch settle, timers fire).  Nobody has to make calls, and a    *)
(* refresh the server keeps failing to answer ends by Abort, so the        *)
(* fairness of a refresh in flight includes giving up.                     *)
(***************************************************************************)
Fairness ==
    \A p \in Isolates : WF_vars(Progress(p) \/ (ctl[p].at = "asking" /\ Abort(p)))

FairSpec == Spec /\ Fairness

-----------------------------------------------------------------------------
(* Properties                                                              *)

TypeOK ==
    /\ row \in [auth : {"oauth", "token"}, status : {"active", "broken", "gone"},
                env : Envelope]
    /\ ctl \in [Isolates -> Control]
    /\ opened \in [Isolates -> Envelope \cup {None}]
    /\ pinned \in [Isolates -> Pair \cup {None}]
    /\ dep \in [Isolates -> Deploys]
    /\ deploy \in Deploys
    /\ owner \in [at : {"idle", "authorized", "same", "revoking", "deleting"},
                  env : Envelope \cup {None}]
    /\ issued \in [Grants -> 0 .. MaxPairs]
    /\ revoked \subseteq Grants
    /\ killed \subseteq Pair
    /\ expired \in [Grants -> 0 .. MaxPairs]
    /\ lost \subseteq Grants
    /\ alerts \in Nat

\* The newest pair of the grant in the row: the only one with a usable refresh token.
Newest == [grant |-> row.env.pair.grant, n |-> issued[row.env.pair.grant]]

\* Isolate p has it in hand, and its compare-and-swap is going to succeed.
AboutToStore(p) ==
    ctl[p].at = "store" /\ ctl[p].fresh = Newest /\ opened[p] = row.env

\* service.ts:450-460, single-use refresh tokens survive the isolates' race: the
\* newest pair of the grant is in the row or about to be; it is gone only if the
\* call that held it died.  (Under one encryption key; with two, see
\* LoserAdoptsAnUnspentPair.)
Custody ==
    row.status # "gone" /\ row.env.pair.grant \notin lost =>
        row.env.pair = Newest \/ \E p \in Isolates : AboutToStore(p)

Alerting == {p \in Isolates : ctl[p].at = "alert"}

\* docs/cloudflare-oauth.md:85-87, "an email ... once": the owner gets at most
\* one alert per grant that was connected, however many isolates see the
\* failure, and an active connection still has its alert to give.
AlertsBounded ==
    alerts + Cardinality(Alerting) + (IF row.status = "active" THEN 1 ELSE 0)
        <= row.env.pair.grant

\* The row keeps the promises of ConnectionContract under every interleaving of
\* refreshes, re-seals, retries, reconnects and disconnects.
Contract == INSTANCE ConnectionContract
                WITH status <- row.status, pair <- row.env.pair
ImplementsContract == Contract!Spec

\* docs/cloudflare-oauth.md:255-259: once an envelope has been re-sealed under a
\* newer key, no isolate of an older deploy puts it back under the old one, so
\* the old key can be dropped.
KeysMoveForward ==
    [][row'.env.pair.grant = row.env.pair.grant => row'.env.key >= row.env.key]_vars

\* Every Cloudflare call of an isolate comes to an end: the 401 retry, the
\* refresh and its re-reads never go round in circles.
CallEnds ==
    \A p \in Isolates :
        ctl[p].at \notin {"off", "idle"} ~> ctl[p].at \in {"off", "idle"}

(* The inductive invariant: why the above holds, whatever the constants.    *)

\* An isolate at work has an envelope open, a fresh instance has none.
HoldsWhatItUses(p) ==
    /\ ctl[p].at \in {"off", "alert"} => opened[p] = None
    /\ ctl[p].at \notin {"off", "alert", "idle", "token"} => opened[p] # None

\* Only a client of an instance with an envelope open keeps a token of its own.
PinnedWhileOpen(p) == pinned[p] # None => opened[p] # None

\* The pair in hand is the successor of the one that was open, and was issued.
FreshFollows(p) ==
    ctl[p].at = "store" =>
        /\ ctl[p].fresh = [grant |-> opened[p].pair.grant, n |-> opened[p].pair.n + 1]
        /\ ctl[p].fresh.n <= issued[opened[p].pair.grant]

\* The order in which pairs reach the row: by grant, then by number.
NotAhead(t, u) == t.grant < u.grant \/ (t.grant = u.grant /\ t.n <= u.n)

\* No isolate has open a pair the row has not held yet, nor a key it lacks.
BehindRow(p) ==
    opened[p] # None =>
        NotAhead(opened[p].pair, row.env.pair) /\ opened[p].key <= dep[p]

Sound(p) == HoldsWhatItUses(p) /\ PinnedWhileOpen(p) /\ FreshFollows(p) /\ BehindRow(p)

\* Grants are given one after the other, and the stored pair was issued.
GrantsInOrder ==
    /\ \A g, h \in Grants : g < h /\ issued[h] > 0 => issued[g] > 0
    /\ row.env.pair.n <= issued[row.env.pair.grant]

\* The grant the owner brings is newer than the stored one, and unused.
OwnerAhead ==
    /\ owner.at # "idle" => owner.env # None
    /\ owner.at \in {"authorized", "same"} =>
           /\ owner.env.pair.n = 1
           /\ owner.env.pair.grant > row.env.pair.grant
           /\ issued[owner.env.pair.grant] = 1

Bookkeeping ==
    (\A p \in Isolates : Sound(p)) /\ GrantsInOrder /\ OwnerAhead

IInv == TypeOK /\ Bookkeeping

(* What the repository says and the code does not keep (violation runs).    *)

\* service.ts:452, "Lost the race to another writer: theirs is the valid one
\* now": the pair adopted after a lost swap is not the one just spent.
LoserAdoptsAnUnspentPair ==
    [][\A p \in Isolates :
         ctl[p].at = "reread" /\ opened'[p] \notin {opened[p], None}
             => opened'[p].pair # opened[p].pair]_vars

=============================================================================
