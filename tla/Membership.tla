----------------------------- MODULE Membership -----------------------------
(***************************************************************************)
(* Who belongs to which workspace, and as what: first-run setup,           *)
(* invitations, leaving, handing over ownership, removing people, deleting *)
(* a workspace and deleting an account (src/workspaces/routes.ts,          *)
(* src/account/routes.ts, src/auth/signup-policy.ts, the team routes of    *)
(* src/api/router.ts and their queries), on a self-hosted instance.        *)
(*                                                                         *)
(* A request reads what it decides on, then acts in one statement or batch *)
(* at a time; requests interleave between these, and each may end there.   *)
(***************************************************************************)
EXTENDS FiniteSets, Integers

CONSTANTS
    Users,      \* e-mail addresses
    Others,     \* workspaces other than the default one
    Default,    \* IMPLICIT_WORKSPACE_ID
    Invites,    \* bound: invitations that can be sent
    Handlers    \* requests that run at the same time

Workspaces == Others \cup {Default}

ASSUME DefaultAssumption == Default \notin Others

VARIABLES
    accounts,   \* addresses with a row in users
    spaces,     \* workspaces with a row
    role,       \* memberships: per workspace and user, the role
    invite,     \* per invitation: its row
    act,        \* per request: its next statement and what it has read
    raced       \* history: workspaces whose ownership came to someone whom
                \* another request was already taking out

team == <<accounts, spaces, role, invite, act, raced>>

-----------------------------------------------------------------------------
Nobody == "nobody"
Roles  == {"none", "member", "admin", "owner"}
Invite == [ws : Workspaces, to : Users, role : {"member", "admin"}, by : Users, state : {"pending"}]
NoInvite == [state |-> "unsent"]
Void     == [state |-> "over"]      \* used, revoked or expired

Places == {"idle", "claim", "forget", "create", "send", "account", "spend", "join", "leave",
           "transfer", "remove", "orphan", "revoke", "list", "purge", "orphans", "delete"}

\* ws: the workspace acted on; who: the other person; own: the account is made
\* or deleted by this request; people: members read before a purge; todo:
\* workspaces still to be erased.
Free == [at |-> "idle", user |-> Nobody, ws |-> Default, who |-> Nobody, role |-> "none",
         own |-> FALSE, inv |-> Nobody, people |-> {}, todo |-> {}]
Request == [at : Places, user : Users \cup {Nobody}, ws : Workspaces, who : Users \cup {Nobody},
            role : Roles \ {"owner"}, own : BOOLEAN, inv : Invites \cup {Nobody},
            people : SUBSET Users, todo : SUBSET Workspaces]

GoOn(r, place) == act' = [act EXCEPT ![r].at = place]
Leave(r)       == act' = [act EXCEPT ![r] = Free]

Members(w) == {u \in Users : role[w][u] # "none"}
Owners(w)  == {u \in Users : role[w][u] = "owner"}
SpacesOf(u) == {w \in Workspaces : role[w][u] # "none"}
Admin(w, u) == role[w][u] \in {"admin", "owner"}

TeamInit ==
    /\ accounts = {}
    /\ spaces = {Default}
    /\ role = [w \in Workspaces |-> [u \in Users |-> "none"]]
    /\ invite = [i \in Invites |-> NoInvite]
    /\ act = [r \in Handlers |-> Free]
    /\ raced = {}

\* A request is about to take v out of w, having read that v does not own it.
Removing(w, v) ==
    \E s \in Handlers : \/ act[s].at = "remove" /\ act[s].ws = w /\ act[s].who = v
                        \/ act[s].user = v /\ act[s].own /\ act[s].at \in {"list", "purge", "orphans", "delete"}

\* Ownership of w comes to v.
Owning(w, v) == raced' = IF Removing(w, v) THEN raced \cup {w} ELSE raced

\* A user's row goes, and by cascade every membership.
DropUser(u) ==
    /\ accounts' = accounts \ {u}
    /\ role' = [w \in Workspaces |-> [role[w] EXCEPT ![u] = "none"]]

\* NOT EXISTS (SELECT ... FROM memberships): deleteIfOrphan, removeUser.
DropOrphan(u) == IF SpacesOf(u) = {} THEN accounts' = accounts \ {u} ELSE UNCHANGED accounts

\* No request is at work on the user who had the address u before.  A new
\* account has a new id, on which what such a request still does has no effect.
Forgotten(u) == \A s \in Handlers : act[s].who # u /\ u \notin act[s].people
                                    /\ (act[s].user = u => act[s].at = "account")

\* Nor is one at work on w: a new workspace has a new id as well.
Unused(w) == \A s \in Handlers : act[s].ws # w /\ w \notin act[s].todo

-----------------------------------------------------------------------------
(* First-run setup: the user is created, then made the owner.              *)

Setup(r, u) ==
    /\ act[r].at = "idle"
    /\ Owners(Default) = {} /\ u \notin accounts /\ Forgotten(u)
    /\ accounts' = accounts \cup {u}
    /\ act' = [act EXCEPT ![r] = [Free EXCEPT !.at = "claim", !.user = u, !.own = TRUE]]
    /\ UNCHANGED <<spaces, role, invite, raced>>

\* Mutant of ClaimOwnership: the check that there is no owner is not repeated.
ClaimUnchecked(r) ==
    /\ act[r].at = "claim"
    /\ act[r].user \in accounts
    /\ role' = [role EXCEPT ![Default][act[r].user] = "owner"]
    /\ Leave(r)
    /\ UNCHANGED <<accounts, spaces, invite, raced>>

\* One statement: of two first sign-ups exactly one becomes the owner.  The
\* other one's user is deleted again.
ClaimOwnership(r) ==
    /\ act[r].at = "claim"
    /\ IF Owners(Default) = {} /\ act[r].user \in accounts
       THEN role' = [role EXCEPT ![Default][act[r].user] = "owner"] /\ Leave(r)
       ELSE GoOn(r, "forget") /\ UNCHANGED role
    /\ UNCHANGED <<accounts, spaces, invite, raced>>

\* provisionUser fails: users.delete.
Forget(r) ==
    /\ act[r].at = "forget"
    /\ DropUser(act[r].user)
    /\ Leave(r)
    /\ UNCHANGED <<spaces, invite, raced>>

-----------------------------------------------------------------------------
(* Workspaces: only the instance's owner creates them.                     *)

StartCreate(r, u, w) ==
    /\ act[r].at = "idle"
    /\ role[Default][u] = "owner" /\ w \notin spaces /\ Unused(w)
    /\ act' = [act EXCEPT ![r] = [Free EXCEPT !.at = "create", !.user = u, !.ws = w]]
    /\ UNCHANGED <<accounts, spaces, role, invite, raced>>

Create(r) ==
    /\ act[r].at = "create"
    /\ act[r].user \in accounts /\ act[r].ws \notin spaces
    /\ spaces' = spaces \cup {act[r].ws}
    /\ role' = [role EXCEPT ![act[r].ws][act[r].user] = "owner"]
    /\ Owning(act[r].ws, act[r].user)
    /\ Leave(r)
    /\ UNCHANGED <<accounts, invite>>

-----------------------------------------------------------------------------
(* Invitations                                                             *)

\* Only an owner hands out admin, and ownership is not handed out.
StartInvite(r, u, w, v, as) ==
    /\ act[r].at = "idle"
    /\ u # v /\ Admin(w, u) /\ role[w][v] = "none"
    /\ as = "admin" => role[w][u] = "owner"
    /\ act' = [act EXCEPT ![r] = [Free EXCEPT !.at = "send", !.user = u, !.ws = w, !.who = v, !.role = as]]
    /\ UNCHANGED <<accounts, spaces, role, invite, raced>>

SendInvite(r, i) ==
    /\ act[r].at = "send"
    /\ invite[i] = NoInvite /\ act[r].ws \in spaces
    /\ invite' = [invite EXCEPT ![i] = [ws |-> act[r].ws, to |-> act[r].who, role |-> act[r].role,
                                        by |-> act[r].user, state |-> "pending"]]
    /\ Leave(r)
    /\ UNCHANGED <<accounts, spaces, role, raced>>

\* A sign-up is still going on: nobody is signed in as u yet.
SigningUp(u) == \E s \in Handlers : act[s].own /\ act[s].user = u /\ act[s].at \in {"claim", "forget", "spend", "join"}

\* The link is opened by the person it is for.  Someone new gets an account.
StartAccept(r, i) ==
    /\ act[r].at = "idle"
    /\ invite[i].state = "pending" /\ ~SigningUp(invite[i].to)
    /\ act' = [act EXCEPT ![r] = [Free EXCEPT !.at = IF invite[i].to \in accounts THEN "spend" ELSE "account",
                                              !.user = invite[i].to, !.ws = invite[i].ws,
                                              !.role = invite[i].role, !.inv = i]]
    /\ UNCHANGED <<accounts, spaces, role, invite, raced>>

CreateAccount(r) ==
    /\ act[r].at = "account"
    /\ act[r].user \notin accounts /\ Forgotten(act[r].user)
    /\ accounts' = accounts \cup {act[r].user}
    /\ act' = [act EXCEPT ![r].at = "spend", ![r].own = TRUE]
    /\ UNCHANGED <<spaces, role, invite, raced>>

\* claimInvite: one conditional update.
SpendInvite(r) ==
    /\ act[r].at = "spend"
    /\ IF invite[act[r].inv].state = "pending"
       THEN /\ invite' = [invite EXCEPT ![act[r].inv] = Void]
            /\ GoOn(r, "join")
       ELSE /\ IF act[r].own THEN GoOn(r, "forget") ELSE Leave(r)
            /\ UNCHANGED invite
    /\ UNCHANGED <<accounts, spaces, role, raced>>

\* Mutant of Join: the row goes in whatever it refers to.
JoinNothing(r) ==
    /\ act[r].at = "join"
    /\ role' = [role EXCEPT ![act[r].ws][act[r].user] = IF @ = "none" THEN act[r].role ELSE @]
    /\ Leave(r)
    /\ UNCHANGED <<accounts, spaces, invite, raced>>

\* addMember: nothing where they belong already, an error where the workspace
\* or the user is gone (and then the invitation is spent for nothing).
Join(r) ==
    /\ act[r].at = "join"
    /\ LET w == act[r].ws
           u == act[r].user
       IN  role' = IF w \in spaces /\ u \in accounts /\ role[w][u] = "none"
                   THEN [role EXCEPT ![w][u] = act[r].role] ELSE role
    /\ Leave(r)
    /\ UNCHANGED <<accounts, spaces, invite, raced>>

\* An invitation expires, or an admin revokes it.
InviteEnds(i) ==
    /\ invite[i].state = "pending"
    /\ invite' = [invite EXCEPT ![i] = Void]
    /\ UNCHANGED <<accounts, spaces, role, act, raced>>

-----------------------------------------------------------------------------
(* Leaving, handing over, removing                                         *)

StartLeave(r, u, w) ==
    /\ act[r].at = "idle"
    /\ role[w][u] # "none" /\ Cardinality(SpacesOf(u)) > 1
    /\ act' = [act EXCEPT ![r] = [Free EXCEPT !.at = "leave", !.user = u, !.ws = w]]
    /\ UNCHANGED <<accounts, spaces, role, invite, raced>>

\* Mutant of LeaveWorkspace: an owner may leave like anybody else.
LeaveUnchecked(r) ==
    /\ act[r].at = "leave"
    /\ role' = [role EXCEPT ![act[r].ws][act[r].user] = "none"]
    /\ Leave(r)
    /\ UNCHANGED <<accounts, spaces, invite, raced>>

\* One statement: an owner leaves only where there is another one.
LeaveWorkspace(r) ==
    /\ act[r].at = "leave"
    /\ LET w == act[r].ws
           u == act[r].user
       IN  role' = IF role[w][u] # "owner" \/ Owners(w) \ {u} # {}
                   THEN [role EXCEPT ![w][u] = "none"] ELSE role
    /\ Leave(r)
    /\ UNCHANGED <<accounts, spaces, invite, raced>>

StartTransfer(r, u, w, v) ==
    /\ act[r].at = "idle"
    /\ u # v /\ role[w][u] = "owner" /\ role[w][v] # "none"
    /\ act' = [act EXCEPT ![r] = [Free EXCEPT !.at = "transfer", !.user = u, !.ws = w, !.who = v]]
    /\ UNCHANGED <<accounts, spaces, role, invite, raced>>

\* Mutant of Transferred: a request that has become stale promotes all the same.
TransferredBlindly(w, u, v) ==
    IF role[w][v] = "none" THEN role[w]
    ELSE [role[w] EXCEPT ![v] = "owner", ![u] = IF @ = "owner" THEN "admin" ELSE @]

\* One batch: promote if the giver is an owner now, then demote the giver if
\* the taker is one.
Transferred(w, u, v) ==
    IF role[w][u] = "owner" /\ role[w][v] # "none"
    THEN [role[w] EXCEPT ![v] = "owner", ![u] = "admin"] ELSE role[w]

Transfer(r) ==
    /\ act[r].at = "transfer"
    /\ LET w == act[r].ws
           v == act[r].who
       IN  /\ role' = [role EXCEPT ![w] = Transferred(w, act[r].user, v)]
           /\ Owning(w, v)
    /\ Leave(r)
    /\ UNCHANGED <<accounts, spaces, invite>>

\* The owner is never removed, and only the owner removes an admin.
StartRemove(r, u, w, v) ==
    /\ act[r].at = "idle"
    /\ u # v /\ Admin(w, u) /\ role[w][v] \in {"member", "admin"}
    /\ role[w][v] = "admin" => role[w][u] = "owner"
    /\ act' = [act EXCEPT ![r] = [Free EXCEPT !.at = "remove", !.user = u, !.ws = w, !.who = v]]
    /\ UNCHANGED <<accounts, spaces, role, invite, raced>>

\* removeUser, first statement: the membership, whatever it is by now.
RemoveMember(r) ==
    /\ act[r].at = "remove"
    /\ role' = [role EXCEPT ![act[r].ws][act[r].who] = "none"]
    /\ GoOn(r, "orphan")
    /\ UNCHANGED <<accounts, spaces, invite, raced>>

\* Mutant of RemoveOrphan: the user goes although they belong elsewhere.
RemoveLogin(r) ==
    /\ act[r].at = "orphan"
    /\ DropUser(act[r].who)
    /\ GoOn(r, "revoke")
    /\ UNCHANGED <<spaces, invite, raced>>

\* removeUser, second statement: the user, if they belong nowhere else.
RemoveOrphan(r) ==
    /\ act[r].at = "orphan"
    /\ DropOrphan(act[r].who)
    /\ GoOn(r, "revoke")
    /\ UNCHANGED <<spaces, role, invite, raced>>

SentBy(u, w) == {i \in Invites : invite[i].state = "pending" /\ invite[i].by = u /\ invite[i].ws = w}
Ended(S) == [i \in Invites |-> IF i \in S THEN Void ELSE invite[i]]

RevokeInvites(r) ==
    /\ act[r].at = "revoke"
    /\ invite' = Ended(SentBy(act[r].who, act[r].ws))
    /\ Leave(r)
    /\ UNCHANGED <<accounts, spaces, role, raced>>

-----------------------------------------------------------------------------
(* Deleting a workspace, or an account with the workspaces only it is in   *)

StartEraseWorkspace(r, u, w) ==
    /\ act[r].at = "idle"
    /\ role[w][u] = "owner" /\ w # Default /\ Cardinality(SpacesOf(u)) > 1
    /\ act' = [act EXCEPT ![r] = [Free EXCEPT !.at = "list", !.user = u, !.ws = w, !.todo = {w}]]
    /\ UNCHANGED <<accounts, spaces, role, invite, raced>>

\* impactOf: workspaces the user owns alone go, unless someone else is in them
\* or it is the default one: then nothing is deleted.
SoleOwned(u) == {w \in Workspaces : Owners(w) = {u}}
Blocking(u)  == {w \in SoleOwned(u) : Cardinality(Members(w)) > 1 \/ w = Default}

\* Mutant of StartDeleteAccount: ownership does not block the deletion.
StartDeleteAnyway(r, u) ==
    /\ act[r].at = "idle"
    /\ u \in accounts
    /\ act' = [act EXCEPT ![r] = [Free EXCEPT !.at = "delete", !.user = u, !.own = TRUE]]
    /\ UNCHANGED <<accounts, spaces, role, invite, raced>>

StartDeleteAccount(r, u) ==
    /\ act[r].at = "idle"
    /\ u \in accounts /\ SpacesOf(u) # {} /\ Blocking(u) = {}
    /\ act' = [act EXCEPT ![r] = [Free EXCEPT !.at = IF SoleOwned(u) = {} THEN "delete" ELSE "list",
                                              !.user = u, !.own = TRUE, !.todo = SoleOwned(u)]]
    /\ UNCHANGED <<accounts, spaces, role, invite, raced>>

\* The members are read, to delete those who belong nowhere afterwards.
ListMembers(r) ==
    /\ act[r].at = "list"
    /\ \E w \in act[r].todo :
           act' = [act EXCEPT ![r].at = "purge", ![r].ws = w, ![r].people = Members(w),
                              ![r].todo = @ \ {w}]
    /\ UNCHANGED <<accounts, spaces, role, invite, raced>>

InvitesTo(w) == {i \in Invites : invite[i].state = "pending" /\ invite[i].ws = w}

\* One batch deletes the workspace and everything in it.
EraseWorkspace(r) ==
    /\ act[r].at = "purge"
    /\ LET w == act[r].ws
       IN  /\ spaces' = spaces \ {w}
           /\ role' = [role EXCEPT ![w] = [u \in Users |-> "none"]]
           /\ invite' = Ended(InvitesTo(w))
    /\ GoOn(r, "orphans")
    /\ UNCHANGED <<accounts, raced>>

AfterPurge(r) == IF act[r].todo # {} THEN "list" ELSE IF act[r].own THEN "delete" ELSE "idle"

\* deleteIfOrphan, one member at a time.
DeleteOrphan(r) ==
    /\ act[r].at = "orphans"
    /\ IF act[r].people = {}
       THEN /\ IF AfterPurge(r) = "idle" THEN Leave(r) ELSE GoOn(r, AfterPurge(r))
            /\ UNCHANGED accounts
       ELSE \E u \in act[r].people :
               /\ DropOrphan(u)
               /\ act' = [act EXCEPT ![r].people = @ \ {u}]
    /\ UNCHANGED <<spaces, role, invite, raced>>

\* deleteUser: the invitations to and by the user, the memberships, the user.
DeleteUser(r) ==
    /\ act[r].at = "delete"
    /\ DropUser(act[r].user)
    /\ invite' = Ended({i \in Invites : invite[i].state = "pending"
                                        /\ act[r].user \in {invite[i].to, invite[i].by}})
    /\ Leave(r)
    /\ UNCHANGED <<spaces, raced>>

\* A statement fails or the isolate dies: what was done stays done.
Abort(r) ==
    /\ act[r].at # "idle"
    /\ Leave(r)
    /\ UNCHANGED <<accounts, spaces, role, invite, raced>>

Begin(r) ==
    \/ \E u \in Users : Setup(r, u) \/ StartDeleteAccount(r, u)
    \/ \E u \in Users, w \in Workspaces : StartCreate(r, u, w) \/ StartLeave(r, u, w) \/ StartEraseWorkspace(r, u, w)
    \/ \E u, v \in Users, w \in Workspaces :
           \/ StartTransfer(r, u, w, v) \/ StartRemove(r, u, w, v)
           \/ \E as \in {"member", "admin"} : StartInvite(r, u, w, v, as)
    \/ \E i \in Invites : StartAccept(r, i)

Act(r) ==
    \/ ClaimOwnership(r) \/ Forget(r) \/ Create(r) \/ LeaveWorkspace(r) \/ Transfer(r)
    \/ \E i \in Invites : SendInvite(r, i)
    \/ CreateAccount(r) \/ SpendInvite(r) \/ Join(r)
    \/ RemoveMember(r) \/ RemoveOrphan(r) \/ RevokeInvites(r)
    \/ ListMembers(r) \/ EraseWorkspace(r) \/ DeleteOrphan(r) \/ DeleteUser(r)

TeamNext ==
    \/ \E r \in Handlers : Begin(r) \/ Act(r) \/ Abort(r)
    \/ \E i \in Invites : InviteEnds(i)

TeamSpec == TeamInit /\ [][TeamNext]_team

-----------------------------------------------------------------------------
(* Properties                                                              *)

\* The values of the variables; every member has an account, and every
\* workspace with members a row (the foreign keys of memberships).
TeamTypeOK ==
    /\ accounts \subseteq Users
    /\ spaces \subseteq Workspaces
    /\ role \in [Workspaces -> [Users -> Roles]]
    /\ invite \in [Invites -> Invite \cup {NoInvite, Void}]
    /\ act \in [Handlers -> Request]
    /\ raced \subseteq Workspaces
    /\ \A w \in Workspaces, u \in Users : role[w][u] # "none" => w \in spaces /\ u \in accounts

\* team.ts:71 "two concurrent first sign-ups cannot both win", workspaces.ts:74
\* "a stale request changes nothing": a workspace never has two owners.
OneOwner == \A w \in Workspaces : \A u, v \in Owners(w) : u = v

Owned(w) == Members(w) # {} => Owners(w) # {}

\* workspaces.ts:62 and :76, account/routes.ts:31: nobody leaves, hands over or
\* deletes an account in a way that leaves people in a workspace without an
\* owner, unless ownership came to someone who was just being taken out.
OwnedUnlessRaced == \A w \in Workspaces \ raced : Owned(w)

\* team.ts:98, routes.ts:83: a login that another person's request deletes
\* belonged to no workspace any more when it went.
OnlyOrphansGo ==
    [][\A u \in accounts \ accounts' :
          \/ SpacesOf(u) = {}
          \/ \E r \in Handlers : act[r].at \in {"delete", "forget"} /\ act[r].user = u]_team

=============================================================================
