--------------------------- MODULE WorkspaceProofs ---------------------------
(***************************************************************************)
(* The life of a workspace.  First, for any number of requests, grants and *)
(* tombstones: the properties of Offboarding.  Then, for any number of     *)
(* users, workspaces and invitations: those of Membership.                 *)
(*                                                                         *)
(* The invariant of Offboarding has four parts: Data, the types and what a *)
(* request holds at each of its steps; Timing and Spending, the markers of *)
(* the states that are about to be claimed or were; Kept, where a grant    *)
(* is; and Aging, a tombstone's days and tries.  That of Membership has    *)
(* three: Stored, what the tables hold; Control, what a request between    *)
(* two of its statements has made sure of; and OInv, who still acts on the *)
(* owner of what.                                                          *)
(***************************************************************************)
EXTENDS Offboarding, Membership, TLAPS, FiniteSetTheorems, WellFoundedInduction

\* A callback before its grant, a callback with one, and a connection being taken away.
Signing == {"sweep", "claim", "exchange"}
Granted == {"insert", "read", "account", "reactivate"}
Taken   == {"revoke", "keep", "drop"}

Shape(q) ==
    \/ q = Idle
    \/ /\ q \in Callback /\ flow[q.flow] # Unsigned
       /\ q.at \in Signing => q.grant = None
       /\ q.at \in Granted => q.grant \in 1..got
       /\ q.at = "insert" => flow[q.flow].for = None
       /\ q.at \in Granted \ {"insert"} => flow[q.flow].for # None
    \/ /\ q \in Taking /\ q.conn \notin q.todo
       /\ q.at \in Taken => q.conn \in Grants /\ q.grant \in 1..got
       /\ q.at \in {"next", "keep", "purge"} => q.job = "erase"
       /\ q.at = "purge" => q.todo = {}

\* Connections and tombstones hold grants that were issued.
Rows == \A c \in Grants : row[c] <= got /\ (row[c] # None => c <= got)

Stones ==
    /\ \A i \in 1..Len(tombs) : tombs[i] # Gone => tombs[i].grant \in 1..got
    /\ Len(tombs) + Cardinality(Keeping) <= MaxTombs

Listing ==
    /\ cron = Rest \/ (cron.at # "idle" /\ cron.todo # {})
    /\ cron = [at |-> cron.at, todo |-> cron.todo]

Data == TypeOK /\ (\A r \in Requests : Shape(req[r])) /\ Rows /\ Stones /\ Listing

\* Who is about to claim a marker has a state that has not expired for long.
Timing ==
    /\ \A f \in Flows : flow[f] # Unsigned => flow[f].at <= clock
    /\ \A r \in Requests : req[r].at \in {"sweep", "claim"} =>
           LET signed == flow[req[r].flow].at
           IN  /\ signed <= req[r].now /\ req[r].now < signed + Ttl
               /\ req[r].now <= clock /\ clock <= req[r].now + Slack

\* No callback can claim the marker of f any more.
Closed(f) ==
    \/ used[f] >= flow[f].at + Ttl + Slack
    \/ /\ clock >= flow[f].at + Ttl
       /\ \A r \in Requests : req[r].at \in {"sweep", "claim"} => req[r].flow # f
    \/ ~workspace

Spending ==
    \A f \in Flows :
        /\ spent[f] \in {0, 1}
        /\ spent[f] = 1 => /\ flow[f] # Unsigned /\ Closed(f)
                           /\ \A r \in Requests : req[r].at = "exchange" => req[r].flow # f
        /\ \A r \in Requests : req[r].at = "exchange" /\ req[r].flow = f =>
               /\ Closed(f)
               /\ \A s \in Requests : req[s].at = "exchange" /\ req[s].flow = f => s = r

\* g is revoked, has a tombstone, or the code let go of it.
Settled(g) == g \notin live \/ g \in dropped \/ \E i \in Waiting : tombs[i].grant = g

\* A grant has one owner among the callbacks, and no connection is named after it.
Owns(r) ==
    req[r].at \in Granted =>
        /\ \A s \in Requests : req[s].at \in Granted /\ req[s].grant = req[r].grant => s = r
        /\ req[r].at = "insert" => row[req[r].grant] = None

\* What is taken away holds the grant that was read, or one that was let go of.
Leaves(r) ==
    req[r].at \in {"next", "purge"} \cup Taken =>
        IF req[r].job = "disconnect"
        THEN row[req[r].conn] \in {None, req[r].grant} \cup dropped
        ELSE \A c \in Grants \ req[r].todo :
                \/ row[c] = None \/ Settled(row[c])
                \/ c = req[r].conn /\ req[r].at \in {"revoke", "keep"} /\ row[c] = req[r].grant

\* At bury the grant needs no tombstone any more.
Buried == cron.at = "bury" => tombs[Tomb].grant \notin live \ dropped

Kept == (\A r \in Requests : Owns(r) /\ Leaves(r)) /\ Buried /\ NothingForgotten

\* A tombstone is older than its tries, but for the faults, by a day before the try of
\* the day.
Tries(i) == tombs[i].tries + faults

Aging ==
    \A i \in Waiting :
        \/ crowded \/ Tries(i) >= MaxAge
        \/ /\ tombs[i].age <= Tries(i) + 1
           /\ ran => tombs[i].age <= Tries(i) \/ i \in cron.todo

-----------------------------------------------------------------------------
(* Sets that are counted                                                   *)

LEMMA MinOf ==
    ASSUME NEW T \in SUBSET Nat, T # {}
    PROVE  Min(T) \in T /\ \A y \in T : Min(T) <= y
<1> DEFINE R == {ss \in Nat \X Nat : ss[1] < ss[2]}
<1>1. IsWellFoundedOn(R, Nat)
  BY NatLessThanWellFounded DEF OpToRel
<1>2. PICK x \in T : \A y \in T : ~(<<y, x>> \in R)
  BY <1>1, WFMin
<1>3. \A y \in T : x <= y
  <2>1. \A y \in T : ~(y < x)
    BY <1>2
  <2> QED
    BY <2>1
<1>4. Min(T) = CHOOSE z \in T : \A y \in T : z <= y
  BY Zenon DEF Min
<1>5. \E z \in T : \A y \in T : z <= y
  BY <1>3
<1> QED
  BY <1>4, <1>5, Zenon

LEMMA KeepingCounts ==
    /\ \A S \in SUBSET Requests : Cardinality(S) \in Nat
    /\ \A S \in SUBSET Requests : \A r \in S : Cardinality(S \ {r}) = Cardinality(S) - 1
    /\ \A S \in SUBSET Requests : \A r \in Requests \ S : Cardinality(S \cup {r}) = Cardinality(S) + 1
<1>1. IsFiniteSet(Requests)
  BY BoundsAssumption
<1>2. \A S \in SUBSET Requests : IsFiniteSet(S)
  BY <1>1, FS_Subset
<1> QED
  BY <1>2, FS_CardinalityType, FS_RemoveElement, FS_AddElement

\* The place of one request changes.
LEMMA KeepingMoves ==
    ASSUME NEW r \in Requests, \A s \in Requests \ {r} : req'[s] = req[s]
    PROVE  LET n == Cardinality(Keeping)
           IN  /\ n \in Nat /\ Cardinality(Keeping)' \in Nat
               /\ Cardinality(Keeping)' = IF req'[r].at = "keep" THEN IF req[r].at = "keep" THEN n ELSE n + 1
                                          ELSE IF req[r].at = "keep" THEN n - 1 ELSE n
<1>1. Keeping' = IF req'[r].at = "keep" THEN Keeping \cup {r} ELSE Keeping \ {r}
  BY DEF Keeping
<1>2. Keeping \in SUBSET Requests /\ (r \in Keeping <=> req[r].at = "keep")
  BY DEF Keeping
<1>3. r \in Keeping => Keeping \cup {r} = Keeping
  OBVIOUS
<1>4. r \notin Keeping => Keeping \ {r} = Keeping
  OBVIOUS
<1>5. CASE req'[r].at = "keep"
  BY <1>1, <1>2, <1>3, <1>5, KeepingCounts
<1>6. CASE req'[r].at # "keep"
  BY <1>1, <1>2, <1>4, <1>6, KeepingCounts
<1> QED
  BY <1>5, <1>6

-----------------------------------------------------------------------------
(* Types and what requests hold                                            *)

\* What TypeOK says of the variables that requests write.
Values ==
    /\ workspace \in BOOLEAN
    /\ row \in [Grants -> 0..MaxGrants]
    /\ used \in [Flows -> Nat]
    /\ ~workspace => (\A c \in Grants : row[c] = None) /\ (\A f \in Flows : used[f] = 0)
    /\ live \subseteq 1..got /\ got \in 0..MaxGrants
    /\ spent \in [Flows -> Nat] /\ dropped \subseteq 1..got
    /\ calls \in 0..MaxCalls /\ faults \in 0..MaxFaults

FlowOK == flow \in [Flows -> [at : -Ttl..MaxClock, for : 0..MaxGrants] \cup {Unsigned}]

Asked == Callback \cup Taking \cup {Idle}

DailyOK ==
    /\ tombs \in Seq(Tombs) /\ Len(tombs) <= MaxTombs
    /\ cron.at \in {"idle", "next", "bury", "note"} /\ cron.todo \subseteq Waiting
    /\ ran \in BOOLEAN /\ clock \in 0..MaxClock /\ crowded \in BOOLEAN

LEMMA TypeParts ==
    /\ TypeOK <=> Values /\ FlowOK /\ req \in [Requests -> Asked] /\ DailyOK
    /\ TypeOK' <=> Values' /\ FlowOK' /\ req' \in [Requests -> Asked] /\ DailyOK'
<1>1. Asked' = Asked
  BY DEF Asked, Callback, Taking, Idle, Grants
<1> QED
  BY <1>1 DEF TypeOK, Values, FlowOK, Asked, DailyOK

LEMMA ShapesKept ==
    ASSUME Data, NEW r \in Requests, NEW q \in Asked, req' = [req EXCEPT ![r] = q],
           \A f \in Flows : flow[f] # Unsigned => flow'[f] = flow[f],
           got' \in Nat, got <= got', Shape(q)'
    PROVE  req' \in [Requests -> Asked] /\ \A s \in Requests : Shape(req[s])'
<1>1. req' \in [Requests -> Asked]
  BY TypeParts DEF Data
<1>2. req'[r] = q /\ \A s \in Requests \ {r} : req'[s] = req[s]
  BY TypeParts DEF Data
<1>3. got \in Nat
  BY TypeParts, BoundsAssumption DEF Data, Values
<1>4. ASSUME NEW s \in Requests \ {r} PROVE Shape(req[s])'
  <2>1. Shape(req[s]) /\ req'[s] = req[s]
    BY <1>2 DEF Data
  <2>2. CASE req[s] = Idle
    BY <2>1, <2>2 DEF Shape
  <2>3. CASE req[s] \in Callback /\ req[s] # Idle
    <3>1. req[s] \in Callback /\ flow[req[s].flow] # Unsigned /\ req[s].flow \in Flows
      BY <2>1, <2>3 DEF Shape, Callback, Taking
    <3>2. flow'[req[s].flow] = flow[req[s].flow]
      BY <3>1
    <3> QED
      BY <1>3, <2>1, <2>3, <3>1, <3>2 DEF Shape, Callback, Taking
  <2>4. CASE req[s] \in Taking
    BY <1>3, <2>1, <2>4 DEF Shape, Callback, Taking
  <2> QED
    BY <2>1, <2>2, <2>3, <2>4 DEF Shape
<1> QED
  BY <1>1, <1>2, <1>4

\* A request writes nothing of the daily run.
LEMMA RequestData ==
    ASSUME Data, NEW r \in Requests, NEW q \in Asked, req' = [req EXCEPT ![r] = q],
           UNCHANGED <<flow, got, daily>>, Shape(q), Values', Rows',
           q.at = "keep" => req[r].at = "keep" \/ Len(tombs) + Cardinality(Keeping) < MaxTombs
    PROVE  Data'
<1>1. req' \in [Requests -> Asked] /\ \A s \in Requests : Shape(req[s])'
  <2>1. Shape(q)'
    BY DEF Shape
  <2>2. got' \in Nat /\ got <= got'
    BY TypeParts, BoundsAssumption DEF Data, Values
  <2> QED
    BY <2>1, <2>2, ShapesKept
<1>2. FlowOK' /\ DailyOK'
  <2>1. FlowOK /\ DailyOK
    BY TypeParts DEF Data
  <2> QED
    BY <2>1 DEF FlowOK, DailyOK, daily, Waiting, Tombs, Unsigned, Gone
<1>3. Stones'
  <2>1. req'[r] = q /\ \A s \in Requests \ {r} : req'[s] = req[s]
    BY TypeParts DEF Data
  <2>2. Len(tombs) \in Nat /\ Len(tombs) + Cardinality(Keeping) <= MaxTombs /\ MaxTombs \in Nat
    BY TypeParts, BoundsAssumption DEF Data, DailyOK, Stones
  <2>3. /\ Cardinality(Keeping) \in Nat /\ Cardinality(Keeping)' \in Nat
        /\ Cardinality(Keeping)' = IF req'[r].at = "keep"
                                   THEN IF req[r].at = "keep" THEN Cardinality(Keeping) ELSE Cardinality(Keeping) + 1
                                   ELSE IF req[r].at = "keep" THEN Cardinality(Keeping) - 1 ELSE Cardinality(Keeping)
    BY <2>1, KeepingMoves DEF Data
  <2>4. Len(tombs') + Cardinality(Keeping)' <= MaxTombs
    BY <2>1, <2>2, <2>3 DEF daily
  <2> QED
    BY <2>4 DEF Data, Stones, daily
<1>4. Listing'
  BY DEF Data, Listing, daily
<1> QED
  BY <1>1, <1>2, <1>3, <1>4, TypeParts DEF Data

LEMMA CallbackAt ==
    ASSUME Data, NEW r \in Requests, req[r].at \in Signing \cup Granted
    PROVE  /\ req[r] \in Callback /\ flow[req[r].flow] # Unsigned
           /\ req[r].flow \in Flows
           /\ flow[req[r].flow] \in [at : -Ttl..MaxClock, for : 0..MaxGrants]
           /\ req[r].at \in Signing => req[r].grant = None
           /\ req[r].at \in Granted => req[r].grant \in 1..got /\ req[r].grant \in Grants
           /\ req[r].at = "insert" => flow[req[r].flow].for = None
           /\ req[r].at \in Granted \ {"insert"} => flow[req[r].flow].for \in Grants
<1>1. Shape(req[r])
  BY DEF Data
<1>2. req[r] # Idle /\ req[r] \notin Taking
  BY DEF Idle, Taking, Signing, Granted
<1>3. req[r] \in Callback /\ flow[req[r].flow] # Unsigned /\ req[r].flow \in Flows
  BY <1>1, <1>2 DEF Shape, Callback
<1>4. flow[req[r].flow] \in [at : -Ttl..MaxClock, for : 0..MaxGrants]
  BY <1>3, TypeParts DEF Data, FlowOK
<1>5. got \in 0..MaxGrants /\ MaxGrants \in Nat
  BY TypeParts, BoundsAssumption DEF Data, Values
<1>6. /\ req[r].at \in Signing => req[r].grant = None
      /\ req[r].at \in Granted => req[r].grant \in 1..got
      /\ req[r].at = "insert" => flow[req[r].flow].for = None
      /\ req[r].at \in Granted \ {"insert"} => flow[req[r].flow].for # None
  BY <1>1, <1>2, Zenon DEF Shape
<1>7. flow[req[r].flow].for \in 0..MaxGrants
  BY <1>4
<1> QED
  BY <1>3, <1>4, <1>5, <1>6, <1>7 DEF Grants, None

LEMMA TakingAt ==
    ASSUME Data, NEW r \in Requests, req[r].at \in {"next", "purge"} \cup Taken
    PROVE  /\ req[r] \in Taking /\ req[r].conn \notin req[r].todo
           /\ req[r].at \in Taken => req[r].conn \in Grants /\ req[r].grant \in 1..got
           /\ req[r].at \in {"next", "keep", "purge"} => req[r].job = "erase"
           /\ req[r].at = "purge" => req[r].todo = {}
<1>1. Shape(req[r])
  BY DEF Data
<1>2. req[r] # Idle /\ req[r] \notin Callback
  BY DEF Idle, Callback, Taken
<1> QED
  BY <1>1, <1>2 DEF Shape

LEMMA Standing ==
    ASSUME Data
    PROVE  /\ Values /\ FlowOK /\ DailyOK /\ Rows /\ req \in [Requests -> Asked]
           /\ got \in 0..MaxGrants /\ MaxGrants \in Nat \ {0} /\ MaxCalls \in Nat /\ MaxClock \in Nat
           /\ Ttl \in Nat \ {0} /\ Slack \in Nat \ {0} /\ MaxFaults \in Nat
           /\ clock \in 0..MaxClock /\ \A c \in Grants : row[c] \in 0..MaxGrants
           /\ Idle \in Asked /\ Shape(Idle) /\ Idle.at # "keep"
BY TypeParts, BoundsAssumption DEF Data, Values, DailyOK, Asked, Shape, Idle

\* A request is over.
LEMMA OverData ==
    ASSUME Data, NEW r \in Requests, Over(r), UNCHANGED <<flow, got, daily>>, Values', Rows'
    PROVE  Data'
BY Standing, RequestData DEF Over

\* A callback stays one, with what it holds.
LEMMA CallbackData ==
    ASSUME Data, NEW r \in Requests, req[r].at \in Signing \cup Granted,
           NEW place \in Signing \cup Granted, Goto(r, place),
           UNCHANGED <<flow, got, daily>>, Values', Rows',
           place \in Signing <=> req[r].at \in Signing,
           place = "insert" <=> req[r].at = "insert"
    PROVE  Data'
<1> DEFINE q == [req[r] EXCEPT !.at = place]
<1>1. req' = [req EXCEPT ![r] = q]
  BY DEF Goto
<1>2. q \in Callback /\ q.at = place /\ q.flow = req[r].flow /\ q.grant = req[r].grant
  BY CallbackAt DEF Callback, Signing, Granted
<1>3. Shape(q)
  <2>1. /\ flow[q.flow] # Unsigned
        /\ q.at \in Signing => q.grant = None
        /\ q.at \in Granted => q.grant \in 1..got
        /\ q.at = "insert" => flow[q.flow].for = None
    BY <1>2, CallbackAt DEF Signing, Granted
  <2>2. q.at \in Granted \ {"insert"} => flow[q.flow].for # None
    BY <1>2, CallbackAt DEF Signing, Granted, Grants, None
  <2> QED
    BY <1>2, <2>1, <2>2, Zenon DEF Shape
<1>4. q.at # "keep" /\ q \in Asked
  BY <1>2 DEF Signing, Granted, Asked
<1> QED
  BY <1>1, <1>3, <1>4, RequestData

LEMMA SigningData ==
    ASSUME Data, NEW r \in Requests, SweepUsed(r) \/ Claim(r) \/ Refused(r)
    PROVE  Data'
<1>1. CASE SweepUsed(r)
  <2>1. Values' /\ Rows'
    BY <1>1, Standing DEF SweepUsed, Values, Rows, grants
  <2> QED
    BY <1>1, <2>1, CallbackData DEF SweepUsed, Signing, Granted, grants
<1>2. CASE Claim(r)
  <2>1. req[r].now + Ttl + Slack \in Nat /\ req[r].flow \in Flows
    BY <1>2, CallbackAt, Standing DEF Claim, ClaimUntil, Signing, Callback
  <2>2. Values' /\ Rows'
    BY <1>2, <2>1, Standing DEF Claim, ClaimUntil, Values, Rows, grants
  <2>3. Goto(r, "exchange") \/ Over(r)
    BY <1>2 DEF Claim, ClaimUntil
  <2> QED
    BY <1>2, <2>2, <2>3, CallbackData, OverData DEF Claim, ClaimUntil, Signing, Granted, grants
<1>3. CASE Refused(r)
  <2>1. Values' /\ Rows'
    BY <1>3, Standing DEF Refused, Values, Rows, grants
  <2> QED
    BY <1>3, <2>1, OverData DEF Refused, grants
<1> QED
  BY <1>1, <1>2, <1>3

LEMMA StartFlowData ==
    ASSUME Data, NEW f \in Flows, NEW c \in Grants \cup {None}, StartFlow(f, c)
    PROVE  Data'
<1>1. FlowOK'
  <2>1. [at |-> clock, for |-> c] \in [at : -Ttl..MaxClock, for : 0..MaxGrants]
    BY Standing DEF Grants, None
  <2> QED
    BY <2>1, Standing DEF StartFlow, FlowOK
<1>2. Values' /\ DailyOK' /\ req' \in [Requests -> Asked]
  <2>1. Values /\ DailyOK /\ req \in [Requests -> Asked]
    BY Standing
  <2> QED
    BY <2>1 DEF StartFlow, Values, DailyOK, grants, daily, Waiting, Tombs, Gone
<1>3. \A r \in Requests : Shape(req[r])'
  <2> SUFFICES ASSUME NEW r \in Requests PROVE Shape(req[r])'
    OBVIOUS
  <2>1. \A g \in Flows : flow[g] # Unsigned => flow'[g] = flow[g]
    BY Standing DEF StartFlow, FlowOK
  <2>2. Shape(req[r]) /\ req'[r] = req[r] /\ got' = got
    BY DEF Data, StartFlow, grants
  <2>3. CASE req[r] = Idle
    BY <2>2, <2>3 DEF Shape
  <2>4. CASE req[r] \in Taking
    BY <2>2, <2>4 DEF Shape, Taking, Callback
  <2>5. CASE req[r] \in Callback /\ req[r] # Idle
    <3>1. flow'[req[r].flow] = flow[req[r].flow] /\ flow[req[r].flow] # Unsigned
      BY <2>1, <2>2, <2>5 DEF Shape, Taking, Callback
    <3> QED
      BY <2>2, <2>5, <3>1 DEF Shape, Taking, Callback
  <2> QED
    BY <2>2, <2>3, <2>4, <2>5 DEF Shape
<1>4. Rows' /\ Stones' /\ Listing'
  BY DEF Data, StartFlow, grants, daily, Rows, Stones, Listing, Keeping
<1> QED
  BY <1>1, <1>2, <1>3, <1>4, TypeParts DEF Data

LEMMA StartData == ASSUME Data, NEW r \in Requests, Start(r) PROVE Data'
<1>1. CASE \E f \in Flows : StartCallback(r, f)
  <2>1. PICK f \in Flows : StartCallback(r, f)
    BY <1>1
  <2> DEFINE q == [at |-> "sweep", job |-> "callback", flow |-> f, now |-> clock, grant |-> None]
  <2>2. q \in Callback /\ q.at = "sweep"
    BY Standing DEF Callback, None
  <2>3. Shape(q) /\ q \in Asked
    BY <2>1, <2>2 DEF Shape, Asked, Signing, Granted, StartCallback
  <2>4. Values' /\ Rows'
    BY <2>1, Standing DEF StartCallback, Values, Rows, grants
  <2> QED
    BY <2>1, <2>2, <2>3, <2>4, RequestData DEF StartCallback, grants
<1>2. CASE \E c \in Grants : StartDisconnect(r, c)
  <2>1. PICK c \in Grants : StartDisconnect(r, c)
    BY <1>2
  <2> DEFINE q == [at |-> "revoke", job |-> "disconnect", conn |-> c, grant |-> row[c], todo |-> {}]
  <2>2. row[c] \in 1..got /\ row[c] \in 0..MaxGrants /\ c \in 0..MaxGrants
    BY <2>1, Standing DEF StartDisconnect, Rows, None, Grants
  <2>3. q \in Taking
    BY <2>2 DEF Taking
  <2>4. Shape(q) /\ q \in Asked
    BY <2>2, <2>3 DEF Shape, Asked, Taken
  <2>5. Values' /\ Rows'
    BY <2>1, Standing DEF StartDisconnect, Values, Rows, grants
  <2> QED
    BY <2>1, <2>3, <2>4, <2>5, RequestData DEF StartDisconnect, grants
<1>3. CASE StartErase(r)
  <2> DEFINE q == [at |-> "next", job |-> "erase", conn |-> None, grant |-> None,
                   todo |-> {c \in Grants : row[c] # None}]
  <2>1. q \in Taking
    BY Standing DEF Taking, None
  <2>2. Shape(q) /\ q \in Asked
    BY <2>1 DEF Shape, Asked, Taken, None, Grants
  <2>3. Values' /\ Rows'
    BY <1>3, Standing DEF StartErase, Values, Rows, grants
  <2> QED
    BY <1>3, <2>1, <2>2, <2>3, RequestData DEF StartErase, grants
<1> QED
  BY <1>1, <1>2, <1>3 DEF Start

\* The grant is there: the one action that adds to got.
LEMMA ExchangeData == ASSUME Data, NEW r \in Requests, Exchange(r) PROVE Data'
<1>1. got' = got + 1 /\ got + 1 \in 1..MaxGrants
  BY Standing DEF Exchange
<1>0. PICK q : /\ req' = [req EXCEPT ![r] = q]
               /\ q = [req[r] EXCEPT !.at = IF flow[req[r].flow].for = None THEN "insert" ELSE "read",
                                    !.grant = got + 1]
  BY Zenon DEF Exchange
<1>2. /\ req[r] \in Callback /\ flow[req[r].flow] # Unsigned /\ req[r].flow \in Flows
      /\ got \in Nat
  BY CallbackAt, Standing DEF Exchange, Signing
<1>3. /\ q \in Callback /\ q.flow = req[r].flow /\ q.grant = got + 1
      /\ q.at = IF flow[req[r].flow].for = None THEN "insert" ELSE "read"
  <2>1. PICK place \in {"insert", "read"} :
            /\ place = IF flow[req[r].flow].for = None THEN "insert" ELSE "read"
            /\ q = [req[r] EXCEPT !.at = place, !.grant = got + 1]
    BY <1>0
  <2>2. got + 1 \in 0..MaxGrants
    BY <1>1, <1>2
  <2> QED
    BY <1>2, <2>1, <2>2 DEF Callback
<1>4. Shape(q)'
  <2>1. flow' = flow /\ flow'[q.flow] # Unsigned
    BY <1>2, <1>3 DEF Exchange
  <2>2. q.at \in Granted /\ q.at \notin Signing /\ q.grant \in 1..got'
    BY <1>1, <1>2, <1>3 DEF Signing, Granted
  <2>3. q.at = "insert" <=> flow'[q.flow].for = None
    BY <1>3, <2>1
  <2> QED
    BY <1>3, <2>1, <2>2, <2>3, Zenon DEF Shape, Callback
<1>5. req' \in [Requests -> Asked] /\ \A s \in Requests : Shape(req[s])'
  <2>1. q \in Asked
    BY <1>3 DEF Asked
  <2> QED
    <3>1. got' \in Nat /\ got <= got' /\ flow' = flow
      BY <1>1, <1>2 DEF Exchange
    <3> QED
      BY <1>0, <1>4, <2>1, <3>1, ShapesKept
<1>6. Values' /\ Rows'
  <2>1. Values /\ Rows /\ spent[req[r].flow] + 1 \in Nat
    BY <1>2, Standing DEF Values
  <2>2. live' \subseteq 1..got' /\ dropped' \subseteq 1..got' /\ got' \in 0..MaxGrants
    BY <1>1, <1>2, <2>1 DEF Exchange, Values
  <2>3. spent' \in [Flows -> Nat]
    BY <1>2, <2>1, Zenon DEF Exchange, Values
  <2>4. Values'
    BY <2>1, <2>2, <2>3 DEF Exchange, Values
  <2>5. Rows'
    <3>1. row' = row /\ \A c \in Grants : row[c] \in Int /\ c \in Int
      BY Standing DEF Exchange, Grants
    <3> QED
      BY <1>1, <1>2, <2>1, <3>1 DEF Rows, None
  <2> QED
    BY <2>4, <2>5
<1>7. FlowOK' /\ DailyOK'
  <2>1. FlowOK /\ DailyOK
    BY Standing
  <2> QED
    BY <2>1 DEF Exchange, FlowOK, DailyOK, daily, Waiting, Tombs, Unsigned, Gone
<1>8. Stones'
  <2>1. Keeping' = Keeping
    BY <1>0, <1>3, Standing DEF Keeping, Exchange
  <2> QED
    BY <1>1, <1>2, <2>1 DEF Data, Stones, Exchange, daily
<1>9. Listing'
  BY DEF Data, Listing, Exchange, daily
<1> QED
  BY <1>5, <1>6, <1>7, <1>8, <1>9, TypeParts DEF Data

\* A callback with its grant.
LEMMA GrantedData ==
    ASSUME Data, NEW r \in Requests, Insert(r) \/ ReadConnection(r) \/ CheckAccount(r) \/ Reactivate(r)
    PROVE  Data'
<1>0. Values /\ Rows /\ got \in Nat
  BY Standing
<1>1. CASE Insert(r)
  <2>1. req[r].grant \in 1..got /\ req[r].grant \in Grants /\ req[r].grant \in 0..MaxGrants
    BY <1>1, CallbackAt DEF Insert, Granted, Callback
  <2>2. dropped' \subseteq 1..got
    BY <1>0, <1>1, <2>1 DEF Insert, Drops, Values
  <2>3. row' \in [Grants -> 0..MaxGrants] /\ (~workspace => row' = row)
    BY <1>0, <1>1, <2>1 DEF Insert, Values
  <2>4. Values'
    BY <1>0, <1>1, <2>2, <2>3 DEF Insert, Values
  <2>5. Rows'
    BY <1>0, <1>1, <2>1 DEF Insert, Rows, Values
  <2> QED
    BY <1>1, <2>4, <2>5, OverData DEF Insert
<1>2. CASE ReadConnection(r)
  <2>1. req[r].grant \in 1..got
    BY <1>2, CallbackAt DEF ReadConnection, Granted
  <2>2. Values' /\ Rows'
    BY <1>0, <1>2, <2>1 DEF ReadConnection, Drops, Values, Rows, grants
  <2> QED
    BY <1>2, <2>2, OverData, CallbackData DEF ReadConnection, grants, Signing, Granted
<1>3. CASE CheckAccount(r)
  <2>1. req[r].grant \in 1..got
    BY <1>3, CallbackAt DEF CheckAccount, Granted
  <2>2. live' \subseteq 1..got /\ dropped' \subseteq 1..got
    BY <1>0, <1>3, <2>1 DEF CheckAccount, Drops, Values
  <2>3. Values' /\ Rows'
    BY <1>0, <1>3, <2>2 DEF CheckAccount, Values, Rows
  <2>4. Goto(r, "reactivate") \/ Over(r)
    BY <1>3 DEF CheckAccount
  <2> QED
    BY <1>3, <2>3, <2>4, OverData, CallbackData DEF CheckAccount, Signing, Granted
<1>4. CASE Reactivate(r)
  <2> DEFINE c == flow[req[r].flow].for
             g == req[r].grant
  <2>1. c \in Grants /\ g \in 1..got /\ g \in 0..MaxGrants
    BY <1>4, CallbackAt DEF Reactivate, Granted, Callback
  <2>2. /\ row[c] = None => row' = row /\ dropped' = dropped \cup {g}
        /\ row[c] # None => /\ row' = [row EXCEPT ![c] = g]
                            /\ dropped' \subseteq dropped \cup {row[c], g}
    BY <1>4 DEF Reactivate, Drops
  <2>3. row[c] # None => row[c] \in 1..got /\ c <= got
    BY <1>0, <2>1 DEF Rows, Values, None
  <2>4. dropped' \subseteq 1..got
    BY <1>0, <2>1, <2>2, <2>3 DEF Values
  <2>5. row' \in [Grants -> 0..MaxGrants] /\ (~workspace => row' = row)
    BY <1>0, <2>1, <2>2 DEF Values
  <2>6. Values'
    BY <1>0, <1>4, <2>4, <2>5 DEF Reactivate, Values
  <2>7. Rows'
    <3>1. \A d \in Grants : row'[d] = row[d] \/ (d = c /\ row'[d] = g /\ row[c] # None)
      BY <1>0, <2>1, <2>2 DEF Values
    <3> QED
      BY <1>0, <1>4, <2>1, <2>3, <3>1 DEF Reactivate, Rows
  <2> QED
    BY <1>4, <2>6, <2>7, OverData DEF Reactivate
<1> QED
  BY <1>1, <1>2, <1>3, <1>4

\* Taking connections away.
LEMMA TakingData ==
    ASSUME Data, NEW r \in Requests, NextConnection(r) \/ Revoke(r) \/ Drop(r) \/ Purge(r)
    PROVE  Data'
<1>0. Values /\ Rows /\ got \in Nat /\ MaxGrants \in Nat
  BY Standing
<1>1. CASE NextConnection(r)
  <2>1. req[r] \in Taking /\ req[r].job = "erase" /\ req[r].at = "next" /\ req[r].conn \notin req[r].todo
    BY <1>1, TakingAt DEF NextConnection
  <2>2. Values' /\ Rows'
    BY <1>0, <1>1 DEF NextConnection, Values, Rows, grants
  <2>3. CASE req[r].todo = {}
    <3> DEFINE q == [req[r] EXCEPT !.at = "purge"]
    <3>1. req' = [req EXCEPT ![r] = q]
      BY <1>1, <2>3 DEF NextConnection, Goto
    <3>2. q \in Taking /\ q.at = "purge" /\ q.job = "erase" /\ q.todo = {} /\ q.conn \notin q.todo
      BY <2>1, <2>3 DEF Taking
    <3>3. Shape(q) /\ q \in Asked
      BY <3>2 DEF Shape, Taken, Asked
    <3> QED
      BY <1>1, <2>2, <3>1, <3>2, <3>3, RequestData DEF NextConnection, grants
  <2>4. CASE req[r].todo # {}
    <3> DEFINE c == Min(req[r].todo)
               p == IF row[c] = None THEN "next" ELSE "revoke"
               q == [req[r] EXCEPT !.todo = req[r].todo \ {c}, !.conn = c, !.grant = row[c], !.at = p]
    <3>1. req[r].todo \in SUBSET Grants /\ Grants \in SUBSET Nat
      BY <2>1 DEF Taking, Grants
    <3>2. c \in req[r].todo /\ c \in Grants
      BY <2>4, <3>1, MinOf
    <3>3. req' = [req EXCEPT ![r] = q]
      BY <1>1, <2>4 DEF NextConnection
    <3>4. row[c] \in 0..MaxGrants /\ c \in 0..MaxGrants /\ (row[c] # None => row[c] \in 1..got)
      BY <1>0, <3>2, Standing DEF Rows, Grants, None
    <3>5. p \in {"next", "revoke"} /\ (p = "revoke" => row[c] # None)
      OBVIOUS
    <3>6. /\ q \in Taking /\ q.at = p /\ q.job = "erase" /\ q.todo = req[r].todo \ {c} /\ q.conn = c
          /\ q.grant = row[c]
      <4> HIDE DEF c, p
      <4> QED
        BY <2>1, <3>1, <3>4, <3>5 DEF Taking
    <3>7. Shape(q) /\ q \in Asked /\ q.at # "keep"
      <4> HIDE DEF q, c, p
      <4> QED
        BY <3>2, <3>4, <3>5, <3>6 DEF Shape, Taken, Asked
    <3> HIDE DEF q
    <3> QED
      BY <1>1, <2>2, <3>3, <3>7, RequestData DEF NextConnection, grants
  <2> QED
    BY <2>3, <2>4
<1>2. CASE Revoke(r)
  <2>1. /\ req[r] \in Taking /\ req[r].conn \notin req[r].todo /\ req[r].conn \in Grants
        /\ req[r].grant \in 1..got /\ req[r].at = "revoke" /\ req[r].job \in {"disconnect", "erase"}
    BY <1>2, TakingAt DEF Revoke, RevokeThen, Taken, Taking
  <2>2. PICK place \in {"drop", "keep"} :
            /\ Goto(r, place)
            /\ place = "keep" => req[r].job = "erase" /\ Len(tombs) + Cardinality(Keeping) < MaxTombs
    BY <1>2, <2>1 DEF Revoke, RevokeThen
  <2>3. live' \subseteq 1..got /\ dropped' \subseteq 1..got
    BY <1>0, <1>2, <2>1 DEF Revoke, RevokeThen, RevokeSealed, Drops, Values
  <2>4. Values' /\ Rows'
    BY <1>0, <1>2, <2>3 DEF Revoke, RevokeThen, Values, Rows
  <2> DEFINE q == [req[r] EXCEPT !.at = place]
  <2>5. req' = [req EXCEPT ![r] = q]
    BY <2>2 DEF Goto
  <2>6. /\ q \in Taking /\ q.at = place /\ q.job = req[r].job /\ q.todo = req[r].todo /\ q.conn = req[r].conn
        /\ q.grant = req[r].grant
    BY <2>1 DEF Taking
  <2>7. Shape(q) /\ q \in Asked
    <3> HIDE DEF q
    <3> QED
      BY <2>1, <2>2, <2>6 DEF Shape, Taken, Asked
  <2> HIDE DEF q
  <2> QED
    BY <1>2, <2>2, <2>4, <2>5, <2>6, <2>7, RequestData DEF Revoke, RevokeThen
<1>3. CASE Drop(r)
  <2>1. /\ req[r] \in Taking /\ req[r].conn \notin req[r].todo /\ req[r].conn \in Grants
        /\ req[r].grant \in 1..got /\ req[r].job \in {"disconnect", "erase"}
    BY <1>3, TakingAt DEF Drop, Taken, Taking
  <2>2. dropped' \subseteq 1..got
    BY <1>0, <1>3, <2>1 DEF Drop, Drops, Values
  <2>3. row' \in [Grants -> 0..MaxGrants] /\ \A c \in Grants : row'[c] = row[c] \/ row'[c] = None
    BY <1>0, <1>3, <2>1 DEF Drop, Values, None
  <2>4. Values'
    BY <1>0, <1>3, <2>2, <2>3 DEF Drop, Values
  <2>5. Rows'
    BY <1>0, <1>3, <2>3 DEF Drop, Rows, None
  <2>6. CASE req[r].job = "disconnect"
    BY <1>3, <2>4, <2>5, <2>6, OverData DEF Drop
  <2>7. CASE req[r].job = "erase"
    <3> DEFINE q == [req[r] EXCEPT !.at = "next"]
    <3>1. req' = [req EXCEPT ![r] = q]
      BY <1>3, <2>7 DEF Drop, Goto
    <3>2. /\ q \in Taking /\ q.at = "next" /\ q.job = "erase" /\ q.todo = req[r].todo /\ q.conn = req[r].conn
      BY <2>1, <2>7 DEF Taking
    <3>3. Shape(q) /\ q \in Asked
      <4> HIDE DEF q
      <4> QED
        BY <2>1, <3>2 DEF Shape, Taken, Asked
    <3> QED
      BY <1>3, <2>4, <2>5, <3>1, <3>2, <3>3, RequestData DEF Drop
  <2> QED
    BY <2>1, <2>6, <2>7
<1>4. CASE Purge(r)
  <2>1. row' \in [Grants -> 0..MaxGrants] /\ \A c \in Grants : row'[c] = None
    BY <1>0, <1>4 DEF Purge, PurgeLeaving, None
  <2>2. used' \in [Flows -> Nat] /\ \A f \in Flows : used'[f] = 0
    BY <1>4 DEF Purge, PurgeLeaving
  <2>3. Values'
    BY <1>0, <1>4, <2>1, <2>2 DEF Purge, PurgeLeaving, Values
  <2>4. Rows'
    BY <1>0, <1>4, <2>1 DEF Purge, PurgeLeaving, Rows, None
  <2> QED
    BY <1>4, <2>3, <2>4, OverData DEF Purge, PurgeLeaving
<1> QED
  BY <1>1, <1>2, <1>3, <1>4

LEMMA KeepData == ASSUME Data, NEW r \in Requests, Keep(r) PROVE Data'
<1>0. Values /\ Rows /\ FlowOK /\ DailyOK /\ got \in Nat /\ MaxAge \in Nat /\ MaxTombs \in Nat
  BY Standing, BoundsAssumption DEF Data
<1>1. /\ req[r] \in Taking /\ req[r].conn \notin req[r].todo /\ req[r].conn \in Grants
      /\ req[r].grant \in 1..got /\ req[r].at = "keep" /\ req[r].job = "erase" /\ req[r].grant \in 0..MaxGrants
  BY TakingAt DEF Keep, Taken, Taking
<1>2. PICK q : req' = [req EXCEPT ![r] = q] /\ q = [req[r] EXCEPT !.at = "drop"]
  BY Zenon DEF Keep, Goto
<1>3. /\ q \in Taking /\ q.at = "drop" /\ q.job = "erase" /\ q.todo = req[r].todo /\ q.conn = req[r].conn
      /\ q.grant = req[r].grant
  BY <1>1, <1>2 DEF Taking
<1>4. Shape(q)'
  BY <1>1, <1>3 DEF Shape, Taken, Keep, grants
<1>5. req' \in [Requests -> Asked] /\ \A s \in Requests : Shape(req[s])'
  <2>1. q \in Asked /\ got' = got /\ flow' = flow
    BY <1>3 DEF Asked, Keep, grants
  <2>2. got' \in Nat /\ got <= got'
    BY <1>0, <2>1
  <2>3. \A f \in Flows : flow[f] # Unsigned => flow'[f] = flow[f]
    BY <2>1
  <2> QED
    BY <1>2, <1>4, <2>1, <2>2, <2>3, ShapesKept, Zenon
<1> DEFINE t == [grant |-> req[r].grant, age |-> 0, tries |-> 0]
<1>6. t \in Tombs /\ t # Gone /\ t.grant \in 1..got
  BY <1>0, <1>1 DEF Tombs, Gone, None
<1>7. tombs' = Append(tombs, t) /\ tombs \in Seq(Tombs)
  BY <1>0 DEF Keep, DailyOK
<1>8. /\ tombs' \in Seq(Tombs) /\ Len(tombs') = Len(tombs) + 1 /\ Len(tombs) \in Nat
      /\ \A i \in 1..Len(tombs) : tombs'[i] = tombs[i]
      /\ tombs'[Len(tombs) + 1] = t
  <2> HIDE DEF t
  <2> QED
    BY <1>6, <1>7
<1>9. Waiting' = Waiting \cup {Len(tombs) + 1}
  BY <1>6, <1>7, <1>8 DEF Waiting, Gone
<1>10. Cardinality(Keeping)' = Cardinality(Keeping) - 1 /\ Cardinality(Keeping) \in Nat
  <2>1. req'[r] = q /\ \A s \in Requests \ {r} : req'[s] = req[s]
    BY <1>2, Standing
  <2> QED
    BY <1>1, <1>3, <2>1, KeepingMoves DEF Data
<1>11. Stones'
  <2>1. Len(tombs') + Cardinality(Keeping)' <= MaxTombs
    BY <1>0, <1>8, <1>10 DEF Data, Stones
  <2>2. \A i \in 1..Len(tombs') : tombs'[i] # Gone => tombs'[i].grant \in 1..got'
    <3> SUFFICES ASSUME NEW i \in 1..Len(tombs'), tombs'[i] # Gone PROVE tombs'[i].grant \in 1..got'
      OBVIOUS
    <3>1. got' = got
      BY DEF Keep, grants
    <3>2. CASE i = Len(tombs) + 1
      BY <1>6, <1>8, <3>1, <3>2
    <3>3. CASE i # Len(tombs) + 1
      BY <1>8, <3>1, <3>3 DEF Data, Stones
    <3> QED
      BY <3>2, <3>3
  <2>3. Gone' = Gone
    BY DEF Gone
  <2> QED
    BY <2>1, <2>2, <2>3 DEF Stones
<1>12. DailyOK'
  <2>1. Len(tombs') <= MaxTombs
    <3>1. Cardinality(Keeping)' \in Nat
      <4>1. Keeping' \in SUBSET Requests
        BY DEF Keeping
      <4> QED
        BY <4>1, KeepingCounts DEF Data
    <3> QED
      BY <1>0, <1>8, <1>11, <3>1 DEF Stones
  <2> QED
    BY <1>0, <1>8, <1>9, <2>1 DEF DailyOK, Keep, Tombs
<1>13. Values' /\ Rows' /\ FlowOK'
  BY <1>0 DEF Keep, grants, Values, Rows, FlowOK, Unsigned
<1>14. Listing'
  BY DEF Data, Listing, Keep
<1> QED
  BY <1>5, <1>11, <1>12, <1>13, <1>14, TypeParts DEF Data

LEMMA DieData == ASSUME Data, NEW r \in Requests, Die(r) PROVE Data'
<1>0. Values /\ Rows /\ got \in Nat /\ MaxFaults \in Nat
  BY Standing
<1>1. req[r].job = "callback" /\ req[r].grant # None => req[r].grant \in 1..got
  <2> SUFFICES ASSUME req[r].job = "callback", req[r].grant # None PROVE req[r].grant \in 1..got
    OBVIOUS
  <2>1. Shape(req[r]) /\ req[r] # Idle
    BY DEF Data, Die
  <2> QED
    BY <2>1 DEF Shape, Callback, Taking, Signing, Granted
<1>2. dropped' \subseteq 1..got
  BY <1>0, <1>1 DEF Die, Drops, Values
<1>3. faults' \in 0..MaxFaults
  BY <1>0 DEF Die, Values
<1>4. Values' /\ Rows'
  BY <1>0, <1>2, <1>3 DEF Die, Values, Rows, grants
<1> QED
  BY <1>4, OverData DEF Die, grants

-----------------------------------------------------------------------------
(* The daily run                                                           *)

\* What the run writes of the requests' data.
LEMMA RunData ==
    ASSUME Data, UNCHANGED <<req, flow, got>>, Values', Rows', DailyOK', Listing', Len(tombs') = Len(tombs),
           \A i \in 1..Len(tombs) : tombs'[i] # Gone => tombs[i] # Gone /\ tombs'[i].grant = tombs[i].grant
    PROVE  Data'
<1>1. FlowOK' /\ req' \in [Requests -> Asked]
  BY Standing DEF FlowOK, Unsigned
<1>2. \A r \in Requests : Shape(req[r])'
  BY DEF Data, Shape, Callback, Taking, Idle
<1>3. Stones'
  <2>1. Cardinality(Keeping)' = Cardinality(Keeping)
    BY DEF Keeping
  <2>2. \A i \in 1..Len(tombs') : tombs'[i] # Gone => tombs'[i].grant \in 1..got'
    BY DEF Data, Stones
  <2> QED
    BY <2>1, <2>2 DEF Data, Stones, Gone
<1> QED
  BY <1>1, <1>2, <1>3, TypeParts DEF Data

LEMMA Tombstones ==
    ASSUME Data
    PROVE  /\ Waiting \in SUBSET Nat /\ DOMAIN tombs = 1..Len(tombs) /\ Len(tombs) \in Nat
           /\ \A i \in Waiting : /\ i \in 1..Len(tombs) /\ tombs[i] \in Tombs /\ tombs[i] # Gone
                                 /\ tombs[i].grant \in 1..got
           /\ cron # Rest => Tomb \in cron.todo /\ Tomb \in Waiting
           /\ cron.at # "idle" <=> cron # Rest
<1>1. tombs \in Seq(Tombs)
  BY Standing DEF DailyOK
<1>2. DOMAIN tombs = 1..Len(tombs) /\ Len(tombs) \in Nat /\ \A i \in 1..Len(tombs) : tombs[i] \in Tombs
  BY <1>1
<1>3. Waiting \in SUBSET Nat
  BY <1>2 DEF Waiting
<1>4. \A i \in Waiting : tombs[i].grant \in 1..got /\ tombs[i] # Gone /\ i \in 1..Len(tombs)
  BY <1>2 DEF Data, Stones, Waiting
<1>5. cron # Rest => cron.todo # {} /\ cron.todo \in SUBSET Nat /\ cron.todo \subseteq Waiting
  BY <1>3, Standing DEF DailyOK, Data, Listing
<1>6. cron # Rest => Tomb \in cron.todo /\ Tomb \in Waiting
  BY <1>5, MinOf DEF Tomb
<1>7. cron.at # "idle" <=> cron # Rest
  BY DEF Data, Listing, Rest
<1> QED
  BY <1>2, <1>3, <1>4, <1>6, <1>7


\* The run goes on to the next tombstone.
LEMMA ProceedTodo ==
    ASSUME Data, cron # Rest, Proceed
    PROVE  /\ cron'.todo = cron.todo \ {Tomb}
           /\ cron' = Rest \/ (cron'.at = "next" /\ cron'.todo # {})
           /\ cron' = [at |-> cron'.at, todo |-> cron'.todo]
BY Tombstones DEF Proceed, Rest

\* A tombstone is gone, and the run goes on.
LEMMA GoneDaily ==
    ASSUME Data, cron # Rest, Proceed, tombs' = [tombs EXCEPT ![Tomb] = Gone], UNCHANGED <<ran, clock, crowded>>
    PROVE  /\ DailyOK' /\ Listing' /\ Len(tombs') = Len(tombs)
           /\ \A i \in 1..Len(tombs) : tombs'[i] # Gone => tombs[i] # Gone /\ tombs'[i].grant = tombs[i].grant
           /\ Waiting' = Waiting \ {Tomb}
<1>1. DailyOK /\ Gone \in Tombs /\ Tomb \in 1..Len(tombs) /\ MaxAge \in Nat /\ MaxGrants \in Nat
  BY Standing, Tombstones, BoundsAssumption DEF Gone, Tombs, None, Data
<1>2. /\ tombs' \in Seq(Tombs) /\ Len(tombs') = Len(tombs)
      /\ \A i \in 1..Len(tombs) : tombs'[i] = IF i = Tomb THEN Gone ELSE tombs[i]
  BY <1>1 DEF DailyOK
<1>3. DOMAIN tombs' = 1..Len(tombs) /\ DOMAIN tombs = 1..Len(tombs)
  BY <1>1, <1>2 DEF DailyOK
<1>4. Gone' = Gone
  BY DEF Gone
<1>5. Waiting' = Waiting \ {Tomb}
  BY <1>1, <1>2, <1>3, <1>4 DEF Waiting
<1>6. cron'.todo \subseteq Waiting' /\ cron'.at \in {"idle", "next", "bury", "note"}
  BY <1>1, <1>5, ProceedTodo DEF DailyOK, Rest
<1>7. DailyOK' /\ Listing'
  BY <1>1, <1>2, <1>6, ProceedTodo DEF DailyOK, Listing, Rest, Tombs
<1> QED
  BY <1>2, <1>5, <1>7

LEMMA CronData == ASSUME Data, Run \/ RunDies PROVE Data'
<1>0. Values /\ Rows /\ DailyOK /\ got \in Nat /\ MaxAge \in Nat
  BY Standing, BoundsAssumption DEF Data
<1>1. CASE StartRun
  <2>1. Waiting' = Waiting /\ Listed \subseteq Waiting
    BY <1>1 DEF StartRun, Waiting, Gone, Listed
  <2>2. Waiting # {} => Listed # {}
    <3>1. SUFFICES ASSUME Waiting # {} PROVE Listed # {}
      OBVIOUS
    <3>2. PICK i \in Waiting : \A j \in Waiting : i <= j
      BY <3>1, Tombstones, MinOf
    <3>3. {j \in Waiting : j < i} = {}
      BY <3>2, Tombstones
    <3>4. Cardinality({j \in Waiting : j < i}) < Limit
      BY <3>3, FS_EmptySet, BoundsAssumption DEF Data
    <3> QED
      BY <3>4 DEF Listed
  <2>3. cron' = Rest \/ (cron' = [at |-> "next", todo |-> Listed] /\ Listed # {})
    BY <1>1, <2>2 DEF StartRun
  <2>4. DailyOK' /\ Listing'
    BY <1>0, <1>1, <2>1, <2>3 DEF StartRun, DailyOK, Listing, Rest, Tombs
  <2>5. Values' /\ Rows'
    BY <1>0, <1>1 DEF StartRun, grants, Values, Rows
  <2> QED
    BY <1>1, <2>4, <2>5, RunData DEF StartRun, grants
<1>2. CASE GiveUp
  <2>1. cron # Rest /\ tombs[Tomb].grant \in 1..got
    BY <1>2, Tombstones DEF GiveUp, GiveUpAfter, Rest
  <2>2. Values' /\ Rows'
    BY <1>0, <1>2, <2>1 DEF GiveUp, GiveUpAfter, Drops, grants, Values, Rows
  <2> QED
    BY <1>2, <2>1, <2>2, GoneDaily, RunData DEF GiveUp, GiveUpAfter, grants
<1>3. CASE Retry
  <2>1. cron # Rest /\ tombs[Tomb].grant \in 1..got
    BY <1>3, Tombstones DEF Retry, Rest
  <2>2. live' \subseteq 1..got /\ dropped' \subseteq 1..got
    BY <1>0, <1>3, <2>1 DEF Retry, RevokeSealed, Drops, Values
  <2>3. Values' /\ Rows'
    BY <1>0, <1>3, <2>2 DEF Retry, Values, Rows
  <2>4. cron'.at \in {"bury", "note"} /\ cron'.todo = cron.todo /\ cron' = [at |-> cron'.at, todo |-> cron'.todo]
    BY <1>3 DEF Retry, Data, Listing
  <2>5. cron.todo # {}
    BY <2>1, Tombstones
  <2>6. DailyOK' /\ Listing'
    BY <1>0, <1>3, <2>4, <2>5 DEF Retry, DailyOK, Listing, Waiting, Gone, Tombs
  <2> QED
    BY <1>3, <2>3, <2>6, RunData DEF Retry
<1>4. CASE Bury
  <2>1. cron # Rest /\ Values' /\ Rows'
    BY <1>0, <1>4 DEF Bury, grants, Values, Rows, Rest
  <2> QED
    BY <1>4, <2>1, GoneDaily, RunData DEF Bury, grants
<1>5. CASE Note
  <2>1. cron # Rest /\ Values' /\ Rows'
    BY <1>0, <1>5 DEF Note, NoteAs, grants, Values, Rows, Rest
  <2>2. Tomb \in 1..Len(tombs) /\ tombs[Tomb] \in Tombs /\ tombs[Tomb].grant \in 1..got
    BY <2>1, Tombstones
  <2>0. tombs[Tomb] # Gone
    BY <2>1, Tombstones
  <2> DEFINE t == [tombs[Tomb] EXCEPT !.tries = IF tombs[Tomb].tries < MaxAge THEN tombs[Tomb].tries + 1
                                               ELSE tombs[Tomb].tries]
  <2>3. t \in Tombs /\ t.grant = tombs[Tomb].grant /\ t # Gone
    BY <1>0, <2>2 DEF Tombs, Gone, None
  <2>4. tombs' = [tombs EXCEPT ![Tomb] = t]
    BY <1>5, <2>2 DEF Note, NoteAs, Tombs
  <2>5. /\ tombs' \in Seq(Tombs) /\ Len(tombs') = Len(tombs)
        /\ \A i \in 1..Len(tombs) : tombs'[i] = IF i = Tomb THEN t ELSE tombs[i]
    <3> HIDE DEF t
    <3> QED
      BY <1>0, <2>2, <2>3, <2>4 DEF DailyOK
  <2>6. DOMAIN tombs' = 1..Len(tombs) /\ DOMAIN tombs = 1..Len(tombs) /\ Gone' = Gone
    BY <1>0, <2>5 DEF DailyOK, Gone
  <2>7. Waiting' = Waiting
    <3>1. \A i \in 1..Len(tombs) : tombs'[i] # Gone <=> tombs[i] # Gone
      <4> HIDE DEF t
      <4> QED
        BY <2>0, <2>3, <2>5
    <3> QED
      BY <2>6, <3>1 DEF Waiting
  <2>8. cron'.todo \subseteq Waiting' /\ cron'.at \in {"idle", "next", "bury", "note"}
    BY <1>0, <1>5, <2>1, <2>7, ProceedTodo DEF DailyOK, Rest, Note, NoteAs
  <2>9. DailyOK' /\ Listing'
    BY <1>0, <1>5, <2>1, <2>5, <2>8, ProceedTodo DEF DailyOK, Listing, Rest, Tombs, Note, NoteAs
  <2>10. \A i \in 1..Len(tombs) : tombs'[i] # Gone => tombs[i] # Gone /\ tombs'[i].grant = tombs[i].grant
    <3> HIDE DEF t
    <3> QED
      BY <2>0, <2>3, <2>5
  <2> QED
    BY <1>5, <2>1, <2>5, <2>9, <2>10, RunData DEF Note, NoteAs, grants
<1>6. CASE RunDies
  <2>1. faults' \in 0..MaxFaults
    BY <1>0, <1>6, Standing DEF RunDies, Values
  <2>2. Values' /\ Rows' /\ DailyOK' /\ Listing'
    BY <1>0, <1>6, <2>1 DEF RunDies, grants, Values, Rows, DailyOK, Listing, Rest, Waiting, Gone, Tombs
  <2> QED
    BY <1>6, <2>2, RunData DEF RunDies, grants
<1> QED
  BY <1>1, <1>2, <1>3, <1>4, <1>5, <1>6 DEF Run

-----------------------------------------------------------------------------
(* Time, and all steps                                                     *)

LEMMA TickData == ASSUME Data, Tick PROVE Data'
<1>0. Values /\ Rows /\ DailyOK /\ clock + 1 \in 0..MaxClock
  BY Standing DEF Tick
<1>1. Values' /\ Rows' /\ Listing'
  BY <1>0 DEF Tick, grants, Values, Rows, Data, Listing
<1>2. DailyOK'
  BY <1>0 DEF Tick, DailyOK, Waiting, Gone, Tombs
<1> QED
  BY <1>1, <1>2, RunData DEF Tick, grants

\* What a day does to a tombstone.
LEMMA DayTombs ==
    ASSUME Data, Day
    PROVE  /\ tombs' \in Seq(Tombs) /\ Len(tombs') = Len(tombs) /\ Waiting' = Waiting
           /\ \A i \in 1..Len(tombs) : tombs'[i].grant = tombs[i].grant /\ tombs'[i].tries = tombs[i].tries
                                       /\ tombs'[i].age \in {tombs[i].age, tombs[i].age + 1}
                                       /\ (tombs'[i] # Gone <=> tombs[i] # Gone)
<1>0. MaxAge \in Nat /\ MaxGrants \in Nat /\ tombs \in Seq(Tombs)
  BY Standing, BoundsAssumption DEF Data, DailyOK
<1>1. DOMAIN tombs = 1..Len(tombs) /\ Len(tombs) \in Nat
  BY Tombstones
<1>2. DOMAIN tombs' = 1..Len(tombs)
  BY <1>1 DEF Day
<1>3. ASSUME NEW i \in 1..Len(tombs)
      PROVE  /\ tombs'[i] \in Tombs /\ tombs'[i].grant = tombs[i].grant /\ tombs'[i].tries = tombs[i].tries
             /\ tombs'[i].age \in {tombs[i].age, tombs[i].age + 1}
             /\ tombs'[i] # Gone <=> tombs[i] # Gone
  <2>1. tombs[i] \in Tombs
    BY <1>0
  <2>2. CASE i \in Waiting /\ tombs[i].age <= MaxAge
    <3>1. tombs'[i] = [tombs[i] EXCEPT !.age = tombs[i].age + 1]
      BY <1>1, <2>2 DEF Day
    <3>2. tombs[i].age + 1 \in 0..(MaxAge + 1) /\ tombs[i].grant \in 1..got
      BY <1>0, <2>1, <2>2, Tombstones DEF Tombs
    <3>3. tombs'[i].grant = tombs[i].grant
      BY <2>1, <3>1 DEF Tombs
    <3>4. tombs'[i] # Gone /\ tombs[i] # Gone
      BY <2>2, <3>2, <3>3, Tombstones, Standing DEF Gone, None
    <3> QED
      BY <2>1, <3>1, <3>2, <3>4 DEF Tombs
  <2>3. CASE ~(i \in Waiting /\ tombs[i].age <= MaxAge)
    BY <1>1, <2>1, <2>3 DEF Day
  <2> QED
    BY <2>2, <2>3
<1>4. tombs' = [i \in 1..Len(tombs) |-> tombs'[i]]
  BY <1>1 DEF Day
<1>5. tombs' \in Seq(Tombs) /\ Len(tombs') = Len(tombs)
  BY <1>1, <1>2, <1>3, <1>4
<1>6. Gone' = Gone
  BY DEF Gone
<1>7. Waiting' = Waiting
  BY <1>1, <1>2, <1>3, <1>6 DEF Waiting
<1> QED
  BY <1>3, <1>5, <1>7

LEMMA DayData == ASSUME Data, Day PROVE Data'
<1>0. Values /\ Rows /\ DailyOK /\ FlowOK /\ MaxFaults \in Nat /\ MaxClock \in Nat /\ Ttl \in Nat
  BY Standing
<1>1. faults' \in 0..MaxFaults
  BY <1>0 DEF Day, Values
<1>2. Values' /\ Rows'
  BY <1>0, <1>1 DEF Day, grants, Values, Rows
<1>3. DailyOK' /\ Listing'
  <2>0. Len(tombs') <= MaxTombs
    BY <1>0, DayTombs DEF DailyOK
  <2>1. clock' \in 0..MaxClock
    BY <1>0 DEF Day
  <2>2. ran' \in BOOLEAN
    BY Zenon DEF Day
  <2> QED
    BY <1>0, <2>0, <2>1, <2>2, DayTombs DEF Day, DailyOK, Data, Listing, Rest, Tombs
<1>4. FlowOK'
  <2> DEFINE Signed == [at : -Ttl..MaxClock, for : 0..MaxGrants]
  <2>1. -Ttl \in -Ttl..MaxClock
    BY <1>0
  <2>2. \A f \in Flows : flow[f] # Unsigned => flow[f] \in Signed /\ [flow[f] EXCEPT !.at = -Ttl] \in Signed
    BY <1>0, <2>1 DEF FlowOK
  <2>3. flow' \in [Flows -> Signed \cup {Unsigned}]
    <3> HIDE DEF Signed
    <3> QED
      BY <2>2 DEF Day
  <2>4. Unsigned' = Unsigned
    BY DEF Unsigned
  <2> QED
    BY <2>3, <2>4 DEF FlowOK
<1>5. \A r \in Requests : req'[r] = Idle
  BY DEF Day
<1>6. \A r \in Requests : Shape(req[r])'
  BY <1>5 DEF Shape, Idle
<1>7. req' \in [Requests -> Asked]
  BY Standing DEF Day
<1>8. Stones'
  <2>1. Keeping' = {} /\ Cardinality(Keeping)' = 0
    BY <1>5, FS_EmptySet DEF Keeping, Idle
  <2>2. \A i \in 1..Len(tombs') : tombs'[i] # Gone => tombs'[i].grant \in 1..got'
    BY DayTombs DEF Data, Stones, Day, grants
  <2>3. Gone' = Gone
    BY DEF Gone
  <2> QED
    BY <1>0, <2>1, <2>2, <2>3, DayTombs DEF Stones, DailyOK
<1> QED
  BY <1>2, <1>3, <1>4, <1>6, <1>7, <1>8, TypeParts DEF Data

LEMMA InitData == ASSUME Init PROVE Data
<1>1. got \in 0..MaxGrants /\ live = 1..got /\ MaxGrants \in Nat \ {0}
  BY BoundsAssumption DEF Init
<1>2. \A c \in Grants : row[c] = IF c \in 1..got THEN c ELSE 0
  BY <1>1 DEF Init, None
<1>3. row \in [Grants -> 0..MaxGrants]
  BY <1>1 DEF Init, Grants, None
<1>4. Values
  BY <1>1, <1>3, BoundsAssumption DEF Init, Values
<1>5. Rows
  BY <1>1, <1>2 DEF Rows, None, Grants
<1>6. tombs = <<>> /\ Waiting = {} /\ cron = Rest /\ Len(tombs) = 0
  BY DEF Init, Waiting
<1>7. DailyOK /\ FlowOK /\ Listing
  <2>1. tombs \in Seq(Tombs) /\ Len(tombs) <= MaxTombs /\ 0 \in 0..MaxClock
    BY <1>6, BoundsAssumption
  <2>5. ran \in BOOLEAN /\ crowded \in BOOLEAN
    BY Zenon DEF Init
  <2>2. DailyOK
    BY <1>6, <2>1, <2>5 DEF Init, DailyOK, Rest
  <2>3. FlowOK
    BY DEF Init, FlowOK
  <2>4. Listing
    BY <1>6 DEF Listing, Rest
  <2> QED
    BY <2>2, <2>3, <2>4
<1>8. req \in [Requests -> Asked] /\ \A r \in Requests : Shape(req[r])
  BY DEF Init, Asked, Shape
<1>9. Stones
  <2>1. Keeping = {} /\ Cardinality(Keeping) = 0
    BY FS_EmptySet DEF Init, Keeping, Idle
  <2> QED
    BY <1>6, <2>1, BoundsAssumption DEF Stones
<1> QED
  BY <1>4, <1>5, <1>7, <1>8, <1>9, TypeParts DEF Data

LEMMA NextData == ASSUME Data, [Next]_vars PROVE Data'
<1>1. CASE UNCHANGED vars
  <2>1. Values' /\ Rows' /\ DailyOK' /\ Listing'
    BY <1>1, Standing DEF vars, Values, Rows, DailyOK, Data, Listing, Waiting, Gone, Tombs
  <2> QED
    BY <1>1, <2>1, RunData DEF vars
<1>2. ASSUME NEW r \in Requests, Start(r) \/ Step(r) \/ Die(r) PROVE Data'
  BY <1>2, StartData, SigningData, ExchangeData, GrantedData, TakingData, KeepData, DieData DEF Step
<1> QED
  BY <1>1, <1>2, StartFlowData, CronData, TickData, DayData DEF Next

-----------------------------------------------------------------------------
(* A state is spent once                                                   *)

\* Numbers of a callback that is about to claim.
LEMMA SigningNumbers ==
    ASSUME Data
    PROVE  /\ clock \in Int /\ Ttl \in Nat \ {0} /\ Slack \in Nat \ {0}
           /\ \A f \in Flows : used[f] \in Nat /\ spent[f] \in Nat
           /\ \A f \in Flows : flow[f] # Unsigned => flow[f].at \in Int /\ flow[f].at >= -Ttl
           /\ \A r \in Requests : req[r].at \in Signing =>
                  /\ req[r].flow \in Flows /\ flow[req[r].flow] # Unsigned
                  /\ req[r].now \in Nat
<1>1. clock \in Int /\ Ttl \in Nat \ {0} /\ Slack \in Nat \ {0}
  BY Standing
<1>2. \A f \in Flows : used[f] \in Nat /\ spent[f] \in Nat
  BY Standing DEF Values
<1>3. \A f \in Flows : flow[f] # Unsigned => flow[f].at \in Int /\ flow[f].at >= -Ttl
  <2>1. \A f \in Flows : flow[f] # Unsigned => flow[f].at \in -Ttl..MaxClock
    BY Standing DEF FlowOK
  <2> QED
    BY <1>1, <2>1, Standing
<1>4. \A r \in Requests : req[r].at \in Signing =>
          req[r].flow \in Flows /\ flow[req[r].flow] # Unsigned /\ req[r].now \in Nat
  BY CallbackAt DEF Callback
<1> QED
  BY <1>1, <1>2, <1>3, <1>4

\* Nobody comes closer to an exchange, and no marker of a living workspace goes.
LEMMA SpendingFrame ==
    ASSUME Data, Timing, Spending, UNCHANGED <<flow, spent, clock>>,
           workspace' \in BOOLEAN, workspace' => workspace,
           \A f \in Flows : used'[f] = used[f] \/ ~workspace',
           \A s \in Requests : req'[s].at \in Signing => req'[s] = req[s]
    PROVE  Timing' /\ Spending'
<1>1. Timing'
  BY DEF Timing, Signing, Unsigned
<1>2. ASSUME NEW f \in Flows, Closed(f) PROVE Closed(f)'
  BY <1>2 DEF Closed, Signing
<1>3. Spending'
  BY <1>2 DEF Spending, Signing, Unsigned
<1> QED
  BY <1>1, <1>3

LEMMA StartFlowSpending ==
    ASSUME Data, Timing, Spending, NEW f \in Flows, NEW c \in Grants \cup {None}, StartFlow(f, c)
    PROVE  Timing' /\ Spending'
<1>1. /\ flow'[f].at = clock /\ flow[f] = Unsigned
      /\ \A g \in Flows : flow[g] # Unsigned => flow'[g] = flow[g]
      /\ \A g \in Flows \ {f} : flow'[g] = flow[g]
      /\ UNCHANGED <<workspace, used, req, spent, clock>>
  BY Standing DEF StartFlow, FlowOK, grants, daily
<1>2. Unsigned' = Unsigned
  BY DEF Unsigned
<1>3. Timing'
  BY <1>1, <1>2, SigningNumbers DEF Timing, Signing
<1>4. ASSUME NEW g \in Flows, flow[g] # Unsigned, Closed(g) PROVE Closed(g)'
  BY <1>1, <1>4 DEF Closed
<1>5. spent[f] # 1
  BY <1>1 DEF Spending
<1>6. \A r \in Requests : req[r].at = "exchange" => flow[req[r].flow] # Unsigned
  BY SigningNumbers DEF Signing
<1>7. Spending'
  BY <1>1, <1>2, <1>4, <1>5, <1>6 DEF Spending
<1> QED
  BY <1>3, <1>7

LEMMA StartCallbackSpending ==
    ASSUME Data, Timing, Spending, NEW r \in Requests, NEW f \in Flows, StartCallback(r, f)
    PROVE  Timing' /\ Spending'
<1>1. /\ req'[r].at = "sweep" /\ req'[r].flow = f /\ req'[r].now = clock
      /\ \A s \in Requests \ {r} : req'[s] = req[s]
      /\ flow[f] # Unsigned /\ clock < flow[f].at + Ttl
      /\ UNCHANGED <<workspace, used, flow, spent, clock>>
  BY Standing DEF StartCallback, grants, daily
<1>2. Unsigned' = Unsigned
  BY DEF Unsigned
<1>3. Timing'
  BY <1>1, <1>2, SigningNumbers DEF Timing, Signing
<1>4. ASSUME NEW g \in Flows, Closed(g), flow[g] # Unsigned PROVE Closed(g)'
  <2>1. CASE g = f
    <3>1. ~(clock >= flow[f].at + Ttl)
      BY <1>1, SigningNumbers
    <3> QED
      BY <1>1, <1>4, <2>1, <3>1 DEF Closed
  <2>2. CASE g # f
    BY <1>1, <1>4, <2>2 DEF Closed
  <2> QED
    BY <2>1, <2>2
<1>5. \A s \in Requests : req'[s].at = "exchange" => req'[s] = req[s]
  BY <1>1
<1>6. \A s \in Requests : req[s].at = "exchange" => flow[req[s].flow] # Unsigned
  BY SigningNumbers DEF Signing
<1>7. Spending'
  BY <1>1, <1>2, <1>4, <1>5, <1>6 DEF Spending
<1> QED
  BY <1>3, <1>7

LEMMA SweepSpending ==
    ASSUME Data, Timing, Spending, NEW r \in Requests, SweepUsed(r)
    PROVE  Timing' /\ Spending'
<1>1. /\ req[r].at = "sweep" /\ req'[r].at = "claim" /\ req'[r].flow = req[r].flow /\ req'[r].now = req[r].now
      /\ \A s \in Requests \ {r} : req'[s] = req[s]
      /\ UNCHANGED <<workspace, flow, spent, clock>>
  <2>1. req[r] \in Callback
    BY CallbackAt DEF SweepUsed, Signing
  <2> QED
    BY <2>1, Standing DEF SweepUsed, Goto, grants, daily, Callback
<1>2. Unsigned' = Unsigned
  BY DEF Unsigned
<1>3. Timing'
  BY <1>1, <1>2 DEF Timing
<1>4. ASSUME NEW f \in Flows, flow[f] # Unsigned, Closed(f) PROVE Closed(f)'
  <2>1. used'[f] = IF used[f] <= req[r].now THEN 0 ELSE used[f]
    BY DEF SweepUsed
  <2>2. CASE used[f] >= flow[f].at + Ttl + Slack /\ used[f] <= req[r].now
    <3>1. clock >= flow[f].at + Ttl + Slack
      BY <1>1, <1>4, <2>2, SigningNumbers DEF Timing, Signing
    <3>2. \A s \in Requests : req[s].at \in {"sweep", "claim"} => req[s].flow # f
      BY <1>4, <3>1, SigningNumbers DEF Timing, Signing
    <3>3. clock >= flow[f].at + Ttl
      BY <1>4, <3>1, SigningNumbers
    <3> QED
      BY <1>1, <3>2, <3>3 DEF Closed
  <2>3. CASE ~(used[f] >= flow[f].at + Ttl + Slack /\ used[f] <= req[r].now)
    BY <1>1, <1>4, <2>1, <2>3 DEF Closed
  <2> QED
    BY <2>2, <2>3
<1>5. \A s \in Requests : req'[s].at = "exchange" => req'[s] = req[s]
  BY <1>1
<1>6. \A s \in Requests : req[s].at = "exchange" => flow[req[s].flow] # Unsigned
  BY SigningNumbers DEF Signing
<1>7. Spending'
  BY <1>1, <1>2, <1>4, <1>5, <1>6 DEF Spending
<1> QED
  BY <1>3, <1>7

LEMMA ClaimSpending ==
    ASSUME Data, Timing, Spending, NEW r \in Requests, Claim(r)
    PROVE  Timing' /\ Spending'
<1>0. PICK f \in Flows : f = req[r].flow
  BY CallbackAt DEF Claim, ClaimUntil, Signing
<1>1. /\ req[r].at = "claim" /\ req[r] \in Callback /\ flow[f] # Unsigned
      /\ UNCHANGED <<workspace, flow, spent, clock>>
  BY <1>0, CallbackAt DEF Claim, ClaimUntil, Signing, grants, daily
<1>2. CASE ~(workspace /\ used[f] = 0)
  <2>1. used' = used /\ \A s \in Requests : req'[s].at \in Signing => req'[s] = req[s]
    BY <1>0, <1>2, Standing DEF Claim, ClaimUntil, Over, Idle, Signing
  <2> QED
    BY <1>1, <2>1, SpendingFrame, Standing DEF Values
<1>3. CASE workspace /\ used[f] = 0
  <2>1. /\ req'[r].at = "exchange" /\ req'[r].flow = f
        /\ \A s \in Requests \ {r} : req'[s] = req[s]
        /\ used'[f] = req[r].now + Ttl + Slack /\ \A g \in Flows \ {f} : used'[g] = used[g]
    BY <1>0, <1>1, <1>3, Standing DEF Claim, ClaimUntil, Goto, Callback, Values
  <2>2. ~Closed(f)
    BY <1>0, <1>1, <1>3, SigningNumbers DEF Closed
  <2>3. spent[f] # 1 /\ \A s \in Requests : req[s].at = "exchange" => req[s].flow # f
    BY <1>0, <1>1, <2>2 DEF Spending
  <2>4. Closed(f)'
    BY <1>0, <1>1, <2>1, SigningNumbers DEF Closed, Timing, Signing
  <2>5. Unsigned' = Unsigned
    BY DEF Unsigned
  <2>6. Timing'
    BY <1>1, <2>1, <2>5 DEF Timing
  <2>7. ASSUME NEW g \in Flows \ {f}, Closed(g) PROVE Closed(g)'
    BY <1>1, <2>1, <2>7 DEF Closed
  <2>8. ASSUME NEW g \in Flows
        PROVE  /\ spent'[g] \in {0, 1}
               /\ spent'[g] = 1 => /\ flow'[g] # Unsigned /\ Closed(g)'
                                   /\ \A s \in Requests : req'[s].at = "exchange" => req'[s].flow # g
               /\ \A s \in Requests : req'[s].at = "exchange" /\ req'[s].flow = g =>
                      /\ Closed(g)'
                      /\ \A t \in Requests : req'[t].at = "exchange" /\ req'[t].flow = g => t = s
    <3>1. CASE g = f
      <4>1. spent'[f] \in {0, 1} /\ spent'[f] # 1
        BY <1>1, <2>3 DEF Spending
      <4>2. \A s \in Requests : req'[s].at = "exchange" /\ req'[s].flow = f => s = r
        BY <2>1, <2>3
      <4> QED
        BY <2>4, <3>1, <4>1, <4>2
    <3>2. CASE g # f
      BY <1>1, <2>1, <2>7, <3>2 DEF Spending
    <3> QED
      BY <3>1, <3>2
  <2>9. Spending'
    BY <2>5, <2>8 DEF Spending
  <2> QED
    BY <2>6, <2>9
<1> QED
  BY <1>2, <1>3

LEMMA ExchangeSpending ==
    ASSUME Data, Timing, Spending, NEW r \in Requests, Exchange(r)
    PROVE  Timing' /\ Spending'
<1> DEFINE f == req[r].flow
<1>1. /\ req[r].at = "exchange" /\ req[r] \in Callback /\ f \in Flows /\ flow[f] # Unsigned
      /\ UNCHANGED <<workspace, used, flow, clock>>
  BY CallbackAt DEF Exchange, Signing, daily
<1>2. /\ req'[r].at \in {"insert", "read"} /\ \A s \in Requests \ {r} : req'[s] = req[s]
      /\ spent'[f] = spent[f] + 1 /\ \A g \in Flows \ {f} : spent'[g] = spent[g]
  BY <1>1, Standing DEF Exchange, Callback, Values
<1>3. Unsigned' = Unsigned
  BY DEF Unsigned
<1>4. Timing'
  BY <1>1, <1>2, <1>3 DEF Timing
<1>5. ASSUME NEW g \in Flows, Closed(g) PROVE Closed(g)'
  BY <1>1, <1>2, <1>5 DEF Closed
<1>6. Closed(f) /\ spent[f] = 0 /\ \A s \in Requests \ {r} : req[s].at = "exchange" => req[s].flow # f
  BY <1>1 DEF Spending
<1>7. ASSUME NEW g \in Flows
      PROVE  /\ spent'[g] \in {0, 1}
             /\ spent'[g] = 1 => /\ flow'[g] # Unsigned /\ Closed(g)'
                                 /\ \A s \in Requests : req'[s].at = "exchange" => req'[s].flow # g
             /\ \A s \in Requests : req'[s].at = "exchange" /\ req'[s].flow = g =>
                    /\ Closed(g)'
                    /\ \A t \in Requests : req'[t].at = "exchange" /\ req'[t].flow = g => t = s
  <2>1. CASE g = f
    BY <1>1, <1>2, <1>5, <1>6, <2>1
  <2>2. CASE g # f
    BY <1>1, <1>2, <1>5, <2>2 DEF Spending
  <2> QED
    BY <2>1, <2>2
<1>8. Spending'
  BY <1>3, <1>7 DEF Spending
<1> QED
  BY <1>4, <1>8

LEMMA TickSpending == ASSUME Data, Timing, Spending, Tick PROVE Timing' /\ Spending'
<1>1. clock' = clock + 1 /\ UNCHANGED <<workspace, used, flow, spent, req>>
  BY DEF Tick, grants
<1>2. Unsigned' = Unsigned
  BY DEF Unsigned
<1>3. Timing'
  <2>1. \A r \in Requests : req[r].at \in {"sweep", "claim"} => clock < req[r].now + Slack
    BY DEF Tick
  <2> QED
    BY <1>1, <1>2, <2>1, SigningNumbers DEF Timing, Signing
<1>4. ASSUME NEW f \in Flows, flow[f] # Unsigned, Closed(f) PROVE Closed(f)'
  BY <1>1, <1>4, SigningNumbers DEF Closed
<1>5. \A s \in Requests : req[s].at = "exchange" => flow[req[s].flow] # Unsigned
  BY SigningNumbers DEF Signing
<1>6. Spending'
  BY <1>1, <1>2, <1>4, <1>5 DEF Spending
<1> QED
  BY <1>3, <1>6

LEMMA DaySpending == ASSUME Data, Timing, Spending, Day PROVE Timing' /\ Spending'
<1>1. /\ clock' = 0 /\ spent' = spent /\ \A r \in Requests : req'[r] = Idle
      /\ \A f \in Flows : flow[f] # Unsigned => flow'[f].at = -Ttl /\ flow'[f] # Unsigned
      /\ \A f \in Flows : flow[f] = Unsigned => flow'[f] = Unsigned
  <2>1. \A f \in Flows : flow[f] # Unsigned =>
            [flow[f] EXCEPT !.at = -Ttl].at = -Ttl /\ [flow[f] EXCEPT !.at = -Ttl].for = flow[f].for
            /\ flow[f].for # -1
    BY Standing DEF FlowOK
  <2>2. Unsigned.for = -1
    BY DEF Unsigned
  <2> QED
    BY <2>1, <2>2 DEF Day
<1>2. Unsigned' = Unsigned
  BY DEF Unsigned
<1>3. Timing'
  BY <1>1, <1>2, SigningNumbers DEF Timing, Idle
<1>4. ASSUME NEW f \in Flows, flow[f] # Unsigned PROVE Closed(f)'
  BY <1>1, <1>4, SigningNumbers DEF Closed, Idle
<1>5. Spending'
  BY <1>1, <1>2, <1>4 DEF Spending, Idle
<1> QED
  BY <1>3, <1>5

LEMMA InitSpending == ASSUME Init PROVE Timing /\ Spending
BY DEF Init, Timing, Spending, Idle

LEMMA NextSpending == ASSUME Data, Timing, Spending, [Next]_vars PROVE Timing' /\ Spending'
<1>0. workspace \in BOOLEAN /\ req \in [Requests -> Asked]
  BY Standing DEF Values
<1>1. CASE UNCHANGED vars
  BY <1>0, <1>1, SpendingFrame DEF vars
<1>2. CASE Run \/ RunDies
  <2>1. UNCHANGED <<workspace, used, req, flow, spent, clock>>
    BY <1>2 DEF Run, RunDies, StartRun, GiveUp, GiveUpAfter, Retry, Bury, Note, NoteAs, grants
  <2> QED
    BY <1>0, <2>1, SpendingFrame
<1>3. ASSUME NEW r \in Requests, Start(r) \/ Step(r) \/ Die(r) PROVE Timing' /\ Spending'
  <2>1. CASE \E f \in Flows : StartCallback(r, f)
    BY <2>1, StartCallbackSpending
  <2>2. CASE SweepUsed(r) \/ Claim(r) \/ Exchange(r)
    BY <2>2, SweepSpending, ClaimSpending, ExchangeSpending
  <2>3. CASE Refused(r) \/ Insert(r) \/ Reactivate(r) \/ Die(r)
    <3>1. Over(r) /\ UNCHANGED <<workspace, used, flow, spent, clock>>
      BY <2>3 DEF Refused, Insert, Reactivate, Die, grants, daily
    <3> QED
      BY <1>0, <3>1, SpendingFrame DEF Over, Signing, Idle
  <2>4. CASE ReadConnection(r) \/ CheckAccount(r)
    <3>1. (Over(r) \/ Goto(r, "account") \/ Goto(r, "reactivate")) /\ UNCHANGED <<workspace, used, flow, spent, clock>>
      BY <2>4 DEF ReadConnection, CheckAccount, grants, daily
    <3>2. req[r] \in Callback
      BY <2>4, CallbackAt DEF ReadConnection, CheckAccount, Granted
    <3>3. \A s \in Requests : req'[s].at \in Signing => req'[s] = req[s]
      BY <1>0, <3>1, <3>2 DEF Over, Goto, Signing, Idle, Callback
    <3> QED
      BY <1>0, <3>1, <3>3, SpendingFrame
  <2>5. CASE (\E c \in Grants : StartDisconnect(r, c)) \/ StartErase(r)
    <3>1. UNCHANGED <<workspace, used, flow, spent, clock>>
      BY <2>5 DEF StartDisconnect, StartErase, grants, daily
    <3>2. \A s \in Requests : req'[s].at \in Signing => req'[s] = req[s]
      BY <1>0, <2>5 DEF StartDisconnect, StartErase, Signing
    <3> QED
      BY <1>0, <3>1, <3>2, SpendingFrame
  <2>6. CASE NextConnection(r) \/ Revoke(r) \/ Keep(r) \/ Drop(r)
    <3>1. UNCHANGED <<workspace, used, flow, spent, clock>>
      BY <2>6 DEF NextConnection, Revoke, RevokeThen, Keep, Drop, grants, daily
    <3>2. req[r] \in Taking
      BY <2>6, TakingAt DEF NextConnection, Revoke, RevokeThen, Keep, Drop, Taken
    <3>3. \A s \in Requests : req'[s].at \in Signing => req'[s] = req[s]
      <4>1. CASE NextConnection(r)
        <5>1. \A s \in Requests \ {r} : req'[s] = req[s]
          BY <1>0, <4>1 DEF NextConnection, Goto
        <5>2. req'[r].at \in {"purge", "next", "revoke"}
          BY <1>0, <3>2, <4>1 DEF NextConnection, Goto, Taking
        <5> QED
          BY <5>1, <5>2 DEF Signing
      <4>2. CASE Revoke(r) \/ Keep(r) \/ Drop(r)
        <5>1. Over(r) \/ Goto(r, "drop") \/ Goto(r, "keep") \/ Goto(r, "next")
          BY <4>2 DEF Revoke, RevokeThen, Keep, Drop
        <5> QED
          BY <1>0, <3>2, <5>1 DEF Over, Goto, Signing, Idle, Taking
      <4> QED
        BY <2>6, <4>1, <4>2
    <3> QED
      BY <1>0, <3>1, <3>3, SpendingFrame
  <2>7. CASE Purge(r)
    <3>1. Over(r) /\ workspace' = FALSE /\ UNCHANGED <<flow, spent, clock>>
      BY <2>7 DEF Purge, PurgeLeaving, daily
    <3>2. workspace' \in BOOLEAN /\ ~workspace'
      BY <3>1
    <3>3. \A s \in Requests : req'[s].at \in Signing => req'[s] = req[s]
      BY <1>0, <3>1 DEF Over, Signing, Idle
    <3> QED
      BY <3>1, <3>2, <3>3, SpendingFrame
  <2> QED
    BY <1>3, <2>1, <2>2, <2>3, <2>4, <2>5, <2>6, <2>7 DEF Start, Step
<1> QED
  BY <1>1, <1>2, <1>3, StartFlowSpending, TickSpending, DaySpending DEF Next


-----------------------------------------------------------------------------
(* No grant is forgotten                                                   *)

Placed(g) == \E c \in Grants : row[c] = g
Held(g)   == \E r \in Requests : req[r].at \in Granted /\ req[r].grant = g

\* What a step makes so of a g of the state before it.
Puts(g)  == \E c \in Grants : row'[c] = g
Settles(g) == g \notin live' \/ g \in dropped' \/ \E i \in Waiting' : tombs'[i].grant = g

LEMMA PrimedParts ==
    /\ \A r \in Requests :
           Leaves(r)' <=> (req'[r].at \in {"next", "purge"} \cup Taken =>
                               IF req'[r].job = "disconnect"
                               THEN row'[req'[r].conn] \in {None, req'[r].grant} \cup dropped'
                               ELSE \A c \in Grants \ req'[r].todo :
                                       \/ row'[c] = None \/ Settles(row'[c])
                                       \/ c = req'[r].conn /\ req'[r].at \in {"revoke", "keep"} /\ row'[c] = req'[r].grant)
    /\ \A g : g \notin live' \/ g \in dropped' => Settles(g)
BY DEF Leaves, Settled, Settles, Grants, None, Taken

LEMMA HeldNext ==
    ASSUME Data', \A g \in live' : Puts(g) \/ Held(g)' \/ Settles(g)
    PROVE  NothingForgotten'
<1>1. ASSUME NEW r \in Requests, req'[r].at \in Granted PROVE req'[r] # Idle /\ req'[r].job = "callback"
  <2>1. Shape(req[r])'
    BY DEF Data
  <2> QED
    BY <1>1, <2>1 DEF Shape, Callback, Taking, Idle, Granted
<1>2. ASSUME NEW g \in live', Held(g)'
      PROVE \E r \in Requests : req'[r] # Idle /\ req'[r].job = "callback" /\ req'[r].grant = g
  BY <1>1, <1>2 DEF Held
<1> QED
  BY <1>2 DEF NothingForgotten, Puts, Settles, Grants, Idle

LEMMA HeldIs ==
    ASSUME Data
    PROVE  /\ NothingForgotten <=> \A g \in live : Placed(g) \/ Held(g) \/ Settled(g)
           /\ \A r \in Requests : req[r].at \in Granted => req[r].grant \in 1..got
<1>1. \A r \in Requests : req[r].at \in Granted => req[r].grant \in 1..got
  BY CallbackAt
<1>2. ASSUME NEW r \in Requests, NEW g \in live
      PROVE  req[r] # Idle /\ req[r].job = "callback" /\ req[r].grant = g
             <=> req[r].at \in Granted /\ req[r].grant = g
  <2>1. Shape(req[r]) /\ g # None
    BY Standing DEF Data, Values, None
  <2>2. CASE req[r] = Idle
    BY <2>2 DEF Idle, Granted
  <2>3. CASE req[r] \in Callback /\ req[r] # Idle
    BY <2>1, <2>3 DEF Shape, Callback, Taking, Signing, Granted
  <2>4. CASE req[r] \in Taking
    BY <2>4 DEF Taking, Granted
  <2> QED
    BY <2>1, <2>2, <2>3, <2>4 DEF Shape
<1>3. ASSUME NEW g \in live
      PROVE  (\E r \in Requests : req[r] # Idle /\ req[r].job = "callback" /\ req[r].grant = g) <=> Held(g)
  BY <1>2 DEF Held
<1>4. NothingForgotten <=> \A g \in live : \/ Placed(g) \/ Held(g)
                                           \/ (\E i \in Waiting : tombs[i].grant = g) \/ g \in dropped
  BY <1>3 DEF NothingForgotten, Placed
<1> QED
  BY <1>1, <1>4 DEF Settled

\* What is settled stays so while tombstones go only with what they hold.
LEMMA SettledFrame ==
    ASSUME live' \subseteq live \cup {got + 1}, got \in Nat, dropped \subseteq dropped',
           \A i \in Waiting : (i \in Waiting' /\ tombs'[i].grant = tombs[i].grant) \/ Settles(tombs[i].grant)
    PROVE  \A g \in 1..got : Settled(g) => Settles(g)
BY DEF Settled, Settles

\* The requests and the rows stand.
LEMMA StillKept ==
    ASSUME Data, Data', Kept, UNCHANGED <<req, row, got>>, live' \subseteq live, dropped \subseteq dropped', Buried',
           \A i \in Waiting : (i \in Waiting' /\ tombs'[i].grant = tombs[i].grant) \/ Settles(tombs[i].grant)
    PROVE  Kept'
<1>1. \A g \in 1..got : Settled(g) => Settles(g)
  BY Standing, SettledFrame
<1>2. \A c \in Grants : row[c] # None => row[c] \in 1..got
  BY Standing DEF Rows, None
<1>3. \A r \in Requests : Owns(r)'
  BY DEF Kept, Owns, None
<1>4. \A r \in Requests : Leaves(r)'
  <2> SUFFICES ASSUME NEW r \in Requests, req[r].at \in {"next", "purge"} \cup Taken
               PROVE  IF req[r].job = "disconnect"
                      THEN row[req[r].conn] \in {None, req[r].grant} \cup dropped'
                      ELSE \A c \in Grants \ req[r].todo :
                              \/ row[c] = None \/ Settles(row[c])
                              \/ c = req[r].conn /\ req[r].at \in {"revoke", "keep"} /\ row[c] = req[r].grant
    BY PrimedParts
  <2>1. Leaves(r)
    BY DEF Kept
  <2> QED
    BY <1>1, <1>2, <2>1 DEF Leaves
<1>5. \A g \in live' : g \in live /\ g \in 1..got
  BY Standing DEF Values
<1>6. \A g \in live' : Puts(g) \/ Held(g)' \/ Settles(g)
  BY <1>1, <1>5, HeldIs DEF Kept, Placed, Puts, Held
<1>7. NothingForgotten'
  BY <1>6, HeldNext
<1> QED
  BY <1>3, <1>4, <1>7 DEF Kept

\* Request r takes a step, and got stays.
LEMMA StepKept ==
    ASSUME Data, Data', Kept, NEW r \in Requests, \A s \in Requests \ {r} : req'[s] = req[s],
           UNCHANGED <<got, cron>>, live' \subseteq live, dropped \subseteq dropped',
           \A i \in Waiting : i \in Waiting' /\ tombs'[i] = tombs[i],
           \A c \in Grants : /\ row'[c] = row[c] \/ row[c] = None \/ Settles(row[c])
                             /\ row'[c] \in {row[c], None} \cup dropped' \/ ~Leaving(c)
                             /\ \/ row'[c] = None \/ row[c] # None
                                \/ req[r].at = "insert" /\ c = req[r].grant,
           req[r].at \in Granted => \/ req'[r].at \in Granted
                                    \/ Puts(req[r].grant) \/ Settles(req[r].grant),
           req'[r].at \in Granted => /\ req[r].at \in Granted /\ req'[r].grant = req[r].grant
                                     /\ req'[r].at # "insert",
           Leaves(r)'
    PROVE  Kept'
<1>0. Values /\ Rows /\ got \in Nat
  BY Standing
<1>1. \A g \in 1..got : Settled(g) => Settles(g)
  BY <1>0, SettledFrame
<1>2. \A c \in Grants : row[c] # None => row[c] \in 1..got
  BY Standing DEF Rows, None
<1>3. ASSUME NEW s \in Requests PROVE Owns(s)'
  <2>1. CASE s = r
    BY <2>1 DEF Kept, Owns
  <2>2. CASE s # r /\ req[s].at \in Granted
    <3>1. Owns(s) /\ req'[s] = req[s] /\ req[s].grant \in Grants
      BY <2>2, CallbackAt DEF Kept
    <3>2. \A t \in Requests : req'[t].at \in Granted /\ req'[t].grant = req[s].grant => t = s
      BY <2>2, <3>1 DEF Owns
    <3>3. req[s].at = "insert" => row'[req[s].grant] = None
      BY <2>2, <3>1 DEF Owns, Granted
    <3> QED
      BY <3>1, <3>2, <3>3 DEF Owns, None
  <2>3. CASE s # r /\ req[s].at \notin Granted
    BY <2>3 DEF Owns
  <2> QED
    BY <2>1, <2>2, <2>3
<1>4. ASSUME NEW s \in Requests \ {r} PROVE Leaves(s)'
  <2> SUFFICES ASSUME req[s].at \in {"next", "purge"} \cup Taken
               PROVE  IF req[s].job = "disconnect"
                      THEN row'[req[s].conn] \in {None, req[s].grant} \cup dropped'
                      ELSE \A c \in Grants \ req[s].todo :
                              \/ row'[c] = None \/ Settles(row'[c])
                              \/ c = req[s].conn /\ req[s].at \in {"revoke", "keep"} /\ row'[c] = req[s].grant
    BY PrimedParts
  <2>1. Leaves(s) /\ req[s] \in Taking /\ req[s].at # "idle"
    BY TakingAt DEF Kept, Taking
  <2>2. CASE req[s].job = "disconnect"
    <3>1. req[s].conn \in Grants
      BY <2>2, TakingAt
    <3>2. Leaving(req[s].conn)
      BY <2>1, <2>2 DEF Leaving
    <3>3. row'[req[s].conn] \in {row[req[s].conn], None} \cup dropped'
      BY <3>1, <3>2
    <3> QED
      BY <2>1, <2>2, <3>3 DEF Leaves
  <2>3. CASE req[s].job # "disconnect"
    <3>1. ASSUME NEW c \in Grants \ req[s].todo
          PROVE  \/ row'[c] = None \/ Settles(row'[c])
                 \/ c = req[s].conn /\ req[s].at \in {"revoke", "keep"} /\ row'[c] = req[s].grant
      <4>1. Leaving(c)
        BY <2>1, <2>3, <3>1 DEF Leaving, Taking
      <4>2. row'[c] \in {row[c], None} \cup dropped'
        BY <4>1
      <4>3. \/ row[c] = None \/ Settled(row[c])
            \/ c = req[s].conn /\ req[s].at \in {"revoke", "keep"} /\ row[c] = req[s].grant
        BY <2>1, <2>3 DEF Leaves
      <4>4. CASE row'[c] \in dropped'
        BY <4>4 DEF Settles
      <4>5. CASE row'[c] = row[c]
        BY <1>1, <1>2, <4>3, <4>5
      <4> QED
        BY <4>2, <4>4, <4>5
    <3> QED
      BY <2>3, <3>1
  <2> QED
    BY <2>2, <2>3
<1>5. ASSUME NEW g \in live' PROVE Puts(g) \/ Held(g)' \/ Settles(g)
  <2>1. g \in live /\ g \in 1..got
    BY <1>0 DEF Values
  <2>2. Placed(g) \/ Held(g) \/ Settled(g)
    BY <2>1, HeldIs DEF Kept
  <2>3. CASE Settled(g)
    BY <1>1, <2>1, <2>3
  <2>4. CASE Placed(g)
    <3>1. PICK c \in Grants : row[c] = g
      BY <2>4 DEF Placed
    <3>2. row'[c] = g \/ Settles(g)
      BY <2>1, <3>1 DEF None
    <3> QED
      BY <3>1, <3>2 DEF Puts
  <2>5. CASE Held(g)
    BY <2>5 DEF Held
  <2> QED
    BY <2>2, <2>3, <2>4, <2>5
<1>6. NothingForgotten'
  BY <1>5, HeldNext
<1>7. Buried'
  <2>1. cron.at = "bury" => Tomb \in Waiting
    BY Tombstones DEF Rest
  <2> QED
    BY <2>1 DEF Kept, Buried, Tomb
<1> QED
  BY <1>3, <1>4, <1>6, <1>7 DEF Kept

\* Nothing is written but the request.
LEMMA OnlyRequest ==
    ASSUME Data, Data', Kept, NEW r \in Requests, \A s \in Requests \ {r} : req'[s] = req[s],
           UNCHANGED <<row, live, got, tombs, cron, dropped>>,
           req[r].at \in Granted => req'[r].at \in Granted \/ req[r].grant \in dropped,
           req'[r].at \in Granted => /\ req[r].at \in Granted /\ req'[r].grant = req[r].grant
                                     /\ req'[r].at # "insert",
           Leaves(r)'
    PROVE  Kept'
<1>1. \A i \in Waiting : i \in Waiting' /\ tombs'[i] = tombs[i]
  BY DEF Waiting, Gone
<1>2. req[r].at \in Granted /\ req[r].grant \in dropped => Settles(req[r].grant)
  BY DEF Settles
<1> QED
  BY <1>1, <1>2, StepKept

LEMMA StartKept == ASSUME Data, Data', Kept, NEW r \in Requests, Start(r) PROVE Kept'
<1>0. req[r].at \notin Granted /\ req \in [Requests -> Asked]
  BY Standing DEF Start, StartCallback, StartDisconnect, StartErase, Idle, Granted
<1>1. CASE \E f \in Flows : StartCallback(r, f)
  <2>1. req'[r].at = "sweep"
    BY <1>0, <1>1 DEF StartCallback
  <2>2. Leaves(r)'
    BY <2>1 DEF Leaves, Taken
  <2> QED
    BY <1>0, <1>1, <2>1, <2>2, OnlyRequest DEF StartCallback, grants, daily, Granted
<1>2. CASE \E c \in Grants : StartDisconnect(r, c)
  <2>1. PICK c \in Grants : StartDisconnect(r, c)
    BY <1>2
  <2>2. req'[r].at = "revoke" /\ req'[r].job = "disconnect" /\ req'[r].conn = c /\ req'[r].grant = row[c]
    BY <1>0, <2>1 DEF StartDisconnect
  <2>3. row' = row
    BY <2>1 DEF StartDisconnect, grants
  <2>4. Leaves(r)'
    BY <2>2, <2>3 DEF Leaves
  <2> QED
    BY <1>0, <2>1, <2>2, <2>4, OnlyRequest DEF StartDisconnect, grants, daily, Granted
<1>3. CASE StartErase(r)
  <2>1. /\ req'[r].at = "next" /\ req'[r].job = "erase"
        /\ \A c \in Grants \ req'[r].todo : row[c] = None
    BY <1>0, <1>3 DEF StartErase
  <2>2. row' = row
    BY <1>3 DEF StartErase, grants
  <2>3. Leaves(r)'
    BY <2>1, <2>2 DEF Leaves, Grants, None
  <2> QED
    BY <1>0, <1>3, <2>1, <2>3, OnlyRequest DEF StartErase, grants, daily, Granted
<1> QED
  BY <1>1, <1>2, <1>3 DEF Start

LEMMA SigningKept ==
    ASSUME Data, Data', Kept, NEW r \in Requests, SweepUsed(r) \/ Claim(r) \/ Refused(r)
    PROVE  Kept'
<1>1. req[r] \in Callback /\ req[r].at \notin Granted
  BY CallbackAt DEF SweepUsed, Claim, ClaimUntil, Refused, Signing, Granted
<1>2. Goto(r, "claim") \/ Goto(r, "exchange") \/ Over(r)
  BY DEF SweepUsed, Claim, ClaimUntil, Refused
<1>3. req'[r].at \in {"claim", "exchange", "idle"} /\ \A s \in Requests \ {r} : req'[s] = req[s]
  BY <1>1, <1>2, Standing DEF Goto, Over, Idle, Callback
<1>4. Leaves(r)'
  BY <1>3 DEF Leaves, Taken
<1>5. UNCHANGED <<row, live, got, tombs, cron, dropped>>
  BY DEF SweepUsed, Claim, ClaimUntil, Refused, grants, daily
<1> QED
  BY <1>1, <1>3, <1>4, <1>5, OnlyRequest DEF Granted

\* The grant is new: no row and no request holds it.
LEMMA ExchangeKept == ASSUME Data, Data', Kept, NEW r \in Requests, Exchange(r) PROVE Kept'
<1>0. Values /\ Rows /\ got \in Nat
  BY Standing
<1>1. /\ req'[r].at \in {"insert", "read"} /\ req'[r].grant = got + 1
      /\ \A s \in Requests \ {r} : req'[s] = req[s]
      /\ live' = live \cup {got + 1} /\ got' = got + 1
      /\ UNCHANGED <<row, tombs, cron, dropped>>
  <2>1. req[r] \in Callback
    BY CallbackAt DEF Exchange, Signing
  <2> QED
    BY <2>1, Standing DEF Exchange, Callback, daily
<1>2. \A i \in Waiting : i \in Waiting' /\ tombs'[i] = tombs[i]
  BY <1>1 DEF Waiting, Gone
<1>3. \A g \in 1..got : Settled(g) => Settles(g)
  BY <1>0, <1>1, <1>2, SettledFrame
<1>4. \A c \in Grants : row[c] # None => row[c] \in 1..got /\ c \in 1..got
  BY Standing DEF Rows, None, Grants
<1>5. \A s \in Requests : req[s].at \in Granted => req[s].grant \in 1..got /\ req[s].grant # got + 1
  BY <1>0, HeldIs
<1>6. ASSUME NEW s \in Requests PROVE Owns(s)'
  <2>1. CASE s = r
    <3>1. got + 1 \in Grants /\ row[got + 1] = None
      <4>1. got + 1 \in Grants
        BY <1>0, Standing DEF Exchange, Grants
      <4> QED
        BY <1>0, <1>4, <4>1
    <3> QED
      BY <1>1, <1>5, <2>1, <3>1 DEF Owns, None
  <2>2. CASE s # r
    BY <1>1, <1>5, <2>2 DEF Kept, Owns, None
  <2> QED
    BY <2>1, <2>2
<1>7. ASSUME NEW s \in Requests PROVE Leaves(s)'
  <2>1. CASE s = r
    BY <1>1, <2>1 DEF Leaves, Taken
  <2>2. CASE s # r
    <3> SUFFICES ASSUME req[s].at \in {"next", "purge"} \cup Taken
                 PROVE  IF req[s].job = "disconnect"
                        THEN row[req[s].conn] \in {None, req[s].grant} \cup dropped
                        ELSE \A c \in Grants \ req[s].todo :
                                \/ row[c] = None \/ Settles(row[c])
                                \/ c = req[s].conn /\ req[s].at \in {"revoke", "keep"} /\ row[c] = req[s].grant
      BY <1>1, <2>2, PrimedParts
    <3>1. Leaves(s)
      BY DEF Kept
    <3> QED
      BY <1>3, <1>4, <3>1 DEF Leaves
  <2> QED
    BY <2>1, <2>2
<1>8. ASSUME NEW g \in live' PROVE Puts(g) \/ Held(g)' \/ Settles(g)
  <2>1. CASE g = got + 1
    BY <1>1, <2>1 DEF Held, Granted
  <2>2. CASE g # got + 1
    <3>1. g \in live /\ g \in 1..got
      BY <1>0, <1>1, <2>2 DEF Values
    <3>2. Placed(g) \/ Held(g) \/ Settled(g)
      BY <3>1, HeldIs DEF Kept
    <3>3. Held(g) => Held(g)'
      BY <1>1 DEF Held, Granted, Exchange
    <3>4. Placed(g) => Puts(g)
      BY <1>1 DEF Placed, Puts
    <3> QED
      BY <1>3, <3>1, <3>2, <3>3, <3>4
  <2> QED
    BY <2>1, <2>2
<1>9. NothingForgotten'
  BY <1>8, HeldNext
<1>10. Buried'
  <2>1. cron.at = "bury" => Tomb \in Waiting /\ tombs[Tomb].grant \in 1..got
    BY Tombstones DEF Rest
  <2> QED
    BY <1>0, <1>1, <2>1 DEF Kept, Buried, Tomb
<1> QED
  BY <1>6, <1>7, <1>9, <1>10 DEF Kept

\* The callback ends: its grant has a row, is settled or was let go of.
LEMMA GrantedKept ==
    ASSUME Data, Data', Kept, NEW r \in Requests,
           Insert(r) \/ ReadConnection(r) \/ CheckAccount(r) \/ Reactivate(r)
    PROVE  Kept'
<1>0. /\ req[r] \in Callback /\ req[r].at \in Granted /\ req[r].grant \in 1..got /\ req[r].grant \in Grants
      /\ req \in [Requests -> Asked] /\ Values
  BY CallbackAt, Standing DEF Insert, ReadConnection, CheckAccount, Reactivate, Granted
<1> DEFINE g == req[r].grant
<1>1. /\ UNCHANGED <<got, tombs, cron>>
      /\ Over(r) \/ Goto(r, "account") \/ Goto(r, "reactivate")
  BY DEF Insert, ReadConnection, CheckAccount, Reactivate, grants, daily
<1>2. /\ \A s \in Requests \ {r} : req'[s] = req[s]
      /\ req'[r].at \in {"idle", "account", "reactivate"}
      /\ req'[r].at \in Granted => req'[r].grant = req[r].grant /\ req'[r].at # "insert"
  BY <1>0, <1>1 DEF Over, Goto, Idle, Callback, Granted
<1>3. Leaves(r)'
  BY <1>2 DEF Leaves, Taken
<1>4. \A i \in Waiting : i \in Waiting' /\ tombs'[i] = tombs[i]
  BY <1>1 DEF Waiting, Gone
<1>5. live' \subseteq live /\ dropped \subseteq dropped'
  BY DEF Insert, ReadConnection, CheckAccount, Reactivate, Drops, grants
<1>6. CASE Insert(r)
  <2>1. row[g] = None
    BY <1>0, <1>6 DEF Kept, Owns, Insert
  <2>2. \A c \in Grants : row'[c] = row[c] \/ (workspace /\ c = g /\ row'[c] = g)
    BY <1>0, <1>6 DEF Insert, Values
  <2>3. workspace => row'[g] = g
    BY <1>0, <1>6 DEF Insert, Values
  <2>4. ~workspace \/ Leaving(g) => g \in dropped'
    BY <1>6 DEF Insert, Drops
  <2>5. Puts(g) \/ Settles(g)
    BY <1>0, <1>1, <2>3, <2>4 DEF Puts, Settles
  <2>6. \A c \in Grants : /\ row'[c] = row[c] \/ row[c] = None \/ Settles(row[c])
                          /\ row'[c] \in {row[c], None} \cup dropped' \/ ~Leaving(c)
                          /\ \/ row'[c] = None \/ row[c] # None
                             \/ req[r].at = "insert" /\ c = req[r].grant
    BY <1>6, <2>1, <2>2, <2>4 DEF Insert
  <2> QED
    BY <1>0, <1>1, <1>2, <1>3, <1>4, <1>5, <2>5, <2>6, StepKept
<1>7. CASE ReadConnection(r) \/ CheckAccount(r)
  <2>1. row' = row
    BY <1>7 DEF ReadConnection, CheckAccount, grants
  <2>2. req'[r].at \in Granted \/ Settles(g)
    <3>1. req'[r].at \in Granted \/ g \notin live' \/ g \in dropped'
      BY <1>0, <1>7 DEF ReadConnection, CheckAccount, Drops, Goto, Granted, Callback
    <3>2. PICK h : h = g
      OBVIOUS
    <3>3. h \notin live' \/ h \in dropped' => Settles(h)
      BY DEF Settles
    <3> QED
      BY <3>1, <3>2, <3>3 DEF Settled
  <2> QED
    BY <1>0, <1>1, <1>2, <1>3, <1>4, <1>5, <2>1, <2>2, StepKept
<1>8. CASE Reactivate(r)
  <2>0. PICK c \in Grants : c = flow[req[r].flow].for
    BY <1>8, CallbackAt DEF Reactivate, Granted
  <2>1. /\ row[c] = None => row' = row /\ g \in dropped'
        /\ row[c] # None => /\ row' = [row EXCEPT ![c] = g] /\ row[c] \in dropped'
                            /\ Leaving(c) => g \in dropped'
    BY <1>8, <2>0 DEF Reactivate, Drops
  <2>2. /\ \A d \in Grants : row'[d] = row[d] \/ (d = c /\ row[c] # None /\ row'[d] = g)
        /\ row[c] # None => row'[c] = g
    BY <1>0, <2>1 DEF Values
  <2>3. row[c] # None => Settles(row[c])
    <3>1. PICK h : h = row[c]
      OBVIOUS
    <3>2. h \in dropped' => Settles(h)
      BY DEF Settles
    <3> QED
      BY <2>1, <3>1, <3>2 DEF Settled
  <2>4. Puts(g) \/ Settles(g)
    BY <2>1, <2>2 DEF Puts, Settles
  <2>5. \A d \in Grants : /\ row'[d] = row[d] \/ row[d] = None \/ Settles(row[d])
                          /\ row'[d] \in {row[d], None} \cup dropped' \/ ~Leaving(d)
                          /\ row'[d] = None \/ row[d] # None
    BY <2>1, <2>2, <2>3
  <2> QED
    BY <1>0, <1>1, <1>2, <1>3, <1>4, <1>5, <2>4, <2>5, StepKept
<1> QED
  BY <1>6, <1>7, <1>8

LEMMA DieKept == ASSUME Data, Data', Kept, NEW r \in Requests, Die(r) PROVE Kept'
<1>1. /\ req'[r].at = "idle" /\ \A s \in Requests \ {r} : req'[s] = req[s]
      /\ UNCHANGED <<row, live, got, tombs, cron>> /\ dropped \subseteq dropped'
  BY Standing DEF Die, Over, Idle, grants, daily, Drops
<1>2. Leaves(r)'
  BY <1>1 DEF Leaves, Taken
<1>3. \A i \in Waiting : i \in Waiting' /\ tombs'[i] = tombs[i]
  BY <1>1 DEF Waiting, Gone
<1>4. req[r].at \in Granted => Settles(req[r].grant)
  <2>1. ASSUME req[r].at \in Granted PROVE req[r].grant \in dropped'
    <3>1. req[r].job = "callback" /\ req[r].grant # None
      BY <2>1, CallbackAt DEF Callback, None
    <3> QED
      BY <3>1 DEF Die, Drops
  <2> QED
    BY <1>1, <2>1 DEF Settles
<1> QED
  BY <1>1, <1>2, <1>3, <1>4, StepKept DEF Granted

\* Taking a connection away: what a row loses is settled.
LEMMA TakingKept ==
    ASSUME Data, Data', Kept, NEW r \in Requests,
           NextConnection(r) \/ Revoke(r) \/ Keep(r) \/ Drop(r) \/ Purge(r)
    PROVE  Kept'
<1>0. /\ req[r] \in Taking /\ req[r].at \notin Granted /\ req[r].conn \notin req[r].todo
      /\ req[r].at \in Taken => req[r].conn \in Grants /\ req[r].grant \in 1..got
      /\ req \in [Requests -> Asked] /\ Values /\ Leaves(r) /\ got \in Nat
  BY TakingAt, Standing DEF NextConnection, Revoke, RevokeThen, Keep, Drop, Purge, PurgeLeaving, Taken, Granted, Kept
<1>1. \A s \in Requests \ {r} : req'[s] = req[s]
  BY <1>0 DEF NextConnection, Revoke, RevokeThen, Keep, Drop, Purge, PurgeLeaving, Goto, Over
<1>2. \A c \in Grants : row[c] # None => row[c] \in 1..got
  BY Standing DEF Rows, None
<1>3. UNCHANGED <<got, cron>> /\ live' \subseteq live /\ dropped \subseteq dropped'
  BY DEF NextConnection, Revoke, RevokeThen, RevokeSealed, Drops, Keep, Drop, Purge, PurgeLeaving, grants, daily
<1>4. \A i \in Waiting : i \in Waiting' /\ tombs'[i] = tombs[i]
  <2>1. CASE Keep(r)
    <3>1. tombs \in Seq(Tombs)
      BY Standing DEF DailyOK
    <3>2. PICK t : tombs' = Append(tombs, t)
      BY <2>1 DEF Keep
    <3> QED
      BY <3>1, <3>2, Tombstones DEF Waiting, Gone
  <2>2. CASE ~Keep(r)
    <3>1. tombs' = tombs
      BY <2>2 DEF NextConnection, Revoke, RevokeThen, Drop, Purge, PurgeLeaving, daily
    <3> QED
      BY <3>1 DEF Waiting, Gone
  <2> QED
    BY <2>1, <2>2
<1>5. \A g \in 1..got : Settled(g) => Settles(g)
  BY <1>0, <1>3, <1>4, SettledFrame
<1>6. CASE NextConnection(r)
  <2>1. row' = row /\ req[r].job = "erase" /\ req[r].at = "next"
    BY <1>6, TakingAt DEF NextConnection, grants
  <2>2. \A c \in Grants \ req[r].todo : row[c] = None \/ Settled(row[c])
    BY <1>0, <2>1 DEF Leaves
  <2>3. CASE req[r].todo = {}
    <3>1. req'[r].at = "purge" /\ req'[r].job = "erase" /\ req'[r].todo = {}
      BY <1>0, <1>6, <2>1, <2>3 DEF NextConnection, Goto, Taking
    <3>2. Leaves(r)'
      BY <1>2, <1>5, <2>1, <2>2, <2>3, <3>1, PrimedParts DEF None
    <3> QED
      BY <1>0, <1>1, <1>3, <1>4, <2>1, <3>1, <3>2, StepKept DEF Granted
  <2>4. CASE req[r].todo # {}
    <3>1. PICK c : /\ c = Min(req[r].todo)
                   /\ req' = [req EXCEPT ![r].todo = @ \ {c}, ![r].conn = c, ![r].grant = row[c],
                                         ![r].at = IF row[c] = None THEN "next" ELSE "revoke"]
      BY <1>6, <2>4 DEF NextConnection
    <3>2. PICK place : place = IF row[c] = None THEN "next" ELSE "revoke"
      OBVIOUS
    <3>3. /\ req'[r].at = place /\ req'[r].job = "erase" /\ req'[r].todo = req[r].todo \ {c}
          /\ req'[r].conn = c /\ req'[r].grant = row[c]
      BY <1>0, <2>1, <3>1, <3>2 DEF Taking
    <3>4. Leaves(r)'
      BY <1>2, <1>5, <2>1, <2>2, <3>2, <3>3, PrimedParts DEF None
    <3>5. req'[r].at \notin Granted
      BY <3>2, <3>3 DEF Granted
    <3> QED
      BY <1>0, <1>1, <1>3, <1>4, <2>1, <3>4, <3>5, StepKept
  <2> QED
    BY <2>3, <2>4
<1>7. CASE Revoke(r)
  <2>1. /\ row' = row /\ req[r].at = "revoke" /\ req[r].conn \in Grants /\ req[r].grant \in 1..got
        /\ req[r].job \in {"disconnect", "erase"}
    BY <1>0, <1>7 DEF Revoke, RevokeThen, Taken, Taking
  <2>2. PICK place \in {"drop", "keep"} :
            /\ Goto(r, place)
            /\ place = "drop" => req[r].job = "disconnect" \/ req[r].grant \notin live' \/ req[r].grant \in dropped'
    BY <1>7 DEF Revoke, RevokeThen, RevokeSealed, Drops
  <2>3. req'[r] = [req[r] EXCEPT !.at = place]
    BY <1>0, <2>2 DEF Goto
  <2>4. /\ req'[r].at = place /\ req'[r].job = req[r].job /\ req'[r].todo = req[r].todo
        /\ req'[r].conn = req[r].conn /\ req'[r].grant = req[r].grant
    BY <1>0, <2>3 DEF Taking
  <2>5. place = "drop" => req[r].job = "disconnect" \/ Settles(req[r].grant)
    BY <2>2, <2>4 DEF Settles
  <2>6. Leaves(r)'
    <3>1. CASE req[r].job = "disconnect"
      <4>1. row[req[r].conn] \in {None, req[r].grant} \cup dropped'
        BY <1>0, <1>3, <2>1, <3>1 DEF Leaves, Taken
      <4> QED
        BY <2>1, <2>4, <3>1, <4>1, PrimedParts
    <3>2. CASE req[r].job = "erase"
      <4>1. \A c \in Grants \ req[r].todo :
               row[c] = None \/ Settles(row[c]) \/ (c = req[r].conn /\ row[c] = req[r].grant)
        <5>1. \A c \in Grants \ req[r].todo :
                 row[c] = None \/ Settled(row[c]) \/ (c = req[r].conn /\ row[c] = req[r].grant)
          BY <1>0, <2>1, <3>2 DEF Leaves, Taken
        <5> QED
          BY <1>2, <1>5, <5>1
      <4>2. \A c \in Grants \ req[r].todo :
               row[c] = None \/ Settles(row[c]) \/ (c = req[r].conn /\ place = "keep" /\ row[c] = req[r].grant)
        BY <2>2, <2>5, <3>2, <4>1
      <4> QED
        BY <2>1, <2>4, <3>2, <4>2, PrimedParts DEF None
    <3> QED
      BY <2>1, <3>1, <3>2
  <2> QED
    BY <1>0, <1>1, <1>3, <1>4, <2>1, <2>4, <2>6, StepKept DEF Granted
<1>8. CASE Keep(r)
  <2>1. /\ row' = row /\ req[r].at = "keep" /\ req[r].conn \in Grants /\ req[r].job = "erase"
    BY <1>0, <1>8, TakingAt DEF Keep, Taken, grants
  <2>2. /\ req'[r].at = "drop" /\ req'[r].job = "erase" /\ req'[r].todo = req[r].todo
    BY <1>0, <1>8, <2>1 DEF Keep, Goto, Taking
  <2>3. Settles(req[r].grant)
    <3>1. tombs \in Seq(Tombs) /\ req[r].grant # 0
      BY <1>0, <2>1, Standing DEF DailyOK, Taken
    <3>2. PICK t : /\ tombs' = Append(tombs, t)
                   /\ t = [grant |-> req[r].grant, age |-> 0, tries |-> 0]
      BY <1>8 DEF Keep
    <3>3. Len(tombs) + 1 \in DOMAIN tombs' /\ tombs'[Len(tombs) + 1] = t
      BY <3>1, <3>2
    <3>4. PICK h : h = req[r].grant
      OBVIOUS
    <3>5. t.grant = h /\ t # Gone
      BY <3>1, <3>2, <3>4 DEF Gone, None
    <3>6. Len(tombs) + 1 \in Waiting'
      BY <3>3, <3>5 DEF Waiting, Gone
    <3> QED
      BY <1>0, <2>1, <3>3, <3>4, <3>5, <3>6 DEF Settles
  <2>4. \A c \in Grants \ req[r].todo : row[c] = None \/ Settles(row[c])
    <3>1. \A c \in Grants \ req[r].todo : row[c] = None \/ Settled(row[c]) \/ row[c] = req[r].grant
      BY <1>0, <2>1 DEF Leaves, Taken
    <3> QED
      BY <1>2, <1>5, <2>3, <3>1
  <2>5. Leaves(r)'
    BY <2>1, <2>2, <2>4, PrimedParts DEF None
  <2> QED
    BY <1>0, <1>1, <1>3, <1>4, <2>1, <2>2, <2>5, StepKept DEF Granted
<1>9. CASE Drop(r)
  <2>1. /\ req[r].at = "drop" /\ req[r].conn \in Grants /\ req[r].job \in {"disconnect", "erase"}
    BY <1>0, <1>9 DEF Drop, Taken, Taking
  <2>2. row'[req[r].conn] = None /\ \A c \in Grants \ {req[r].conn} : row'[c] = row[c]
    BY <1>0, <1>9, <2>1 DEF Drop, Values
  <2>3. row[req[r].conn] = None \/ Settles(row[req[r].conn])
    <3>1. CASE req[r].job = "disconnect"
      <4>1. PICK h : h = row[req[r].conn]
        OBVIOUS
      <4>2. h = None \/ h \in dropped'
        BY <1>0, <1>3, <1>9, <2>1, <3>1, <4>1 DEF Drop, Drops, Leaves, Taken
      <4> QED
        BY <4>1, <4>2 DEF Settles
    <3>2. CASE req[r].job = "erase"
      BY <1>0, <1>2, <1>5, <2>1, <3>2 DEF Leaves, Taken
    <3> QED
      BY <2>1, <3>1, <3>2
  <2>4. \A c \in Grants : /\ row'[c] = row[c] \/ row[c] = None \/ Settles(row[c])
                          /\ row'[c] \in {row[c], None}
    BY <2>2, <2>3
  <2>5. req'[r].at \in {"idle", "next"}
    BY <1>0, <1>9 DEF Drop, Goto, Over, Idle, Taking
  <2>6. Leaves(r)'
    <3>1. CASE req[r].job = "disconnect"
      BY <1>0, <1>9, <3>1 DEF Drop, Over, Idle, Leaves, Taken
    <3>2. CASE req[r].job = "erase"
      <4>1. req'[r].job = "erase" /\ req'[r].todo = req[r].todo
        BY <1>0, <1>9, <3>2 DEF Drop, Goto, Taking
      <4>2. \A c \in Grants \ req[r].todo : row[c] = None \/ Settles(row[c])
        BY <1>0, <1>2, <1>5, <2>1, <3>2 DEF Leaves, Taken
      <4>3. \A c \in Grants \ req[r].todo : row'[c] = None \/ Settles(row'[c])
        BY <2>2, <4>2
      <4> QED
        BY <4>1, <4>3, PrimedParts DEF None
    <3> QED
      BY <2>1, <3>1, <3>2
  <2> QED
    BY <1>0, <1>1, <1>3, <1>4, <2>4, <2>5, <2>6, StepKept DEF Granted
<1>10. CASE Purge(r)
  <2>1. req[r].at = "purge" /\ req[r].job = "erase" /\ req[r].todo = {}
    BY <1>10, TakingAt DEF Purge, PurgeLeaving
  <2>2. \A c \in Grants : row'[c] = None
    BY <1>10 DEF Purge, PurgeLeaving
  <2>3. \A c \in Grants : row[c] = None \/ Settles(row[c])
    BY <1>0, <1>2, <1>5, <2>1 DEF Leaves
  <2>4. req'[r].at = "idle"
    BY <1>0, <1>10 DEF Purge, PurgeLeaving, Over, Idle
  <2>5. Leaves(r)'
    BY <2>4 DEF Leaves, Taken
  <2> QED
    BY <1>0, <1>1, <1>3, <1>4, <2>2, <2>3, <2>4, <2>5, StepKept DEF Granted
<1> QED
  BY <1>6, <1>7, <1>8, <1>9, <1>10

\* The run and the days: a tombstone goes with a grant that was let go of, or is revoked.
LEMMA RunKept ==
    ASSUME Data, Data', Kept, Run \/ RunDies \/ Tick \/ Day \/ UNCHANGED vars
    PROVE  Kept'
<1>1. UNCHANGED <<req, row, got>> /\ live' \subseteq live /\ dropped \subseteq dropped'
  BY DEF Run, RunDies, StartRun, GiveUp, GiveUpAfter, Retry, RevokeSealed, Drops, Bury, Note, NoteAs, Tick, Day,
         grants, vars
<1>2. CASE GiveUp \/ Bury
  <2>1. cron # Rest /\ Proceed /\ tombs' = [tombs EXCEPT ![Tomb] = Gone] /\ UNCHANGED <<ran, clock, crowded>>
    BY <1>2 DEF GiveUp, GiveUpAfter, Bury, Rest
  <2>2. Waiting' = Waiting \ {Tomb} /\ \A i \in Waiting : i # Tomb => tombs'[i] = tombs[i]
    BY <2>1, GoneDaily, Tombstones
  <2>3. cron'.at # "bury"
    BY <2>1, ProceedTodo DEF Rest
  <2>4. Settles(tombs[Tomb].grant)
    <3>1. PICK h : h = tombs[Tomb].grant
      OBVIOUS
    <3>2. h \notin live' \/ h \in dropped'
      BY <1>1, <1>2, <3>1 DEF GiveUp, GiveUpAfter, Drops, Bury, Kept, Buried
    <3> QED
      BY <3>2, <3>1 DEF Settles
  <2>5. Buried'
    BY <2>3 DEF Buried
  <2> QED
    BY <1>1, <2>2, <2>4, <2>5, StillKept
<1>3. CASE ~(GiveUp \/ Bury)
  <2>1. \A i \in Waiting : i \in Waiting' /\ tombs'[i].grant = tombs[i].grant
    <3>1. CASE Day
      BY <3>1, DayTombs, Tombstones
    <3>2. CASE Note
      <4>1. tombs \in Seq(Tombs) /\ \A i \in Waiting : tombs[i].grant # None
        BY Tombstones, Standing DEF DailyOK, None
      <4>2. \A i \in DOMAIN tombs : i \in DOMAIN tombs' /\ tombs'[i].grant = tombs[i].grant
        BY <3>2, <4>1 DEF Note, NoteAs, Tombs
      <4> QED
        BY <4>1, <4>2 DEF Waiting, Gone
    <3>3. CASE tombs' = tombs
      BY <3>3 DEF Waiting, Gone
    <3> QED
      BY <1>3, <3>1, <3>2, <3>3 DEF Run, RunDies, StartRun, Retry, Tick, vars
  <2>2. Buried'
    <3>1. CASE Retry
      <4>1. cron'.todo = cron.todo /\ tombs' = tombs
        BY <3>1 DEF Retry
      <4>2. cron'.at = "bury" => tombs[Tomb].grant \notin live' \ dropped'
        BY <3>1 DEF Retry, RevokeSealed, Drops
      <4> QED
        BY <4>1, <4>2 DEF Buried, Tomb
    <3>2. CASE Note
      <4>1. cron # Rest
        BY <3>2 DEF Note, NoteAs, Rest
      <4>2. cron'.at # "bury"
        BY <3>2, <4>1, ProceedTodo DEF Note, NoteAs, Rest
      <4> QED
        BY <4>2 DEF Buried
    <3>3. CASE StartRun \/ RunDies \/ Day
      <4>1. cron'.at # "bury"
        BY <3>3 DEF StartRun, RunDies, Day, Rest
      <4> QED
        BY <4>1 DEF Buried
    <3>4. CASE Tick \/ UNCHANGED vars
      BY <3>4 DEF Tick, vars, grants, Buried, Kept, Tomb
    <3> QED
      BY <1>3, <3>1, <3>2, <3>3, <3>4 DEF Run
  <2> QED
    BY <1>1, <2>1, <2>2, StillKept
<1> QED
  BY <1>2, <1>3

LEMMA InitKept == ASSUME Init PROVE Kept
<1>1. live = 1..got /\ got \in 0..MaxGrants /\ \A r \in Requests : req[r].at = "idle"
  BY BoundsAssumption DEF Init, Idle
<1>2. \A g \in live : row[g] = g /\ g \in Grants
  BY <1>1, BoundsAssumption DEF Init, Grants
<1>3. \A r \in Requests : Owns(r) /\ Leaves(r)
  BY <1>1 DEF Owns, Leaves, Granted, Taken
<1>4. Buried
  BY DEF Init, Buried, Rest
<1>5. NothingForgotten
  BY <1>2 DEF NothingForgotten
<1> QED
  BY <1>3, <1>4, <1>5 DEF Kept

LEMMA NextKept == ASSUME Data, Kept, [Next]_vars PROVE Kept'
<1>0. Data'
  BY NextData
<1>1. ASSUME NEW r \in Requests, Start(r) \/ Step(r) \/ Die(r) PROVE Kept'
  BY <1>0, <1>1, StartKept, SigningKept, ExchangeKept, GrantedKept, TakingKept, DieKept DEF Step
<1>2. ASSUME NEW f \in Flows, NEW c \in Grants \cup {None}, StartFlow(f, c) PROVE Kept'
  <2>1. UNCHANGED <<req, row, got, live, dropped, tombs, cron>>
    BY <1>2 DEF StartFlow, grants, daily
  <2>2. Buried' /\ \A i \in Waiting : i \in Waiting' /\ tombs'[i] = tombs[i]
    BY <2>1 DEF Kept, Buried, Tomb, Waiting, Gone
  <2> QED
    BY <1>0, <2>1, <2>2, StillKept
<1> QED
  BY <1>0, <1>1, <1>2, RunKept DEF Next

-----------------------------------------------------------------------------
(* A tombstone is given up late                                            *)

LEMMA TombNumbers ==
    ASSUME Data
    PROVE  /\ faults \in Nat /\ MaxAge \in Nat
           /\ \A i \in Waiting : tombs[i].age \in Nat /\ tombs[i].tries \in Nat /\ Tries(i) \in Nat
<1>1. faults \in Nat /\ MaxAge \in Nat
  BY Standing, BoundsAssumption DEF Values, Data
<1>2. \A i \in Waiting : tombs[i].age \in 0..(MaxAge + 1) /\ tombs[i].tries \in 0..MaxAge
  BY Tombstones DEF Tombs
<1> QED
  BY <1>1, <1>2 DEF Tries

\* A step that writes no tombstone.
LEMMA AgingFrame ==
    ASSUME Data, Aging, UNCHANGED <<tombs, cron, ran, crowded>>, faults' \in Nat, faults <= faults'
    PROVE  Aging'
<1>1. Waiting' = Waiting
  BY DEF Waiting, Gone
<1>2. \A i \in Waiting : Tries(i)' \in Nat /\ Tries(i) <= Tries(i)'
  BY TombNumbers DEF Tries
<1> QED
  BY <1>1, <1>2, TombNumbers DEF Aging

LEMMA StartRunAging == ASSUME Data, Aging, StartRun PROVE Aging'
<1>1. Waiting' = Waiting /\ UNCHANGED <<tombs, faults>>
  BY DEF StartRun, Waiting, Gone
<1>2. crowded' \/ Listed = Waiting
  <2>1. IsFiniteSet(Waiting)
    <3>1. Waiting \in SUBSET (1..Len(tombs)) /\ Len(tombs) \in Nat
      BY Tombstones
    <3>2. IsFiniteSet(1..Len(tombs))
      BY <3>1, FS_Interval
    <3> QED
      BY <3>1, <3>2, FS_Subset
  <2>2. Cardinality(Waiting) \in Nat /\ Limit \in Nat
    BY <2>1, FS_CardinalityType, BoundsAssumption DEF Data
  <2>3. ASSUME NEW i \in Waiting, Cardinality(Waiting) <= Limit
        PROVE  Cardinality({j \in Waiting : j < i}) < Limit
    <3>1. {j \in Waiting : j < i} \in SUBSET Waiting /\ {j \in Waiting : j < i} # Waiting
      BY Tombstones
    <3>2. /\ Cardinality({j \in Waiting : j < i}) \in Nat
          /\ Cardinality({j \in Waiting : j < i}) <= Cardinality(Waiting)
          /\ Cardinality({j \in Waiting : j < i}) # Cardinality(Waiting)
      BY <2>1, <3>1, FS_Subset, FS_CardinalityType
    <3> QED
      BY <2>2, <2>3, <3>2
  <2>4. Cardinality(Waiting) <= Limit => Listed = Waiting
    BY <2>3 DEF Listed
  <2>5. Cardinality(Waiting) > Limit => crowded'
    BY DEF StartRun
  <2> QED
    BY <2>2, <2>4, <2>5
<1>3. crowded' \/ \A i \in Waiting : i \in cron'.todo
  BY <1>2 DEF StartRun
<1>4. crowded => crowded'
  BY DEF StartRun
<1> QED
  BY <1>1, <1>3, <1>4 DEF Aging, Tries

LEMMA NoteAging == ASSUME Data, Aging, Note PROVE Aging'
<1>1. cron # Rest /\ Proceed /\ UNCHANGED <<ran, crowded, faults>>
  BY DEF Note, NoteAs, Rest
<1>2. cron'.todo = cron.todo \ {Tomb} /\ Tomb \in Waiting
  BY <1>1, ProceedTodo, Tombstones
<1>3. tombs \in Seq(Tombs) /\ Tomb \in DOMAIN tombs /\ tombs[Tomb] \in Tombs
  BY <1>2, Tombstones, Standing DEF DailyOK
<1>4. /\ \A i \in DOMAIN tombs : i # Tomb => tombs'[i] = tombs[i]
      /\ tombs'[Tomb].age = tombs[Tomb].age
      /\ tombs'[Tomb].tries = IF tombs[Tomb].tries < MaxAge THEN tombs[Tomb].tries + 1 ELSE tombs[Tomb].tries
      /\ DOMAIN tombs' = DOMAIN tombs
  BY <1>3 DEF Note, NoteAs, Tombs
<1>5. Waiting' \subseteq Waiting
  BY <1>2, <1>4 DEF Waiting, Gone
<1>6. PICK k : k = Tomb
  OBVIOUS
<1>7. ASSUME NEW i \in Waiting'
      PROVE  \/ crowded' \/ Tries(i)' >= MaxAge
             \/ /\ tombs'[i].age <= Tries(i)' + 1
                /\ ran' => tombs'[i].age <= Tries(i)' \/ i \in cron'.todo
  <2>1. i \in Waiting /\ i \in DOMAIN tombs
    BY <1>5 DEF Waiting
  <2>2. CASE i = k
    <3>1. tombs'[i].age = tombs[i].age /\ tombs'[i].tries = IF tombs[i].tries < MaxAge THEN tombs[i].tries + 1 ELSE tombs[i].tries
      BY <1>4, <1>6, <2>2
    <3> QED
      BY <1>1, <2>1, <3>1, TombNumbers DEF Aging, Tries
  <2>3. CASE i # k
    BY <1>1, <1>2, <1>4, <1>6, <2>1, <2>3 DEF Aging, Tries
  <2> QED
    BY <2>2, <2>3
<1> QED
  BY <1>7 DEF Aging

LEMMA RunAging == ASSUME Data, Aging, Run \/ RunDies PROVE Aging'
<1>1. CASE GiveUp \/ Bury
  <2>1. cron # Rest /\ Proceed /\ tombs' = [tombs EXCEPT ![Tomb] = Gone] /\ UNCHANGED <<ran, clock, crowded, faults>>
    BY <1>1 DEF GiveUp, GiveUpAfter, Bury, Rest
  <2>2. Waiting' = Waiting \ {Tomb} /\ \A i \in Waiting : i # Tomb => tombs'[i] = tombs[i]
    BY <2>1, GoneDaily, Tombstones
  <2>3. cron'.todo = cron.todo \ {Tomb}
    BY <2>1, ProceedTodo
  <2> QED
    BY <2>1, <2>2, <2>3 DEF Aging, Tries
<1>2. CASE Retry
  <2>1. cron'.todo = cron.todo /\ UNCHANGED <<tombs, ran, crowded, faults>>
    BY <1>2 DEF Retry
  <2>2. Waiting' = Waiting
    BY <2>1 DEF Waiting, Gone
  <2> QED
    BY <2>1, <2>2 DEF Aging, Tries
<1>3. CASE RunDies
  <2>1. UNCHANGED <<tombs, ran, crowded>> /\ faults' = faults + 1
    BY <1>3 DEF RunDies
  <2>2. Waiting' = Waiting
    BY <2>1 DEF Waiting, Gone
  <2> QED
    BY <2>1, <2>2, TombNumbers DEF Aging, Tries
<1> QED
  BY <1>1, <1>2, <1>3, StartRunAging, NoteAging DEF Run

LEMMA DayAging == ASSUME Data, Aging, Day PROVE Aging'
<1>1. ran => cron.todo = {}
  BY DEF Day, Rest
<1>2. /\ ~ran' /\ crowded' = crowded /\ faults' = (IF ran THEN faults ELSE faults + 1)
      /\ Waiting' = Waiting
      /\ \A i \in Waiting : /\ tombs'[i].tries = tombs[i].tries
                            /\ tombs'[i].age \in {tombs[i].age, tombs[i].age + 1}
  BY DayTombs, Tombstones DEF Day
<1> QED
  BY <1>1, <1>2, TombNumbers DEF Aging, Tries

LEMMA KeepAging == ASSUME Data, Aging, NEW r \in Requests, Keep(r) PROVE Aging'
<1>1. tombs \in Seq(Tombs) /\ UNCHANGED <<ran, cron, crowded, faults>>
  BY Standing DEF DailyOK, Keep
<1>2. PICK t : tombs' = Append(tombs, t) /\ t.age = 0 /\ t.tries = 0
  BY DEF Keep
<1>3. \A i \in Waiting' : (i \in Waiting /\ tombs'[i] = tombs[i]) \/ tombs'[i] = t
  BY <1>1, <1>2 DEF Waiting, Gone
<1>4. ASSUME NEW i \in Waiting'
      PROVE  \/ crowded' \/ Tries(i)' >= MaxAge
             \/ /\ tombs'[i].age <= Tries(i)' + 1
                /\ ran' => tombs'[i].age <= Tries(i)' \/ i \in cron'.todo
  <2>1. CASE i \in Waiting /\ tombs'[i] = tombs[i]
    BY <1>1, <2>1 DEF Aging, Tries
  <2>2. CASE tombs'[i] = t
    BY <1>1, <1>2, <2>2, TombNumbers DEF Tries
  <2> QED
    BY <1>3, <2>1, <2>2
<1> QED
  BY <1>4 DEF Aging

LEMMA NextAging == ASSUME Data, Aging, [Next]_vars PROVE Aging'
<1>0. faults \in Nat
  BY TombNumbers
<1>1. ASSUME NEW r \in Requests, Start(r) \/ Step(r) \/ Die(r), ~Keep(r) PROVE Aging'
  <2>1. UNCHANGED <<tombs, cron, ran, crowded>> /\ (faults' = faults \/ faults' = faults + 1)
    BY <1>1 DEF Start, StartCallback, StartDisconnect, StartErase, Step, SweepUsed, Claim, ClaimUntil, Exchange,
                Refused, Insert, ReadConnection, CheckAccount, Reactivate, NextConnection, Revoke, RevokeThen,
                Drop, Purge, PurgeLeaving, Die, daily
  <2> QED
    BY <1>0, <2>1, AgingFrame
<1>2. ASSUME NEW f \in Flows, NEW c \in Grants \cup {None}, StartFlow(f, c) PROVE Aging'
  BY <1>0, <1>2, AgingFrame DEF StartFlow, daily
<1>3. CASE Tick
  BY <1>0, <1>3, AgingFrame DEF Tick
<1>4. CASE UNCHANGED vars
  BY <1>0, <1>4, AgingFrame DEF vars
<1> QED
  BY <1>1, <1>2, <1>3, <1>4, KeepAging, RunAging, DayAging DEF Next

\* What GivenUpLate says of a step.
LEMMA LateStep ==
    ASSUME Data, Kept, Aging, [Next]_vars, NEW i \in Waiting, tombs'[i] = Gone, tombs[i].grant \in live' \ dropped
    PROVE  tombs[i].tries + faults >= MaxAge \/ crowded
<1>1. tombs[i] # Gone /\ tombs[i].grant # None /\ tombs \in Seq(Tombs) /\ i \in DOMAIN tombs
  BY Tombstones, Standing DEF DailyOK, None, Waiting
<1>2. CASE GiveUp
  <2>1. cron # Rest /\ tombs' = [tombs EXCEPT ![Tomb] = Gone] /\ tombs[Tomb].age > MaxAge
    BY <1>2 DEF GiveUp, GiveUpAfter, Rest
  <2>2. i = Tomb
    BY <1>1, <2>1
  <2> QED
    BY <2>1, <2>2, TombNumbers DEF Aging, Tries
<1>3. CASE Bury
  <2>1. tombs' = [tombs EXCEPT ![Tomb] = Gone] /\ cron.at = "bury" /\ live' = live
    BY <1>3 DEF Bury, grants
  <2>2. i = Tomb
    BY <1>1, <2>1
  <2> QED
    BY <2>1, <2>2 DEF Kept, Buried
<1>4. CASE Note
  <2>1. \A k \in DOMAIN tombs : tombs'[k].grant = tombs[k].grant
    BY <1>1, <1>4 DEF Note, NoteAs, Tombs
  <2> QED
    BY <1>1, <2>1 DEF Gone
<1>5. CASE Day
  BY <1>1, <1>5, DayTombs, Tombstones
<1>6. ASSUME NEW r \in Requests, Keep(r) PROVE FALSE
  BY <1>1, <1>6 DEF Keep
<1>7. ASSUME NEW r \in Requests, Start(r) \/ Step(r) \/ Die(r), ~Keep(r) PROVE tombs' = tombs
  BY <1>7 DEF Start, StartCallback, StartDisconnect, StartErase, Step, SweepUsed, Claim, ClaimUntil, Exchange,
              Refused, Insert, ReadConnection, CheckAccount, Reactivate, NextConnection, Revoke, RevokeThen,
              Drop, Purge, PurgeLeaving, Die, daily
<1>8. StartRun \/ Retry \/ RunDies \/ Tick \/ UNCHANGED vars => tombs' = tombs
  BY DEF StartRun, Retry, RunDies, Tick, vars
<1>9. (\E f \in Flows : \E c \in Grants \cup {None} : StartFlow(f, c)) => tombs' = tombs
  BY DEF StartFlow, daily
<1>10. CASE tombs' = tombs
  BY <1>1, <1>10
<1> QED
  BY <1>2, <1>3, <1>4, <1>5, <1>6, <1>7, <1>8, <1>9, <1>10 DEF Next, Run

LEMMA InitAging == ASSUME Init PROVE Aging
BY DEF Init, Aging, Waiting

-----------------------------------------------------------------------------
(* Theorems                                                                *)

IInv == Data /\ Timing /\ Spending /\ Kept /\ Aging

LEMMA InitIInv == ASSUME Init PROVE IInv
BY InitData, InitSpending, InitKept, InitAging DEF IInv

LEMMA NextIInv == ASSUME IInv, [Next]_vars PROVE IInv'
BY NextData, NextSpending, NextKept, NextAging DEF IInv

\* What each step preserves holds in every reachable state.
THEOREM IInvHolds == Spec => []IInv
<1>1. Init => IInv
  BY InitIInv
<1>2. IInv /\ [Next]_vars => IInv'
  BY NextIInv
<1> QED
  BY <1>1, <1>2, PTL DEF Spec

\* The variables keep their types, and connections and markers their foreign key,
\* whatever fails or dies in between.
THEOREM OffboardingTypes == Spec => []TypeOK
<1>1. IInv => TypeOK
  BY DEF IInv, Data
<1> QED
  BY <1>1, IInvHolds, PTL

\* However often a callback is delivered, and whenever the used markers are swept or
\* the workspace is erased: the code of an authorization is exchanged at most once.
THEOREM SpentOnce == Spec => []StateSpentOnce
<1>1. IInv => StateSpentOnce
  BY DEF IInv, Spending, StateSpentOnce
<1> QED
  BY <1>1, IInvHolds, PTL

\* However callbacks, disconnects, erasures and the cron interleave, fail and die: a
\* grant that Cloudflare still honours has a row, a callback or a tombstone, or went
\* at one of the places where the code lets go of it.
THEOREM GrantsRemembered == Spec => []NothingForgotten
<1>1. IInv => NothingForgotten
  BY DEF IInv, Kept
<1> QED
  BY <1>1, IInvHolds, PTL

\* The cron deletes the tombstone of a grant that is still honoured only after a try a
\* day, as many as MaxAge less the faults, unless a run had more than it lists.
THEOREM TriedEachDay == Spec => GivenUpLate
<1>1. IInv /\ [Next]_vars =>
          [\A i \in Waiting :
               tombs'[i] = Gone /\ tombs[i].grant \in live' \ dropped
                   => tombs[i].tries + faults >= MaxAge \/ crowded]_vars
  BY LateStep DEF IInv
<1> QED
  BY <1>1, IInvHolds, PTL DEF Spec, GivenUpLate

-----------------------------------------------------------------------------
(* Membership                                                              *)

Tables ==
    /\ accounts \subseteq Users
    /\ spaces \subseteq Workspaces
    /\ role \in [Workspaces -> [Users -> Roles]]
    /\ invite \in [Invites -> Invite \cup {NoInvite, Void}]
    /\ raced \subseteq Workspaces

\* The foreign keys of memberships.
Keys == \A w \in Workspaces, u \in Users : role[w][u] # "none" => w \in spaces /\ u \in accounts

Stored == Tables /\ Keys /\ OneOwner /\ Default \in spaces

\* A request acts for a user, never erases the default workspace, and invites
\* somebody to be a member or an admin.
Sound(q) ==
    /\ q \in Request
    /\ Default \notin q.todo
    /\ q.at = "purge" => q.ws # Default
    /\ q.at # "idle" => q.user \in Users
    /\ q.at = "send" => q.who \in Users /\ q.role \in {"member", "admin"}
    /\ q.at = "remove" => q.who \in Users
    /\ q.at \in {"claim", "forget"} => q.own
    /\ q.at = "transfer" => q.who \in Users /\ q.who # q.user
    /\ q.at = "delete" => q.own /\ q.todo = {}

Control == act \in [Handlers -> {q \in Request : Sound(q)}]

MInv == Stored /\ Control

LEMMA DefaultIsOne == Default \in Workspaces
BY DEF Workspaces

LEMMA IdleSound == Sound(Free)
BY DefaultIsOne DEF Sound, Free, Request, Places, Roles

LEMMA InitMInv == TeamInit => MInv
<1> SUFFICES ASSUME TeamInit PROVE MInv
  OBVIOUS
<1>1. Tables /\ Keys
  BY DefaultIsOne DEF TeamInit, Tables, Keys, Roles
<1>2. OneOwner /\ Default \in spaces
  BY DEF TeamInit, OneOwner, Owners
<1>3. Control
  BY IdleSound DEF TeamInit, Control, Sound
<1> QED
  BY <1>1, <1>2, <1>3 DEF MInv, Stored

-----------------------------------------------------------------------------
(* Control                                                                 *)

\* A request that moves on stays sound if what it moves to is.
LEMMA ControlStep ==
    ASSUME Control, NEW r \in Handlers, NEW q, Sound(q), act' = [act EXCEPT ![r] = q]
    PROVE  Control'
BY DEF Control, Sound

LEMMA LeaveControl ==
    ASSUME Control, NEW r \in Handlers, Leave(r)
    PROVE  Control'
BY IdleSound, ControlStep DEF Leave

\* On to a place that asks no more of the request than it has.
LEMMA GotoControl ==
    ASSUME Control, NEW r \in Handlers, NEW p \in Places \ {"purge", "send", "claim", "transfer", "remove"},
           act[r].at # "idle", GoOn(r, p),
           p = "forget" => act[r].own,
           p = "delete" => act[r].own /\ act[r].todo = {}
    PROVE  Control'
<1> DEFINE q == [act[r] EXCEPT !.at = p]
<1>1. Sound(act[r])
  BY DEF Control
<1>2. Sound(q)
  BY <1>1 DEF Sound, Request
<1>3. act' = [act EXCEPT ![r] = q]
  BY DEF GoOn
<1> QED
  BY <1>2, <1>3, ControlStep

LEMMA BeginControl ==
    ASSUME MInv, NEW r \in Handlers, Begin(r)
    PROVE  Control'
<1> USE DefaultIsOne
<1>1. ASSUME NEW u \in Users, Setup(r, u) PROVE Control'
  <2>1. Sound([Free EXCEPT !.at = "claim", !.user = u, !.own = TRUE])
    BY DEF Sound, Free, Request, Places, Roles
  <2> QED
    BY <1>1, <2>1, ControlStep DEF Setup, MInv
<1>2. ASSUME NEW u \in Users, StartDeleteAccount(r, u) PROVE Control'
  <2> DEFINE q == [Free EXCEPT !.at = IF SoleOwned(u) = {} THEN "delete" ELSE "list",
                                 !.user = u, !.own = TRUE, !.todo = SoleOwned(u)]
  <2>1. Default \notin SoleOwned(u)
    BY <1>2 DEF StartDeleteAccount, Blocking
  <2>2. SoleOwned(u) \subseteq Workspaces
    BY DEF SoleOwned
  <2>3. Sound(q)
    BY <2>1, <2>2 DEF Sound, Free, Request, Places, Roles
  <2>4. act' = [act EXCEPT ![r] = q]
    BY <1>2 DEF StartDeleteAccount
  <2> QED
    BY <2>3, <2>4, ControlStep DEF MInv
<1>3. ASSUME NEW u \in Users, NEW w \in Workspaces, StartCreate(r, u, w) PROVE Control'
  <2>1. Sound([Free EXCEPT !.at = "create", !.user = u, !.ws = w])
    BY DEF Sound, Free, Request, Places, Roles
  <2> QED
    BY <1>3, <2>1, ControlStep DEF StartCreate, MInv
<1>4. ASSUME NEW u \in Users, NEW w \in Workspaces, StartLeave(r, u, w) PROVE Control'
  <2>1. Sound([Free EXCEPT !.at = "leave", !.user = u, !.ws = w])
    BY DEF Sound, Free, Request, Places, Roles
  <2> QED
    BY <1>4, <2>1, ControlStep DEF StartLeave, MInv
<1>5. ASSUME NEW u \in Users, NEW w \in Workspaces, StartEraseWorkspace(r, u, w) PROVE Control'
  <2>1. w # Default
    BY <1>5 DEF StartEraseWorkspace
  <2>2. Sound([Free EXCEPT !.at = "list", !.user = u, !.ws = w, !.todo = {w}])
    BY <2>1 DEF Sound, Free, Request, Places, Roles
  <2> QED
    BY <1>5, <2>2, ControlStep DEF StartEraseWorkspace, MInv
<1>6. ASSUME NEW u \in Users, NEW v \in Users, NEW w \in Workspaces, StartTransfer(r, u, w, v) PROVE Control'
  <2>a. u # v
    BY <1>6 DEF StartTransfer
  <2>1. Sound([Free EXCEPT !.at = "transfer", !.user = u, !.ws = w, !.who = v])
    BY <2>a DEF Sound, Free, Request, Places, Roles
  <2> QED
    BY <1>6, <2>1, ControlStep DEF StartTransfer, MInv
<1>7. ASSUME NEW u \in Users, NEW v \in Users, NEW w \in Workspaces, StartRemove(r, u, w, v) PROVE Control'
  <2>1. Sound([Free EXCEPT !.at = "remove", !.user = u, !.ws = w, !.who = v])
    BY DEF Sound, Free, Request, Places, Roles
  <2> QED
    BY <1>7, <2>1, ControlStep DEF StartRemove, MInv
<1>8. ASSUME NEW u \in Users, NEW v \in Users, NEW w \in Workspaces, NEW as \in {"member", "admin"},
             StartInvite(r, u, w, v, as) PROVE Control'
  <2>1. Sound([Free EXCEPT !.at = "send", !.user = u, !.ws = w, !.who = v, !.role = as])
    BY DEF Sound, Free, Request, Places, Roles
  <2> QED
    BY <1>8, <2>1, ControlStep DEF StartInvite, MInv
<1>9. ASSUME NEW i \in Invites, StartAccept(r, i) PROVE Control'
  <2> DEFINE q == [Free EXCEPT !.at = IF invite[i].to \in accounts THEN "spend" ELSE "account",
                                 !.user = invite[i].to, !.ws = invite[i].ws,
                                 !.role = invite[i].role, !.inv = i]
  <2>1. invite[i] \in Invite
    BY <1>9 DEF StartAccept, MInv, Stored, Tables, NoInvite, Void
  <2>2. Sound(q)
    BY <2>1 DEF Invite, Sound, Free, Request, Places, Roles
  <2>3. act' = [act EXCEPT ![r] = q]
    BY <1>9 DEF StartAccept
  <2> QED
    BY <2>2, <2>3, ControlStep DEF MInv
<1> QED
  BY <1>1, <1>2, <1>3, <1>4, <1>5, <1>6, <1>7, <1>8, <1>9 DEF Begin

LEMMA ActControl ==
    ASSUME MInv, NEW r \in Handlers, Act(r)
    PROVE  Control'
<1>a. Control /\ Sound(act[r])
  BY DEF MInv, Control
<1> USE <1>a
<1>1. CASE ClaimOwnership(r)
  BY <1>1, LeaveControl, GotoControl DEF ClaimOwnership, Places, Sound
<1>2. CASE Forget(r) \/ Create(r) \/ LeaveWorkspace(r) \/ Transfer(r) \/ Join(r) \/ RevokeInvites(r) \/ DeleteUser(r)
  BY <1>2, LeaveControl DEF Forget, Create, LeaveWorkspace, Transfer, Join, RevokeInvites, DeleteUser
<1>3. CASE \E i \in Invites : SendInvite(r, i)
  BY <1>3, LeaveControl DEF SendInvite
<1>4. CASE CreateAccount(r)
  <2> DEFINE q == [act[r] EXCEPT !.at = "spend", !.own = TRUE]
  <2>1. Sound(q)
    BY <1>4 DEF CreateAccount, Sound, Request, Places
  <2>2. act[r] \in Request
    BY DEF Sound
  <2>3. act' = [act EXCEPT ![r] = q]
    BY <1>4 DEF CreateAccount, Control
  <2> QED
    BY <2>1, <2>3, ControlStep
<1>5. CASE SpendInvite(r)
  BY <1>5, LeaveControl, GotoControl DEF SpendInvite, Places
<1>6. CASE RemoveMember(r) \/ RemoveOrphan(r) \/ EraseWorkspace(r)
  BY <1>6, GotoControl DEF RemoveMember, RemoveOrphan, EraseWorkspace, Places
<1>7. CASE ListMembers(r)
  <2>1. PICK w \in act[r].todo : act' = [act EXCEPT ![r].at = "purge", ![r].ws = w, ![r].people = Members(w),
                                                       ![r].todo = @ \ {w}]
    BY <1>7 DEF ListMembers
  <2> DEFINE q == [act[r] EXCEPT !.at = "purge", !.ws = w, !.people = Members(w), !.todo = @ \ {w}]
  <2>2. w \in Workspaces /\ w # Default /\ Members(w) \subseteq Users
    BY DEF Sound, Request, Members
  <2>3. Sound(q)
    BY <1>7, <2>2 DEF ListMembers, Sound, Request, Places
  <2>4. act' = [act EXCEPT ![r] = q]
    BY <2>1 DEF Control
  <2> QED
    BY <2>3, <2>4, ControlStep
<1>8. CASE DeleteOrphan(r)
  <2>1. CASE act[r].people = {}
    <3>1. /\ AfterPurge(r) \in Places \ {"purge", "send", "claim", "transfer", "forget", "remove"}
          /\ AfterPurge(r) = "delete" => act[r].own /\ act[r].todo = {}
      BY DEF AfterPurge, Places
    <3> QED
      BY <1>8, <2>1, <3>1, LeaveControl, GotoControl DEF DeleteOrphan
  <2>2. CASE act[r].people # {}
    <3>1. PICK u \in act[r].people : act' = [act EXCEPT ![r].people = @ \ {u}]
      BY <1>8, <2>2 DEF DeleteOrphan
    <3> DEFINE q == [act[r] EXCEPT !.people = @ \ {u}]
    <3>2. Sound(q)
      BY <1>8 DEF DeleteOrphan, Sound, Request
    <3>3. act' = [act EXCEPT ![r] = q]
      BY <3>1 DEF Control
    <3> QED
      BY <3>2, <3>3, ControlStep
  <2> QED
    BY <2>1, <2>2
<1> QED
  BY <1>1, <1>2, <1>3, <1>4, <1>5, <1>6, <1>7, <1>8 DEF Act

-----------------------------------------------------------------------------
(* Data                                                                    *)

tables == <<accounts, spaces, role, invite, raced>>

LEMMA DataStutter == ASSUME Stored, UNCHANGED tables PROVE Stored'
BY DEF Stored, tables, Tables, Keys, OneOwner, Owners

\* Memberships that end, with the accounts of people in no workspace.
LEMMA Shrink ==
    ASSUME Stored, spaces' = spaces, raced' = raced,
           invite' \in [Invites -> Invite \cup {NoInvite, Void}],
           role' \in [Workspaces -> [Users -> Roles]],
           \A w \in Workspaces, u \in Users : role'[w][u] \in {"none", role[w][u]},
           accounts' \subseteq accounts,
           \A w \in Workspaces, u \in Users : role'[w][u] # "none" => u \in accounts'
    PROVE  Stored'
<1>1. Tables' /\ Keys'
  BY DEF Stored, Tables, Keys
<1>2. \A w \in Workspaces : Owners(w)' \subseteq Owners(w)
  BY DEF Owners
<1>3. OneOwner'
  BY <1>2 DEF Stored, OneOwner
<1> QED
  BY <1>1, <1>3 DEF Stored

\* One person more in a workspace, who owns it only if nobody did.
LEMMA Grow ==
    ASSUME Stored, NEW w \in Workspaces, NEW u \in accounts, NEW as \in Roles,
           spaces' \in SUBSET Workspaces, spaces \subseteq spaces', w \in spaces',
           accounts' = accounts, invite' = invite, raced' \subseteq Workspaces,
           as = "owner" => Owners(w) = {},
           role' = [role EXCEPT ![w][u] = as]
    PROVE  Stored'
<1>1. u \in Users /\ role' \in [Workspaces -> [Users -> Roles]]
  BY DEF Stored, Tables
<1>2. \A x \in Workspaces, v \in Users : role'[x][v] = IF x = w /\ v = u THEN as ELSE role[x][v]
  BY <1>1 DEF Stored, Tables
<1>3. Tables' /\ Keys'
  BY <1>1, <1>2 DEF Stored, Tables, Keys
<1>4. OneOwner'
  <2> SUFFICES ASSUME NEW x \in Workspaces, NEW a \in Owners(x)', NEW b \in Owners(x)' PROVE a = b
    BY DEF OneOwner
  <2>1. a \in Users /\ b \in Users /\ role'[x][a] = "owner" /\ role'[x][b] = "owner"
    BY DEF Owners
  <2>2. CASE x = w /\ as = "owner"
    <3>1. \A v \in Users : role[w][v] # "owner"
      BY <2>2 DEF Owners
    <3> QED
      BY <1>2, <2>1, <2>2, <3>1
  <2>3. CASE ~(x = w /\ as = "owner")
    <3>1. role[x][a] = "owner" /\ role[x][b] = "owner"
      BY <1>2, <2>1, <2>3
    <3> QED
      BY <2>1, <3>1 DEF Stored, OneOwner, Owners
  <2> QED
    BY <2>2, <2>3
<1> QED
  BY <1>3, <1>4 DEF Stored

\* What DropUser leaves.
LEMMA DropUserShrinks ==
    ASSUME Stored, NEW u, DropUser(u), spaces' = spaces, raced' = raced,
           invite' \in [Invites -> Invite \cup {NoInvite, Void}]
    PROVE  Stored'
<1>1. role' \in [Workspaces -> [Users -> Roles]]
  BY DEF Stored, Tables, DropUser, Roles
<1>2. \A w \in Workspaces, v \in Users : role'[w][v] = IF v = u THEN "none" ELSE role[w][v]
  BY DEF Stored, Tables, DropUser
<1>3. accounts' = accounts \ {u}
  BY DEF DropUser
<1>4. \A w \in Workspaces, v \in Users : role'[w][v] # "none" => v \in accounts'
  BY <1>2, <1>3 DEF Stored, Keys
<1> QED
  BY <1>1, <1>2, <1>3, <1>4, Shrink

LEMMA EndedInvites ==
    ASSUME Stored, NEW S
    PROVE  Ended(S) \in [Invites -> Invite \cup {NoInvite, Void}]
BY DEF Ended, Stored, Tables

\* DropOrphan takes nobody's membership.
LEMMA DropOrphanShrinks ==
    ASSUME Stored, NEW u, DropOrphan(u), UNCHANGED <<spaces, role, invite, raced>>
    PROVE  Stored'
<1>1. CASE SpacesOf(u) = {}
  <2>1. \A w \in Workspaces : role[w][u] = "none"
    BY <1>1 DEF SpacesOf
  <2>2. accounts' = accounts \ {u}
    BY <1>1 DEF DropOrphan
  <2>3. \A w \in Workspaces, v \in Users : role'[w][v] # "none" => v \in accounts'
    BY <2>1, <2>2 DEF Stored, Keys
  <2>4. role' \in [Workspaces -> [Users -> Roles]] /\ invite' \in [Invites -> Invite \cup {NoInvite, Void}]
    BY DEF Stored, Tables
  <2> QED
    BY <2>2, <2>3, <2>4, Shrink
<1>2. CASE SpacesOf(u) # {}
  BY <1>2, DataStutter DEF DropOrphan, tables
<1> QED
  BY <1>1, <1>2

LEMMA BeginData ==
    ASSUME MInv, NEW r \in Handlers, Begin(r)
    PROVE  Stored'
<1>1. ASSUME NEW u \in Users, Setup(r, u) PROVE Stored'
  BY <1>1 DEF Setup, MInv, Stored, Tables, Keys, OneOwner, Owners
<1>2. ASSUME NEW u \in Users, StartDeleteAccount(r, u) PROVE UNCHANGED tables
  BY <1>2 DEF StartDeleteAccount, tables
<1>3. ASSUME NEW u \in Users, NEW w \in Workspaces, StartCreate(r, u, w) \/ StartLeave(r, u, w) \/ StartEraseWorkspace(r, u, w)
      PROVE  UNCHANGED tables
  BY <1>3 DEF StartCreate, StartLeave, StartEraseWorkspace, tables
<1>4. ASSUME NEW u \in Users, NEW v \in Users, NEW w \in Workspaces, StartTransfer(r, u, w, v) \/ StartRemove(r, u, w, v)
      PROVE  UNCHANGED tables
  BY <1>4 DEF StartTransfer, StartRemove, tables
<1>5. ASSUME NEW u \in Users, NEW v \in Users, NEW w \in Workspaces, NEW as \in {"member", "admin"},
             StartInvite(r, u, w, v, as)
      PROVE  UNCHANGED tables
  BY <1>5 DEF StartInvite, tables
<1>6. ASSUME NEW i \in Invites, StartAccept(r, i) PROVE UNCHANGED tables
  BY <1>6 DEF StartAccept, tables
<1> QED
  BY <1>1, <1>2, <1>3, <1>4, <1>5, <1>6, DataStutter DEF Begin, MInv

LEMMA TransferData ==
    ASSUME MInv, NEW r \in Handlers, Transfer(r)
    PROVE  Stored'
<1> DEFINE w == act[r].ws
           u == act[r].user
           v == act[r].who
<1>1. w \in Workspaces /\ u \in Users /\ Stored
  BY DEF Transfer, MInv, Control, Sound, Request
<1>2. role' = [role EXCEPT ![w] = Transferred(w, u, v)] /\ raced' \subseteq Workspaces
  BY <1>1 DEF Transfer, Owning, Stored, Tables
<1>3. CASE ~(role[w][u] = "owner" /\ role[w][v] # "none")
  <2>1. role' = role
    BY <1>1, <1>2, <1>3 DEF Transferred, Stored, Tables
  <2> QED
    BY <1>1, <1>2, <2>1 DEF Transfer, Stored, Tables, Keys, OneOwner, Owners
<1>4. CASE role[w][u] = "owner" /\ role[w][v] # "none"
  <2>1. role' = [role EXCEPT ![w] = [role[w] EXCEPT ![v] = "owner", ![u] = "admin"]]
    BY <1>2, <1>4 DEF Transferred
  <2>2. role' \in [Workspaces -> [Users -> Roles]]
    BY <1>1, <2>1 DEF Stored, Tables, Roles
  <2>3. \A x \in Workspaces, y \in Users :
            role'[x][y] = IF x # w THEN role[x][y]
                          ELSE IF y = u THEN "admin" ELSE IF y = v THEN "owner" ELSE role[w][y]
    BY <1>1, <2>1 DEF Stored, Tables
  <2>4. Tables' /\ Keys'
    BY <1>1, <1>2, <1>4, <2>2, <2>3 DEF Transfer, Stored, Tables, Keys
  <2>5. \A y \in Users : role[w][y] = "owner" => y = u
    BY <1>1, <1>4 DEF Stored, OneOwner, Owners
  <2>6. OneOwner'
    BY <1>1, <2>3, <2>5 DEF Stored, OneOwner, Owners
  <2> QED
    BY <1>1, <2>4, <2>6 DEF Transfer, Stored
<1> QED
  BY <1>3, <1>4

LEMMA PurgeData ==
    ASSUME MInv, NEW r \in Handlers, EraseWorkspace(r)
    PROVE  Stored'
<1> DEFINE w == act[r].ws
<1>1. w \in Workspaces /\ w # Default /\ Stored
  BY DEF EraseWorkspace, MInv, Control, Sound, Request
<1>2. spaces' = spaces \ {w} /\ role' = [role EXCEPT ![w] = [u \in Users |-> "none"]]
  BY DEF EraseWorkspace
<1>3. invite' \in [Invites -> Invite \cup {NoInvite, Void}]
  BY <1>1, EndedInvites DEF EraseWorkspace
<1>4. role' \in [Workspaces -> [Users -> Roles]]
  BY <1>1, <1>2 DEF Stored, Tables, Roles
<1>5. \A x \in Workspaces, y \in Users : role'[x][y] = IF x = w THEN "none" ELSE role[x][y]
  BY <1>1, <1>2 DEF Stored, Tables
<1>6. Tables' /\ Keys'
  BY <1>1, <1>2, <1>3, <1>4, <1>5 DEF EraseWorkspace, Stored, Tables, Keys
<1>7. OneOwner'
  BY <1>1, <1>5 DEF Stored, OneOwner, Owners
<1> QED
  BY <1>1, <1>2, <1>6, <1>7 DEF Stored

LEMMA ActData ==
    ASSUME MInv, NEW r \in Handlers, Act(r)
    PROVE  Stored'
<1>a. Stored /\ Sound(act[r])
  BY DEF MInv, Control
<1> USE <1>a
<1>1. CASE ClaimOwnership(r)
  <2>1. CASE Owners(Default) = {} /\ act[r].user \in accounts
    <3>1. /\ role' = [role EXCEPT ![Default][act[r].user] = "owner"]
          /\ UNCHANGED <<accounts, spaces, invite, raced>>
      BY <1>1, <2>1 DEF ClaimOwnership
    <3>2. spaces' \in SUBSET Workspaces /\ raced' \subseteq Workspaces /\ Default \in spaces' /\ "owner" \in Roles
      BY <3>1 DEF Stored, Tables, Roles
    <3> QED
      BY <2>1, <3>1, <3>2, DefaultIsOne, Grow
  <2>2. CASE ~(Owners(Default) = {} /\ act[r].user \in accounts)
    BY <1>1, <2>2, DataStutter DEF ClaimOwnership, tables
  <2> QED
    BY <2>1, <2>2
<1>2. CASE Forget(r)
  <2>1. invite' \in [Invites -> Invite \cup {NoInvite, Void}]
    BY <1>2 DEF Forget, Stored, Tables
  <2> QED
    BY <1>2, <2>1, DropUserShrinks DEF Forget
<1>3. CASE Create(r)
  <2> DEFINE w == act[r].ws
  <2>1. w \in Workspaces /\ w \notin spaces
    BY <1>3 DEF Create, Sound, Request
  <2>2. Owners(w) = {}
    BY <2>1 DEF Stored, Keys, Owners
  <2>3. /\ act[r].user \in accounts /\ role' = [role EXCEPT ![w][act[r].user] = "owner"]
        /\ spaces' = spaces \cup {w} /\ accounts' = accounts /\ invite' = invite
    BY <1>3 DEF Create
  <2>4. spaces' \in SUBSET Workspaces /\ raced' \subseteq Workspaces /\ "owner" \in Roles
    BY <1>3, <2>1, <2>3 DEF Create, Owning, Stored, Tables, Roles
  <2>5. spaces \subseteq spaces' /\ w \in spaces'
    BY <2>3
  <2> QED
    BY <2>1, <2>2, <2>3, <2>4, <2>5, Grow
<1>4. CASE LeaveWorkspace(r)
  <2>1. role' \in {role, [role EXCEPT ![act[r].ws][act[r].user] = "none"]} /\ UNCHANGED <<accounts, spaces, invite, raced>>
    BY <1>4 DEF LeaveWorkspace
  <2>2. /\ role' \in [Workspaces -> [Users -> Roles]]
        /\ \A w \in Workspaces, u \in Users : role'[w][u] \in {"none", role[w][u]}
    BY <2>1 DEF Stored, Tables, Roles, Sound, Request
  <2>3. \A w \in Workspaces, u \in Users : role'[w][u] # "none" => u \in accounts'
    BY <2>1, <2>2 DEF Stored, Keys
  <2> QED
    BY <2>1, <2>2, <2>3, Shrink DEF Stored, Tables
<1>5. CASE \E i \in Invites : SendInvite(r, i)
  <2>1. PICK i \in Invites : SendInvite(r, i)
    BY <1>5
  <2>2. [ws |-> act[r].ws, to |-> act[r].who, role |-> act[r].role, by |-> act[r].user, state |-> "pending"] \in Invite
    BY <2>1 DEF SendInvite, Sound, Request, Invite
  <2>3. invite' \in [Invites -> Invite \cup {NoInvite, Void}]
    BY <2>1, <2>2 DEF SendInvite, Stored, Tables
  <2> QED
    BY <2>1, <2>3 DEF SendInvite, Stored, Tables, Keys, OneOwner, Owners
<1>6. CASE CreateAccount(r)
  BY <1>6 DEF CreateAccount, Sound, Stored, Tables, Keys, OneOwner, Owners
<1>7. CASE SpendInvite(r)
  <2>1. invite' \in [Invites -> Invite \cup {NoInvite, Void}] /\ UNCHANGED <<accounts, spaces, role, raced>>
    BY <1>7 DEF SpendInvite, Stored, Tables
  <2> QED
    BY <2>1 DEF Stored, Tables, Keys, OneOwner, Owners
<1>8. CASE Join(r)
  <2> DEFINE w == act[r].ws
             u == act[r].user
  <2>1. CASE w \in spaces /\ u \in accounts /\ role[w][u] = "none"
    <3>1. role' = [role EXCEPT ![w][u] = act[r].role] /\ UNCHANGED <<accounts, spaces, invite, raced>>
      BY <1>8, <2>1 DEF Join
    <3>2. w \in Workspaces /\ act[r].role \in Roles /\ act[r].role # "owner"
      BY DEF Sound, Request
    <3>3. spaces' \in SUBSET Workspaces /\ raced' \subseteq Workspaces /\ spaces \subseteq spaces' /\ w \in spaces'
      BY <2>1, <3>1 DEF Stored, Tables
    <3> QED
      BY <2>1, <3>1, <3>2, <3>3, Grow
  <2>2. CASE ~(w \in spaces /\ u \in accounts /\ role[w][u] = "none")
    BY <1>8, <2>2, DataStutter DEF Join, tables
  <2> QED
    BY <2>1, <2>2
<1>9. CASE RemoveMember(r)
  <2>1. role' = [role EXCEPT ![act[r].ws][act[r].who] = "none"] /\ UNCHANGED <<accounts, spaces, invite, raced>>
    BY <1>9 DEF RemoveMember
  <2>2. /\ role' \in [Workspaces -> [Users -> Roles]]
        /\ \A w \in Workspaces, u \in Users : role'[w][u] \in {"none", role[w][u]}
    BY <2>1 DEF Stored, Tables, Roles, Sound, Request
  <2>3. \A w \in Workspaces, u \in Users : role'[w][u] # "none" => u \in accounts'
    BY <2>1, <2>2 DEF Stored, Keys
  <2> QED
    BY <2>1, <2>2, <2>3, Shrink DEF Stored, Tables
<1>10. CASE RemoveOrphan(r)
  BY <1>10, DropOrphanShrinks DEF RemoveOrphan
<1>11. CASE RevokeInvites(r)
  <2>1. invite' \in [Invites -> Invite \cup {NoInvite, Void}] /\ UNCHANGED <<accounts, spaces, role, raced>>
    BY <1>11, EndedInvites DEF RevokeInvites
  <2> QED
    BY <2>1 DEF Stored, Tables, Keys, OneOwner, Owners
<1>12. CASE ListMembers(r)
  BY <1>12, DataStutter DEF ListMembers, tables
<1>13. CASE DeleteOrphan(r)
  <2>1. CASE act[r].people = {}
    BY <1>13, <2>1, DataStutter DEF DeleteOrphan, tables
  <2>2. CASE act[r].people # {}
    BY <1>13, <2>2, DropOrphanShrinks DEF DeleteOrphan
  <2> QED
    BY <2>1, <2>2
<1>14. CASE DeleteUser(r)
  <2>1. invite' \in [Invites -> Invite \cup {NoInvite, Void}]
    BY <1>14, EndedInvites DEF DeleteUser
  <2> QED
    BY <1>14, <2>1, DropUserShrinks DEF DeleteUser
<1> QED
  BY <1>1, <1>2, <1>3, <1>4, <1>5, <1>6, <1>7, <1>8, <1>9, <1>10, <1>11, <1>12, <1>13, <1>14,
     TransferData, PurgeData DEF Act

-----------------------------------------------------------------------------
LEMMA NextMInv == MInv /\ [TeamNext]_team => MInv'
<1> SUFFICES ASSUME MInv, [TeamNext]_team PROVE MInv'
  OBVIOUS
<1>1. ASSUME NEW r \in Handlers, Begin(r) PROVE MInv'
  BY <1>1, BeginControl, BeginData DEF MInv
<1>2. ASSUME NEW r \in Handlers, Act(r) PROVE MInv'
  BY <1>2, ActControl, ActData DEF MInv
<1>3. ASSUME NEW r \in Handlers, Abort(r) PROVE MInv'
  BY <1>3, LeaveControl, DataStutter DEF Abort, MInv, tables
<1>4. ASSUME NEW i \in Invites, InviteEnds(i) PROVE MInv'
  <2>1. invite' \in [Invites -> Invite \cup {NoInvite, Void}]
    BY <1>4 DEF InviteEnds, MInv, Stored, Tables
  <2>2. Stored'
    BY <1>4, <2>1 DEF InviteEnds, MInv, Stored, Tables, Keys, OneOwner, Owners
  <2> QED
    BY <1>4, <2>2 DEF InviteEnds, MInv, Control
<1>5. CASE UNCHANGED team
  BY <1>5, DataStutter DEF team, tables, MInv, Control
<1> QED
  BY <1>1, <1>2, <1>3, <1>4, <1>5 DEF TeamNext

\* What each step preserves holds in every reachable state.
THEOREM MInvHolds == TeamSpec => []MInv
BY InitMInv, NextMInv, PTL DEF TeamSpec

\* The variables keep their types, and memberships their foreign keys, however
\* the requests interleave and wherever they end.
THEOREM MembershipTypes == TeamSpec => []TeamTypeOK
<1>1. MInv => TeamTypeOK
  BY DEF MInv, Stored, Tables, Keys, Control, TeamTypeOK
<1> QED
  BY <1>1, MInvHolds, PTL

\* However many people sign up, are handed a workspace, join or create one at
\* once: no workspace has two owners.
THEOREM AtMostOneOwner == TeamSpec => []OneOwner
<1>1. MInv => OneOwner
  BY DEF MInv, Stored
<1> QED
  BY <1>1, MInvHolds, PTL

-----------------------------------------------------------------------------
(* Ownership                                                               *)

\* A sign-up that may still be undone.
SigningIn(q) == q.own /\ q.at \in {"claim", "forget", "spend", "join"}

\* Nobody else is at work on the user, or has let them in anywhere.
SignUps ==
    \A r \in Handlers : SigningIn(act[r]) =>
        /\ \A w \in Workspaces : role[w][act[r].user] = "none"
        /\ \A s \in Handlers \ {r} :
               /\ act[s].at \notin {"idle", "account"} => act[s].user # act[r].user
               /\ act[s].at = "remove" => act[s].who # act[r].user

\* Who is about to be removed does not own the workspace.
Removals ==
    \A r \in Handlers : act[r].at = "remove" =>
        act[r].ws \in raced \/ role[act[r].ws][act[r].who] # "owner"

\* A user is deleted, and with them the workspaces they own: those still to come.
Erasing(q) == q.own /\ q.at \in {"list", "purge", "orphans", "delete"}
Coming(q)  == q.todo \cup IF q.at = "purge" THEN {q.ws} ELSE {}

Deletions ==
    \A r \in Handlers : Erasing(act[r]) =>
        \A w \in Workspaces : role[w][act[r].user] = "owner" => w \in raced \/ w \in Coming(act[r])

\* Nobody is in the workspace yet, or on the way into it.
Entering == {"send", "account", "spend", "join"}
Untouched(w) ==
    /\ \A u \in Users : role[w][u] = "none"
    /\ \A i \in Invites : invite[i].state = "pending" => invite[i].ws # w
    /\ \A r \in Handlers : act[r].at \in Entering => act[r].ws # w

\* A workspace that somebody has come into keeps an owner.
Ruled == \A w \in spaces : w \in raced \/ Untouched(w) \/ Owners(w) # {}

OInv == SignUps /\ Removals /\ Deletions /\ Ruled

LEMMA InitOInv == TeamInit => OInv
<1> SUFFICES ASSUME TeamInit PROVE OInv
  OBVIOUS
<1>1. \A r \in Handlers : act[r] = Free
  BY DEF TeamInit
<1>2. SignUps /\ Removals /\ Deletions
  BY <1>1 DEF SignUps, Removals, Deletions, SigningIn, Erasing, Free
<1>3. Untouched(Default) /\ spaces = {Default}
  BY <1>1, DefaultIsOne DEF TeamInit, Untouched, Entering, Free, NoInvite
<1> QED
  BY <1>2, <1>3 DEF OInv, Ruled

\* Nobody who signs in is met by what request r does as q next.
Apart(r, q) ==
    /\ SigningIn(q) => \/ SigningIn(act[r]) /\ q.user = act[r].user
                       \/ /\ \A w \in Workspaces : role[w][q.user] = "none"
                          /\ \A s \in Handlers \ {r} :
                                 /\ act[s].at \notin {"idle", "account"} => act[s].user # q.user
                                 /\ act[s].at = "remove" => act[s].who # q.user
    /\ q.at \notin {"idle", "account"} =>
           \/ act[r].at \notin {"idle", "account"} /\ q.user = act[r].user
           \/ \A s \in Handlers \ {r} : SigningIn(act[s]) => act[s].user # q.user
    /\ q.at = "remove" => \A s \in Handlers \ {r} : SigningIn(act[s]) => act[s].user # q.who

\* Where nobody was let in, nobody is, but the user of a request that ends.
LetIn(r, q) ==
    \A w \in Workspaces, u \in Users : role[w][u] = "none" /\ role'[w][u] # "none" =>
        u = act[r].user /\ act[r].at \notin {"idle", "account"} /\ q = Free

LEMMA SignUpsStep ==
    ASSUME MInv, SignUps, NEW r \in Handlers, NEW q, act' = [act EXCEPT ![r] = q],
           Apart(r, q), LetIn(r, q), Control'
    PROVE  SignUps'
<1> SUFFICES ASSUME NEW a \in Handlers, SigningIn(act'[a])
             PROVE  /\ \A w \in Workspaces : role'[w][act'[a].user] = "none"
                    /\ \A s \in Handlers \ {a} :
                           /\ act'[s].at \notin {"idle", "account"} => act'[s].user # act'[a].user
                           /\ act'[s].at = "remove" => act'[s].who # act'[a].user
  BY DEF SignUps, SigningIn
<1>1. \A s \in Handlers : act'[s] = IF s = r THEN q ELSE act[s]
  BY DEF MInv, Control
<1>2. q.at = "idle" \/ q # Free
  BY DEF Free
<1>3. ~SigningIn(Free)
  BY DEF SigningIn, Free
<1>4. \A s \in Handlers : act[s].at # "idle" => act[s].user \in Users
  BY DEF MInv, Control, Sound
<1>5. CASE a = r
  <2>1. SigningIn(q) /\ q # Free /\ act'[a] = q
    BY <1>1, <1>3, <1>5
  <2>2. /\ \A w \in Workspaces : role[w][q.user] = "none"
        /\ \A s \in Handlers \ {r} :
               /\ act[s].at \notin {"idle", "account"} => act[s].user # q.user
               /\ act[s].at = "remove" => act[s].who # q.user
    BY <2>1 DEF Apart, SignUps
  <2>3. q.user \in Users
    BY <1>1, <1>5, <2>1 DEF Control, Sound, SigningIn
  <2> QED
    BY <1>1, <1>5, <2>1, <2>2, <2>3 DEF LetIn
<1>6. CASE a # r
  <2>1. /\ SigningIn(act[a]) /\ act'[a] = act[a] /\ act[a].user \in Users
        /\ act[a].at \notin {"idle", "account"}
    BY <1>1, <1>4, <1>6 DEF SigningIn
  <2>2. /\ \A w \in Workspaces : role[w][act[a].user] = "none"
        /\ \A s \in Handlers \ {a} :
               /\ act[s].at \notin {"idle", "account"} => act[s].user # act[a].user
               /\ act[s].at = "remove" => act[s].who # act[a].user
    BY <2>1 DEF SignUps
  <2>3. \A w \in Workspaces : role'[w][act[a].user] = "none"
    BY <1>6, <2>1, <2>2 DEF LetIn
  <2>4. /\ q.at \notin {"idle", "account"} => q.user # act[a].user
        /\ q.at = "remove" => q.who # act[a].user
    BY <1>6, <2>1, <2>2 DEF Apart
  <2> QED
    BY <1>1, <2>1, <2>2, <2>3, <2>4
<1> QED
  BY <1>5, <1>6

\* Ownership comes only to somebody whom no other request takes out.
Handed(r) ==
    \A w \in Workspaces, u \in Users : role'[w][u] = "owner" /\ role[w][u] # "owner" =>
        \/ w \in raced'
        \/ \A s \in Handlers \ {r} : /\ ~(act[s].at = "remove" /\ act[s].ws = w /\ act[s].who = u)
                                     /\ ~(Erasing(act[s]) /\ act[s].user = u)

LEMMA RemovalsStep ==
    ASSUME MInv, Removals, NEW r \in Handlers, NEW q, act' = [act EXCEPT ![r] = q],
           raced \subseteq raced', Tables', Handed(r),
           q.at = "remove" => role'[q.ws][q.who] # "owner"
    PROVE  Removals'
<1> SUFFICES ASSUME NEW a \in Handlers, act'[a].at = "remove", act'[a].ws \notin raced',
                    role'[act'[a].ws][act'[a].who] = "owner"
             PROVE  FALSE
  BY DEF Removals
<1>1. \A s \in Handlers : act'[s] = IF s = r THEN q ELSE act[s]
  BY DEF MInv, Control
<1>2. a # r /\ act'[a] = act[a]
  BY <1>1
<1>3. act[a].ws \in Workspaces /\ act[a].who \in Users
  BY <1>2 DEF MInv, Control, Request, Sound
<1>4. act[a].ws \notin raced /\ role[act[a].ws][act[a].who] # "owner"
  BY <1>2 DEF Removals
<1> QED
  BY <1>2, <1>3, <1>4 DEF Handed

LEMMA DeletionsStep ==
    ASSUME MInv, Deletions, NEW r \in Handlers, NEW q, act' = [act EXCEPT ![r] = q],
           raced \subseteq raced', Handed(r),
           Erasing(q) => \A w \in Workspaces : role'[w][q.user] = "owner" => w \in raced' \/ w \in Coming(q)
    PROVE  Deletions'
<1> SUFFICES ASSUME NEW a \in Handlers, Erasing(act'[a]), NEW w \in Workspaces,
                    role'[w][act'[a].user] = "owner", w \notin raced'
             PROVE  w \in Coming(act'[a])
  BY DEF Deletions, Erasing, Coming
<1>1. \A s \in Handlers : act'[s] = IF s = r THEN q ELSE act[s]
  BY DEF MInv, Control
<1>2. CASE a = r
  BY <1>1, <1>2
<1>3. CASE a # r
  <2>1. act'[a] = act[a] /\ Erasing(act[a]) /\ act[a].user \in Users
    BY <1>1, <1>3 DEF MInv, Control, Sound, Erasing
  <2>2. role[w][act[a].user] = "owner"
    BY <1>3, <2>1 DEF Handed
  <2> QED
    BY <2>1, <2>2 DEF Deletions
<1> QED
  BY <1>2, <1>3

\* Invitations only end, but for the one that request r sends.
Invited(r) ==
    \A i \in Invites : invite'[i].state = "pending" =>
        \/ invite[i].state = "pending" /\ invite'[i].ws = invite[i].ws
        \/ act[r].at = "send" /\ invite'[i].ws = act[r].ws

LEMMA HeldStep ==
    ASSUME MInv, Ruled, NEW r \in Handlers, NEW q, act' = [act EXCEPT ![r] = q],
           raced \subseteq raced', Invited(r),
           q.at \in Entering => ~Untouched(q.ws),
           \A w \in spaces' \ spaces : Owners(w)' # {},
           \A w \in spaces : w \in spaces' /\ w \notin raced' /\ Owners(w) # {} => Owners(w)' # {},
           \A w \in spaces : Untouched(w) =>
               Owners(w)' # {} \/ \A u \in Users : role'[w][u] = "none"
    PROVE  Ruled'
<1> SUFFICES ASSUME NEW w \in spaces', w \notin raced', ~(Owners(w)' # {})
             PROVE  Untouched(w)'
  BY DEF Ruled
<1>1. \A s \in Handlers : act'[s] = IF s = r THEN q ELSE act[s]
  BY DEF MInv, Control
<1>2. w \in spaces /\ Untouched(w)
  BY DEF Ruled
<1>3. \A i \in Invites : invite'[i].state = "pending" => invite'[i].ws # w
  BY <1>2 DEF Untouched, Invited, Entering
<1>4. \A s \in Handlers : act'[s].at \in Entering => act'[s].ws # w
  BY <1>1, <1>2 DEF Untouched
<1>5. \A u \in Users : role'[w][u] = "none"
  BY <1>2
<1> QED
  BY <1>3, <1>4, <1>5 DEF Untouched

\* A step that leaves the memberships alone.
LEMMA QuietStep ==
    ASSUME MInv, OInv, Control', NEW r \in Handlers, NEW q, act' = [act EXCEPT ![r] = q],
           UNCHANGED <<role, spaces, raced>>, Tables', Apart(r, q), Invited(r),
           q.at \in Entering => ~Untouched(q.ws),
           q.at = "remove" => role[q.ws][q.who] # "owner",
           Erasing(q) => \A w \in Workspaces : role[w][q.user] = "owner" => w \in raced \/ w \in Coming(q)
    PROVE  OInv'
<1>1. LetIn(r, q) /\ Handed(r)
  BY DEF LetIn, Handed
<1>2. Removals'
  BY <1>1, RemovalsStep DEF OInv
<1>3. Deletions'
  BY <1>1, DeletionsStep DEF OInv
<1>4. SignUps'
  BY <1>1, SignUpsStep DEF OInv
<1>5. \A w \in spaces : Untouched(w) => \A u \in Users : role'[w][u] = "none"
  BY DEF Untouched
<1>6. \A w \in spaces : Owners(w) # {} => Owners(w)' # {}
  BY DEF Owners
<1>7. Ruled'
  BY <1>5, <1>6, HeldStep DEF OInv
<1> QED
  BY <1>2, <1>3, <1>4, <1>7 DEF OInv

\* Somebody in a workspace is not signing in.
LEMMA Known ==
    ASSUME SignUps, NEW u \in Users, NEW w \in Workspaces, role[w][u] # "none"
    PROVE  \A s \in Handlers : SigningIn(act[s]) => act[s].user # u
BY DEF SignUps

\* A user without an account is in no workspace.
LEMMA Newcomer ==
    ASSUME MInv, NEW u \in Users, u \notin accounts, Forgotten(u)
    PROVE  /\ \A w \in Workspaces : role[w][u] = "none"
           /\ \A s \in Handlers : /\ act[s].at \notin {"idle", "account"} => act[s].user # u
                                  /\ act[s].at = "remove" => act[s].who # u
                                  /\ SigningIn(act[s]) => act[s].user # u
BY DEF MInv, Stored, Keys, Forgotten, SigningIn

LEMMA SameInvites ==
    ASSUME invite' = invite, NEW r \in Handlers
    PROVE  Invited(r)
BY DEF Invited

LEMMA BeginOwn ==
    ASSUME MInv, OInv, MInv', NEW r \in Handlers, Begin(r)
    PROVE  OInv'
<1> USE DefaultIsOne DEF MInv, Stored
<1>a. SignUps
  BY DEF OInv
<1>1. ASSUME NEW u \in Users, Setup(r, u) PROVE OInv'
  <2> DEFINE q == [Free EXCEPT !.at = "claim", !.user = u, !.own = TRUE]
  <2>1. /\ q.at = "claim" /\ q.user = u /\ ~Erasing(q) /\ q.at \notin Entering
        /\ act' = [act EXCEPT ![r] = q] /\ UNCHANGED <<role, invite, spaces, raced>>
    BY <1>1 DEF Setup, Free, Erasing, Entering
  <2>2. Apart(r, q)
    BY <1>1, <2>1, Newcomer DEF Apart, Setup
  <2> QED
    BY <2>1, <2>2, QuietStep, SameInvites
<1>2. ASSUME NEW u \in Users, StartDeleteAccount(r, u) PROVE OInv'
  <2> DEFINE q == [Free EXCEPT !.at = IF SoleOwned(u) = {} THEN "delete" ELSE "list",
                                 !.user = u, !.own = TRUE, !.todo = SoleOwned(u)]
  <2>1. /\ q.at \in {"delete", "list"} /\ q.user = u /\ ~SigningIn(q) /\ q.at \notin Entering
        /\ act' = [act EXCEPT ![r] = q] /\ UNCHANGED <<role, invite, spaces, raced>>
        /\ Coming(q) = SoleOwned(u)
    BY <1>2 DEF StartDeleteAccount, Free, SigningIn, Entering, Coming
  <2>2. PICK w \in Workspaces : role[w][u] # "none"
    BY <1>2 DEF StartDeleteAccount, SpacesOf
  <2>3. Apart(r, q)
    BY <1>a, <2>1, <2>2, Known DEF Apart
  <2>4. \A x \in Workspaces : role[x][u] = "owner" => x \in SoleOwned(u)
    BY DEF OneOwner, Owners, SoleOwned
  <2> QED
    BY <2>1, <2>3, <2>4, QuietStep, SameInvites
<1>3. ASSUME NEW u \in Users, NEW w \in Workspaces, NEW q, role[w][u] # "none", q.user = u,
             q.at \in {"create", "leave", "list", "transfer", "remove", "send"},
             q.own = FALSE, q.at = "remove" => role[q.ws][q.who] # "owner",
             q.at = "remove" => \E x \in Workspaces : role[x][q.who] # "none",
             q.at = "remove" => q.who \in Users, q.at = "send" => q.ws = w,
             act' = [act EXCEPT ![r] = q], UNCHANGED <<role, invite, spaces, raced>>
      PROVE  OInv'
  <2>1. ~SigningIn(q) /\ ~Erasing(q)
    BY <1>3 DEF SigningIn, Erasing
  <2>2. Apart(r, q)
    BY <1>a, <1>3, <2>1, Known DEF Apart
  <2>3. q.at \in Entering => ~Untouched(q.ws)
    BY <1>3 DEF Entering, Untouched
  <2> QED
    BY <1>3, <2>1, <2>2, <2>3, QuietStep, SameInvites
<1>4. ASSUME NEW u \in Users, NEW w \in Workspaces, StartCreate(r, u, w) PROVE OInv'
  <2> DEFINE q == [Free EXCEPT !.at = "create", !.user = u, !.ws = w]
  <2>1. q.at = "create" /\ q.user = u /\ q.own = FALSE /\ role[Default][u] # "none"
    BY <1>4 DEF StartCreate, Free
  <2> QED
    BY <1>3, <1>4, <2>1 DEF StartCreate
<1>5. ASSUME NEW u \in Users, NEW w \in Workspaces, StartLeave(r, u, w) PROVE OInv'
  <2> DEFINE q == [Free EXCEPT !.at = "leave", !.user = u, !.ws = w]
  <2>1. q.at = "leave" /\ q.user = u /\ q.own = FALSE
    BY DEF Free
  <2> QED
    BY <1>3, <1>5, <2>1 DEF StartLeave
<1>6. ASSUME NEW u \in Users, NEW w \in Workspaces, StartEraseWorkspace(r, u, w) PROVE OInv'
  <2> DEFINE q == [Free EXCEPT !.at = "list", !.user = u, !.ws = w, !.todo = {w}]
  <2>1. q.at = "list" /\ q.user = u /\ q.own = FALSE /\ role[w][u] # "none"
    BY <1>6 DEF StartEraseWorkspace, Free
  <2> QED
    BY <1>3, <1>6, <2>1 DEF StartEraseWorkspace
<1>7. ASSUME NEW u \in Users, NEW v \in Users, NEW w \in Workspaces, StartTransfer(r, u, w, v) PROVE OInv'
  <2> DEFINE q == [Free EXCEPT !.at = "transfer", !.user = u, !.ws = w, !.who = v]
  <2>1. q.at = "transfer" /\ q.user = u /\ q.own = FALSE /\ role[w][u] # "none"
    BY <1>7 DEF StartTransfer, Free
  <2> QED
    BY <1>3, <1>7, <2>1 DEF StartTransfer
<1>8. ASSUME NEW u \in Users, NEW v \in Users, NEW w \in Workspaces, StartRemove(r, u, w, v) PROVE OInv'
  <2> DEFINE q == [Free EXCEPT !.at = "remove", !.user = u, !.ws = w, !.who = v]
  <2>1. /\ q.at = "remove" /\ q.user = u /\ q.own = FALSE /\ q.ws = w /\ q.who = v
        /\ role[w][u] # "none" /\ role[w][v] \in {"member", "admin"}
    BY <1>8 DEF StartRemove, Admin, Free
  <2> QED
    BY <1>3, <1>8, <2>1 DEF StartRemove
<1>9. ASSUME NEW u \in Users, NEW v \in Users, NEW w \in Workspaces, NEW as \in {"member", "admin"},
             StartInvite(r, u, w, v, as) PROVE OInv'
  <2> DEFINE q == [Free EXCEPT !.at = "send", !.user = u, !.ws = w, !.who = v, !.role = as]
  <2>1. q.at = "send" /\ q.user = u /\ q.own = FALSE /\ q.ws = w /\ role[w][u] # "none"
    BY <1>9 DEF StartInvite, Admin, Free
  <2> QED
    BY <1>3, <1>9, <2>1 DEF StartInvite
<1>10. ASSUME NEW i \in Invites, StartAccept(r, i) PROVE OInv'
  <2> DEFINE q == [Free EXCEPT !.at = IF invite[i].to \in accounts THEN "spend" ELSE "account",
                                 !.user = invite[i].to, !.ws = invite[i].ws,
                                 !.role = invite[i].role, !.inv = i]
  <2>1. /\ q.at \in {"spend", "account"} /\ q.user = invite[i].to /\ q.own = FALSE /\ q.ws = invite[i].ws
        /\ act' = [act EXCEPT ![r] = q] /\ UNCHANGED <<role, invite, spaces, raced>>
        /\ invite[i].state = "pending"
    BY <1>10 DEF StartAccept, Free
  <2>2. ~SigningIn(q) /\ ~Erasing(q)
    BY <2>1 DEF SigningIn, Erasing
  <2>3. \A s \in Handlers : SigningIn(act[s]) => act[s].user # invite[i].to
    BY <1>10 DEF StartAccept, SigningUp, SigningIn
  <2>4. Apart(r, q)
    BY <2>1, <2>2, <2>3 DEF Apart
  <2>5. ~Untouched(q.ws)
    BY <2>1 DEF Untouched
  <2> QED
    BY <2>1, <2>2, <2>4, <2>5, QuietStep, SameInvites
<1> QED
  BY <1>1, <1>2, <1>4, <1>5, <1>6, <1>7, <1>8, <1>9, <1>10 DEF Begin

\* No workspace loses its owner, and who comes into one nobody was in owns it.
OwnersStay ==
    /\ \A w \in spaces' \ spaces : Owners(w)' # {}
    /\ \A w \in spaces : w \in spaces' /\ w \notin raced' /\ Owners(w) # {} => Owners(w)' # {}
    /\ \A w \in spaces : Untouched(w) => Owners(w)' # {} \/ \A u \in Users : role'[w][u] = "none"

LEMMA IdleIsQuiet ==
    /\ Free.at = "idle" /\ ~SigningIn(Free) /\ ~Erasing(Free) /\ Free.at \notin Entering
    /\ \A r : Apart(r, Free)
BY DEF Free, SigningIn, Erasing, Entering, Apart

\* A request ends with a step on the memberships.
LEMMA EndStep ==
    ASSUME MInv, OInv, MInv', NEW r \in Handlers, Leave(r),
           raced \subseteq raced', LetIn(r, Free), Handed(r), Invited(r), OwnersStay
    PROVE  OInv'
<1>1. act' = [act EXCEPT ![r] = Free] /\ Tables' /\ Control'
  BY DEF Leave, MInv, Stored
<1>2. Removals' /\ Deletions'
  BY <1>1, IdleIsQuiet, RemovalsStep, DeletionsStep DEF OInv
<1>3. SignUps'
  BY <1>1, IdleIsQuiet, SignUpsStep DEF OInv
<1>4. Ruled'
  BY <1>1, IdleIsQuiet, HeldStep DEF OInv, OwnersStay
<1> QED
  BY <1>2, <1>3, <1>4 DEF OInv

\* Memberships end, and an owner's only where another owner stays.
Ending ==
    /\ \A w \in Workspaces, u \in Users : role'[w][u] \in {"none", role[w][u]}
    /\ spaces' \subseteq spaces /\ raced' = raced
    /\ \A w \in spaces' : w \notin raced /\ Owners(w) # {} => Owners(w)' # {}

LEMMA EndingStays ==
    ASSUME MInv, Ending, NEW r \in Handlers, NEW q
    PROVE  LetIn(r, q) /\ Handed(r) /\ OwnersStay
<1>1. spaces \subseteq Workspaces
  BY DEF MInv, Stored, Tables
<1>2. LetIn(r, q) /\ Handed(r)
  BY DEF Ending, LetIn, Handed
<1>3. \A w \in spaces : Untouched(w) => \A u \in Users : role'[w][u] = "none"
  BY <1>1 DEF Ending, Untouched
<1> QED
  BY <1>2, <1>3 DEF Ending, OwnersStay

\* Neither sets a person's memberships aside unless they own nothing.
LEMMA DropUserEnds ==
    ASSUME MInv, NEW u, DropUser(u), UNCHANGED <<spaces, raced>>,
           \A w \in spaces \ raced : role[w][u] # "owner"
    PROVE  Ending
<1>1. \A w \in Workspaces, v \in Users : role'[w][v] = IF v = u THEN "none" ELSE role[w][v]
  BY DEF MInv, Stored, Tables, DropUser
<1>2. spaces \subseteq Workspaces
  BY DEF MInv, Stored, Tables
<1>3. \A w \in spaces \ raced : Owners(w) \subseteq Owners(w)'
  BY <1>1, <1>2 DEF Owners
<1> QED
  BY <1>1, <1>2, <1>3 DEF Ending

LEMMA EndedFewer ==
    ASSUME MInv, NEW S, invite' = Ended(S), NEW r \in Handlers
    PROVE  Invited(r)
<1>1. \A i \in Invites : invite'[i] = invite[i] \/ invite'[i] = Void
  BY DEF Ended, MInv, Stored, Tables
<1> QED
  BY <1>1 DEF Invited, Void

\* On to the next statement of the same user, nobody's membership changed.
LEMMA QuietGoto ==
    ASSUME MInv, OInv, MInv', NEW r \in Handlers, NEW p \in {"forget", "join", "orphan", "revoke"},
           GoOn(r, p), UNCHANGED <<role, spaces, raced>>, Invited(r),
           act[r].at \notin {"idle", "account"},
           p \in {"forget", "join"} => act[r].at \in {"claim", "spend"},
           p = "join" => ~Untouched(act[r].ws)
    PROVE  OInv'
<1> DEFINE q == [act[r] EXCEPT !.at = p]
<1>1. act[r] \in Request
  BY DEF MInv, Control
<1>2. /\ q.at = p /\ q.user = act[r].user /\ q.own = act[r].own /\ q.ws = act[r].ws
      /\ act' = [act EXCEPT ![r] = q]
  BY <1>1 DEF GoOn, Request
<1>3. SigningIn(q) => SigningIn(act[r])
  BY <1>2 DEF SigningIn
<1>4. ~Erasing(q) /\ (q.at \in Entering => p = "join")
  BY <1>2 DEF Erasing, Entering
<1>5. Apart(r, q)
  BY <1>2, <1>3 DEF Apart
<1>6. Control' /\ Tables'
  BY DEF MInv, Stored
<1> QED
  BY <1>2, <1>4, <1>5, <1>6, QuietStep

LEMMA ClaimOwn ==
    ASSUME MInv, OInv, MInv', NEW r \in Handlers, ClaimOwnership(r)
    PROVE  OInv'
<1> DEFINE u == act[r].user
<1>1. u \in Users /\ SigningIn(act[r])
  BY DEF ClaimOwnership, MInv, Control, Sound, SigningIn
<1>2. CASE Owners(Default) = {} /\ u \in accounts
  <2>1. Leave(r) /\ role' = [role EXCEPT ![Default][u] = "owner"] /\ UNCHANGED <<spaces, invite, raced>>
    BY <1>2 DEF ClaimOwnership
  <2>2. \A w \in Workspaces, v \in Users : role'[w][v] = IF w = Default /\ v = u THEN "owner" ELSE role[w][v]
    BY <1>1, <2>1, DefaultIsOne DEF MInv, Stored, Tables
  <2>3. LetIn(r, Free)
    BY <2>2 DEF LetIn, ClaimOwnership
  <2>4. Handed(r)
    BY <1>1, <2>2 DEF Handed, OInv, SignUps, Erasing
  <2>5. \A w \in Workspaces : Owners(w) \subseteq Owners(w)'
    BY <2>2 DEF Owners
  <2>6. \A w \in Workspaces : Untouched(w) => Owners(w)' # {} \/ \A v \in Users : role'[w][v] = "none"
    BY <1>1, <2>2 DEF Untouched, Owners
  <2>7. OwnersStay
    BY <2>1, <2>5, <2>6 DEF OwnersStay, MInv, Stored, Tables
  <2> QED
    BY <2>1, <2>3, <2>4, <2>7, EndStep, SameInvites
<1>3. CASE ~(Owners(Default) = {} /\ u \in accounts)
  BY <1>3, QuietGoto, SameInvites DEF ClaimOwnership
<1> QED
  BY <1>2, <1>3

LEMMA ForgetOwn ==
    ASSUME MInv, OInv, MInv', NEW r \in Handlers, Forget(r)
    PROVE  OInv'
<1>1. SigningIn(act[r])
  BY DEF Forget, MInv, Control, Sound, SigningIn
<1>2. \A w \in Workspaces : role[w][act[r].user] = "none"
  BY <1>1 DEF OInv, SignUps
<1>3. spaces \subseteq Workspaces
  BY DEF MInv, Stored, Tables
<1>4. Ending
  BY <1>2, <1>3, DropUserEnds DEF Forget
<1> QED
  BY <1>4, EndingStays, EndStep, SameInvites DEF Forget

LEMMA CreateOwn ==
    ASSUME MInv, OInv, MInv', NEW r \in Handlers, Create(r)
    PROVE  OInv'
<1>a. PICK w \in Workspaces, u \in Users : w = act[r].ws /\ u = act[r].user
  BY DEF Create, MInv, Control, Sound, Request
<1>1. w \notin spaces
  BY <1>a DEF Create
<1>2. \A x \in Workspaces, v \in Users : role'[x][v] = IF x = w /\ v = u THEN "owner" ELSE role[x][v]
  BY <1>a, <1>1 DEF Create, MInv, Stored, Tables
<1>3. LetIn(r, Free)
  BY <1>a, <1>2 DEF LetIn, Create
<1>4. w \in raced' \/ ~Removing(w, u)
  BY <1>a DEF Create, Owning
<1>5. Handed(r)
  BY <1>2, <1>4 DEF Handed, Removing, Erasing
<1>6. spaces' = spaces \cup {w} /\ raced \subseteq raced' /\ spaces \subseteq Workspaces
  BY <1>a DEF Create, Owning, MInv, Stored, Tables
<1>7. Owners(w)' # {}
  BY <1>1, <1>2 DEF Owners
<1>8. \A x \in spaces : Owners(x)' = Owners(x) /\ \A v \in Users : role'[x][v] = role[x][v]
  BY <1>1, <1>2, <1>6 DEF Owners
<1>9. OwnersStay
  BY <1>6, <1>7, <1>8 DEF OwnersStay, Untouched
<1> QED
  BY <1>3, <1>5, <1>6, <1>9, EndStep, SameInvites DEF Create

LEMMA LeaveOwn ==
    ASSUME MInv, OInv, MInv', NEW r \in Handlers, LeaveWorkspace(r)
    PROVE  OInv'
<1> DEFINE w == act[r].ws
           u == act[r].user
<1>1. w \in Workspaces /\ u \in Users
  BY DEF LeaveWorkspace, MInv, Control, Sound, Request
<1>2. CASE role[w][u] # "owner" \/ Owners(w) \ {u} # {}
  <2>1. \A x \in Workspaces, v \in Users : role'[x][v] = IF x = w /\ v = u THEN "none" ELSE role[x][v]
    BY <1>1, <1>2 DEF LeaveWorkspace, MInv, Stored, Tables
  <2>2. \A x \in Workspaces : Owners(x) # {} => Owners(x)' # {}
    BY <1>1, <1>2, <2>1 DEF Owners
  <2>3. Ending
    BY <2>1, <2>2 DEF Ending, LeaveWorkspace, MInv, Stored, Tables
  <2> QED
    BY <2>3, EndingStays, EndStep, SameInvites DEF LeaveWorkspace
<1>3. CASE ~(role[w][u] # "owner" \/ Owners(w) \ {u} # {})
  <2>1. role' = role /\ UNCHANGED <<spaces, raced, invite>> /\ Leave(r)
    BY <1>3 DEF LeaveWorkspace
  <2>2. Ending
    BY <2>1 DEF Ending, Owners
  <2> QED
    BY <2>1, <2>2, EndingStays, EndStep, SameInvites
<1> QED
  BY <1>2, <1>3

LEMMA TransferOwn ==
    ASSUME MInv, OInv, MInv', NEW r \in Handlers, Transfer(r)
    PROVE  OInv'
<1>1. PICK w \in Workspaces, u \in Users, v \in Users :
          w = act[r].ws /\ u = act[r].user /\ v = act[r].who /\ u # v
  BY DEF Transfer, MInv, Control, Sound, Request
<1>2. /\ role' = [role EXCEPT ![w] = Transferred(w, u, v)]
      /\ raced \subseteq raced' /\ (w \in raced' \/ ~Removing(w, v))
      /\ UNCHANGED <<accounts, spaces, invite>> /\ Leave(r)
  BY <1>1 DEF Transfer, Owning
<1>3. spaces \subseteq Workspaces
  BY DEF MInv, Stored, Tables
<1>4. CASE role[w][u] = "owner" /\ role[w][v] # "none"
  <2>1. \A x \in Workspaces, y \in Users :
            role'[x][y] = IF x # w THEN role[x][y]
                          ELSE IF y = u THEN "admin" ELSE IF y = v THEN "owner" ELSE role[w][y]
    BY <1>1, <1>2, <1>4 DEF Transferred, MInv, Stored, Tables
  <2>2. Handed(r)
    BY <1>2, <2>1 DEF Handed, Removing, Erasing
  <2>3. LetIn(r, Free)
    BY <1>4, <2>1 DEF LetIn
  <2>4. Owners(w)' # {}
    BY <1>1, <2>1 DEF Owners
  <2>5. \A x \in Workspaces \ {w} : Owners(x)' = Owners(x) /\ \A y \in Users : role'[x][y] = role[x][y]
    BY <2>1 DEF Owners
  <2>6. OwnersStay
    BY <1>2, <1>3, <2>4, <2>5 DEF OwnersStay, Untouched
  <2> QED
    BY <1>2, <2>2, <2>3, <2>6, EndStep, SameInvites
<1>5. CASE ~(role[w][u] = "owner" /\ role[w][v] # "none")
  <2>1. role' = role
    BY <1>1, <1>2, <1>5 DEF Transferred, MInv, Stored, Tables
  <2>2. LetIn(r, Free) /\ Handed(r) /\ OwnersStay
    BY <1>2, <2>1 DEF LetIn, Handed, OwnersStay, Untouched, Owners
  <2> QED
    BY <1>2, <2>2, EndStep, SameInvites
<1> QED
  BY <1>4, <1>5

LEMMA SendOwn ==
    ASSUME MInv, OInv, MInv', NEW r \in Handlers, NEW i \in Invites, SendInvite(r, i)
    PROVE  OInv'
<1>1. \A j \in Invites : invite'[j] = IF j = i THEN [ws |-> act[r].ws, to |-> act[r].who, role |-> act[r].role,
                                                     by |-> act[r].user, state |-> "pending"] ELSE invite[j]
  BY DEF SendInvite, MInv, Stored, Tables
<1>2. Invited(r)
  BY <1>1 DEF Invited, SendInvite
<1>3. Ending
  BY DEF SendInvite, Ending, Owners
<1> QED
  BY <1>2, <1>3, EndingStays, EndStep DEF SendInvite

LEMMA CreateAccountOwn ==
    ASSUME MInv, OInv, MInv', NEW r \in Handlers, CreateAccount(r)
    PROVE  OInv'
<1> DEFINE q == [act[r] EXCEPT !.at = "spend", !.own = TRUE]
<1>1. act[r] \in Request /\ act[r].user \in Users
  BY DEF CreateAccount, MInv, Control, Sound
<1>2. /\ q.at = "spend" /\ q.user = act[r].user /\ q.ws = act[r].ws /\ ~Erasing(q)
      /\ act' = [act EXCEPT ![r] = q]
  BY <1>1 DEF CreateAccount, Request, Erasing
<1>3. Apart(r, q)
  BY <1>1, <1>2, Newcomer DEF Apart, CreateAccount
<1>4. ~Untouched(q.ws)
  BY <1>2 DEF Untouched, Entering, CreateAccount
<1>5. Control' /\ Tables'
  BY DEF MInv, Stored
<1> QED
  BY <1>2, <1>3, <1>4, <1>5, QuietStep, SameInvites DEF CreateAccount

LEMMA SpendOwn ==
    ASSUME MInv, OInv, MInv', NEW r \in Handlers, SpendInvite(r)
    PROVE  OInv'
<1>1. ~Untouched(act[r].ws)
  BY DEF SpendInvite, Untouched, Entering
<1>2. \A i \in Invites : invite'[i] = invite[i] \/ invite'[i] = Void
  BY DEF SpendInvite, MInv, Stored, Tables
<1>3. Invited(r)
  BY <1>2 DEF Invited, Void
<1>4. CASE Leave(r)
  <2>1. Ending
    BY DEF Ending, SpendInvite, Owners
  <2> QED
    BY <1>3, <1>4, <2>1, EndingStays, EndStep DEF SpendInvite
<1>5. CASE GoOn(r, "join") \/ GoOn(r, "forget")
  BY <1>1, <1>3, <1>5, QuietGoto DEF SpendInvite
<1> QED
  BY <1>4, <1>5 DEF SpendInvite

LEMMA JoinOwn ==
    ASSUME MInv, OInv, MInv', NEW r \in Handlers, Join(r)
    PROVE  OInv'
<1>1. PICK w \in Workspaces, u \in Users : w = act[r].ws /\ u = act[r].user
  BY DEF Join, MInv, Control, Sound, Request
<1>2. \A x \in Workspaces, v \in Users : role'[x][v] = role[x][v] \/ (x = w /\ v = u /\ role[w][u] = "none" /\ role'[x][v] # "owner")
  <2>1. act[r].role # "owner"
    BY DEF MInv, Control, Request
  <2>2. CASE w \in spaces /\ u \in accounts /\ role[w][u] = "none"
    BY <1>1, <2>1, <2>2 DEF Join, MInv, Stored, Tables
  <2>3. CASE ~(w \in spaces /\ u \in accounts /\ role[w][u] = "none")
    BY <1>1, <2>3 DEF Join
  <2> QED
    BY <2>2, <2>3
<1>3. LetIn(r, Free) /\ Handed(r)
  BY <1>1, <1>2 DEF LetIn, Handed, Join
<1>4. \A x \in Workspaces : Owners(x) \subseteq Owners(x)'
  BY <1>2 DEF Owners
<1>5. \A x \in Workspaces : Untouched(x) => \A v \in Users : role'[x][v] = "none"
  BY <1>1, <1>2 DEF Untouched, Entering, Join
<1>6. OwnersStay
  BY <1>4, <1>5 DEF OwnersStay, Join, MInv, Stored, Tables
<1> QED
  BY <1>3, <1>6, EndStep, SameInvites DEF Join

\* The two steps that go on after memberships have ended.
LEMMA EndingGoto ==
    ASSUME MInv, OInv, MInv', NEW r \in Handlers, NEW p \in {"orphan", "orphans"}, GoOn(r, p),
           Ending, Invited(r), act[r].at \notin {"idle", "account"},
           p = "orphans" => /\ act[r].at = "purge"
                            /\ \A u \in Users : role'[act[r].ws][u] = "none"
    PROVE  OInv'
<1> DEFINE q == [act[r] EXCEPT !.at = p]
<1>1. act[r] \in Request
  BY DEF MInv, Control
<1>2. /\ q.at = p /\ q.user = act[r].user /\ q.own = act[r].own /\ q.ws = act[r].ws /\ q.todo = act[r].todo
      /\ act' = [act EXCEPT ![r] = q]
  BY <1>1 DEF GoOn, Request
<1>3. ~SigningIn(q) /\ q.at \notin Entering /\ Apart(r, q)
  BY <1>2 DEF SigningIn, Entering, Apart
<1>4. LetIn(r, q) /\ Handed(r) /\ OwnersStay
  BY EndingStays
<1>5. raced \subseteq raced' /\ Control' /\ Tables'
  BY DEF Ending, MInv, Stored
<1>6. ASSUME Erasing(q), NEW w \in Workspaces, role'[w][q.user] = "owner" PROVE w \in raced' \/ w \in Coming(q)
  <2>1. act[r].at = "purge" /\ p = "orphans" /\ Erasing(act[r]) /\ act[r].user \in Users
    BY <1>2, <1>6 DEF Erasing, MInv, Control, Sound
  <2>2. role[w][act[r].user] = "owner" /\ w # act[r].ws
    BY <1>2, <1>6, <2>1 DEF Ending
  <2>3. w \in raced \/ w \in Coming(act[r])
    BY <2>1, <2>2 DEF OInv, Deletions
  <2> QED
    BY <1>2, <1>5, <2>2, <2>3 DEF Coming
<1>7. Removals' /\ Deletions'
  BY <1>2, <1>3, <1>4, <1>5, <1>6, RemovalsStep, DeletionsStep DEF OInv
<1>8. SignUps'
  BY <1>2, <1>3, <1>4, <1>5, SignUpsStep DEF OInv
<1>9. Ruled'
  BY <1>2, <1>3, <1>4, <1>5, HeldStep DEF OInv, OwnersStay
<1> QED
  BY <1>7, <1>8, <1>9 DEF OInv

LEMMA RemoveOwn ==
    ASSUME MInv, OInv, MInv', NEW r \in Handlers, RemoveMember(r)
    PROVE  OInv'
<1>1. PICK w \in Workspaces, v \in Users : w = act[r].ws /\ v = act[r].who
  BY DEF RemoveMember, MInv, Control, Sound, Request
<1>2. \A x \in Workspaces, y \in Users : role'[x][y] = IF x = w /\ y = v THEN "none" ELSE role[x][y]
  BY <1>1 DEF RemoveMember, MInv, Stored, Tables
<1>3. w \in raced \/ role[w][v] # "owner"
  BY <1>1 DEF RemoveMember, OInv, Removals
<1>4. \A x \in Workspaces \ raced : Owners(x) \subseteq Owners(x)'
  BY <1>2, <1>3 DEF Owners
<1>5. Ending
  BY <1>2, <1>4 DEF Ending, RemoveMember, MInv, Stored, Tables
<1> QED
  BY <1>5, EndingGoto, SameInvites DEF RemoveMember

LEMMA PurgeOwn ==
    ASSUME MInv, OInv, MInv', NEW r \in Handlers, EraseWorkspace(r)
    PROVE  OInv'
<1>1. PICK w \in Workspaces : w = act[r].ws
  BY DEF MInv, Control, Request
<1>2. \A x \in Workspaces, y \in Users : role'[x][y] = IF x = w THEN "none" ELSE role[x][y]
  BY <1>1 DEF EraseWorkspace, MInv, Stored, Tables
<1>3. \A x \in Workspaces \ {w} : Owners(x)' = Owners(x)
  BY <1>2 DEF Owners
<1>4. Ending
  BY <1>1, <1>2, <1>3 DEF Ending, EraseWorkspace, MInv, Stored, Tables
<1>5. Invited(r)
  BY EndedFewer DEF EraseWorkspace
<1> QED
  BY <1>1, <1>2, <1>4, <1>5, EndingGoto DEF EraseWorkspace

LEMMA ListOwn ==
    ASSUME MInv, OInv, MInv', NEW r \in Handlers, ListMembers(r)
    PROVE  OInv'
<1>1. PICK w \in act[r].todo : act' = [act EXCEPT ![r].at = "purge", ![r].ws = w, ![r].people = Members(w),
                                                     ![r].todo = @ \ {w}]
  BY DEF ListMembers
<1> DEFINE q == [act[r] EXCEPT !.at = "purge", !.ws = w, !.people = Members(w), !.todo = @ \ {w}]
<1>2. act[r] \in Request
  BY DEF MInv, Control
<1>3. /\ q.at = "purge" /\ q.user = act[r].user /\ q.own = act[r].own /\ Coming(q) = Coming(act[r])
      /\ act' = [act EXCEPT ![r] = q]
  BY <1>1, <1>2 DEF ListMembers, Request, Coming, MInv, Control
<1>4. ~SigningIn(q) /\ q.at \notin Entering /\ Apart(r, q)
  BY <1>3 DEF SigningIn, Entering, Apart, ListMembers
<1>5. ASSUME Erasing(q), NEW x \in Workspaces, role[x][q.user] = "owner" PROVE x \in raced \/ x \in Coming(q)
  BY <1>3, <1>5 DEF OInv, Deletions, Erasing, ListMembers
<1>6. Control' /\ Tables'
  BY DEF MInv, Stored
<1> QED
  BY <1>3, <1>4, <1>5, <1>6, QuietStep, SameInvites DEF ListMembers

LEMMA OrphansOwn ==
    ASSUME MInv, OInv, MInv', NEW r \in Handlers, DeleteOrphan(r)
    PROVE  OInv'
<1>1. act[r] \in Request /\ act[r].at = "orphans" /\ UNCHANGED <<spaces, role, invite, raced>>
  BY DEF DeleteOrphan, MInv, Control
<1>2. ASSUME NEW q, act' = [act EXCEPT ![r] = q], q.at \in {"orphans", "list", "delete"}, q.user = act[r].user,
             q.own = act[r].own, q.todo = act[r].todo
      PROVE  OInv'
  <2>1. ~SigningIn(q) /\ q.at \notin Entering /\ Apart(r, q)
    BY <1>1, <1>2 DEF SigningIn, Entering, Apart
  <2>2. ASSUME Erasing(q), NEW x \in Workspaces, role[x][q.user] = "owner" PROVE x \in raced \/ x \in Coming(q)
    BY <1>1, <1>2, <2>2 DEF OInv, Deletions, Erasing, Coming
  <2>3. Control' /\ Tables'
    BY DEF MInv, Stored
  <2> QED
    BY <1>1, <1>2, <2>1, <2>2, <2>3, QuietStep, SameInvites
<1>3. CASE act[r].people = {} /\ AfterPurge(r) = "idle"
  <2>1. Ending
    BY <1>1 DEF Ending, Owners
  <2> QED
    BY <1>1, <1>3, <2>1, EndingStays, EndStep, SameInvites DEF DeleteOrphan
<1>4. CASE act[r].people = {} /\ AfterPurge(r) # "idle"
  <2> DEFINE q == [act[r] EXCEPT !.at = AfterPurge(r)]
  <2>1. act' = [act EXCEPT ![r] = q]
    BY <1>4 DEF DeleteOrphan, GoOn
  <2>2. q.at \in {"list", "delete"} /\ q.user = act[r].user /\ q.own = act[r].own /\ q.todo = act[r].todo
    BY <1>1, <1>4 DEF Request, AfterPurge
  <2> QED
    BY <1>2, <2>1, <2>2
<1>5. CASE act[r].people # {}
  <2>1. PICK u \in act[r].people : act' = [act EXCEPT ![r].people = @ \ {u}]
    BY <1>5 DEF DeleteOrphan
  <2> DEFINE q == [act[r] EXCEPT !.people = @ \ {u}]
  <2>2. act' = [act EXCEPT ![r] = q]
    BY <2>1 DEF MInv, Control
  <2>3. q.at = "orphans" /\ q.user = act[r].user /\ q.own = act[r].own /\ q.todo = act[r].todo
    BY <1>1 DEF Request
  <2> QED
    BY <1>2, <2>2, <2>3
<1> QED
  BY <1>3, <1>4, <1>5

LEMMA DeleteUserOwn ==
    ASSUME MInv, OInv, MInv', NEW r \in Handlers, DeleteUser(r)
    PROVE  OInv'
<1>1. Erasing(act[r]) /\ Coming(act[r]) = {}
  BY DEF DeleteUser, MInv, Control, Sound, Erasing, Coming
<1>2. \A w \in Workspaces \ raced : role[w][act[r].user] # "owner"
  BY <1>1 DEF OInv, Deletions
<1>3. spaces \subseteq Workspaces
  BY DEF MInv, Stored, Tables
<1>4. Ending
  BY <1>2, <1>3, DropUserEnds DEF DeleteUser
<1>5. Invited(r)
  BY EndedFewer DEF DeleteUser
<1> QED
  BY <1>4, <1>5, EndingStays, EndStep DEF DeleteUser

\* A request that ends and leaves the memberships alone.
LEMMA StopOwn ==
    ASSUME MInv, OInv, MInv', NEW r \in Handlers, Leave(r), UNCHANGED <<role, spaces, raced>>, Invited(r)
    PROVE  OInv'
<1>1. Ending
  BY DEF Ending, Owners
<1> QED
  BY <1>1, EndingStays, EndStep

LEMMA ActOwn ==
    ASSUME MInv, OInv, MInv', NEW r \in Handlers, Act(r)
    PROVE  OInv'
<1>1. CASE RemoveOrphan(r)
  BY <1>1, QuietGoto, SameInvites DEF RemoveOrphan
<1>2. CASE RevokeInvites(r)
  <2>1. Invited(r)
    BY <1>2, EndedFewer DEF RevokeInvites
  <2> QED
    BY <1>2, <2>1, StopOwn DEF RevokeInvites
<1> QED
  BY <1>1, <1>2, ClaimOwn, ForgetOwn, CreateOwn, LeaveOwn, TransferOwn, SendOwn, CreateAccountOwn, SpendOwn, JoinOwn,
     RemoveOwn, ListOwn, PurgeOwn, OrphansOwn, DeleteUserOwn DEF Act

LEMMA NextOInv == MInv /\ MInv' /\ OInv /\ [TeamNext]_team => OInv'
<1> SUFFICES ASSUME MInv, MInv', OInv, [TeamNext]_team PROVE OInv'
  OBVIOUS
<1>1. ASSUME NEW r \in Handlers, Abort(r) PROVE OInv'
  BY <1>1, StopOwn, SameInvites DEF Abort
<1>2. ASSUME NEW i \in Invites, InviteEnds(i) PROVE OInv'
  <2>1. UNCHANGED <<accounts, spaces, role, act, raced>>
    BY <1>2 DEF InviteEnds
  <2>2. \A j \in Invites : invite'[j] = invite[j] \/ invite'[j] = Void
    BY <1>2 DEF InviteEnds, MInv, Stored, Tables
  <2>3. \A w \in Workspaces : Untouched(w) => Untouched(w)'
    BY <2>1, <2>2 DEF Untouched, Void
  <2>4. SignUps' /\ Removals' /\ Deletions'
    BY <2>1 DEF OInv, SignUps, Removals, Deletions
  <2>5. Ruled'
    BY <2>1, <2>3 DEF OInv, Ruled, Owners, MInv, Stored, Tables
  <2> QED
    BY <2>4, <2>5 DEF OInv
<1>3. CASE UNCHANGED team
  BY <1>3 DEF team, OInv, SignUps, Removals, Deletions, Ruled, Untouched, Owners
<1> QED
  BY <1>1, <1>2, <1>3, BeginOwn, ActOwn DEF TeamNext

\* However members leave, are removed, hand over, erase and delete at the same
\* time: nobody is left in a workspace without an owner, but where ownership came to
\* someone who was just being taken out.
THEOREM OwnersRemain == TeamSpec => []OwnedUnlessRaced
<1>1. MInv /\ OInv => OwnedUnlessRaced
  <2> SUFFICES ASSUME MInv, OInv, NEW w \in Workspaces \ raced, Members(w) # {} PROVE Owners(w) # {}
    BY DEF OwnedUnlessRaced, Owned
  <2>1. w \in spaces /\ ~Untouched(w)
    BY DEF Members, MInv, Stored, Keys, Untouched
  <2> QED
    BY <2>1 DEF OInv, Ruled
<1> QED
  BY <1>1, InitOInv, NextOInv, MInvHolds, PTL DEF TeamSpec

\* Accounts go with those who end it themselves, or who are in no workspace.
LEMMA AccountsGo ==
    ASSUME [TeamNext]_team, NEW u \in accounts \ accounts', SpacesOf(u) # {}
    PROVE  \E r \in Handlers : act[r].at \in {"delete", "forget"} /\ act[r].user = u
<1>1. ASSUME NEW v, DropOrphan(v) PROVE FALSE
  BY <1>1 DEF DropOrphan
<1>2. ASSUME NEW r \in Handlers, Begin(r) \/ Abort(r) PROVE FALSE
  BY <1>2 DEF Begin, Abort, Setup, StartDeleteAccount, StartCreate, StartLeave, StartEraseWorkspace, StartTransfer,
              StartRemove, StartInvite, StartAccept
<1>3. ASSUME NEW i \in Invites, InviteEnds(i) PROVE FALSE
  BY <1>3 DEF InviteEnds
<1>4. CASE UNCHANGED team
  BY <1>4 DEF team
<1>5. ASSUME NEW r \in Handlers, Act(r)
      PROVE  act[r].at \in {"delete", "forget"} /\ act[r].user = u
  <2>1. CASE Forget(r) \/ DeleteUser(r)
    BY <2>1 DEF Forget, DeleteUser, DropUser
  <2>2. CASE RemoveOrphan(r) \/ DeleteOrphan(r)
    BY <1>1, <2>2 DEF RemoveOrphan, DeleteOrphan
  <2>3. CASE \E i \in Invites : SendInvite(r, i)
    BY <2>3 DEF SendInvite
  <2>4. CASE ClaimOwnership(r) \/ Create(r) \/ LeaveWorkspace(r) \/ Transfer(r) \/ CreateAccount(r) \/ SpendInvite(r)
    BY <2>4 DEF ClaimOwnership, Create, LeaveWorkspace, Transfer, CreateAccount, SpendInvite
  <2>5. CASE Join(r) \/ RemoveMember(r) \/ RevokeInvites(r) \/ ListMembers(r) \/ EraseWorkspace(r)
    BY <2>5 DEF Join, RemoveMember, RevokeInvites, ListMembers, EraseWorkspace
  <2> QED
    BY <1>5, <2>1, <2>2, <2>3, <2>4, <2>5 DEF Act
<1> QED
  BY <1>2, <1>3, <1>4, <1>5 DEF TeamNext

\* A login goes only when its user belongs to no workspace, or by a request of the
\* user's own.
THEOREM OrphansOnly == TeamSpec => OnlyOrphansGo
<1>1. [TeamNext]_team =>
          [\A u \in accounts \ accounts' :
              \/ SpacesOf(u) = {}
              \/ \E r \in Handlers : act[r].at \in {"delete", "forget"} /\ act[r].user = u]_team
  BY AccountsGo
<1> QED
  BY <1>1, PTL DEF TeamSpec, OnlyOrphansGo

=============================================================================
