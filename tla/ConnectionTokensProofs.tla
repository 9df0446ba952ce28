----------------------- MODULE ConnectionTokensProofs -----------------------
(***************************************************************************)
(* Proofs about ConnectionTokens, for any number of isolates, grants,      *)
(* pairs, deploys and keys.  The inductive invariant is IInv.  An isolate  *)
(* disturbs only its own control, its own opened envelope, and the row or  *)
(* the server by moving them forward: IsolateStep turns that into IInv',   *)
(* so each action of an isolate only has to show what it does to itself.   *)
(*                                                                         *)
(* What follows from it: the row implements ConnectionContract, encryption *)
(* keys only move forward, one alert per connected grant, and (under one   *)
(* encryption key) the newest pair of a live grant is never mislaid.       *)
(***************************************************************************)
EXTENDS ConnectionTokens, FiniteSetTheorems, TLAPS

(* What the operators that move an isolate's control return.               *)

LEMMA AtType ==
    ASSUME NEW place \in Places
    PROVE  /\ At(place) \in Control
           /\ At(place).at = place
BY DEF At, Control, Places

LEMMA PlaceType ==
    ASSUME NEW c \in Control, NEW place \in Places
    PROVE  /\ [c EXCEPT !.at = place] \in Control
           /\ [c EXCEPT !.at = place].at = place
BY DEF Control

\* Only isolate p moves, and it is left in a well-formed control state.
Moved(p) ==
    /\ ctl' \in [Isolates -> Control]
    /\ \A q \in Isolates \ {p} : ctl'[q] = ctl[q]

LEMMA Update ==
    ASSUME TypeOK, NEW p \in Isolates, NEW c \in Control,
           ctl' = [ctl EXCEPT ![p] = c]
    PROVE  Moved(p) /\ ctl'[p] = c
BY DEF TypeOK, Moved

LEMMA GotoMoves ==
    ASSUME TypeOK, NEW p \in Isolates, NEW place \in Places, Goto(p, place)
    PROVE  Moved(p) /\ ctl'[p].at = place
<1>1. ctl' = [ctl EXCEPT ![p] = [ctl[p] EXCEPT !.at = place]]
  BY DEF Goto, TypeOK
<1>2. ctl[p] \in Control
  BY DEF TypeOK
<1> QED
  BY <1>1, <1>2, PlaceType, Update

LEMMA FinishMoves ==
    ASSUME TypeOK, NEW p \in Isolates, Finish(p)
    PROVE  Moved(p) /\ ctl'[p].at = "idle"
BY AtType, Update DEF Finish, Places

LEMMA TokenReadyMoves ==
    ASSUME TypeOK, NEW p \in Isolates, NEW env, TokenReady(p, env)
    PROVE  Moved(p) /\ ctl'[p].at \in {"send", "refresh", "break", "resend"}
<1>1. ctl[p].goal \in {"send", "unauth", "forced"}
  BY DEF TypeOK, Control
<1>2. PICK c : /\ ctl' = [ctl EXCEPT ![p] = c]
               /\ c \in {At("send"), [At("refresh") EXCEPT !.goal = "forced"],
                         At("break"), At("resend")}
  BY <1>1 DEF TokenReady
<1>3. c \in Control /\ c.at \in {"send", "refresh", "break", "resend"}
  BY <1>2 DEF At, Control, Places
<1> QED
  BY <1>2, <1>3, Update

-----------------------------------------------------------------------------
(* What one step of an isolate may do, and why that is enough for IInv'.   *)

\* The row stays with its grant and moves forward; the server issues pairs
\* only for grants the row has reached.
Forward ==
    /\ row'.env.pair.grant = row.env.pair.grant
    /\ row'.env.pair.n >= row.env.pair.n
    /\ row'.env.pair.n <= issued'[row.env.pair.grant]
    /\ \A g \in Grants : \/ issued'[g] = issued[g]
                         \/ /\ issued'[g] > issued[g]
                            /\ issued[g] > 0
                            /\ g <= row.env.pair.grant

Others(p) ==
    \A q \in Isolates \ {p} :
        /\ ctl'[q] = ctl[q] /\ opened'[q] = opened[q]
        /\ pinned'[q] = pinned[q] /\ dep'[q] = dep[q]

LEMMA PairType ==
    ASSUME NEW env \in Envelope
    PROVE  /\ env.pair \in Pair
           /\ env.pair.grant \in Grants /\ env.pair.n \in 1 .. MaxPairs
           /\ env.pair.grant \in Nat /\ env.pair.n \in Nat
           /\ env.key \in Deploys /\ env.key \in Nat
BY BoundsAssumption DEF Envelope, Pair, Grants, Deploys

LEMMA SoundStays ==
    ASSUME IInv, TypeOK', Forward, NEW q \in Isolates,
           ctl'[q] = ctl[q], opened'[q] = opened[q],
           pinned'[q] = pinned[q], dep'[q] = dep[q]
    PROVE  Sound(q)'
<1>1. Sound(q) /\ row.env \in Envelope /\ row'.env \in Envelope
  BY DEF IInv, Bookkeeping, TypeOK
<1>2. HoldsWhatItUses(q)' /\ PinnedWhileOpen(q)'
  BY <1>1 DEF Sound, HoldsWhatItUses, PinnedWhileOpen
<1>3. ASSUME opened[q] # None PROVE opened[q] \in Envelope
  BY <1>3 DEF IInv, TypeOK
<1>4. FreshFollows(q)'
  <2>1. SUFFICES ASSUME ctl[q].at = "store"
                 PROVE  /\ ctl[q].fresh = [grant |-> opened[q].pair.grant, n |-> opened[q].pair.n + 1]
                        /\ ctl[q].fresh.n <= issued'[opened[q].pair.grant]
    BY DEF FreshFollows
  <2>2. opened[q] \in Envelope
    BY <1>1, <1>3, <2>1 DEF Sound, HoldsWhatItUses
  <2>3. /\ ctl[q].fresh = [grant |-> opened[q].pair.grant, n |-> opened[q].pair.n + 1]
        /\ ctl[q].fresh.n <= issued[opened[q].pair.grant]
    BY <1>1, <2>1 DEF Sound, FreshFollows
  <2>4. issued'[opened[q].pair.grant] >= issued[opened[q].pair.grant]
        /\ issued'[opened[q].pair.grant] \in Nat /\ issued[opened[q].pair.grant] \in Nat
    BY <2>2, PairType, BoundsAssumption DEF Forward, IInv, TypeOK
  <2> QED
    BY <2>2, <2>3, <2>4, PairType
<1>5. BehindRow(q)'
  BY <1>1, <1>3, PairType DEF Sound, BehindRow, NotAhead, Forward
<1> QED
  BY <1>2, <1>4, <1>5 DEF Sound

LEMMA IsolateStep ==
    ASSUME IInv, TypeOK', Forward, owner' = owner,
           NEW p \in Isolates, Others(p), Sound(p)'
    PROVE  IInv'
<1>1. \A q \in Isolates : Sound(q)'
  BY SoundStays DEF Others
<1>2. row.env \in Envelope /\ GrantsInOrder /\ OwnerAhead
  BY DEF IInv, TypeOK, Bookkeeping
<1>3. GrantsInOrder'
  <2>1. \A g \in Grants : issued[g] \in Nat /\ issued'[g] \in Nat
    BY BoundsAssumption DEF IInv, TypeOK
  <2>2. ASSUME NEW g \in Grants, NEW h \in Grants, g < h, issued'[h] > 0
        PROVE  issued'[g] > 0
    BY <1>2, <2>1, <2>2 DEF GrantsInOrder, Forward
  <2> QED
    BY <2>2 DEF GrantsInOrder, Forward
<1>4. OwnerAhead'
  <2>1. SUFFICES ASSUME owner.at \in {"authorized", "same"}
                 PROVE  issued'[owner.env.pair.grant] = 1
    BY <1>2 DEF OwnerAhead, Forward
  <2>2. owner.env \in Envelope
    BY <1>2, <2>1 DEF OwnerAhead, IInv, TypeOK
  <2>3. owner.env.pair.grant > row.env.pair.grant /\ issued[owner.env.pair.grant] = 1
    BY <1>2, <2>1 DEF OwnerAhead
  <2> QED
    BY <1>2, <2>2, <2>3, PairType DEF Forward
<1> QED
  BY <1>1, <1>3, <1>4 DEF IInv, Bookkeeping

\* A step that leaves the envelope in the row and the server's counts alone.
Quiet ==
    /\ row' \in [auth : {"oauth", "token"}, status : {"active", "broken", "gone"},
                 env : Envelope]
    /\ row'.env = row.env
    /\ UNCHANGED <<deploy, owner>> /\ UNCHANGED serverVars
    /\ lost' \subseteq Grants
    /\ alerts' \in Nat

\* ... and of the isolates only p's control and what it caches.
MovesOnly(p) ==
    /\ Moved(p)
    /\ \E o \in Envelope \cup {None} : opened' = [opened EXCEPT ![p] = o]
    /\ \E t \in Pair \cup {None} : pinned' = [pinned EXCEPT ![p] = t]
    /\ UNCHANGED dep

LEMMA QuietForward ==
    ASSUME IInv, Quiet PROVE Forward
<1>1. row.env \in Envelope /\ row.env.pair.n <= issued[row.env.pair.grant]
  BY DEF IInv, TypeOK, Bookkeeping, GrantsInOrder
<1> QED
  BY <1>1, PairType DEF Quiet, Forward, serverVars

LEMMA QuietStep ==
    ASSUME IInv, NEW p \in Isolates, Quiet, MovesOnly(p), Sound(p)'
    PROVE  IInv'
<1>1. TypeOK'
  BY DEF IInv, TypeOK, Quiet, MovesOnly, Moved, serverVars
<1>2. Forward
  BY QuietForward
<1>3. Others(p)
  BY DEF IInv, TypeOK, Others, MovesOnly, Moved
<1> QED
  BY <1>1, <1>2, <1>3, IsolateStep DEF Quiet

\* The isolate goes on with the envelope it has; its client may keep the token.
LEMMA ControlStep ==
    ASSUME IInv, NEW p \in Isolates, Quiet, Moved(p), UNCHANGED <<opened, dep>>,
           \/ pinned' = pinned
           \/ opened[p] # None /\ pinned' = [pinned EXCEPT ![p] = opened[p].pair],
           ctl'[p].at # "store", HoldsWhatItUses(p)'
    PROVE  IInv'
<1>1. \E t \in Pair \cup {None} : pinned' = [pinned EXCEPT ![p] = t]
  <2>1. CASE pinned' = pinned
    BY <2>1 DEF IInv, TypeOK
  <2>2. CASE opened[p] # None /\ pinned' = [pinned EXCEPT ![p] = opened[p].pair]
    BY <2>2, PairType DEF IInv, TypeOK
  <2> QED
    BY <2>1, <2>2
<1>2. MovesOnly(p)
  <2>1. opened \in [Isolates -> Envelope \cup {None}]
    BY DEF IInv, TypeOK
  <2>2. opened' = [opened EXCEPT ![p] = opened[p]] /\ opened[p] \in Envelope \cup {None}
    BY <2>1
  <2> QED
    BY <1>1, <2>2 DEF MovesOnly
<1>3. PinnedWhileOpen(p)'
  BY DEF IInv, Bookkeeping, Sound, PinnedWhileOpen
<1>4. BehindRow(p)'
  BY DEF IInv, Bookkeeping, Sound, BehindRow, Quiet
<1>5. FreshFollows(p)'
  BY DEF FreshFollows
<1> QED
  BY <1>2, <1>3, <1>4, <1>5, QuietStep DEF Sound

\* The isolate drops its envelope, or takes the one in the row.
LEMMA CacheStep ==
    ASSUME IInv, NEW p \in Isolates, Quiet, Moved(p), UNCHANGED dep,
           NEW o, opened' = [opened EXCEPT ![p] = o],
           \/ o = None /\ pinned' = [pinned EXCEPT ![p] = None]
           \/ o = row.env /\ o.key <= dep[p] /\ pinned' = pinned,
           ctl'[p].at # "store", HoldsWhatItUses(p)'
    PROVE  IInv'
<1>1. row.env \in Envelope /\ row.env # None
  BY NoneAssumption DEF IInv, TypeOK
<1>2. MovesOnly(p) /\ opened'[p] = o
  <2>1. opened \in [Isolates -> Envelope \cup {None}] /\ pinned \in [Isolates -> Pair \cup {None}]
    BY DEF IInv, TypeOK
  <2>2. \E t \in Pair \cup {None} : pinned' = [pinned EXCEPT ![p] = t]
    <3>1. CASE pinned' = pinned
      BY <2>1, <3>1
    <3>2. CASE pinned' = [pinned EXCEPT ![p] = None]
      BY <3>2
    <3> QED
      BY <3>1, <3>2
  <2>3. o \in Envelope \cup {None}
    BY <1>1
  <2> QED
    BY <2>1, <2>2, <2>3 DEF MovesOnly
<1>3. PinnedWhileOpen(p)'
  BY <1>1, <1>2 DEF IInv, TypeOK, PinnedWhileOpen
<1>4. BehindRow(p)'
  BY <1>1, <1>2, PairType DEF BehindRow, NotAhead, Quiet
<1>5. FreshFollows(p)'
  BY DEF FreshFollows
<1> QED
  BY <1>2, <1>3, <1>4, <1>5, QuietStep DEF Sound

LEMMA Held ==
    ASSUME IInv, NEW p \in Isolates, ctl[p].at \notin {"off", "alert", "idle", "token"}
    PROVE  opened[p] # None /\ opened[p] \in Envelope
BY DEF IInv, TypeOK, Bookkeeping, Sound, HoldsWhatItUses

-----------------------------------------------------------------------------
(* One lemma per action of an isolate.                                     *)

LEMMA CallIInv ==
    ASSUME IInv, NEW p \in Isolates, Call(p) PROVE IInv'
<1>1. Moved(p) /\ ctl'[p].at \in {"token", "send"}
      /\ (ctl'[p].at = "send" => pinned[p] # None)
  BY GotoMoves DEF IInv, Call, Places
<1>2. Quiet /\ UNCHANGED <<opened, pinned, dep>>
  BY DEF IInv, TypeOK, Call, Quiet
<1>3. pinned[p] # None => opened[p] # None
  BY DEF IInv, Bookkeeping, Sound, PinnedWhileOpen
<1> QED
  BY <1>1, <1>2, <1>3, ControlStep DEF HoldsWhatItUses

LEMMA OpenRowIInv ==
    ASSUME IInv, NEW p \in Isolates, OpenRow(p) PROVE IInv'
<1>1. Quiet /\ UNCHANGED <<pinned, dep>>
  BY DEF IInv, TypeOK, OpenRow, Quiet
<1>2. CASE row.status = "active" /\ Opens(p, row.env)
  <2>1. Moved(p) /\ ctl'[p].at \in {"token", "reseal"}
    BY <1>2, GotoMoves DEF IInv, OpenRow, Places
  <2>2. opened' = [opened EXCEPT ![p] = row.env] /\ row.env.key <= dep[p]
    BY <1>2 DEF OpenRow, Opens
  <2>3. row.env # None /\ opened'[p] = row.env
    BY <2>2, NoneAssumption DEF IInv, TypeOK
  <2>4. HoldsWhatItUses(p)'
    BY <2>1, <2>3 DEF HoldsWhatItUses
  <2> QED
    BY <1>1, <2>1, <2>2, <2>4, CacheStep
<1>3. CASE ~ (row.status = "active" /\ Opens(p, row.env))
  <2>1. Moved(p) /\ ctl'[p].at = "idle" /\ UNCHANGED opened
    BY <1>3, FinishMoves DEF IInv, OpenRow
  <2> QED
    BY <1>1, <2>1, ControlStep DEF HoldsWhatItUses
<1> QED
  BY <1>2, <1>3

LEMMA UseOpenedIInv ==
    ASSUME IInv, NEW p \in Isolates, UseOpened(p) PROVE IInv'
<1>1. Quiet /\ UNCHANGED <<opened, pinned, dep>> /\ opened[p] # None
  BY DEF IInv, TypeOK, UseOpened, Quiet
<1>2. Moved(p) /\ ctl'[p].at \in {"refresh", "send", "break", "resend"}
  BY GotoMoves, TokenReadyMoves DEF IInv, UseOpened, Places
<1> QED
  BY <1>1, <1>2, ControlStep DEF HoldsWhatItUses

LEMMA StartRefreshIInv ==
    ASSUME IInv, NEW p \in Isolates, StartRefresh(p) PROVE IInv'
<1>1. Quiet /\ UNCHANGED <<opened, pinned, dep>> /\ opened[p] # None
  BY Held DEF IInv, TypeOK, StartRefresh, Quiet
<1>2. Moved(p) /\ ctl'[p].at \in {"idle", "asking", "break"}
  <2>1. Finish(p) \/ Goto(p, "asking") \/ Goto(p, "break")
    BY DEF StartRefresh
  <2> QED
    BY <2>1, GotoMoves, FinishMoves DEF IInv, Places
<1> QED
  BY <1>1, <1>2, ControlStep DEF HoldsWhatItUses

LEMMA RefreshRefusedIInv ==
    ASSUME IInv, NEW p \in Isolates, RefreshRefused(p) PROVE IInv'
<1>1. Quiet /\ UNCHANGED <<opened, pinned, dep>> /\ opened[p] # None
  BY Held DEF IInv, TypeOK, RefreshRefused, Quiet
<1>2. Moved(p) /\ ctl'[p].at = "poll"
  BY GotoMoves DEF IInv, RefreshRefused, Places
<1> QED
  BY <1>1, <1>2, ControlStep DEF HoldsWhatItUses

LEMMA SendIInv ==
    ASSUME IInv, NEW p \in Isolates, Send(p) PROVE IInv'
<1>1. Quiet /\ UNCHANGED <<opened, pinned, dep>> /\ opened[p] # None
  BY Held DEF IInv, TypeOK, Send, Quiet
<1>2. Moved(p) /\ ctl'[p].at \in {"idle", "unauth"}
  BY GotoMoves, FinishMoves DEF IInv, Send, Places
<1> QED
  BY <1>1, <1>2, ControlStep DEF HoldsWhatItUses

\* Pin keeps the token of an envelope that is open.
LEMMA PinKeeps ==
    ASSUME IInv, NEW p \in Isolates, Pin(p)
    PROVE  \/ pinned' = pinned
           \/ opened[p] # None /\ pinned' = [pinned EXCEPT ![p] = opened[p].pair]
BY Held DEF Pin

LEMMA ResendIInv ==
    ASSUME IInv, NEW p \in Isolates, Resend(p) PROVE IInv'
<1>1. Quiet /\ UNCHANGED <<opened, dep>> /\ Pin(p)
  BY DEF IInv, TypeOK, Resend, Quiet
<1>2. Moved(p) /\ ctl'[p].at = "idle"
  BY FinishMoves DEF IInv, Resend
<1> QED
  BY <1>1, <1>2, PinKeeps, ControlStep DEF HoldsWhatItUses

LEMMA UnauthorizedIInv ==
    ASSUME IInv, NEW p \in Isolates, Unauthorized(p) PROVE IInv'
<1>1. Quiet /\ UNCHANGED <<opened, pinned, dep>> /\ opened[p] # None
  BY Held DEF IInv, TypeOK, Unauthorized, Quiet
<1>2. Moved(p) /\ ctl'[p].at \in {"idle", "token", "break"}
  <2>1. CASE row.status = "gone"
    BY <2>1, FinishMoves DEF IInv, Unauthorized
  <2>2. CASE row.status # "gone"
    <3>1. PICK c \in {[At("token") EXCEPT !.goal = "unauth"], At("break")} :
              ctl' = [ctl EXCEPT ![p] = c]
      BY <2>2 DEF Unauthorized
    <3>2. c \in Control /\ c.at \in {"token", "break"}
      BY <3>1 DEF At, Control, Places
    <3> QED
      BY <3>1, <3>2, Update DEF IInv
  <2> QED
    BY <2>1, <2>2
<1> QED
  BY <1>1, <1>2, ControlStep DEF HoldsWhatItUses

LEMMA BuildClientIInv ==
    ASSUME IInv, NEW p \in Isolates, BuildClient(p) PROVE IInv'
<1>1. Quiet /\ UNCHANGED <<opened, pinned>>
  BY DEF IInv, TypeOK, BuildClient, Quiet
<1>2. Moved(p) /\ ctl'[p].at \in {"idle", "off"}
  BY GotoMoves DEF IInv, BuildClient, Places
<1>3. opened[p] = None /\ pinned[p] = None
  BY DEF IInv, Bookkeeping, Sound, HoldsWhatItUses, PinnedWhileOpen, BuildClient
<1>4. PICK d \in Deploys : dep' = [dep EXCEPT ![p] = d]
  BY DEF IInv, TypeOK, BuildClient
<1>5. TypeOK'
  BY <1>1, <1>2, <1>4 DEF IInv, TypeOK, Quiet, Moved, serverVars
<1>6. Sound(p)'
  BY <1>1, <1>2, <1>3 DEF Sound, HoldsWhatItUses, PinnedWhileOpen, FreshFollows, BehindRow
<1>7. Others(p)
  BY <1>1, <1>2, <1>4 DEF IInv, TypeOK, Others, Moved
<1> QED
  BY <1>1, <1>5, <1>6, <1>7, QuietForward, IsolateStep DEF Quiet

LEMMA MarkBrokenIInv ==
    ASSUME IInv, NEW p \in Isolates, MarkBroken(p) PROVE IInv'
<1>1. Quiet /\ UNCHANGED dep /\ opened' = [opened EXCEPT ![p] = None]
      /\ pinned' = [pinned EXCEPT ![p] = None]
  BY DEF IInv, TypeOK, MarkBroken, Quiet
<1>2. Moved(p) /\ ctl'[p].at \in {"alert", "off"}
  <2>1. \/ ctl' = [ctl EXCEPT ![p] = At("alert")]
        \/ ctl' = [ctl EXCEPT ![p] = At("off")]
    BY DEF MarkBroken
  <2> QED
    BY <2>1, AtType, Update DEF IInv, Places
<1>3. opened'[p] = None
  BY <1>1 DEF IInv, TypeOK
<1> QED
  BY <1>1, <1>2, <1>3, CacheStep DEF HoldsWhatItUses

LEMMA BreakUnacknowledgedIInv ==
    ASSUME IInv, NEW p \in Isolates, BreakUnacknowledged(p) PROVE IInv'
<1>1. Quiet /\ UNCHANGED <<opened, pinned, dep>>
  BY DEF IInv, TypeOK, BreakUnacknowledged, Quiet
<1>2. Moved(p) /\ ctl'[p].at = "idle"
  BY FinishMoves DEF IInv, BreakUnacknowledged
<1> QED
  BY <1>1, <1>2, ControlStep DEF HoldsWhatItUses

LEMMA AlertIInv ==
    ASSUME IInv, NEW p \in Isolates, Alert(p) PROVE IInv'
<1>1. Quiet /\ UNCHANGED <<opened, pinned, dep>> /\ opened[p] = None
  BY DEF IInv, TypeOK, Bookkeeping, Sound, HoldsWhatItUses, Alert, Quiet
<1>2. Moved(p) /\ ctl'[p].at = "off"
  BY AtType, Update DEF IInv, Alert, Places
<1> QED
  BY <1>1, <1>2, ControlStep DEF HoldsWhatItUses

LEMMA ForfeitType ==
    ASSUME IInv, NEW p \in Isolates, Forfeit(p) PROVE lost' \subseteq Grants
<1>1. CASE ctl[p].at = "store"
  <2>1. ctl[p].fresh = [grant |-> opened[p].pair.grant, n |-> opened[p].pair.n + 1]
    BY <1>1 DEF IInv, Bookkeeping, Sound, FreshFollows
  <2>2. opened[p] \in Envelope
    BY <1>1, Held
  <2> QED
    BY <1>1, <2>1, <2>2, PairType DEF Forfeit, IInv, TypeOK
<1>2. CASE ctl[p].at # "store"
  BY <1>2 DEF Forfeit, IInv, TypeOK
<1> QED
  BY <1>1, <1>2

LEMMA AbortIInv ==
    ASSUME IInv, NEW p \in Isolates, Abort(p) PROVE IInv'
<1>1. Quiet /\ UNCHANGED <<opened, dep>> /\ Pin(p)
  BY ForfeitType DEF IInv, TypeOK, Abort, Quiet
<1>2. PICK c \in Control :
          /\ ctl' = [ctl EXCEPT ![p] = c]
          /\ c.at = IF ctl[p].at = "alert" THEN "off" ELSE "idle"
  BY AtType DEF IInv, TypeOK, Abort, Places
<1>3. Moved(p) /\ ctl'[p] = c
  BY <1>2, Update DEF IInv
<1>4. HoldsWhatItUses(p)'
  BY <1>1, <1>2, <1>3 DEF IInv, Bookkeeping, Sound, HoldsWhatItUses
<1> QED
  BY <1>1, <1>2, <1>3, <1>4, PinKeeps, ControlStep

LEMMA DiscardIInv ==
    ASSUME IInv, NEW p \in Isolates, Discard(p) PROVE IInv'
<1>1. Quiet /\ UNCHANGED dep /\ opened' = [opened EXCEPT ![p] = None]
      /\ pinned' = [pinned EXCEPT ![p] = None]
  BY ForfeitType DEF IInv, TypeOK, Discard, Quiet
<1>2. Moved(p) /\ ctl'[p].at = "off"
  BY AtType, Update DEF IInv, Discard, Places
<1>3. opened'[p] = None
  BY <1>1 DEF IInv, TypeOK
<1> QED
  BY <1>1, <1>2, <1>3, CacheStep DEF HoldsWhatItUses

\* Adopting the envelope the row holds: the end of a lost race.
LEMMA AdoptsRow ==
    ASSUME IInv, NEW p \in Isolates, Quiet, UNCHANGED <<pinned, dep>>,
           Adopt(p, row.env), Opens(p, row.env)
    PROVE  IInv'
<1>1. opened' = [opened EXCEPT ![p] = row.env] /\ row.env.key <= dep[p]
  BY DEF Adopt, Opens
<1>2. opened'[p] # None
  BY <1>1, NoneAssumption DEF IInv, TypeOK
<1>3. Moved(p) /\ ctl'[p].at \in {"send", "refresh", "break", "resend"}
  BY TokenReadyMoves DEF IInv, Adopt
<1> QED
  BY <1>1, <1>2, <1>3, CacheStep DEF HoldsWhatItUses

LEMMA PollIInv ==
    ASSUME IInv, NEW p \in Isolates, Poll(p) PROVE IInv'
<1>1. Quiet /\ UNCHANGED <<pinned, dep>>
  BY DEF IInv, TypeOK, Poll, Quiet
<1> DEFINE found == /\ row.status = "active" /\ row.env # opened[p]
                    /\ Opens(p, row.env) /\ ~ Expired(row.env.pair)
<1>2. CASE ~ found
  <2>1. ctl[p] \in Control /\ ctl[p].at = "poll" /\ opened[p] # None /\ UNCHANGED opened
    BY <1>2, Held DEF IInv, TypeOK, Poll
  <2>2. Moved(p) /\ ctl'[p].at \in {"poll", "break"}
    <3>1. CASE ctl[p].polls = 2
      BY <1>2, <3>1, GotoMoves DEF IInv, Poll, Places
    <3>2. CASE ctl[p].polls # 2
      <4> DEFINE c == [ctl[p] EXCEPT !.polls = ctl[p].polls + 1]
      <4>1. ctl' = [ctl EXCEPT ![p] = c]
        BY <1>2, <3>2 DEF Poll
      <4>2. c \in Control /\ c.at = "poll"
        BY <2>1, <3>2 DEF Control
      <4> QED
        BY <4>1, <4>2, Update DEF IInv
    <3> QED
      BY <3>1, <3>2
  <2> QED
    BY <1>1, <2>1, <2>2, ControlStep DEF HoldsWhatItUses
<1>3. CASE found
  BY <1>1, <1>3, AdoptsRow DEF Poll
<1> QED
  BY <1>2, <1>3

LEMMA RereadIInv ==
    ASSUME IInv, NEW p \in Isolates, Reread(p) PROVE IInv'
<1>1. Quiet /\ UNCHANGED <<pinned, dep>>
  BY DEF IInv, TypeOK, Reread, Quiet
<1>2. CASE Finish(p) /\ UNCHANGED opened
  <2>1. Moved(p) /\ ctl'[p].at = "idle"
    BY <1>2, FinishMoves DEF IInv
  <2> QED
    BY <1>1, <1>2, <2>1, ControlStep DEF HoldsWhatItUses
<1>3. CASE Adopt(p, row.env) /\ Opens(p, row.env)
  BY <1>1, <1>3, AdoptsRow
<1> QED
  BY <1>2, <1>3 DEF Reread

\* The server issues the pair that follows the one open, to a grant the row
\* has reached.
LEMMA IssueForward ==
    ASSUME IInv, NEW p \in Isolates, opened[p] \in Envelope,
           Issue(opened[p].pair), row' = row
    PROVE  /\ Forward
           /\ issued' \in [Grants -> 0 .. MaxPairs]
           /\ issued'[opened[p].pair.grant] = opened[p].pair.n + 1
           /\ opened[p].pair.n = issued[opened[p].pair.grant]
           /\ opened[p].pair.n + 1 \in 1 .. MaxPairs
<1> DEFINE g == opened[p].pair.grant
<1>1. g \in Grants /\ g \in Nat /\ opened[p].pair.n \in 1 .. MaxPairs
  BY PairType
<1>2. row.env \in Envelope /\ row.env.pair.n <= issued[row.env.pair.grant]
      /\ issued \in [Grants -> 0 .. MaxPairs]
  BY DEF IInv, TypeOK, Bookkeeping, GrantsInOrder
<1>3. /\ opened[p].pair.n = issued[g]
      /\ issued[g] < MaxPairs
      /\ issued' = [issued EXCEPT ![g] = issued[g] + 1]
  BY DEF Issue, Accepts
<1>4. opened[p] # None
  BY NoneAssumption
<1>5. NotAhead(opened[p].pair, row.env.pair)
  BY <1>4 DEF IInv, Bookkeeping, Sound, BehindRow
<1>6. g <= row.env.pair.grant
  BY <1>1, <1>2, <1>5, PairType DEF NotAhead
<1>7. issued' \in [Grants -> 0 .. MaxPairs] /\ issued[g] + 1 \in 1 .. MaxPairs
  BY <1>1, <1>2, <1>3, BoundsAssumption
<1>8. Forward
  BY <1>1, <1>2, <1>3, <1>6, PairType, BoundsAssumption DEF Forward
<1> QED
  BY <1>1, <1>2, <1>3, <1>7, <1>8

LEMMA RefreshGrantedIInv ==
    ASSUME IInv, NEW p \in Isolates, RefreshGranted(p) PROVE IInv'
<1> DEFINE t == opened[p].pair
           f == [grant |-> t.grant, n |-> t.n + 1]
           c == [ctl[p] EXCEPT !.at = "store", !.fresh = f]
<1>1. opened[p] # None /\ opened[p] \in Envelope /\ Issue(t)
  BY Held DEF RefreshGranted
<1>2. UNCHANGED <<row, opened, pinned, dep, deploy, owner, revoked, killed, expired, lost, alerts>>
  BY <1>1 DEF RefreshGranted, Issue
<1>3. /\ Forward /\ issued' \in [Grants -> 0 .. MaxPairs]
      /\ issued'[t.grant] = t.n + 1 /\ t.n = issued[t.grant]
      /\ t.n + 1 \in 1 .. MaxPairs
  BY <1>1, <1>2, IssueForward
<1>4. f \in Pair
  BY <1>1, <1>3, PairType DEF Pair
<1>5. c \in Control /\ c.at = "store" /\ c.fresh = f
  BY <1>4 DEF IInv, TypeOK, Control, Places
<1>6. ctl' = [ctl EXCEPT ![p] = c]
  BY <1>3 DEF RefreshGranted, IInv, TypeOK
<1> HIDE DEF c
<1>7. Moved(p) /\ ctl'[p] = c
  BY <1>5, <1>6, Update DEF IInv
<1>8. TypeOK'
  BY <1>2, <1>3, <1>7 DEF IInv, TypeOK, Moved
<1>9. HoldsWhatItUses(p)' /\ FreshFollows(p)'
  BY <1>1, <1>2, <1>3, <1>5, <1>7, PairType DEF HoldsWhatItUses, FreshFollows
<1>10. PinnedWhileOpen(p)' /\ BehindRow(p)'
  BY <1>2 DEF IInv, Bookkeeping, Sound, PinnedWhileOpen, BehindRow
<1> QED
  BY <1>2, <1>3, <1>7, <1>8, <1>9, <1>10, IsolateStep DEF Sound, Others, Moved

LEMMA AnswerLostIInv ==
    ASSUME IInv, NEW p \in Isolates, AnswerLost(p) PROVE IInv'
<1>1. opened[p] # None /\ opened[p] \in Envelope /\ Issue(opened[p].pair)
  BY Held DEF AnswerLost
<1>2. UNCHANGED <<row, opened, pinned, dep, deploy, owner, revoked, killed, expired, alerts>>
  BY <1>1 DEF AnswerLost, Issue
<1>3. Forward /\ issued' \in [Grants -> 0 .. MaxPairs]
  BY <1>1, <1>2, IssueForward
<1>4. Moved(p) /\ ctl'[p].at = "idle"
  BY FinishMoves DEF IInv, AnswerLost
<1>5. lost' \subseteq Grants
  BY <1>1, PairType DEF AnswerLost, IInv, TypeOK
<1>6. TypeOK'
  BY <1>2, <1>3, <1>4, <1>5 DEF IInv, TypeOK, Moved
<1>7. Sound(p)'
  BY <1>2, <1>4 DEF IInv, Bookkeeping, Sound, HoldsWhatItUses, PinnedWhileOpen, FreshFollows, BehindRow
<1> QED
  BY <1>2, <1>3, <1>4, <1>6, <1>7, IsolateStep DEF Others, Moved

\* A won compare-and-swap moves the row from the pair refreshed to the next.
LEMMA SwapForward ==
    ASSUME IInv, NEW p \in Isolates, ctl[p].at = "store", CanSwap(opened[p]),
           Swap([pair |-> ctl[p].fresh, key |-> dep[p]]), issued' = issued
    PROVE  /\ Forward
           /\ ctl[p].fresh \in Pair
           /\ row' \in [auth : {"oauth", "token"}, status : {"active", "broken", "gone"},
                        env : Envelope]
           /\ row'.env = [pair |-> ctl[p].fresh, key |-> dep[p]]
           /\ row'.env.pair.grant = row.env.pair.grant
           /\ row'.env.pair.n = row.env.pair.n + 1
           /\ row'.status = row.status
<1>1. opened[p] # None /\ opened[p] \in Envelope /\ row.env = opened[p]
  BY Held DEF CanSwap
<1>2. /\ ctl[p].fresh = [grant |-> row.env.pair.grant, n |-> row.env.pair.n + 1]
      /\ row.env.pair.n + 1 <= issued[row.env.pair.grant]
  BY <1>1 DEF IInv, Bookkeeping, Sound, FreshFollows
<1>3. issued \in [Grants -> 0 .. MaxPairs] /\ dep[p] \in Deploys
  BY DEF IInv, TypeOK
<1>4. /\ row.env.pair.grant \in Grants /\ row.env.pair.n \in 1 .. MaxPairs
      /\ row.env.pair.grant \in Nat /\ row.env.pair.n \in Nat
  BY <1>1, PairType
<1>5. ctl[p].fresh \in Pair
  BY <1>2, <1>3, <1>4, BoundsAssumption DEF Pair
<1>6. [pair |-> ctl[p].fresh, key |-> dep[p]] \in Envelope
  BY <1>3, <1>5 DEF Envelope
<1>7. /\ row' \in [auth : {"oauth", "token"}, status : {"active", "broken", "gone"},
                   env : Envelope]
      /\ row'.env = [pair |-> ctl[p].fresh, key |-> dep[p]]
      /\ row'.status = row.status
  BY <1>6 DEF Swap, IInv, TypeOK
<1>8. row'.env.pair = ctl[p].fresh
  BY <1>7
<1>9. Forward
  BY <1>2, <1>3, <1>4, <1>8 DEF Forward
<1> QED
  BY <1>2, <1>5, <1>7, <1>8, <1>9

LEMMA StoreIInv ==
    ASSUME IInv, NEW p \in Isolates, Store(p) PROVE IInv'
<1> DEFINE sealed == [pair |-> ctl[p].fresh, key |-> dep[p]]
<1>1. opened[p] # None /\ opened[p] \in Envelope /\ ctl[p].at = "store"
  BY Held DEF Store
<1>2. UNCHANGED <<pinned, dep, deploy, owner, lost, alerts>> /\ UNCHANGED serverVars
  BY DEF Store
<1>3. CASE CanSwap(opened[p])
  <2>1. Swap(sealed) /\ Adopt(p, sealed)
    BY <1>3 DEF Store
  <2>2. /\ Forward /\ row'.env = sealed /\ ctl[p].fresh \in Pair
        /\ row' \in [auth : {"oauth", "token"}, status : {"active", "broken", "gone"},
                     env : Envelope]
    BY <1>1, <1>2, <1>3, <2>1, SwapForward DEF serverVars
  <2>3. sealed \in Envelope
    BY <2>2 DEF IInv, TypeOK, Envelope
  <2> HIDE DEF sealed
  <2>4. opened' = [opened EXCEPT ![p] = sealed] /\ opened'[p] = sealed
    BY <2>1 DEF Adopt, IInv, TypeOK
  <2>5. Moved(p) /\ ctl'[p].at \in {"send", "refresh", "break", "resend"}
    BY <2>1, TokenReadyMoves DEF IInv, Adopt
  <2>6. TypeOK'
    BY <1>2, <2>2, <2>3, <2>4, <2>5 DEF IInv, TypeOK, Moved, serverVars
  <2>7. sealed.key = dep[p] /\ dep[p] \in Nat
    BY <2>3, PairType DEF sealed
  <2>8. Sound(p)'
    BY <1>2, <2>2, <2>3, <2>4, <2>5, <2>7, NoneAssumption, PairType
       DEF Sound, HoldsWhatItUses, PinnedWhileOpen, FreshFollows, BehindRow, NotAhead
  <2>9. Others(p)
    BY <1>2, <2>4, <2>5 DEF Others, Moved, IInv, TypeOK
  <2> QED
    BY <1>2, <2>2, <2>6, <2>8, <2>9, IsolateStep
<1>4. CASE ~ CanSwap(opened[p])
  <2> DEFINE c == [ctl[p] EXCEPT !.at = "reread", !.fresh = None]
  <2>1. ctl' = [ctl EXCEPT ![p] = c] /\ UNCHANGED <<row, opened>>
    BY <1>4 DEF Store, IInv, TypeOK
  <2>2. c \in Control /\ c.at = "reread"
    BY DEF IInv, TypeOK, Control, Places
  <2> HIDE DEF c
  <2>3. Moved(p) /\ ctl'[p] = c
    BY <2>1, <2>2, Update DEF IInv
  <2>4. Quiet
    BY <1>2, <2>1 DEF Quiet, IInv, TypeOK
  <2> QED
    BY <1>1, <1>2, <2>1, <2>2, <2>3, <2>4, ControlStep DEF HoldsWhatItUses
<1> QED
  BY <1>3, <1>4

LEMMA StoreUnacknowledgedIInv ==
    ASSUME IInv, NEW p \in Isolates, StoreUnacknowledged(p) PROVE IInv'
<1>1. UNCHANGED <<opened, pinned, dep, deploy, owner, lost, alerts>> /\ UNCHANGED serverVars
  BY DEF StoreUnacknowledged
<1>2. /\ Forward
      /\ row' \in [auth : {"oauth", "token"}, status : {"active", "broken", "gone"},
                   env : Envelope]
      /\ row'.env.pair.grant = row.env.pair.grant
      /\ row'.env.pair.n = row.env.pair.n + 1
  BY <1>1, SwapForward DEF StoreUnacknowledged, serverVars
<1>3. Moved(p) /\ ctl'[p].at = "idle"
  BY FinishMoves DEF IInv, StoreUnacknowledged
<1>4. TypeOK'
  BY <1>1, <1>2, <1>3 DEF IInv, TypeOK, Moved, serverVars
<1>5. row.env = opened[p] /\ opened[p] \in Envelope /\ Sound(p)
  BY Held DEF StoreUnacknowledged, CanSwap, IInv, Bookkeeping
<1>6. Sound(p)'
  BY <1>1, <1>2, <1>3, <1>5, PairType
     DEF Sound, HoldsWhatItUses, PinnedWhileOpen, FreshFollows, BehindRow, NotAhead
<1> QED
  BY <1>1, <1>2, <1>3, <1>4, <1>6, IsolateStep DEF Others, Moved

LEMMA ResealIInv ==
    ASSUME IInv, NEW p \in Isolates, Reseal(p) PROVE IInv'
<1> DEFINE sealed == [opened[p] EXCEPT !.key = dep[p]]
<1>1. opened[p] # None /\ opened[p] \in Envelope /\ dep[p] \in Deploys
  BY Held DEF Reseal, IInv, TypeOK
<1>2. sealed \in Envelope /\ sealed.pair = opened[p].pair /\ sealed.key = dep[p]
  BY <1>1 DEF Envelope
<1>3. UNCHANGED <<pinned, dep, deploy, owner, lost, alerts>> /\ UNCHANGED serverVars
  BY DEF Reseal
<1>4. Moved(p) /\ ctl'[p].at = "token"
  BY GotoMoves DEF IInv, Reseal, Places
<1>5. CASE UNCHANGED <<row, opened>>
  <2>1. Quiet
    BY <1>3, <1>5 DEF Quiet, IInv, TypeOK
  <2> QED
    BY <1>1, <1>3, <1>4, <1>5, <2>1, ControlStep DEF HoldsWhatItUses
<1>6. CASE /\ CanSwap(opened[p]) /\ Swap(sealed)
           /\ opened' \in {opened, [opened EXCEPT ![p] = sealed]}
  <2> HIDE DEF sealed
  <2>1. /\ row' \in [auth : {"oauth", "token"}, status : {"active", "broken", "gone"},
                     env : Envelope]
        /\ row'.env = sealed
    BY <1>2, <1>6 DEF Swap, IInv, TypeOK
  <2>2. row'.env.pair = row.env.pair /\ row.env = opened[p] /\ Sound(p)
    BY <1>2, <1>6, <2>1 DEF CanSwap, IInv, Bookkeeping
  <2>3. Forward
    BY <1>1, <1>3, <2>2, PairType DEF Forward, IInv, Bookkeeping, GrantsInOrder, serverVars
  <2>4. /\ opened' \in [Isolates -> Envelope \cup {None}]
        /\ opened'[p] \in {opened[p], sealed}
        /\ \A q \in Isolates \ {p} : opened'[q] = opened[q]
    BY <1>1, <1>2, <1>6 DEF IInv, TypeOK
  <2>5. TypeOK'
    BY <1>3, <1>4, <2>1, <2>4 DEF IInv, TypeOK, Moved, serverVars
  <2>6. opened'[p].key <= dep[p] /\ opened'[p].pair = opened[p].pair
    BY <1>1, <1>2, <2>2, <2>4, PairType DEF Sound, BehindRow, Deploys
  <2>7. opened'[p] # None
    BY <1>1, <1>2, <2>4, NoneAssumption
  <2>8. Sound(p)'
    BY <1>1, <1>3, <1>4, <2>2, <2>6, <2>7, PairType
       DEF Sound, HoldsWhatItUses, PinnedWhileOpen, FreshFollows, BehindRow, NotAhead
  <2> QED
    BY <1>3, <1>4, <2>3, <2>4, <2>5, <2>8, IsolateStep DEF Others, Moved
<1> QED
  BY <1>5, <1>6 DEF Reseal

-----------------------------------------------------------------------------
(* The owner's and the world's actions: no isolate moves.                  *)

LEMMA OutsideStep ==
    ASSUME IInv, TypeOK', UNCHANGED isoVars, row'.env = row.env, issued' = issued,
           OwnerAhead'
    PROVE  IInv'
<1>1. \A q \in Isolates : Sound(q)'
  BY DEF IInv, Bookkeeping, Sound, HoldsWhatItUses, PinnedWhileOpen, FreshFollows, BehindRow, isoVars
<1>2. GrantsInOrder'
  BY DEF IInv, Bookkeeping, GrantsInOrder
<1> QED
  BY <1>1, <1>2 DEF IInv, Bookkeeping

\* The owner holds a grant that no isolate has reached: given, not yet stored.
LEMMA AuthorizeIInv ==
    ASSUME IInv, NEW g \in Grants, Authorize(g) PROVE IInv'
<1> DEFINE env == [pair |-> [grant |-> g, n |-> 1], key |-> deploy]
<1>1. /\ UNCHANGED <<row, deploy, lost, alerts, revoked, killed, expired>>
      /\ UNCHANGED <<ctl, opened, pinned, dep>>
      /\ issued[g] = 0 /\ issued' = [issued EXCEPT ![g] = 1]
      /\ owner' = [at |-> "authorized", env |-> env]
      /\ \A h \in Grants : h < g => issued[h] > 0
  BY DEF Authorize, isoVars
<1>2. env \in Envelope /\ env # None
  BY BoundsAssumption, NoneAssumption DEF IInv, TypeOK, Envelope, Pair
<1>3. /\ issued \in [Grants -> 0 .. MaxPairs] /\ issued' \in [Grants -> 0 .. MaxPairs]
      /\ issued'[g] = 1 /\ g \in Nat /\ Grants \subseteq Nat
  BY <1>1, BoundsAssumption DEF IInv, TypeOK, Grants
<1>4. TypeOK'
  BY <1>1, <1>2, <1>3 DEF IInv, TypeOK
<1>5. /\ row.env \in Envelope /\ GrantsInOrder
      /\ row.env.pair.grant \in Grants /\ row.env.pair.grant \in Nat
      /\ row.env.pair.n \in Nat /\ row.env.pair.n > 0
  <2>1. row.env \in Envelope /\ GrantsInOrder
    BY DEF IInv, TypeOK, Bookkeeping
  <2> QED
    BY <2>1, PairType, BoundsAssumption
<1>6. /\ issued[row.env.pair.grant] > 0
      /\ issued'[row.env.pair.grant] = issued[row.env.pair.grant]
  <2>1. issued[row.env.pair.grant] \in Nat /\ issued[row.env.pair.grant] > 0
    BY <1>3, <1>5, BoundsAssumption DEF GrantsInOrder
  <2>2. row.env.pair.grant # g
    BY <1>1, <2>1
  <2> QED
    BY <1>1, <1>3, <1>5, <2>1, <2>2
<1>7. g > row.env.pair.grant
  <2>1. row.env.pair.grant # g
    BY <1>1, <1>6
  <2>2. ~ (g < row.env.pair.grant)
    BY <1>1, <1>5, <1>6 DEF GrantsInOrder
  <2> QED
    BY <1>3, <1>5, <2>1, <2>2
<1>8. GrantsInOrder'
  BY <1>1, <1>3, <1>5, <1>6, BoundsAssumption DEF GrantsInOrder
<1>9. OwnerAhead'
  <2>1. owner'.env = env /\ env.pair.n = 1 /\ env.pair.grant = g
    BY <1>1
  <2> HIDE DEF env
  <2> QED
    BY <1>1, <1>2, <1>3, <1>7, <2>1 DEF OwnerAhead
<1>10. ASSUME NEW q \in Isolates PROVE Sound(q)'
  <2>1. Sound(q)
    BY DEF IInv, Bookkeeping
  <2>2. FreshFollows(q)'
    <3>1. SUFFICES ASSUME ctl[q].at = "store"
                   PROVE  /\ ctl[q].fresh = [grant |-> opened[q].pair.grant, n |-> opened[q].pair.n + 1]
                          /\ ctl[q].fresh.n <= issued'[opened[q].pair.grant]
      BY <1>1 DEF FreshFollows
    <3>2. opened[q] \in Envelope
      BY <3>1, Held
    <3>3. /\ ctl[q].fresh = [grant |-> opened[q].pair.grant, n |-> opened[q].pair.n + 1]
          /\ ctl[q].fresh.n <= issued[opened[q].pair.grant]
      BY <2>1, <3>1 DEF Sound, FreshFollows
    <3> QED
      BY <1>1, <1>3, <3>2, <3>3, PairType, BoundsAssumption
  <2> QED
    BY <1>1, <2>1, <2>2 DEF Sound, HoldsWhatItUses, PinnedWhileOpen, BehindRow
<1> QED
  BY <1>4, <1>8, <1>9, <1>10 DEF IInv, Bookkeeping

LEMMA CheckAccountIInv ==
    ASSUME IInv, CheckAccount PROVE IInv'
<1>1. UNCHANGED <<row, deploy, lost, alerts, issued, killed, expired>> /\ UNCHANGED isoVars
  BY DEF CheckAccount
<1>2. owner.env \in Envelope /\ owner.at = "authorized" /\ OwnerAhead
  BY DEF IInv, Bookkeeping, OwnerAhead, TypeOK, CheckAccount
<1>3. revoked' \subseteq Grants
  BY <1>2, PairType DEF CheckAccount, IInv, TypeOK
<1>4. owner' \in {[at |-> "idle", env |-> None], [owner EXCEPT !.at = "same"]}
  BY DEF CheckAccount, OwnerDone, OwnerGoto
<1>5. TypeOK'
  BY <1>1, <1>2, <1>3, <1>4 DEF IInv, TypeOK, isoVars
<1>6. OwnerAhead'
  BY <1>1, <1>2, <1>4 DEF OwnerAhead, IInv, TypeOK
<1> QED
  BY <1>1, <1>5, <1>6, OutsideStep

\* The row moves to a grant that no isolate has open.
LEMMA ReactivateIInv ==
    ASSUME IInv, Reactivate PROVE IInv'
<1>1. /\ UNCHANGED <<ctl, opened, pinned, dep, deploy, lost, alerts, issued, revoked, killed, expired>>
      /\ owner' = [at |-> "idle", env |-> None]
  BY DEF Reactivate, OwnerDone, isoVars, serverVars
<1>2. owner.env \in Envelope /\ owner.at = "same" /\ OwnerAhead /\ row.env \in Envelope
  BY DEF IInv, Bookkeeping, OwnerAhead, TypeOK, Reactivate
<1>3. /\ row' \in [auth : {"oauth", "token"}, status : {"active", "broken", "gone"},
                   env : Envelope]
      /\ row'.env \in {row.env, owner.env}
  BY <1>2 DEF Reactivate, IInv, TypeOK
<1>4. TypeOK'
  BY <1>1, <1>3 DEF IInv, TypeOK
<1>5. OwnerAhead'
  BY <1>1 DEF OwnerAhead
<1>6. /\ row'.env.pair.grant >= row.env.pair.grant
      /\ row'.env.pair.grant = row.env.pair.grant => row'.env.pair.n = row.env.pair.n
      /\ row'.env.pair.n <= issued[row'.env.pair.grant]
  BY <1>2, <1>3, PairType DEF OwnerAhead, IInv, Bookkeeping, GrantsInOrder
<1>7. GrantsInOrder'
  BY <1>1, <1>6 DEF GrantsInOrder, IInv, Bookkeeping
<1>8. ASSUME NEW q \in Isolates PROVE Sound(q)'
  <2>1. Sound(q) /\ opened[q] \in Envelope \cup {None}
    BY DEF IInv, Bookkeeping, TypeOK
  <2>2. BehindRow(q)'
    BY <1>1, <1>2, <1>3, <1>6, <2>1, PairType DEF Sound, BehindRow, NotAhead
  <2> QED
    BY <1>1, <2>1, <2>2 DEF Sound, HoldsWhatItUses, PinnedWhileOpen, FreshFollows
<1> QED
  BY <1>4, <1>5, <1>7, <1>8 DEF IInv, Bookkeeping

LEMMA DisconnectIInv ==
    ASSUME IInv, Disconnect PROVE IInv'
<1>1. UNCHANGED <<row, deploy, lost, alerts>> /\ UNCHANGED isoVars /\ UNCHANGED serverVars
  BY DEF Disconnect
<1>2. owner'.at \in {"revoking", "deleting"} /\ owner'.env = row.env
      /\ owner' \in [at : {"idle", "authorized", "same", "revoking", "deleting"},
                     env : Envelope \cup {None}]
  BY DEF Disconnect, IInv, TypeOK
<1>3. row.env # None
  BY NoneAssumption DEF IInv, TypeOK
<1>4. OwnerAhead'
  BY <1>2, <1>3 DEF OwnerAhead
<1>5. TypeOK'
  BY <1>1, <1>2 DEF IInv, TypeOK, isoVars, serverVars
<1> QED
  BY <1>1, <1>4, <1>5, OutsideStep DEF serverVars

LEMMA RevokeGrantIInv ==
    ASSUME IInv, RevokeGrant PROVE IInv'
<1>1. UNCHANGED <<row, deploy, lost, alerts, issued, expired>> /\ UNCHANGED isoVars
  BY DEF RevokeGrant
<1>2. owner.env \in Envelope /\ owner.env # None /\ owner' = [owner EXCEPT !.at = "deleting"]
  BY DEF IInv, Bookkeeping, OwnerAhead, TypeOK, RevokeGrant, OwnerGoto
<1>3. owner.env.pair \in Pair /\ owner.env.pair.grant \in Grants
  BY <1>2, PairType
<1>4. revoked' \subseteq Grants /\ killed' \subseteq Pair
  BY <1>3 DEF RevokeGrant, IInv, TypeOK
<1>5. TypeOK'
  BY <1>1, <1>2, <1>4 DEF IInv, TypeOK, isoVars
<1>6. OwnerAhead'
  BY <1>2 DEF OwnerAhead, IInv, TypeOK
<1> QED
  BY <1>1, <1>5, <1>6, OutsideStep

LEMMA DeleteIInv ==
    ASSUME IInv, Delete PROVE IInv'
<1>1. /\ UNCHANGED <<deploy, lost, alerts>> /\ UNCHANGED isoVars /\ UNCHANGED serverVars
      /\ owner' = [at |-> "idle", env |-> None]
  BY DEF Delete, OwnerDone
<1>2. row'.env = row.env
      /\ row' \in [auth : {"oauth", "token"}, status : {"active", "broken", "gone"},
                   env : Envelope]
  BY DEF Delete, IInv, TypeOK
<1>3. TypeOK'
  BY <1>1, <1>2 DEF IInv, TypeOK, isoVars, serverVars
<1>4. OwnerAhead'
  BY <1>1 DEF OwnerAhead
<1> QED
  BY <1>1, <1>2, <1>3, <1>4, OutsideStep DEF serverVars

LEMMA OwnerAbortIInv ==
    ASSUME IInv, OwnerAbort PROVE IInv'
<1>1. /\ UNCHANGED <<row, deploy, lost, alerts>> /\ UNCHANGED isoVars /\ UNCHANGED serverVars
      /\ owner' = [at |-> "idle", env |-> None]
  BY DEF OwnerAbort, OwnerDone
<1>2. TypeOK'
  BY <1>1 DEF IInv, TypeOK, isoVars, serverVars
<1>3. OwnerAhead'
  BY <1>1 DEF OwnerAhead
<1> QED
  BY <1>1, <1>2, <1>3, OutsideStep DEF serverVars

LEMMA ExpireIInv ==
    ASSUME IInv, NEW g \in Grants, Expire(g) PROVE IInv'
<1>1. UNCHANGED <<row, deploy, owner, issued, revoked, killed, lost, alerts>>
      /\ UNCHANGED isoVars
  BY DEF Expire
<1>2. expired' \in [Grants -> 0 .. MaxPairs]
  <2>1. /\ expired \in [Grants -> 0 .. MaxPairs] /\ issued[g] \in 0 .. MaxPairs
        /\ expired[g] < issued[g] /\ expired' = [expired EXCEPT ![g] = expired[g] + 1]
    BY DEF Expire, IInv, TypeOK
  <2> QED
    BY <2>1, BoundsAssumption
<1>3. TypeOK'
  BY <1>1, <1>2 DEF IInv, TypeOK, isoVars
<1> QED
  BY <1>1, <1>3, OutsideStep DEF IInv, Bookkeeping, OwnerAhead

LEMMA CustomerRevokesIInv ==
    ASSUME IInv, NEW g \in Grants, CustomerRevokes(g) PROVE IInv'
<1>1. UNCHANGED <<row, deploy, owner, issued, killed, expired, lost, alerts>>
      /\ UNCHANGED isoVars /\ revoked' = revoked \cup {g}
  BY DEF CustomerRevokes
<1>2. TypeOK'
  BY <1>1 DEF IInv, TypeOK, isoVars
<1> QED
  BY <1>1, <1>2, OutsideStep DEF IInv, Bookkeeping, OwnerAhead

LEMMA DeployIInv ==
    ASSUME IInv, Deploy PROVE IInv'
<1>1. UNCHANGED <<row, owner, lost, alerts>> /\ UNCHANGED isoVars /\ UNCHANGED serverVars
      /\ deploy' \in Deploys
  BY BoundsAssumption DEF Deploy, IInv, TypeOK, Deploys
<1>2. TypeOK'
  BY <1>1 DEF IInv, TypeOK, isoVars, serverVars
<1> QED
  BY <1>1, <1>2, OutsideStep DEF IInv, Bookkeeping, OwnerAhead, serverVars

-----------------------------------------------------------------------------
LEMMA InitIInv == Init => IInv
<1> SUFFICES ASSUME Init PROVE IInv
  OBVIOUS
<1> DEFINE first == [pair |-> [grant |-> 1, n |-> 1], key |-> 1]
<1>1. first \in Envelope /\ 1 \in Grants /\ 1 \in Deploys
  BY BoundsAssumption DEF Envelope, Pair, Grants, Deploys
<1>2. At("off") \in Control /\ At("off").at = "off"
  BY AtType DEF Places
<1>3. PICK a \in AuthTypes : row = [auth |-> a, status |-> "active", env |-> first]
  BY DEF Init
<1>4. row.env = first /\ row.env.pair.n = 1 /\ row.env.pair.grant = 1
      /\ row \in [auth : {"oauth", "token"}, status : {"active", "broken", "gone"},
                  env : Envelope]
  BY <1>1, <1>3, ConfigAssumption
<1>5. issued \in [Grants -> 0 .. MaxPairs] /\ expired \in [Grants -> 0 .. MaxPairs]
      /\ issued[1] = 1 /\ \A g \in Grants : issued[g] > 0 => g = 1
  BY <1>1, BoundsAssumption DEF Init
<1>6. TypeOK
  BY <1>1, <1>2, <1>4, <1>5 DEF Init, TypeOK
<1>7. \A p \in Isolates : Sound(p)
  BY <1>2 DEF Init, Sound, HoldsWhatItUses, PinnedWhileOpen, FreshFollows, BehindRow
<1>8. GrantsInOrder /\ OwnerAhead
  BY <1>4, <1>5 DEF Init, GrantsInOrder, OwnerAhead, Grants
<1> QED
  BY <1>6, <1>7, <1>8 DEF IInv, Bookkeeping

LEMMA NextIInv == IInv /\ [Next]_vars => IInv'
<1> SUFFICES ASSUME IInv, [Next]_vars PROVE IInv'
  OBVIOUS
<1>1. ASSUME NEW p \in Isolates, BuildClient(p) \/ Call(p) \/ Progress(p) \/ Faults(p)
      PROVE  IInv'
  BY <1>1, BuildClientIInv, CallIInv, OpenRowIInv, ResealIInv, UseOpenedIInv,
     StartRefreshIInv, RefreshGrantedIInv, RefreshRefusedIInv, PollIInv, StoreIInv,
     RereadIInv, SendIInv, ResendIInv, UnauthorizedIInv, MarkBrokenIInv, AlertIInv,
     AnswerLostIInv, StoreUnacknowledgedIInv, BreakUnacknowledgedIInv, AbortIInv, DiscardIInv
     DEF Progress, Faults
<1>2. CASE OwnerNext
  BY <1>2, AuthorizeIInv, CheckAccountIInv, ReactivateIInv, DisconnectIInv,
     RevokeGrantIInv, DeleteIInv, OwnerAbortIInv DEF OwnerNext
<1>3. CASE WorldNext
  BY <1>3, ExpireIInv, CustomerRevokesIInv, DeployIInv DEF WorldNext
<1>4. CASE UNCHANGED vars
  BY <1>4 DEF vars, IInv, TypeOK, Bookkeeping, Sound, HoldsWhatItUses, PinnedWhileOpen, FreshFollows,
              BehindRow, GrantsInOrder, OwnerAhead
<1> QED
  BY <1>1, <1>2, <1>3, <1>4 DEF Next

LEMMA Inductive == Spec => []IInv
<1> QED
  BY InitIInv, NextIInv, PTL DEF Spec

\* The state of the connection, of every isolate and of the authorization
\* server is always well formed: what service.ts reads back it can open and
\* compare, whatever interleaving of refreshes and reconnects came before.
THEOREM TypeCorrect == Spec => []TypeOK
<1>1. IInv => TypeOK
  BY DEF IInv
<1> QED
  BY <1>1, Inductive, PTL


-----------------------------------------------------------------------------
(* How one step of the system may change the row.                          *)

RowKept == row' = row

\* Reseal: the same pair under a newer key.
RowResealed ==
    /\ row.status # "gone" /\ row'.status = row.status
    /\ row'.env.pair = row.env.pair
    /\ row'.env.key >= row.env.key

\* Store: the next pair of the same grant.
RowRotated ==
    /\ row.status # "gone" /\ row'.status = row.status
    /\ row'.env.pair.grant = row.env.pair.grant
    /\ row'.env.pair.n = row.env.pair.n + 1
    /\ row'.env.key >= row.env.key

RowBroken == row.status = "active" /\ row' = [row EXCEPT !.status = "broken"]

\* Reactivate: a newer grant.
RowReplaced ==
    /\ row.status # "gone" /\ row'.status = "active"
    /\ row'.env.pair.grant > row.env.pair.grant
    /\ row'.env.pair.n = 1

RowDeleted == row' = [row EXCEPT !.status = "gone"]

LEMMA StoreRow ==
    ASSUME IInv, NEW p \in Isolates, ctl[p].at = "store", CanSwap(opened[p]),
           Swap([pair |-> ctl[p].fresh, key |-> dep[p]]), issued' = issued
    PROVE  RowRotated
<1>1. /\ row'.env = [pair |-> ctl[p].fresh, key |-> dep[p]]
      /\ row'.env.pair.grant = row.env.pair.grant
      /\ row'.env.pair.n = row.env.pair.n + 1
      /\ row'.status = row.status
  BY SwapForward
<1>2. row.env.key <= dep[p] /\ row.status # "gone"
  BY Held DEF CanSwap, IInv, Bookkeeping, Sound, BehindRow
<1>3. row.env.key \in Nat /\ dep[p] \in Nat
  BY PairType DEF IInv, TypeOK, Deploys
<1> QED
  BY <1>1, <1>2, <1>3 DEF RowRotated

LEMMA ResealRow ==
    ASSUME IInv, NEW p \in Isolates, Reseal(p)
    PROVE  RowKept \/ RowResealed
<1> DEFINE sealed == [opened[p] EXCEPT !.key = dep[p]]
<1>1. SUFFICES ASSUME CanSwap(opened[p]), Swap(sealed)
               PROVE  RowResealed
  BY DEF Reseal, RowKept
<1>2. row.env = opened[p] /\ opened[p] \in Envelope /\ row.env.key <= dep[p]
  BY <1>1, Held DEF Reseal, CanSwap, IInv, Bookkeeping, Sound, BehindRow
<1>3. row.env.key \in Nat /\ dep[p] \in Nat
  BY <1>2, PairType DEF IInv, TypeOK, Deploys
<1>4. sealed.pair = row.env.pair /\ sealed.key = dep[p]
  BY <1>2 DEF Envelope
<1>5. row'.env = sealed /\ row'.status = row.status
  BY <1>1 DEF Swap, IInv, TypeOK
<1> QED
  BY <1>1, <1>2, <1>3, <1>4, <1>5 DEF RowResealed, CanSwap

LEMMA ReactivateRow ==
    ASSUME IInv, Reactivate
    PROVE  RowKept \/ RowReplaced
<1>1. CASE row.status = "gone"
  BY <1>1 DEF Reactivate, RowKept
<1>2. CASE row.status # "gone"
  <2>1. row'.status = "active" /\ row'.env = owner.env
    BY <1>2 DEF Reactivate, IInv, TypeOK
  <2>2. owner.env.pair.n = 1 /\ owner.env.pair.grant > row.env.pair.grant
    BY DEF Reactivate, IInv, Bookkeeping, OwnerAhead
  <2> QED
    BY <1>2, <2>1, <2>2 DEF RowReplaced
<1> QED
  BY <1>1, <1>2

LEMMA IsolateRow ==
    ASSUME IInv, NEW p \in Isolates,
           BuildClient(p) \/ Call(p) \/ Progress(p) \/ Faults(p)
    PROVE  RowKept \/ RowResealed \/ RowRotated \/ RowBroken
<1>1. CASE Reseal(p)
  BY <1>1, ResealRow
<1>2. CASE Store(p)
  BY <1>2, StoreRow DEF Store, RowKept, serverVars
<1>3. CASE StoreUnacknowledged(p)
  BY <1>3, StoreRow DEF StoreUnacknowledged, serverVars
<1>4. CASE MarkBroken(p) \/ BreakUnacknowledged(p)
  BY <1>4 DEF MarkBroken, BreakUnacknowledged, RowKept, RowBroken
<1>5. CASE ~ (\/ Reseal(p) \/ Store(p) \/ StoreUnacknowledged(p)
              \/ MarkBroken(p) \/ BreakUnacknowledged(p))
  BY <1>5 DEF RowKept, Progress, Faults, BuildClient, Call, OpenRow, UseOpened,
     StartRefresh, RefreshGranted, RefreshRefused, Poll, Reread, Send, Resend,
     Unauthorized, Alert, AnswerLost, Abort, Discard
<1> QED
  BY <1>1, <1>2, <1>3, <1>4, <1>5

LEMMA OutsideRow ==
    ASSUME IInv, OwnerNext \/ WorldNext \/ UNCHANGED vars
    PROVE  RowKept \/ RowReplaced \/ RowDeleted
<1>1. CASE OwnerNext
  BY <1>1, ReactivateRow DEF OwnerNext, RowKept, RowDeleted, Authorize, CheckAccount,
     Disconnect, RevokeGrant, Delete, OwnerAbort
<1>2. CASE WorldNext
  BY <1>2 DEF WorldNext, Expire, CustomerRevokes, Deploy, RowKept
<1>3. CASE UNCHANGED vars
  BY <1>3 DEF vars, RowKept
<1> QED
  BY <1>1, <1>2, <1>3

LEMMA RowStep ==
    ASSUME IInv, [Next]_vars
    PROVE  RowKept \/ RowResealed \/ RowRotated \/ RowBroken \/ RowReplaced \/ RowDeleted
BY IsolateRow, OutsideRow DEF Next

-----------------------------------------------------------------------------
\* Under every interleaving of refreshes, re-seals, lost answers, reconnects
\* and disconnects the row implements ConnectionContract: within a grant the
\* stored pair only moves forward, only a reconnect brings another grant or
\* revives a broken connection, a deleted one stays deleted.
THEOREM RowImplementsContract == Spec => ImplementsContract
<1>1. Init => Contract!Init
  BY DEF Init, Contract!Init
<1>2. IInv /\ [Next]_vars => [Contract!Next]_Contract!vars
  <2> SUFFICES ASSUME IInv, [Next]_vars PROVE [Contract!Next]_Contract!vars
    OBVIOUS
  <2>1. CASE RowKept
    BY <2>1 DEF RowKept, Contract!vars
  <2>2. CASE RowResealed
    BY <2>2 DEF RowResealed, Contract!vars
  <2>3. CASE RowRotated
    <3>1. row'.env.pair.n > row.env.pair.n
      BY <2>3, PairType DEF RowRotated, IInv, TypeOK
    <3> QED
      BY <2>3, <3>1 DEF RowRotated, Contract!Next, Contract!Rotate
  <2>4. CASE RowBroken
    BY <2>4 DEF RowBroken, IInv, TypeOK, Contract!Next, Contract!Break
  <2>5. CASE RowReplaced
    BY <2>5 DEF RowReplaced, Contract!Next, Contract!Reconnect
  <2>6. CASE RowDeleted
    BY <2>6 DEF RowDeleted, IInv, TypeOK, Contract!Next, Contract!Remove, Contract!vars
  <2> QED
    BY <2>1, <2>2, <2>3, <2>4, <2>5, <2>6, RowStep
<1> QED
  BY <1>1, <1>2, Inductive, PTL DEF Spec, ImplementsContract, Contract!Spec

\* Within a grant no isolate of an older deploy ever puts the envelope back
\* under an older key, so a key no envelope uses stays unused.
THEOREM KeysNeverGoBack == Spec => KeysMoveForward
<1> DEFINE Forwards == row'.env.pair.grant = row.env.pair.grant => row'.env.key >= row.env.key
<1>1. IInv /\ [Next]_vars => [Forwards]_vars
  <2> SUFFICES ASSUME IInv, [Next]_vars PROVE Forwards
    OBVIOUS
  <2>1. row.env.key \in Nat /\ row.env.pair.grant \in Nat
    BY PairType DEF IInv, TypeOK
  <2>2. CASE RowBroken \/ RowDeleted
    BY <2>1, <2>2 DEF RowBroken, RowDeleted, IInv, TypeOK
  <2>3. CASE RowKept \/ RowResealed \/ RowRotated \/ RowReplaced
    BY <2>1, <2>3 DEF RowKept, RowResealed, RowRotated, RowReplaced
  <2> QED
    BY <2>2, <2>3, RowStep
<1> QED
  BY <1>1, Inductive, PTL DEF Spec, KeysMoveForward

-----------------------------------------------------------------------------
(* Custody of the newest pair.  With one encryption key an envelope is its  *)
(* pair, so an isolate that has the stored pair open also wins its swap.   *)

LEMMA OneKey ==
    ASSUME MaxDeploy = 1, NEW a \in Envelope, NEW b \in Envelope, a.pair = b.pair
    PROVE  a = b
<1>1. Deploys = {1}
  BY DEF Deploys
<1> QED
  BY <1>1 DEF Envelope

\* A step that moves neither the row nor the server, of an isolate with no pair
\* in hand, or with one that would not have been stored.
LEMMA Bystander ==
    ASSUME IInv, Custody, row'.env = row.env,
           row'.status # "gone" => row.status # "gone",
           issued'[row.env.pair.grant] = issued[row.env.pair.grant],
           lost \subseteq lost',
           NEW p \in Isolates, Others(p), ~ AboutToStore(p)
    PROVE  Custody'
BY DEF Custody, Newest, AboutToStore, Others

LEMMA NobodyMoves ==
    ASSUME IInv, Custody, row'.env = row.env,
           row'.status # "gone" => row.status # "gone",
           issued'[row.env.pair.grant] = issued[row.env.pair.grant],
           lost \subseteq lost', UNCHANGED isoVars
    PROVE  Custody'
BY DEF Custody, Newest, AboutToStore, isoVars

\* While the row is behind, the pair in hand is the row's successor.
LEMMA InHand ==
    ASSUME IInv, NEW q \in Isolates, AboutToStore(q)
    PROVE  issued[row.env.pair.grant] = row.env.pair.n + 1
<1>1. ctl[q].fresh = [grant |-> row.env.pair.grant, n |-> row.env.pair.n + 1]
  BY DEF AboutToStore, IInv, Bookkeeping, Sound, FreshFollows
<1>2. ctl[q].fresh.n = issued[row.env.pair.grant]
  BY DEF AboutToStore, Newest
<1> QED
  BY <1>1, <1>2

\* The server grants a refresh of the row's grant only to an isolate that has
\* the stored pair open.
LEMMA RefresherHasRow ==
    ASSUME MaxDeploy = 1, IInv, Custody, NEW p \in Isolates, opened[p] \in Envelope,
           Accepts(opened[p].pair), opened[p].pair.grant = row.env.pair.grant,
           row.status # "gone", row.env.pair.grant \notin lost
    PROVE  opened[p] = row.env
<1>1. row.env \in Envelope /\ opened[p].pair.n = issued[row.env.pair.grant]
  BY DEF IInv, TypeOK, Accepts
<1>2. /\ opened[p].pair.n \in Nat /\ row.env.pair.n \in Nat
      /\ opened[p].pair.grant \in Nat /\ row.env.pair.grant \in Nat
  BY <1>1, PairType
<1>3. opened[p].pair.n <= row.env.pair.n
  <2>1. opened[p] # None
    BY NoneAssumption
  <2>2. NotAhead(opened[p].pair, row.env.pair)
    BY <2>1 DEF IInv, Bookkeeping, Sound, BehindRow
  <2> QED
    BY <1>2, <2>2 DEF NotAhead
<1>4. row.env.pair = Newest
  <2>1. ASSUME NEW q \in Isolates, AboutToStore(q) PROVE FALSE
    BY <1>1, <1>2, <1>3, <2>1, InHand
  <2> QED
    BY <2>1 DEF Custody
<1>5. row.env.pair.n = issued[row.env.pair.grant]
  BY <1>4 DEF Newest
<1>6. opened[p].pair = row.env.pair
  BY <1>1, <1>5, PairType DEF Pair
<1> QED
  BY <1>1, <1>6, OneKey

LEMMA GrantedCustody ==
    ASSUME MaxDeploy = 1, IInv, Custody, NEW p \in Isolates, RefreshGranted(p)
    PROVE  Custody'
<1> DEFINE t == opened[p].pair
<1>1. opened[p] \in Envelope /\ Issue(t) /\ Accepts(t) /\ ctl[p].at = "asking"
  BY Held DEF RefreshGranted, Issue
<1>2. /\ UNCHANGED <<row, opened, pinned, dep, lost>>
      /\ issued' = [issued EXCEPT ![t.grant] = issued[t.grant] + 1]
      /\ ctl' = [ctl EXCEPT ![p].at = "store",
                            ![p].fresh = [grant |-> t.grant, n |-> issued[t.grant] + 1]]
  BY DEF RefreshGranted, Issue
<1>3. /\ ctl'[p].at = "store"
      /\ ctl'[p].fresh = [grant |-> t.grant, n |-> issued[t.grant] + 1]
      /\ Others(p)
  BY <1>2 DEF IInv, TypeOK, Others, Control
<1>4. t.grant \in Grants /\ issued \in [Grants -> 0 .. MaxPairs]
      /\ row.env.pair.grant \in Grants
  BY <1>1, PairType DEF IInv, TypeOK
<1>5. CASE t.grant # row.env.pair.grant
  <2>1. issued'[row.env.pair.grant] = issued[row.env.pair.grant]
    BY <1>2, <1>4, <1>5
  <2> QED
    BY <1>1, <1>2, <1>3, <2>1, Bystander DEF AboutToStore
<1>6. CASE t.grant = row.env.pair.grant
  <2> SUFFICES ASSUME row.status # "gone", row.env.pair.grant \notin lost
               PROVE  AboutToStore(p)'
    BY <1>2 DEF Custody
  <2>1. opened[p] = row.env
    BY <1>1, <1>6, RefresherHasRow
  <2>2. issued'[t.grant] = issued[t.grant] + 1
    BY <1>2, <1>4
  <2> QED
    BY <1>2, <1>3, <1>6, <2>1, <2>2 DEF AboutToStore, Newest
<1> QED
  BY <1>5, <1>6

LEMMA AnswerLostCustody ==
    ASSUME IInv, Custody, NEW p \in Isolates, AnswerLost(p)
    PROVE  Custody'
<1>1. opened[p] \in Envelope /\ ctl[p].at = "asking"
  BY Held DEF AnswerLost
<1>2. /\ UNCHANGED <<row, opened, dep>> /\ lost' = lost \cup {opened[p].pair.grant}
      /\ issued' = [issued EXCEPT ![opened[p].pair.grant] = issued[opened[p].pair.grant] + 1]
  BY DEF AnswerLost, Issue
<1>3. Others(p)
  BY <1>2 DEF AnswerLost, Finish, IInv, TypeOK, Others
<1>4. issued \in [Grants -> 0 .. MaxPairs] /\ row.env.pair.grant \in Grants
  BY PairType DEF IInv, TypeOK
<1>5. CASE opened[p].pair.grant = row.env.pair.grant
  BY <1>2, <1>5 DEF Custody
<1>6. CASE opened[p].pair.grant # row.env.pair.grant
  BY <1>1, <1>2, <1>3, <1>4, <1>6, Bystander DEF AboutToStore
<1> QED
  BY <1>5, <1>6

\* The swap that wins stores the newest pair: every isolate that could win
\* holds the same one.
LEMMA SwapCustody ==
    ASSUME IInv, Custody, NEW p \in Isolates, ctl[p].at = "store", CanSwap(opened[p]),
           Swap([pair |-> ctl[p].fresh, key |-> dep[p]]), issued' = issued, lost' = lost
    PROVE  Custody'
<1>1. /\ row'.env.pair.grant = row.env.pair.grant
      /\ row'.env.pair.n = row.env.pair.n + 1
      /\ row'.env.pair = ctl[p].fresh
      /\ row'.status = row.status
  BY SwapForward
<1>2. row.env = opened[p] /\ opened[p] \in Envelope
  BY Held DEF CanSwap
<1>3. /\ ctl[p].fresh = [grant |-> row.env.pair.grant, n |-> row.env.pair.n + 1]
      /\ row.env.pair.n + 1 <= issued[row.env.pair.grant]
  BY <1>2 DEF IInv, Bookkeeping, Sound, FreshFollows
<1>4. row.env.pair.n \in Nat
  BY <1>2, PairType
<1> SUFFICES ASSUME row.status # "gone", row.env.pair.grant \notin lost
             PROVE  row'.env.pair = Newest'
  BY <1>1 DEF Custody
<1>5. row.env.pair # Newest
  BY <1>3, <1>4 DEF Newest
<1>6. PICK q \in Isolates : AboutToStore(q)
  BY <1>5 DEF Custody
<1>7. issued[row.env.pair.grant] = row.env.pair.n + 1
  BY <1>6, InHand
<1> QED
  BY <1>1, <1>3, <1>7 DEF Newest

LEMMA ForfeitCustody ==
    ASSUME IInv, Custody, NEW p \in Isolates, Forfeit(p), Others(p),
           row' = row, issued' = issued
    PROVE  Custody'
<1>1. lost \subseteq lost'
  BY DEF Forfeit
<1>2. CASE ~ AboutToStore(p)
  BY <1>1, <1>2, Bystander
<1>3. CASE AboutToStore(p)
  <2>1. row.env.pair.grant \in lost'
    BY <1>3 DEF AboutToStore, Newest, Forfeit
  <2> QED
    BY <2>1 DEF Custody
<1> QED
  BY <1>2, <1>3

LEMMA ReactivateCustody ==
    ASSUME IInv, Custody, Reactivate
    PROVE  Custody'
<1>1. UNCHANGED <<lost, issued>> /\ UNCHANGED isoVars
  BY DEF Reactivate, serverVars
<1>2. CASE row.status = "gone"
  BY <1>1, <1>2, NobodyMoves DEF Reactivate
<1>3. CASE row.status # "gone"
  <2>1. row'.env = owner.env /\ owner.env \in Envelope
    BY <1>3 DEF Reactivate, IInv, TypeOK, Bookkeeping, OwnerAhead
  <2>2. owner.env.pair.n = 1 /\ issued[owner.env.pair.grant] = 1
    BY DEF Reactivate, IInv, Bookkeeping, OwnerAhead
  <2>3. row'.env.pair = Newest'
    BY <1>1, <2>1, <2>2, PairType DEF Newest, Pair
  <2> QED
    BY <2>3 DEF Custody
<1> QED
  BY <1>2, <1>3

\* An action of one isolate leaves the others alone.
LEMMA LeavesOthers ==
    ASSUME IInv, NEW p \in Isolates,
           BuildClient(p) \/ Call(p) \/ Progress(p) \/ Faults(p)
    PROVE  Others(p)
<1> USE DEF IInv, TypeOK, Others, Goto, Finish
<1>1. CASE BuildClient(p)
  BY <1>1 DEF BuildClient
<1>2. CASE Call(p) \/ OpenRow(p) \/ Reseal(p)
  BY <1>2 DEF Call, OpenRow, Reseal
<1>3. CASE StartRefresh(p) \/ RefreshGranted(p) \/ RefreshRefused(p) \/ AnswerLost(p)
  BY <1>3 DEF StartRefresh, RefreshGranted, RefreshRefused, AnswerLost
<1>4. CASE StoreUnacknowledged(p) \/ Send(p) \/ Resend(p) \/ Unauthorized(p)
  BY <1>4 DEF StoreUnacknowledged, Send, Resend, Unauthorized, Pin
<1>5. CASE MarkBroken(p) \/ BreakUnacknowledged(p) \/ Alert(p) \/ Abort(p) \/ Discard(p)
  BY <1>5 DEF MarkBroken, BreakUnacknowledged, Alert, Abort, Discard, Pin
<1>6. ASSUME NEW env, TokenReady(p, env)
      PROVE  \A q \in Isolates \ {p} : ctl'[q] = ctl[q]
  BY <1>6, TokenReadyMoves DEF Moved
<1>7. CASE UseOpened(p)
  BY <1>6, <1>7 DEF UseOpened
<1>8. CASE Poll(p)
  BY <1>6, <1>8 DEF Poll, Adopt
<1>9. CASE Store(p)
  BY <1>6, <1>9 DEF Store, Adopt
<1>10. CASE Reread(p)
  BY <1>6, <1>10 DEF Reread, Adopt
<1> QED
  BY <1>1, <1>2, <1>3, <1>4, <1>5, <1>7, <1>8, <1>9, <1>10 DEF Progress, Faults

LEMMA IsolateCustody ==
    ASSUME MaxDeploy = 1, IInv, Custody, NEW p \in Isolates,
           BuildClient(p) \/ Call(p) \/ Progress(p) \/ Faults(p)
    PROVE  Custody'
<1> DEFINE special == \/ RefreshGranted(p) \/ AnswerLost(p) \/ Store(p)
                      \/ StoreUnacknowledged(p) \/ Abort(p) \/ Discard(p)
<1>1. CASE RefreshGranted(p) \/ AnswerLost(p)
  BY <1>1, GrantedCustody, AnswerLostCustody
<1>2. CASE StoreUnacknowledged(p)
  BY <1>2, SwapCustody DEF StoreUnacknowledged, serverVars
<1>3. CASE Store(p)
  <2>1. CASE CanSwap(opened[p])
    BY <1>3, <2>1, SwapCustody DEF Store, serverVars
  <2>2. CASE ~ CanSwap(opened[p])
    <3>1. UNCHANGED <<row, opened, pinned, dep, issued, lost>> /\ Others(p)
      BY <1>3, <2>2 DEF Store, serverVars, Others, IInv, TypeOK
    <3>2. row.status = "gone" \/ ~ AboutToStore(p)
      BY <2>2 DEF CanSwap, AboutToStore
    <3> QED
      BY <3>1, <3>2, Bystander DEF Custody
  <2> QED
    BY <2>1, <2>2
<1>4. CASE Abort(p) \/ Discard(p)
  <2>1. Others(p) /\ Forfeit(p) /\ row' = row /\ issued' = issued
    BY <1>4 DEF Abort, Discard, Pin, Others, IInv, TypeOK, serverVars
  <2> QED
    BY <2>1, ForfeitCustody
<1>5. CASE Reseal(p)
  <2>1. row'.env = row.env /\ row'.status = row.status /\ issued' = issued /\ lost' = lost
    <3>1. row'.env \in Envelope /\ row.env \in Envelope
      BY <1>5, ResealIInv DEF IInv, TypeOK
    <3>2. CASE RowKept
      BY <1>5, <3>2 DEF RowKept, Reseal, serverVars
    <3>3. CASE RowResealed
      BY <1>5, <3>1, <3>3, OneKey DEF RowResealed, Reseal, serverVars
    <3> QED
      BY <1>5, <3>2, <3>3, ResealRow
  <2> QED
    BY <1>5, <2>1, LeavesOthers, Bystander DEF Progress, Reseal, AboutToStore
<1>6. CASE ~ special /\ ~ Reseal(p)
  <2>1. /\ ctl[p].at # "store"
        /\ UNCHANGED <<issued, lost>>
        /\ RowKept \/ RowBroken
    BY <1>6 DEF Progress, Faults, BuildClient, Call, OpenRow, UseOpened,
       StartRefresh, RefreshRefused, Poll, Reread, Send, Resend, Unauthorized,
       MarkBroken, BreakUnacknowledged, Alert, serverVars, RowKept, RowBroken
  <2>2. row'.env = row.env /\ (row'.status # "gone" => row.status # "gone")
    BY <2>1 DEF IInv, TypeOK, RowKept, RowBroken
  <2> QED
    BY <1>6, <2>1, <2>2, LeavesOthers, Bystander DEF AboutToStore
<1> QED
  BY <1>1, <1>2, <1>3, <1>4, <1>5, <1>6

LEMMA CustodyStep ==
    ASSUME MaxDeploy = 1, IInv, Custody, [Next]_vars
    PROVE  Custody'
<1>1. ASSUME NEW g \in Grants, Authorize(g) PROVE Custody'
  <2>1. issued[row.env.pair.grant] # 0
    BY PairType DEF IInv, TypeOK, Bookkeeping, GrantsInOrder
  <2>2. issued'[row.env.pair.grant] = issued[row.env.pair.grant]
    BY <1>1, <2>1, PairType DEF Authorize, IInv, TypeOK
  <2> QED
    BY <1>1, <2>2, NobodyMoves DEF Authorize
<1>2. CASE OwnerNext
  <2>1. CASE CheckAccount \/ Disconnect \/ RevokeGrant \/ OwnerAbort
    BY <2>1, NobodyMoves DEF CheckAccount, Disconnect, RevokeGrant, OwnerAbort, serverVars
  <2>2. CASE Delete
    BY <2>2 DEF Delete, Custody, IInv, TypeOK
  <2> QED
    BY <1>1, <1>2, <2>1, <2>2, ReactivateCustody DEF OwnerNext
<1>3. CASE WorldNext
  BY <1>3, NobodyMoves DEF WorldNext, Expire, CustomerRevokes, Deploy, serverVars
<1>4. CASE UNCHANGED vars
  BY <1>4, NobodyMoves DEF vars, isoVars
<1> QED
  BY <1>2, <1>3, <1>4, IsolateCustody DEF Next

\* As long as one encryption key is in use, the newest token pair of a live
\* grant is in the row or about to be stored, however many isolates refresh at
\* once: the compare-and-swap of service.ts:450-460 loses no token by itself.
THEOREM NewestPairIsKept ==
    ASSUME MaxDeploy = 1
    PROVE  Spec => []Custody
<1>1. Init => Custody
  <2> SUFFICES ASSUME Init PROVE Custody
    OBVIOUS
  <2>1. row.env.pair = [grant |-> 1, n |-> 1]
    BY DEF Init
  <2>2. issued[1] = 1
    BY BoundsAssumption DEF Init, Grants
  <2> QED
    BY <2>1, <2>2 DEF Custody, Newest
<1>2. IInv /\ Custody /\ [Next]_vars => Custody'
  BY CustodyStep
<1> QED
  BY <1>1, <1>2, Inductive, PTL DEF Spec

-----------------------------------------------------------------------------
(* One alert per grant: markBroken's compare-and-set hands the duty to      *)
(* alert to a single isolate, and only a reconnect makes it available again.*)

Owed == IF row.status = "active" THEN 1 ELSE 0

LEMMA AlertingFinite ==
    ASSUME NEW S \in SUBSET Isolates
    PROVE  IsFiniteSet(S) /\ Cardinality(S) \in Nat
BY ConfigAssumption, FS_Subset, FS_CardinalityType

LEMMA OnlyBreakingAlerts ==
    ASSUME IInv, NEW p \in Isolates, ~ MarkBroken(p),
           BuildClient(p) \/ Call(p) \/ Progress(p) \/ Faults(p)
    PROVE  ctl'[p].at # "alert"
<1> USE DEF IInv, Places
<1>1. CASE BuildClient(p) \/ Call(p) \/ OpenRow(p) \/ Reseal(p)
  BY <1>1, GotoMoves, FinishMoves DEF BuildClient, Call, OpenRow, Reseal
<1>2. CASE UseOpened(p)
  BY <1>2, GotoMoves, TokenReadyMoves DEF UseOpened
<1>3. CASE StartRefresh(p) \/ RefreshRefused(p) \/ AnswerLost(p)
  BY <1>3, GotoMoves, FinishMoves DEF StartRefresh, RefreshRefused, AnswerLost
<1>4. CASE RefreshGranted(p)
  BY <1>4 DEF RefreshGranted, TypeOK, Control
<1>5. CASE Poll(p)
  <2>1. CASE ctl' = [ctl EXCEPT ![p].polls = @ + 1]
    BY <1>5, <2>1 DEF Poll, TypeOK, Control
  <2>2. CASE Goto(p, "break") \/ Adopt(p, row.env)
    BY <2>2, GotoMoves, TokenReadyMoves DEF Adopt
  <2> QED
    BY <1>5, <2>1, <2>2 DEF Poll
<1>6. CASE Store(p)
  <2>1. CASE CanSwap(opened[p])
    BY <1>6, <2>1, TokenReadyMoves DEF Store, Adopt
  <2>2. CASE ~ CanSwap(opened[p])
    BY <1>6, <2>2 DEF Store, TypeOK, Control
  <2> QED
    BY <2>1, <2>2
<1>7. CASE Reread(p)
  BY <1>7, FinishMoves, TokenReadyMoves DEF Reread, Adopt
<1>8. CASE StoreUnacknowledged(p) \/ BreakUnacknowledged(p) \/ Send(p) \/ Resend(p)
  BY <1>8, GotoMoves, FinishMoves DEF StoreUnacknowledged, BreakUnacknowledged, Send, Resend
<1>9. CASE Unauthorized(p)
  <2>1. \/ Finish(p)
        \/ ctl' = [ctl EXCEPT ![p] = [At("token") EXCEPT !.goal = "unauth"]]
        \/ ctl' = [ctl EXCEPT ![p] = At("break")]
    BY <1>9 DEF Unauthorized
  <2> QED
    BY <2>1, FinishMoves DEF At, TypeOK
<1>10. CASE Alert(p) \/ Abort(p) \/ Discard(p)
  <2>1. ctl' = [ctl EXCEPT ![p] = At("off")] \/ ctl' = [ctl EXCEPT ![p] = At("idle")]
    BY <1>10 DEF Alert, Abort, Discard
  <2> QED
    BY <2>1, AtType, Update
<1> QED
  BY <1>1, <1>2, <1>3, <1>4, <1>5, <1>6, <1>7, <1>8, <1>9, <1>10 DEF Progress, Faults

\* No isolate starts to alert except by breaking the connection itself.
LEMMA AlertingSet ==
    ASSUME IInv, NEW p \in Isolates,
           BuildClient(p) \/ Call(p) \/ Progress(p) \/ Faults(p)
    PROVE  \/ Alerting' \subseteq Alerting
           \/ MarkBroken(p) /\ row.status = "active" /\ Alerting' = Alerting \cup {p}
<1> USE DEF Alerting
<1>1. Others(p)
  BY LeavesOthers
<1>2. CASE ctl'[p].at # "alert"
  BY <1>1, <1>2 DEF Others
<1>3. CASE ctl'[p].at = "alert"
  <2>1. CASE MarkBroken(p)
    <3>1. CASE row.status = "active"
      BY <1>1, <1>3, <2>1, <3>1 DEF Others
    <3>2. CASE row.status # "active"
      BY <1>3, <2>1, <3>2, AtType DEF MarkBroken, IInv, TypeOK, Places
    <3> QED
      BY <3>1, <3>2
  <2>2. CASE ~ MarkBroken(p)
    BY <1>3, <2>2, OnlyBreakingAlerts
  <2> QED
    BY <2>1, <2>2
<1> QED
  BY <1>2, <1>3

\* The arithmetic of one step: a duty moves from the row to an isolate to the
\* owner's inbox, or is dropped; it is created only with a newer grant.
LEMMA DutiesMove ==
    ASSUME IInv, TypeOK', AlertsBounded,
           alerts' + Cardinality(Alerting') + Owed' - row'.env.pair.grant
               <= alerts + Cardinality(Alerting) + Owed - row.env.pair.grant
    PROVE  AlertsBounded'
<1>1. Alerting \in SUBSET Isolates /\ Alerting' \in SUBSET Isolates
  BY DEF Alerting
<1>2. /\ Cardinality(Alerting) \in Nat /\ Cardinality(Alerting') \in Nat
      /\ row.env.pair.grant \in Nat /\ row'.env.pair.grant \in Nat
      /\ alerts \in Nat /\ alerts' \in Nat /\ Owed \in Nat /\ Owed' \in Nat
  BY <1>1, AlertingFinite, PairType DEF IInv, TypeOK, Owed
<1>3. alerts + Cardinality(Alerting) + Owed <= row.env.pair.grant
  BY DEF AlertsBounded, Owed
<1>4. alerts' + Cardinality(Alerting') + Owed' <= row'.env.pair.grant
  BY <1>2, <1>3
<1> QED
  BY <1>4 DEF AlertsBounded, Owed

LEMMA AlertsStep ==
    ASSUME IInv, AlertsBounded, [Next]_vars
    PROVE  AlertsBounded'
<1>1. TypeOK'
  BY NextIInv DEF IInv
<1>2. Alerting \in SUBSET Isolates /\ Alerting' \in SUBSET Isolates
  BY DEF Alerting
<1>3. /\ IsFiniteSet(Alerting) /\ IsFiniteSet(Alerting')
      /\ Cardinality(Alerting) \in Nat /\ Cardinality(Alerting') \in Nat
      /\ row.env.pair.grant \in Nat /\ row'.env.pair.grant \in Nat
      /\ alerts \in Nat /\ alerts' \in Nat /\ Owed \in {0, 1} /\ Owed' \in {0, 1}
  BY <1>1, <1>2, AlertingFinite, PairType DEF IInv, TypeOK, Owed
<1>4. ASSUME NEW p \in Isolates, BuildClient(p) \/ Call(p) \/ Progress(p) \/ Faults(p)
      PROVE  AlertsBounded'
  <2>1. CASE Alert(p)
    <3>1. p \in Alerting /\ alerts' = alerts + 1 /\ Owed' = Owed
          /\ row'.env.pair.grant = row.env.pair.grant
      BY <2>1 DEF Alert, Alerting, Owed
    <3>2. Alerting' = Alerting \ {p}
      <4>1. ctl'[p].at = "off"
        BY <2>1, AtType, Update DEF Alert, IInv, Places
      <4>2. Others(p)
        BY <1>4, LeavesOthers
      <4> QED
        BY <4>1, <4>2 DEF Alerting, Others
    <3>3. Cardinality(Alerting') = Cardinality(Alerting) - 1
      BY <1>3, <3>1, <3>2, FS_RemoveElement
    <3> QED
      BY <1>1, <1>3, <3>1, <3>3, DutiesMove
  <2>2. CASE MarkBroken(p) /\ row.status = "active" /\ Alerting' = Alerting \cup {p}
    <3>1. /\ Owed = 1 /\ Owed' = 0 /\ alerts' = alerts
          /\ row'.env.pair.grant = row.env.pair.grant
      BY <2>2 DEF MarkBroken, Owed, IInv, TypeOK
    <3>2. Cardinality(Alerting') <= Cardinality(Alerting) + 1
      BY <1>3, <2>2, FS_AddElement
    <3> QED
      BY <1>1, <1>3, <3>1, <3>2, DutiesMove
  <2>3. CASE ~ Alert(p) /\ Alerting' \subseteq Alerting
    <3>1. Cardinality(Alerting') <= Cardinality(Alerting)
      BY <1>3, <2>3, FS_Subset
    <3>2. alerts' = alerts
      BY <1>4, <2>3 DEF Progress, Faults, BuildClient, Call, OpenRow, Reseal, UseOpened,
         StartRefresh, RefreshGranted, RefreshRefused, Poll, Store, Reread, Send, Resend,
         Unauthorized, MarkBroken, AnswerLost, StoreUnacknowledged, BreakUnacknowledged, Abort, Discard
    <3>3. Owed' <= Owed /\ row'.env.pair.grant = row.env.pair.grant
      <4>1. RowKept \/ RowResealed \/ RowRotated \/ RowBroken
        BY <1>4, IsolateRow
      <4> QED
        BY <4>1 DEF RowKept, RowResealed, RowRotated, RowBroken, Owed, IInv, TypeOK
    <3> QED
      BY <1>1, <1>3, <3>1, <3>2, <3>3, DutiesMove
  <2> QED
    BY <1>4, <2>1, <2>2, <2>3, AlertingSet
<1>5. CASE OwnerNext \/ WorldNext \/ UNCHANGED vars
  <2>1. UNCHANGED <<ctl, alerts>>
    BY <1>5 DEF OwnerNext, WorldNext, vars, Authorize, CheckAccount, Reactivate, Disconnect,
       RevokeGrant, Delete, OwnerAbort, Expire, CustomerRevokes, Deploy, isoVars
  <2>2. Alerting' = Alerting
    BY <2>1 DEF Alerting
  <2>3. RowKept \/ RowReplaced \/ RowDeleted
    BY <1>5, OutsideRow
  <2>4. Owed' - row'.env.pair.grant <= Owed - row.env.pair.grant
    <3>1. CASE RowKept
      BY <1>3, <3>1 DEF RowKept, Owed
    <3>2. CASE RowReplaced
      BY <1>3, <3>2 DEF RowReplaced
    <3>3. CASE RowDeleted
      BY <1>3, <3>3 DEF RowDeleted, Owed, IInv, TypeOK
    <3> QED
      BY <2>3, <3>1, <3>2, <3>3
  <2> QED
    BY <1>1, <1>3, <2>1, <2>2, <2>4, DutiesMove
<1> QED
  BY <1>4, <1>5 DEF Next

\* However many isolates see a connection fail, its owner is mailed at most
\* once per grant: markBroken's "where status = active" elects one of them.
THEOREM OneAlertPerGrant == Spec => []AlertsBounded
<1>1. Init => AlertsBounded
  <2> SUFFICES ASSUME Init PROVE AlertsBounded
    OBVIOUS
  <2>1. Alerting = {}
    BY AtType DEF Init, Alerting, Places
  <2>2. Cardinality(Alerting) = 0
    BY <2>1, FS_EmptySet
  <2>3. row.env.pair.grant = 1 /\ row.status = "active" /\ alerts = 0
    BY DEF Init
  <2> QED
    BY <2>2, <2>3 DEF AlertsBounded
<1>2. IInv /\ AlertsBounded /\ [Next]_vars => AlertsBounded'
  BY AlertsStep
<1> QED
  BY <1>1, <1>2, Inductive, PTL DEF Spec

=============================================================================
