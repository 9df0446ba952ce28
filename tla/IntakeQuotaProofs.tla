------------------------- MODULE IntakeQuotaProofs -------------------------
(***************************************************************************)
(* The invariants of IntakeQuota hold for any number of handlers, any set  *)
(* of reporters and all limits.  QInv is inductive: one lemma per action   *)
(* says that the action preserves it.                                      *)
(***************************************************************************)
EXTENDS IntakeQuota, FiniteSetTheorems, TLAPS

USE DEF Usage, Nothing, Places, Idle, table, history

(* Counting handlers: all the sets that are counted are sets of handlers.  *)

\* A set of handlers that lost members, or none, is no larger.
LEMMA CountShrinks ==
    ASSUME NEW S \in SUBSET Mails, NEW T \in SUBSET S
    PROVE  Cardinality(S) \in Nat /\ Cardinality(T) \in Nat /\ Cardinality(T) <= Cardinality(S)
<1>1. IsFiniteSet(S) /\ IsFiniteSet(T)
  BY FiniteAssumption, FS_Subset
<1> QED
  BY <1>1, FS_Subset, FS_CardinalityType

\* A set of handlers that one handler may have joined is larger by one at most.
LEMMA CountGrows ==
    ASSUME NEW S \in SUBSET Mails, NEW p \in Mails, NEW T \in SUBSET (S \cup {p})
    PROVE  Cardinality(S) \in Nat /\ Cardinality(T) \in Nat /\ Cardinality(T) <= Cardinality(S) + 1
<1>1. IsFiniteSet(S) /\ IsFiniteSet(S \cup {p})
  BY FiniteAssumption, FS_Subset
<1>2. Cardinality(S \cup {p}) <= Cardinality(S) + 1
  BY <1>1, FS_AddElement, FS_CardinalityType
<1>3. IsFiniteSet(T) /\ Cardinality(T) <= Cardinality(S \cup {p})
  BY <1>1, FS_Subset
<1> QED
  BY <1>1, <1>2, <1>3, FS_CardinalityType

\* A set of handlers that one handler has left is smaller by one at least.
LEMMA CountLoses ==
    ASSUME NEW S \in SUBSET Mails, NEW p \in S, NEW T \in SUBSET (S \ {p})
    PROVE  Cardinality(S) \in Nat /\ Cardinality(T) \in Nat /\ Cardinality(T) + 1 <= Cardinality(S)
<1>1. IsFiniteSet(S) /\ IsFiniteSet(S \ {p})
  BY FiniteAssumption, FS_Subset
<1>2. Cardinality(S \ {p}) = Cardinality(S) - 1
  BY <1>1, FS_RemoveElement
<1>3. IsFiniteSet(T) /\ Cardinality(T) <= Cardinality(S \ {p})
  BY <1>1, FS_Subset
<1> QED
  BY <1>1, <1>2, <1>3, FS_CardinalityType

\* The counted sets are sets of handlers.
LEMMA CountedSets ==
    /\ \A k : Charged(k) \in SUBSET Mails /\ Coming(k) \in SUBSET Mails
    /\ \A k : Charged(k)' \in SUBSET Mails /\ Coming(k)' \in SUBSET Mails
    /\ Adding \in SUBSET Mails /\ Adding' \in SUBSET Mails
BY DEF Charged, Coming, Adding

\* Claimed senders with a row can be counted.
LEMMA ClaimedRowsFinite ==
    ASSUME NEW R
    PROVE  IsFiniteSet(R \cap Claimed) /\ Cardinality(R \cap Claimed) \in Nat
BY FiniteAssumption, FS_Subset, FS_CardinalityType

\* The limits of a key are positive numbers.
LEMMA LimitPositive ==
    ASSUME NEW k
    PROVE  /\ Limit(k).reports \in Nat \ {0}
           /\ Limit(k).bytes \in Nat \ {0}
           /\ Limit(k).slots \in Nat \ {0}
BY LimitsAssumption DEF Limit

\* A step that changes neither the row of k nor its history, and by which no
\* handler enters the counted sets of k, keeps what is counted for k.
LEMMA CountsFrame ==
    ASSUME NEW k \in Keys, TypeOK, OwnCounts(k), SentCounts(k),
           used'[k] = used[k], accepted'[k] = accepted[k],
           sent'[k] \in Nat, sent'[k] >= sent[k], evicted \subseteq evicted',
           Charged(k)' \subseteq Charged(k), Coming(k)' \subseteq Coming(k)
    PROVE  OwnCounts(k)' /\ SentCounts(k)'
<1>1. /\ Cardinality(Charged(k)) \in Nat /\ Cardinality(Charged(k)') \in Nat
      /\ Cardinality(Charged(k)') <= Cardinality(Charged(k))
  BY CountShrinks, CountedSets
<1>2. /\ Cardinality(Coming(k)) \in Nat /\ Cardinality(Coming(k)') \in Nat
      /\ Cardinality(Coming(k)') <= Cardinality(Coming(k))
  BY CountShrinks, CountedSets
<1>3. used[k].reports \in Nat /\ accepted[k] \in Nat /\ sent[k] \in Nat
  BY DEF TypeOK
<1>4. Limit(k)' = Limit(k)
  BY DEF Limit
<1> QED
  BY <1>1, <1>2, <1>3, <1>4 DEF OwnCounts, SentCounts

\* A step that inserts no row of a claimed sender, and after which no handler
\* is about to that was not before, keeps the bound on the slots.
LEMMA SlotsFrame ==
    ASSUME SlotsCount, rows' \cap Claimed = rows \cap Claimed, Adding' \subseteq Adding
    PROVE  SlotsCount'
<1>1. /\ Cardinality(Adding) \in Nat /\ Cardinality(Adding') \in Nat
      /\ Cardinality(Adding') <= Cardinality(Adding)
  BY CountShrinks, CountedSets
<1>2. Cardinality(rows \cap Claimed) \in Nat
  BY ClaimedRowsFinite
<1>3. Cardinality(Mails) \in Nat /\ ClaimedSlots \in Nat
  BY FiniteAssumption, FS_CardinalityType, LimitsAssumption
<1>4. Cardinality(rows' \cap Claimed) = Cardinality(rows \cap Claimed)
  BY Zenon
<1> QED
  BY <1>1, <1>2, <1>3, <1>4 DEF SlotsCount

-----------------------------------------------------------------------------
\* In the initial state nothing is counted.
LEMMA InitQInv == Init => QInv
<1> SUFFICES ASSUME Init PROVE QInv
  OBVIOUS
<1>1. TypeOK
  BY LimitsAssumption DEF Init, TypeOK, Handler
<1>2. (\A p \in Mails : SoundHandler(p)) /\ Rowless
  BY DEF Init, SoundHandler, Rowless
<1>3. TotalCounts
  BY LimitsAssumption DEF Init, TotalCounts, Largest
<1>4. ASSUME NEW k \in Keys PROVE OwnCounts(k) /\ SentCounts(k)
  <2>1. Charged(k) = {} /\ Coming(k) = {}
    BY DEF Init, Charged, Coming
  <2> QED
    BY <2>1, FS_EmptySet, LimitPositive DEF Init, OwnCounts, SentCounts
<1>5. SlotsCount
  <2>1. rows \cap Claimed = {} /\ Adding = {}
    BY DEF Init, Adding
  <2>2. Cardinality(Mails) \in Nat
    BY FiniteAssumption, FS_CardinalityType
  <2>3. Cardinality(rows \cap Claimed) = 0 /\ Cardinality(Adding) = 0
    BY <2>1, FS_EmptySet, Zenon
  <2>4. Cardinality(Mails) # 0
    BY FiniteAssumption, FS_EmptySet
  <2> QED
    BY <2>2, <2>3, <2>4, LimitsAssumption DEF SlotsCount
<1> QED
  BY <1>1, <1>2, <1>3, <1>4, <1>5 DEF QInv

\* An arriving message is counted as sent before its handler starts.
LEMMA ArriveQInv ==
    ASSUME QInv, NEW p \in Mails, NEW r \in Keys, NEW s \in Sizes, Arrive(p, r, s)
    PROVE  QInv'
<1> USE DEF QInv
<1>1. TypeOK'
  BY LimitsAssumption DEF TypeOK, Arrive, Handler
<1>2. \A q \in Mails : SoundHandler(q)'
  BY LimitsAssumption, LimitPositive DEF TypeOK, Arrive, SoundHandler, Limit
<1>3. Rowless' /\ TotalCounts'
  BY DEF Arrive, Rowless, TotalCounts
<1>4. ASSUME NEW k \in Keys PROVE OwnCounts(k)' /\ SentCounts(k)'
  <2>1. Charged(k)' \subseteq Charged(k)
    BY DEF TypeOK, Arrive, Charged
  <2>2. CASE k # r
    <3>1. Coming(k)' \subseteq Coming(k)
      BY <2>2 DEF TypeOK, Arrive, Coming
    <3>2. sent'[k] = sent[k] /\ sent[k] \in Nat
      BY <2>2 DEF Arrive, TypeOK
    <3> QED
      BY <2>1, <3>1, <3>2, CountsFrame DEF Arrive
  <2>3. CASE k = r
    <3>1. Coming(k)' \subseteq Coming(k) \cup {p}
      BY DEF TypeOK, Arrive, Coming
    <3>2. /\ Cardinality(Coming(k)) \in Nat /\ Cardinality(Coming(k)') \in Nat
          /\ Cardinality(Coming(k)') <= Cardinality(Coming(k)) + 1
      BY <3>1, CountGrows, CountedSets
    <3>3. sent'[k] = sent[k] + 1 /\ sent[k] \in Nat /\ used[k].reports \in Nat
      BY <2>3 DEF Arrive, TypeOK
    <3>4. SentCounts(k)'
      BY <3>2, <3>3 DEF SentCounts, Arrive
    <3>5. /\ Cardinality(Charged(k)) \in Nat /\ Cardinality(Charged(k)') \in Nat
          /\ Cardinality(Charged(k)') <= Cardinality(Charged(k))
      BY <2>1, CountShrinks, CountedSets
    <3>6. OwnCounts(k)'
      BY <3>5, <3>3 DEF OwnCounts, Arrive, TypeOK, Limit
    <3> QED
      BY <3>4, <3>6
  <2> QED
    BY <2>2, <2>3
<1>5. SlotsCount'
  <2>1. Adding' \subseteq Adding
    BY DEF TypeOK, Arrive, Adding
  <2> QED
    BY <2>1, SlotsFrame DEF Arrive
<1> QED
  BY <1>1, <1>2, <1>3, <1>4, <1>5

\* A handler that goes on or leaves: only its own entry changes, it keeps
\* its key while it is busy, and it enters none of the counted sets.
Moves(p) ==
    /\ mail' \in [Mails -> Handler]
    /\ \A q \in Mails \ {p} : mail'[q] = mail[q]
    /\ SoundHandler(p)'

Quietly(p) ==
    /\ mail'[p].at # "idle" => mail'[p].key = mail[p].key
    /\ mail'[p].at \in {"total", "refund"} => mail[p].at \in {"total", "refund"}
    /\ mail'[p].at \in {"look", "slots", "victim", "evict", "charge"} =>
          mail[p].at \in {"look", "slots", "victim", "evict", "charge"}
    /\ mail'[p].at = "charge" /\ mail'[p].key \in Claimed \ rows => mail[p].at = "charge"

\* Where a handler goes.
LEMMA GotoMoves ==
    ASSUME TypeOK, NEW p \in Mails, NEW place \in Places, Goto(p, place)
    PROVE  /\ mail' \in [Mails -> Handler]
           /\ mail'[p].at = place
           /\ mail'[p].key = mail[p].key
           /\ mail'[p].size = mail[p].size
           /\ mail'[p].victim = mail[p].victim
           /\ \A q \in Mails \ {p} : mail'[q] = mail[q]
BY DEF TypeOK, Goto, Handler

\* A handler that leaves does so quietly.
LEMMA LeaveMoves ==
    ASSUME TypeOK, NEW p \in Mails, Leave(p)
    PROVE  Moves(p) /\ Quietly(p) /\ mail'[p].at = "idle"
<1>1. Idle \in Handler
  BY DEF Handler
<1>2. mail' \in [Mails -> Handler] /\ mail'[p] = Idle /\ \A q \in Mails \ {p} : mail'[q] = mail[q]
  BY <1>1 DEF TypeOK, Leave
<1> QED
  BY <1>2 DEF Moves, Quietly, SoundHandler

\* The other handlers stay sound.
LEMMA MovesSound ==
    ASSUME \A q \in Mails : SoundHandler(q), NEW p \in Mails, Moves(p)
    PROVE  \A q \in Mails : SoundHandler(q)'
<1>1. ASSUME NEW q \in Mails \ {p} PROVE SoundHandler(q)'
  BY <1>1 DEF Moves, SoundHandler, Limit
<1> QED
  BY <1>1 DEF Moves

\* A quiet move adds to none of the counted sets.
LEMMA QuietSets ==
    ASSUME TypeOK, NEW p \in Mails, Moves(p), Quietly(p)
    PROVE  /\ \A k \in Keys : Charged(k)' \subseteq Charged(k) /\ Coming(k)' \subseteq Coming(k)
           /\ rows \cap Claimed \subseteq rows' => Adding' \subseteq Adding
<1>1. ASSUME NEW k \in Keys PROVE Charged(k)' \subseteq Charged(k)
  BY DEF Moves, Quietly, Charged
<1>2. ASSUME NEW k \in Keys PROVE Coming(k)' \subseteq Coming(k)
  BY DEF Moves, Quietly, Coming
<1>3. rows \cap Claimed \subseteq rows' => Adding' \subseteq Adding
  BY DEF Moves, Quietly, Adding
<1> QED
  BY <1>1, <1>2, <1>3

\* A quiet move that changes nothing else preserves the invariant.
LEMMA QuietQInv ==
    ASSUME QInv, NEW p \in Mails, Moves(p), Quietly(p), UNCHANGED <<table, history>>
    PROVE  QInv'
<1> USE DEF QInv
<1>1. TypeOK'
  BY DEF TypeOK, Moves
<1>2. \A q \in Mails : SoundHandler(q)'
  BY MovesSound
<1>3. Rowless' /\ TotalCounts'
  BY DEF Rowless, TotalCounts
<1>4. ASSUME NEW k \in Keys PROVE OwnCounts(k)' /\ SentCounts(k)'
  <2>1. sent'[k] = sent[k] /\ sent[k] \in Nat
    BY DEF TypeOK
  <2> QED
    BY <2>1, QuietSets, CountsFrame
<1>5. SlotsCount'
  BY QuietSets, SlotsFrame
<1> QED
  BY <1>1, <1>2, <1>3, <1>4, <1>5

-----------------------------------------------------------------------------
\* Looking a row up changes nothing: a claimed sender goes on to its charge
\* only if its row is there.
LEMMA LookUpQInv ==
    ASSUME QInv, NEW p \in Mails, LookUp(p)
    PROVE  QInv'
<1> DEFINE place == IF mail[p].key \in rows \cup Known THEN "charge" ELSE "slots"
<1>1. place \in Places /\ Goto(p, place)
  BY DEF LookUp
<1>2. /\ mail' \in [Mails -> Handler]
      /\ mail'[p].at = place
      /\ mail'[p].key = mail[p].key /\ mail'[p].size = mail[p].size
      /\ \A q \in Mails \ {p} : mail'[q] = mail[q]
  BY <1>1, GotoMoves DEF QInv
<1>3. Moves(p)
  BY <1>2 DEF QInv, Moves, SoundHandler, LookUp, Limit
<1>4. Quietly(p)
  BY <1>2, KeysAssumption DEF Quietly, LookUp, Unproven
<1> QED
  BY <1>3, <1>4, QuietQInv DEF LookUp

\* Picking the reporter that makes way changes nothing.
LEMMA PickVictimQInv ==
    ASSUME QInv, NEW p \in Mails, PickVictim(p)
    PROVE  QInv'
<1>1. mail[p].at = "victim" /\ mail[p].key \in Unknown /\ SoundHandler(p) /\ TypeOK
  BY DEF QInv, SoundHandler, PickVictim
<1>2. /\ mail' \in [Mails -> Handler]
      /\ mail'[p].at \in {"evict", "charge"}
      /\ mail'[p].at = "evict" => mail'[p].victim \in Unknown
      /\ mail'[p].key = mail[p].key /\ mail'[p].size = mail[p].size
      /\ \A q \in Mails \ {p} : mail'[q] = mail[q]
  <2>1. CASE \E v \in LeastUsed :
                mail' = [mail EXCEPT ![p].at = "evict", ![p].victim = v]
    <3>1. PICK v \in LeastUsed : mail' = [mail EXCEPT ![p].at = "evict", ![p].victim = v]
      BY <2>1
    <3>2. v \in Unknown
      BY DEF LeastUsed
    <3> QED
      BY <1>1, <3>1, <3>2 DEF TypeOK, Handler
  <2>2. CASE Goto(p, "charge")
    BY <1>1, <2>2, GotoMoves
  <2> QED
    BY <2>1, <2>2 DEF PickVictim
<1>3. Moves(p)
  BY <1>1, <1>2 DEF Moves, SoundHandler, Limit
<1>4. Quietly(p)
  BY <1>1, <1>2, KeysAssumption DEF Quietly, Unproven
<1> QED
  BY <1>3, <1>4, QuietQInv DEF PickVictim

\* A handler that fails leaves everything as it was.
LEMMA AbortQInv ==
    ASSUME QInv, NEW p \in Mails, Abort(p)
    PROVE  QInv'
BY LeaveMoves, QuietQInv DEF Abort, QInv

\* A claimed sender goes on to insert its row only if a slot was free: then
\* fewer rows than slots exist, and at most every handler adds one.
LEMMA CountSlotsQInv ==
    ASSUME QInv, NEW p \in Mails, CountSlots(p)
    PROVE  QInv'
<1> USE DEF QInv
<1>0. mail[p].key \in Keys /\ mail[p].size \in Sizes
  BY DEF SoundHandler, CountSlots
<1> DEFINE place == IF /\ Cardinality(Slots(mail[p].key)) >= Limit(mail[p].key).slots
                       /\ mail[p].key \notin Unproven THEN "victim" ELSE "charge"
           key   == IF /\ Cardinality(Slots(mail[p].key)) >= Limit(mail[p].key).slots
                       /\ mail[p].key \in Unproven THEN Overflow ELSE mail[p].key
<1>a. place \in Places /\ key \in Keys
  BY <1>0 DEF Keys, Unproven
<1>b. mail' = [mail EXCEPT ![p].at = place, ![p].key = key]
  BY DEF CountSlots
<1>c. /\ mail' \in [Mails -> Handler]
      /\ mail'[p].at = place /\ mail'[p].key = key /\ mail'[p].size = mail[p].size
      /\ \A q \in Mails \ {p} : mail'[q] = mail[q]
  <2> HIDE DEF place, key
  <2> QED
    BY <1>a, <1>b DEF TypeOK, Handler
<1>1. TypeOK'
  BY <1>c DEF TypeOK, CountSlots
<1>2. \A q \in Mails : SoundHandler(q)'
  <2>1. Limit(mail[p].key)' = Limit(mail[p].key)
    BY <1>c DEF Limit, Unproven
  <2>2. mail[p].size <= Limit(mail[p].key).bytes /\ mail[p].key \notin Known
    BY DEF SoundHandler, CountSlots
  <2>3. place = "victim" => key \in Unknown
    BY <1>0, <2>2 DEF Keys
  <2>4. place \in {"victim", "charge"}
    OBVIOUS
  <2>5. SoundHandler(p)'
    <3> HIDE DEF place, key
    <3> QED
      BY <1>0, <1>a, <1>c, <2>1, <2>2, <2>3, <2>4 DEF SoundHandler
  <2> QED
    BY <1>c, <2>5, MovesSound DEF Moves
<1>3. Rowless' /\ TotalCounts'
  BY DEF CountSlots, Rowless, TotalCounts
<1>4. ASSUME NEW k \in Keys PROVE OwnCounts(k)' /\ SentCounts(k)'
  <2>1. Charged(k)' \subseteq Charged(k)
    BY DEF TypeOK, CountSlots, Charged
  <2>2. CASE k # Overflow
    <3>1. Coming(k)' \subseteq Coming(k)
      BY <2>2 DEF TypeOK, CountSlots, Coming
    <3>2. sent'[k] = sent[k] /\ sent[k] \in Nat
      BY DEF TypeOK, CountSlots
    <3> QED
      BY <2>1, <3>1, <3>2, CountsFrame DEF CountSlots
  <2>3. CASE k = Overflow
    <3>1. SentCounts(k)'
      BY <2>3 DEF SentCounts
    <3>2. /\ Cardinality(Charged(k)) \in Nat /\ Cardinality(Charged(k)') \in Nat
          /\ Cardinality(Charged(k)') <= Cardinality(Charged(k))
      BY <2>1, CountShrinks, CountedSets
    <3>3. OwnCounts(k)'
      BY <3>2 DEF OwnCounts, CountSlots, TypeOK, Limit
    <3> QED
      BY <3>1, <3>3
  <2> QED
    BY <2>2, <2>3
<1>5. SlotsCount'
  <2>1. CASE mail[p].key \in Claimed /\ Cardinality(Slots(mail[p].key)) < ClaimedSlots
    <3>1. Slots(mail[p].key) = rows \cap Unproven
      BY <2>1 DEF Slots, Unproven
    <3>2. IsFiniteSet(rows \cap Unproven) /\ rows \cap Claimed \subseteq rows \cap Unproven
      <4>1. IsFiniteSet(Unproven)
        BY FiniteAssumption, FS_AddElement DEF Unproven
      <4> QED
        BY <4>1, FS_Subset DEF Unproven
    <3>3. Cardinality(rows \cap Claimed) <= Cardinality(rows \cap Unproven)
      BY <3>2, FS_Subset
    <3>4. /\ Cardinality(Adding') \in Nat /\ Cardinality(Mails) \in Nat
          /\ Cardinality(Adding') <= Cardinality(Mails)
      BY CountShrinks, CountedSets
    <3>5. Cardinality(rows \cap Claimed) \in Nat /\ Cardinality(rows \cap Unproven) \in Nat
      BY <3>2, ClaimedRowsFinite, FS_CardinalityType
    <3> QED
      BY <2>1, <3>1, <3>3, <3>4, <3>5, LimitsAssumption DEF SlotsCount, CountSlots
  <2>2. CASE ~ (mail[p].key \in Claimed /\ Cardinality(Slots(mail[p].key)) < ClaimedSlots)
    <3>1. Cardinality(Slots(mail[p].key)) \in Nat \/ mail[p].key \notin Claimed
      <4>1. IsFiniteSet(Unproven)
        BY FiniteAssumption, FS_AddElement DEF Unproven
      <4>2. IsFiniteSet(rows \cap Unproven)
        BY <4>1, FS_Subset
      <4> QED
        BY <4>2, FS_CardinalityType DEF Slots, Unproven
    <3>2. mail'[p].at = "charge" => mail'[p].key \notin Claimed
      BY <2>2, <3>1, KeysAssumption, LimitsAssumption DEF TypeOK, CountSlots, Limit, Unproven
    <3>3. Adding' \subseteq Adding
      BY <3>2 DEF TypeOK, CountSlots, Adding
    <3> QED
      BY <3>3, SlotsFrame DEF CountSlots
  <2> QED
    BY <2>1, <2>2
<1> QED
  BY <1>1, <1>2, <1>3, <1>4, <1>5


\* An evicted reporter loses its row and, with it, what the row counted.
LEMMA EvictQInv ==
    ASSUME QInv, NEW p \in Mails, Evict(p)
    PROVE  QInv'
<1> USE DEF QInv
<1> DEFINE v == mail[p].victim
<1>1. v \in Unknown /\ v \in Keys /\ mail[p].at = "evict" /\ mail[p].key \in Unknown
  BY DEF Evict, SoundHandler, Keys
<1>2. /\ rows' = rows \ {v} /\ used' = [used EXCEPT ![v] = Nothing]
      /\ evicted' = evicted \cup {v}
      /\ UNCHANGED <<total, sent, accepted, taken>>
  BY DEF Evict
<1>3. /\ mail' \in [Mails -> Handler]
      /\ mail'[p].at = "charge"
      /\ mail'[p].key = mail[p].key /\ mail'[p].size = mail[p].size
      /\ \A q \in Mails \ {p} : mail'[q] = mail[q]
  BY GotoMoves DEF Evict
<1>4. Moves(p)
  BY <1>1, <1>3 DEF Moves, SoundHandler, Limit
<1>5. Quietly(p)
  BY <1>1, <1>3, KeysAssumption DEF Quietly, Unproven
<1> HIDE DEF v
<1>6. TypeOK'
  BY <1>1, <1>2, <1>3 DEF TypeOK
<1>7. \A q \in Mails : SoundHandler(q)'
  BY <1>4, MovesSound
<1>8. Rowless'
  <2> SUFFICES ASSUME NEW k \in Keys \ rows' PROVE used'[k] = Nothing
    BY DEF Rowless
  <2>1. CASE k = v
    BY <1>1, <1>2, <2>1 DEF TypeOK
  <2>2. CASE k # v
    BY <1>1, <1>2, <2>2 DEF TypeOK, Rowless
  <2> QED
    BY <2>1, <2>2
<1>9. TotalCounts'
  BY <1>2 DEF TotalCounts
<1>10. ASSUME NEW k \in Keys PROVE OwnCounts(k)' /\ SentCounts(k)'
  <2>1. Charged(k)' \subseteq Charged(k) /\ Coming(k)' \subseteq Coming(k)
    BY <1>4, <1>5, QuietSets
  <2>2. CASE k # v
    <3>1. used'[k] = used[k] /\ accepted'[k] = accepted[k] /\ sent'[k] = sent[k] /\ sent[k] \in Nat
      BY <1>1, <1>2, <2>2 DEF TypeOK
    <3> QED
      BY <1>2, <2>1, <3>1, CountsFrame
  <2>3. CASE k = v
    <3>1. used'[k] = Nothing /\ k \in evicted'
      BY <1>1, <1>2, <2>3 DEF TypeOK
    <3>2. OwnCounts(k)'
      BY <3>1, LimitPositive DEF OwnCounts, Limit
    <3>3. /\ Cardinality(Coming(k)) \in Nat /\ Cardinality(Coming(k)') \in Nat
          /\ Cardinality(Coming(k)') <= Cardinality(Coming(k))
      BY <2>1, CountShrinks, CountedSets
    <3>4. used[k].reports \in Nat /\ sent[k] \in Nat
      BY DEF TypeOK
    <3>5. SentCounts(k)'
      BY <1>2, <3>1, <3>3, <3>4 DEF SentCounts
    <3> QED
      BY <3>2, <3>5
  <2> QED
    BY <2>2, <2>3
<1>11. SlotsCount'
  <2>1. rows' \cap Claimed = rows \cap Claimed
    BY <1>1, <1>2, KeysAssumption DEF Unproven
  <2> QED
    BY <2>1, <1>4, <1>5, QuietSets, SlotsFrame
<1> QED
  BY <1>6, <1>7, <1>8, <1>9, <1>10, <1>11

\* Refused by the total: the reporter gets back what this message added, which
\* is still in its row unless the row was deleted.
LEMMA RefundQInv ==
    ASSUME QInv, NEW p \in Mails, Refund(p)
    PROVE  QInv'
<1> USE DEF QInv
<1> DEFINE r == mail[p].key
           u == [reports |-> AtLeast0(used[r].reports - 1),
                 bytes |-> AtLeast0(used[r].bytes - mail[p].size)]
<1>1. r \in Unknown /\ r \in Keys /\ mail[p].at = "refund" /\ mail[p].size \in Nat
  BY LimitsAssumption DEF Refund, SoundHandler, Keys
<1>2. used' = [used EXCEPT ![r] = u] /\ UNCHANGED <<rows, total, history>>
  BY DEF Refund
<1>3. used[r] \in Usage
  BY <1>1 DEF TypeOK
<1>4. u \in Usage /\ u.reports <= used[r].reports /\ used[r].reports <= u.reports + 1
  BY <1>1, <1>3 DEF AtLeast0
<1>5. used[r] = Nothing => u = Nothing
  BY <1>1 DEF AtLeast0
<1>6. Moves(p) /\ Quietly(p) /\ mail'[p].at = "idle"
  BY LeaveMoves DEF Refund
<1> HIDE DEF u, r
<1>7. used' \in [Keys -> Usage] /\ used'[r] = u /\ \A k \in Keys \ {r} : used'[k] = used[k]
  BY <1>1, <1>2, <1>4 DEF TypeOK
<1>8. TypeOK'
  BY <1>2, <1>6, <1>7 DEF TypeOK, Moves
<1>9. \A q \in Mails : SoundHandler(q)'
  BY <1>6, MovesSound
<1>10. Rowless' /\ TotalCounts'
  BY <1>1, <1>2, <1>5, <1>7 DEF Rowless, TotalCounts
<1>11. ASSUME NEW k \in Keys PROVE OwnCounts(k)' /\ SentCounts(k)'
  <2>1. Charged(k)' \subseteq Charged(k) /\ Coming(k)' \subseteq Coming(k)
    BY <1>6, QuietSets
  <2>2. sent'[k] = sent[k] /\ sent[k] \in Nat /\ accepted[k] \in Nat /\ used[k].reports \in Nat
    BY <1>2 DEF TypeOK
  <2>3. CASE k # r
    <3>1. used'[k] = used[k] /\ accepted'[k] = accepted[k]
      BY <1>2, <1>7, <2>3
    <3> QED
      BY <1>2, <2>1, <2>2, <3>1, CountsFrame
  <2>4. CASE k = r
    <3>1. p \in Charged(k) /\ Charged(k)' \subseteq Charged(k) \ {p}
      BY <1>1, <1>6, <2>1, <2>4 DEF Charged, r
    <3>2. /\ Cardinality(Charged(k)) \in Nat /\ Cardinality(Charged(k)') \in Nat
          /\ Cardinality(Charged(k)') + 1 <= Cardinality(Charged(k))
      BY <3>1, CountLoses, CountedSets
    <3>3. /\ Cardinality(Coming(k)) \in Nat /\ Cardinality(Coming(k)') \in Nat
          /\ Cardinality(Coming(k)') <= Cardinality(Coming(k))
      BY <2>1, CountShrinks, CountedSets
    <3>4. used'[k] = u /\ u.reports \in Nat
      BY <1>4, <1>7, <2>4
    <3>5. u.reports <= used[k].reports /\ used[k].reports <= u.reports + 1
      BY <1>4, <2>4
    <3>6. Limit(k).reports \in Nat /\ Limit(k)' = Limit(k)
      BY LimitPositive DEF Limit
    <3>7. OwnCounts(k)'
      BY <1>2, <2>2, <3>2, <3>4, <3>5, <3>6 DEF OwnCounts
    <3>8. SentCounts(k)'
      BY <2>2, <3>3, <3>4, <3>5 DEF SentCounts
    <3> QED
      BY <3>7, <3>8
  <2> QED
    BY <2>3, <2>4
<1>12. SlotsCount'
  BY <1>2, <1>6, QuietSets, SlotsFrame
<1> QED
  BY <1>8, <1>9, <1>10, <1>11, <1>12

\* What the total grows to when a message fits is still capped.
LEMMA TotalGrows ==
    ASSUME QInv, NEW s \in Sizes, s <= MaxBytes, TotalFits(s)
    PROVE  /\ Add(total, s) \in Usage
           /\ Add(total, s).reports = total.reports + 1
           /\ Add(total, s).bytes = total.bytes + s
           /\ total.reports + 1 <= TotalReports
           /\ total.bytes + s <= Largest(TotalBytes, MaxBytes)
<1>1. total \in Usage /\ s \in Nat
  BY LimitsAssumption DEF QInv, TypeOK
<1>2. Add(total, s) = [reports |-> total.reports + 1, bytes |-> total.bytes + s]
  BY DEF Add
<1>3. total.reports = 0 => total.bytes = 0
  BY DEF QInv, TotalCounts
<1>4. total.reports + 1 <= TotalReports /\ total.bytes + s <= Largest(TotalBytes, MaxBytes)
  BY <1>1, <1>3, LimitsAssumption DEF TotalFits, Fits, Largest
<1> QED
  BY <1>1, <1>2, <1>4

\* The total took the message but the handler does not know.
LEMMA UnacknowledgedQInv ==
    ASSUME QInv, NEW p \in Mails, TotalUnacknowledged(p)
    PROVE  QInv'
<1> USE DEF QInv
<1> DEFINE s == mail[p].size
<1>1. s \in Sizes /\ s \in Nat /\ s <= MaxBytes
  BY KeysAssumption, LimitsAssumption DEF TotalUnacknowledged, SoundHandler, Limit, Unproven
<1>2. total' = Add(total, s) /\ TotalFits(s) /\ UNCHANGED <<rows, used, history>>
  BY DEF TotalUnacknowledged
<1>3. Moves(p) /\ Quietly(p)
  BY LeaveMoves DEF TotalUnacknowledged
<1> HIDE DEF s
<1>4. /\ total' \in Usage
      /\ total'.reports = total.reports + 1 /\ total'.bytes = total.bytes + s
      /\ total'.reports <= TotalReports
      /\ total'.bytes <= Largest(TotalBytes, MaxBytes)
  BY <1>1, <1>2, TotalGrows
<1>5. TypeOK'
  BY <1>2, <1>3, <1>4 DEF TypeOK, Moves
<1>6. \A q \in Mails : SoundHandler(q)'
  BY <1>3, MovesSound
<1>7. Rowless'
  BY <1>2 DEF Rowless
<1>8. TotalCounts'
  <2>1. taken \in Usage /\ total \in Usage
    BY DEF TypeOK
  <2> QED
    BY <1>1, <1>2, <1>4, <2>1 DEF TotalCounts, Largest
<1>9. ASSUME NEW k \in Keys PROVE OwnCounts(k)' /\ SentCounts(k)'
  <2>1. sent'[k] = sent[k] /\ sent[k] \in Nat
    BY <1>2 DEF TypeOK
  <2> QED
    BY <1>2, <1>3, <2>1, QuietSets, CountsFrame
<1>10. SlotsCount'
  BY <1>2, <1>3, QuietSets, SlotsFrame
<1> QED
  BY <1>5, <1>6, <1>7, <1>8, <1>9, <1>10

\* The second charge: within the total the message is accepted, and what was
\* already charged to its reporter covers it.
LEMMA ChargeTotalQInv ==
    ASSUME QInv, NEW p \in Mails, ChargeTotal(p)
    PROVE  QInv'
<1> USE DEF QInv
<1> DEFINE s == mail[p].size
           r == mail[p].key
<1>1. /\ mail[p].at = "total" /\ r \in Unknown /\ r \in Keys
      /\ s \in Sizes /\ s \in Nat /\ s <= MaxBytes
  BY KeysAssumption, LimitsAssumption DEF ChargeTotal, SoundHandler, Limit, Unproven, Keys
<1>2. CASE ~ TotalFits(s)
  <2>1. Goto(p, "refund") /\ UNCHANGED <<table, history>>
    BY <1>2 DEF ChargeTotal
  <2>2. Moves(p)
    BY <1>1, <2>1, GotoMoves DEF Moves, SoundHandler, Limit
  <2>3. Quietly(p)
    BY <1>1, <2>1, GotoMoves DEF Quietly
  <2> QED
    BY <2>1, <2>2, <2>3, QuietQInv
<1>3. CASE TotalFits(s)
  <2>1. /\ total' = Add(total, s) /\ taken' = Add(taken, s)
        /\ accepted' = [accepted EXCEPT ![r] = @ + 1]
        /\ Leave(p) /\ UNCHANGED <<rows, used, sent, evicted>>
    BY <1>3 DEF ChargeTotal, Accept
  <2>2. Moves(p) /\ Quietly(p) /\ mail'[p].at = "idle"
    BY <2>1, LeaveMoves
  <2>3. ASSUME NEW k, k = r PROVE p \in Charged(k) /\ p \notin Charged(k)'
    BY <1>1, <2>2, <2>3 DEF Charged
  <2> HIDE DEF s, r
  <2>4. /\ total' \in Usage
        /\ total'.reports = total.reports + 1 /\ total'.bytes = total.bytes + s
        /\ total'.reports <= TotalReports
        /\ total'.bytes <= Largest(TotalBytes, MaxBytes)
    BY <1>1, <1>3, <2>1, TotalGrows
  <2>5. taken \in Usage /\ total \in Usage
    BY DEF TypeOK
  <2>6. /\ taken' \in Usage
        /\ taken'.reports = taken.reports + 1 /\ taken'.bytes = taken.bytes + s
    BY <1>1, <2>1, <2>5 DEF Add
  <2>7. /\ accepted' \in [Keys -> Nat] /\ accepted'[r] = accepted[r] + 1
        /\ \A k \in Keys \ {r} : accepted'[k] = accepted[k]
    BY <1>1, <2>1 DEF TypeOK
  <2>8. TypeOK'
    BY <2>1, <2>2, <2>4, <2>6, <2>7 DEF TypeOK, Moves
  <2>9. \A q \in Mails : SoundHandler(q)'
    BY <2>2, MovesSound
  <2>10. Rowless'
    BY <2>1 DEF Rowless
  <2>11. TotalCounts'
    BY <1>1, <2>4, <2>5, <2>6 DEF TotalCounts
  <2>12. ASSUME NEW k \in Keys PROVE OwnCounts(k)' /\ SentCounts(k)'
    <3>1. Charged(k)' \subseteq Charged(k) /\ Coming(k)' \subseteq Coming(k)
      BY <2>2, QuietSets
    <3>2. sent'[k] = sent[k] /\ sent[k] \in Nat /\ accepted[k] \in Nat /\ used[k].reports \in Nat
      BY <2>1 DEF TypeOK
    <3>3. CASE k # r
      <4>1. used'[k] = used[k] /\ accepted'[k] = accepted[k]
        BY <2>1, <2>7, <3>3
      <4> QED
        BY <2>1, <3>1, <3>2, <4>1, CountsFrame
    <3>4. CASE k = r
      <4>1. p \in Charged(k) /\ Charged(k)' \subseteq Charged(k) \ {p}
        BY <2>3, <3>1, <3>4
      <4>2. /\ Cardinality(Charged(k)) \in Nat /\ Cardinality(Charged(k)') \in Nat
            /\ Cardinality(Charged(k)') + 1 <= Cardinality(Charged(k))
        BY <4>1, CountLoses, CountedSets
      <4>3. /\ Cardinality(Coming(k)) \in Nat /\ Cardinality(Coming(k)') \in Nat
            /\ Cardinality(Coming(k)') <= Cardinality(Coming(k))
        BY <3>1, CountShrinks, CountedSets
      <4>4. Limit(k)' = Limit(k)
        BY DEF Limit
      <4>5. accepted'[k] = accepted[k] + 1
        BY <2>7, <3>4
      <4>6. OwnCounts(k)'
        <5>1. used' = used /\ evicted' = evicted
          BY <2>1
        <5>2. used[k].reports <= Limit(k).reports
          BY DEF OwnCounts
        <5>3. k \notin evicted => accepted[k] + Cardinality(Charged(k)) <= used[k].reports
          BY DEF OwnCounts
        <5> QED
          BY <3>2, <4>2, <4>4, <4>5, <5>1, <5>2, <5>3 DEF OwnCounts
      <4>7. SentCounts(k)'
        BY <2>1, <3>2, <4>3 DEF SentCounts
      <4> QED
        BY <4>6, <4>7
    <3> QED
      BY <3>3, <3>4
  <2>13. SlotsCount'
    BY <2>1, <2>2, QuietSets, SlotsFrame
  <2> QED
    BY <2>8, <2>9, <2>10, <2>11, <2>12, <2>13
<1> QED
  BY <1>2, <1>3

\* The first charge.  A new row counts one message, which every limit allows;
\* an existing one counts one more only if that fits.
LEMMA ChargeQInv ==
    ASSUME QInv, NEW p \in Mails, Charge(p)
    PROVE  QInv'
<1> USE DEF QInv
<1> DEFINE s == mail[p].size
           r == mail[p].key
<1>1. mail[p].at = "charge" /\ r \in Keys /\ s \in Sizes /\ s \in Nat
  BY LimitsAssumption DEF Charge, SoundHandler
<1>2. CASE ~ (r \notin rows \/ Fits(used[r], s, Limit(r)))
  <2>1. Leave(p) /\ UNCHANGED <<table, history>>
    BY <1>2 DEF Charge
  <2> QED
    BY <2>1, LeaveMoves, QuietQInv
<1>3. CASE r \notin rows \/ Fits(used[r], s, Limit(r))
  <2>1. /\ rows' = rows \cup {r} /\ used' = [used EXCEPT ![r] = Add(@, s)]
        /\ UNCHANGED <<total, sent, taken, evicted>>
    BY <1>3 DEF Charge
  <2>2. \/ r \in Unknown /\ Goto(p, "total") /\ accepted' = accepted
        \/ r \notin Unknown /\ Leave(p) /\ accepted' = [accepted EXCEPT ![r] = @ + 1]
    BY <1>3 DEF Charge, Accept
  <2>3. /\ Moves(p)
        /\ mail'[p].at \in {"idle", "total"}
        /\ mail'[p].at = "total" => mail'[p].key = mail[p].key
    <3>1. CASE r \in Unknown /\ Goto(p, "total")
      BY <1>1, <3>1, GotoMoves DEF Moves, SoundHandler, Limit
    <3>2. CASE Leave(p)
      BY <3>2, LeaveMoves
    <3> QED
      BY <2>2, <3>1, <3>2
  <2>4. accepted' \in [Keys -> Nat] /\ \A k \in Keys \ {r} : accepted'[k] = accepted[k]
    BY <1>1, <2>2 DEF TypeOK
  <2>5. /\ used' \in [Keys -> Usage] /\ used'[r].reports = used[r].reports + 1
        /\ \A k \in Keys \ {r} : used'[k] = used[k]
    <3>1. used[r] \in Usage
      BY <1>1 DEF TypeOK
    <3>2. Add(used[r], s) \in Usage /\ Add(used[r], s).reports = used[r].reports + 1
      BY <1>1, <3>1 DEF Add
    <3> HIDE DEF r, s
    <3> QED
      BY <1>1, <2>1, <3>2 DEF TypeOK
  <2>6. TypeOK'
    BY <1>1, <2>1, <2>3, <2>4, <2>5 DEF TypeOK, Moves
  <2>7. \A q \in Mails : SoundHandler(q)'
    BY <2>3, MovesSound
  <2>8. Rowless' /\ TotalCounts'
    BY <1>1, <2>1, <2>5 DEF Rowless, TotalCounts
  <2>9. ASSUME NEW k \in Keys, k # r PROVE OwnCounts(k)' /\ SentCounts(k)'
    <3>1. Charged(k)' \subseteq Charged(k) /\ Coming(k)' \subseteq Coming(k)
      BY <2>3, <2>9 DEF Charged, Coming, Moves
    <3>2. used'[k] = used[k] /\ accepted'[k] = accepted[k] /\ sent'[k] = sent[k] /\ sent[k] \in Nat
      BY <2>1, <2>4, <2>5, <2>9 DEF TypeOK
    <3> QED
      BY <2>1, <3>1, <3>2, CountsFrame
  <2>10. ASSUME NEW k \in Keys, k = r PROVE OwnCounts(k)' /\ SentCounts(k)'
    <3>1. used[k].reports + 1 <= Limit(k).reports
      <4>1. CASE k \notin rows
        BY <2>10, <4>1, LimitPositive DEF Rowless
      <4>2. CASE Fits(used[k], s, Limit(k))
        <5>1. used[k].reports < Limit(k).reports /\ used[k].reports \in Nat
          BY <4>2 DEF Fits, TypeOK
        <5> QED
          BY <5>1, LimitPositive
      <4> QED
        BY <1>3, <2>10, <4>1, <4>2
    <3>2. used'[k].reports = used[k].reports + 1 /\ used[k].reports \in Nat
      BY <2>5, <2>10 DEF TypeOK
    <3>3. sent'[k] = sent[k] /\ sent[k] \in Nat /\ accepted[k] \in Nat /\ evicted' = evicted
      BY <2>1 DEF TypeOK
    <3>4. p \in Coming(k) /\ Coming(k)' \subseteq Coming(k) \ {p}
      BY <1>1, <2>3, <2>10 DEF Coming, Moves
    <3>5. /\ Cardinality(Coming(k)) \in Nat /\ Cardinality(Coming(k)') \in Nat
          /\ Cardinality(Coming(k)') + 1 <= Cardinality(Coming(k))
      BY <3>4, CountLoses, CountedSets
    <3>6. SentCounts(k)'
      BY <3>2, <3>3, <3>5 DEF SentCounts
    <3>7. /\ accepted'[k] \in Nat /\ Cardinality(Charged(k)) \in Nat /\ Cardinality(Charged(k)') \in Nat
          /\ accepted'[k] + Cardinality(Charged(k)') <= accepted[k] + Cardinality(Charged(k)) + 1
      <4>1. CASE Goto(p, "total") /\ accepted' = accepted
        <5>1. Charged(k)' \subseteq Charged(k) \cup {p}
          BY <2>3 DEF Charged, Moves
        <5> QED
          BY <3>3, <4>1, <5>1, CountGrows, CountedSets
      <4>2. CASE Leave(p) /\ accepted' = [accepted EXCEPT ![r] = @ + 1]
        <5>1. Charged(k)' \subseteq Charged(k)
          BY <4>2, <2>3, LeaveMoves DEF Charged, Moves
        <5>2. accepted'[k] = accepted[k] + 1
          BY <2>10, <4>2 DEF TypeOK
        <5>3. /\ Cardinality(Charged(k)) \in Nat /\ Cardinality(Charged(k)') \in Nat
              /\ Cardinality(Charged(k)') <= Cardinality(Charged(k))
          BY <5>1, CountShrinks, CountedSets
        <5> QED
          BY <3>3, <5>2, <5>3
      <4> QED
        BY <2>2, <4>1, <4>2
    <3>8. k \notin evicted => accepted[k] + Cardinality(Charged(k)) <= used[k].reports
      BY DEF OwnCounts
    <3>9. Limit(k)' = Limit(k)
      BY DEF Limit
    <3>10. OwnCounts(k)'
      BY <3>1, <3>2, <3>3, <3>7, <3>8, <3>9 DEF OwnCounts
    <3> QED
      BY <3>6, <3>10
  <2>11. SlotsCount'
    <3>1. Adding' \subseteq Adding \ {p}
      BY <2>1, <2>3 DEF Adding, Moves
    <3>2. CASE r \in Claimed \ rows
      <4>1. p \in Adding
        BY <1>1, <3>2 DEF Adding
      <4>2. /\ Cardinality(Adding) \in Nat /\ Cardinality(Adding') \in Nat
            /\ Cardinality(Adding') + 1 <= Cardinality(Adding)
        BY <3>1, <4>1, CountLoses, CountedSets
      <4>3. rows' \cap Claimed = (rows \cap Claimed) \cup {r} /\ r \notin rows \cap Claimed
        BY <2>1, <3>2
      <4>4. Cardinality(rows' \cap Claimed) = Cardinality(rows \cap Claimed) + 1
        BY <4>3, ClaimedRowsFinite, FS_AddElement
      <4>5. /\ Cardinality(rows \cap Claimed) \in Nat
            /\ Cardinality(Mails) \in Nat /\ ClaimedSlots \in Nat
        BY ClaimedRowsFinite, FiniteAssumption, FS_CardinalityType, LimitsAssumption
      <4> QED
        BY <4>2, <4>4, <4>5 DEF SlotsCount
    <3>3. CASE r \notin Claimed \ rows
      <4>1. rows' \cap Claimed = rows \cap Claimed
        BY <2>1, <3>3
      <4> QED
        BY <3>1, <4>1, SlotsFrame
    <3> QED
      BY <3>2, <3>3
  <2> QED
    BY <2>6, <2>7, <2>8, <2>9, <2>10, <2>11
<1> QED
  BY <1>2, <1>3

\* Nothing changes in a stuttering step.
LEMMA StutterQInv ==
    ASSUME QInv, UNCHANGED vars
    PROVE  QInv'
BY DEF vars, QInv, TypeOK, SoundHandler, Limit, Rowless, TotalCounts, OwnCounts, SentCounts,
       SlotsCount, Charged, Coming, Adding

\* Every step preserves the inductive invariant.
LEMMA NextQInv == QInv /\ [Next]_vars => QInv'
<1> SUFFICES ASSUME QInv, [Next]_vars PROVE QInv'
  OBVIOUS
<1>1. ASSUME NEW p \in Mails, NEW k \in Keys, NEW s \in Sizes, Arrive(p, k, s) PROVE QInv'
  BY <1>1, ArriveQInv
<1>2. ASSUME NEW p \in Mails, Consume(p) PROVE QInv'
  BY <1>2, LookUpQInv, CountSlotsQInv, PickVictimQInv, EvictQInv, ChargeQInv,
     ChargeTotalQInv, RefundQInv DEF Consume
<1>3. ASSUME NEW p \in Mails, TotalUnacknowledged(p) \/ Abort(p) PROVE QInv'
  BY <1>3, UnacknowledgedQInv, AbortQInv
<1>4. CASE UNCHANGED vars
  BY <1>4, StutterQInv
<1> QED
  BY <1>1, <1>2, <1>3, <1>4 DEF Next

-----------------------------------------------------------------------------
\* The invariant holds in every reachable state.
THEOREM QuotaInvariant == Spec => []QInv
BY InitQInv, NextQInv, PTL DEF Spec

\* The tables and the handlers of tryConsume keep their types: in particular
\* no refund makes a counter negative.
THEOREM QuotaTypeCorrect == Spec => []TypeOK
<1>1. QInv => TypeOK
  BY DEF QInv
<1> QED
  BY QuotaInvariant, <1>1, PTL

\* What unknown reporters got accepted in a day is within the day's total,
\* however many of them there are and however they lose and win their slots.
THEOREM UnknownReportersCapped == Spec => []UnknownWithinTotal
<1>1. QInv => UnknownWithinTotal
  BY LimitsAssumption DEF QInv, TypeOK, TotalCounts, UnknownWithinTotal, Largest
<1> QED
  BY QuotaInvariant, <1>1, PTL

\* A reporter that keeps its slot gets at most its own allowance.
THEOREM AllowanceKept == Spec => []OwnAllowance
<1>1. QInv => OwnAllowance
  <2> SUFFICES ASSUME QInv, NEW k \in Keys \ evicted PROVE accepted[k] <= Limit(k).reports
    BY DEF OwnAllowance
  <2>1. Cardinality(Charged(k)) \in Nat
    BY CountShrinks, CountedSets
  <2>2. accepted[k] \in Nat /\ used[k].reports \in Nat /\ Limit(k).reports \in Nat
    BY LimitPositive DEF QInv, TypeOK
  <2> QED
    BY <2>1, <2>2 DEF QInv, OwnCounts
<1> QED
  BY QuotaInvariant, <1>1, PTL

\* Nobody's messages are counted in another reporter's row.
THEOREM AllowanceNotShared == Spec => []NoSharedAllowance
<1>1. QInv => NoSharedAllowance
  <2> SUFFICES ASSUME QInv, NEW k \in Keys \ {Overflow} PROVE used[k].reports <= sent[k]
    BY DEF NoSharedAllowance
  <2>1. Cardinality(Coming(k)) \in Nat
    BY CountShrinks, CountedSets
  <2>2. sent[k] \in Nat /\ used[k].reports \in Nat
    BY DEF QInv, TypeOK
  <2> QED
    BY <2>1, <2>2 DEF QInv, SentCounts
<1> QED
  BY QuotaInvariant, <1>1, PTL

\* Claimed senders get at most one row more than their slots for every other
\* handler that runs at the same time, whatever names they claim.
THEOREM ClaimedRowsBounded == Spec => []ClaimedSlotsBounded
<1>1. QInv => ClaimedSlotsBounded
  <2> SUFFICES ASSUME QInv PROVE ClaimedSlotsBounded
    OBVIOUS
  <2>1. Cardinality(Adding) \in Nat /\ Cardinality(rows \cap Claimed) \in Nat
    BY CountShrinks, CountedSets, ClaimedRowsFinite
  <2>2. Cardinality(Mails) \in Nat /\ ClaimedSlots \in Nat
    BY FiniteAssumption, FS_CardinalityType, LimitsAssumption
  <2> QED
    BY <2>1, <2>2 DEF QInv, SlotsCount, ClaimedSlotsBounded
<1> QED
  BY QuotaInvariant, <1>1, PTL

=============================================================================
