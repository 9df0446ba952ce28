---------------------------- MODULE FunnelProofs ----------------------------
(***************************************************************************)
(* TypeOK, EachStepOnce, StopHolds and NotStarved of Funnel hold for any   *)
(* number of addresses, overlapping runs, steps and days.  The inductive   *)
(* invariant FInv says what the compare-and-swap on the step buys: while a *)
(* run has a step in hand, the row is not due, so nobody else takes that   *)
(* step.  On top of it, Queue and Patient count who is in front of a lead. *)
(***************************************************************************)
EXTENDS Funnel, TLAPS, FiniteSetTheorems, SequenceTheorems

\* The run has marked a step as sent and has not dealt with its mail yet.
Hand(r) == run[r].at \in {"vet", "send", "restore"}

\* What a run may hold.
Run == [at : Places, todo : Seq(Copy)]

Types ==
    /\ lead \in [Addresses -> Lead \cup {NoLead}]
    /\ created \in 0..MaxLeads
    /\ sent \in [1..MaxLeads -> Seq(0..(Steps - 1))]
    /\ run \in [Runs -> Run]
    /\ \A r \in Runs : run[r].at # "idle" => run[r].todo # <<>>

Rest ==
    /\ suppressed \subseteq Addresses /\ checked \subseteq Addresses /\ leaving \subseteq suppressed
    /\ booking \in BOOLEAN /\ ran \in BOOLEAN
    /\ faults \in 0..MaxFaults

\* An id is given once, and an active lead has a mail left.
Rows ==
    \A e \in Addresses : lead[e] # NoLead =>
        /\ lead[e].id \in 1..created
        /\ Active(e) => lead[e].step < Steps
        /\ \A f \in Addresses : IsRow(f, lead[e].id) => f = e

\* What a run has read is of a row that had a mail left, at its own address.
Copies ==
    \A r \in Runs : \A k \in 1..Len(run[r].todo) :
        /\ run[r].todo[k].id \in 1..created
        /\ run[r].todo[k].step < Steps
        /\ \A e \in Addresses : IsRow(e, run[r].todo[k].id) => e = run[r].todo[k].email

\* The row of a step in hand is one step further, and not due.
Moved ==
    \A r \in Runs : Hand(r) =>
        \A e \in Addresses : IsRow(e, This(r).id) => lead[e].step = This(r).step + 1 /\ ~Due(e)

\* No two runs have a mail to the same lead in hand.
OneHand == \A r, q \in Runs : Hand(r) /\ Hand(q) /\ This(r).id = This(q).id => r = q

\* What was sent is behind the row, and behind the step in hand.
Behind ==
    \A i \in 1..MaxLeads : \A m \in 1..Len(sent[i]) :
        /\ i <= created
        /\ \A e \in Addresses : IsRow(e, i) => sent[i][m] < lead[e].step
        /\ \A r \in Runs : Hand(r) /\ This(r).id = i => sent[i][m] < This(r).step

Steady == Rows /\ Copies /\ Moved /\ OneHand /\ Behind /\ EachStepOnce

FInv == Types /\ Rest /\ Steady

-----------------------------------------------------------------------------
(* The head of what a run has to do                                        *)

LEMMA HeadOfTodo ==
    ASSUME Types, NEW r \in Runs, run[r].at # "idle"
    PROVE  /\ Len(run[r].todo) \in Nat \ {0}
           /\ This(r) = run[r].todo[1]
           /\ This(r) \in Copy
           /\ 1 \in 1..Len(run[r].todo)
BY DEF Types, Run, This

LEMMA IdleRun == Idle \in Run
BY DEF Idle, Run, Places

\* A run that moves on, to another await or to its next lead, is well formed,
\* has no step in hand that it did not have, and nothing to do that is new.
Onwards(r, q) ==
    /\ q \in Run
    /\ q.at # "idle" => q.todo # <<>>
    /\ q.at \in {"vet", "send", "restore"} => Hand(r) /\ q.todo = run[r].todo
    /\ \A k \in 1..Len(q.todo) : \E j \in 1..Len(run[r].todo) : q.todo[k] = run[r].todo[j]

LEMMA IdleOnwards == ASSUME NEW r PROVE Onwards(r, Idle)
BY IdleRun DEF Onwards, Idle

LEMMA LongTail ==
    ASSUME NEW S, NEW s \in Seq(S), Len(s) > 1
    PROVE  /\ Tail(s) \in Seq(S) /\ Tail(s) # <<>>
           /\ \A k \in 1..Len(Tail(s)) : k + 1 \in 1..Len(s) /\ Tail(s)[k] = s[k + 1]
<1>1. s # <<>> /\ Len(s) \in Nat
  OBVIOUS
<1>2. Tail(s) \in Seq(S) /\ Len(Tail(s)) = Len(s) - 1
  BY <1>1, HeadTailProperties
<1>3. Len(Tail(s)) # 0
  BY <1>1, <1>2
<1>4. Tail(s) # <<>>
  BY <1>2, <1>3, EmptySeq
<1> QED
  BY <1>1, <1>2, <1>4, HeadTailProperties

LEMMA NextOnwards ==
    ASSUME Types, NEW r \in Runs, run[r].at # "idle", NextLead(r)
    PROVE  \E q : run' = [run EXCEPT ![r] = q] /\ Onwards(r, q)
<1> DEFINE s == run[r].todo
           q == IF Len(s) > 1 THEN [at |-> "decide", todo |-> Tail(s)] ELSE Idle
<1>1. run' = [run EXCEPT ![r] = q]
  BY DEF NextLead
<1>2. s \in Seq(Copy) /\ Len(s) \in Nat
  BY DEF Types, Run
<1>3. CASE Len(s) > 1
  <2>1. /\ Tail(s) \in Seq(Copy) /\ Tail(s) # <<>>
        /\ \A k \in 1..Len(Tail(s)) : k + 1 \in 1..Len(s) /\ Tail(s)[k] = s[k + 1]
    BY <1>2, <1>3, LongTail
  <2>3. q = [at |-> "decide", todo |-> Tail(s)]
    BY <1>3
  <2>4. Onwards(r, q)
    BY <2>1, <2>3 DEF Onwards, Run, Places
  <2> QED
    BY <1>1, <2>4
<1>4. CASE ~(Len(s) > 1)
  BY <1>1, <1>4, IdleOnwards
<1> QED
  BY <1>3, <1>4

LEMMA BreakOnwards ==
    ASSUME NEW r \in Runs, Break(r)
    PROVE  \E q : run' = [run EXCEPT ![r] = q] /\ Onwards(r, q)
BY IdleOnwards DEF Break

LEMMA GotoOnwards ==
    ASSUME Types, NEW r \in Runs, run[r].at # "idle", NEW p \in Places \ {"idle"}, Goto(r, p),
           p \in {"vet", "send", "restore"} => Hand(r)
    PROVE  \E q : run' = [run EXCEPT ![r] = q] /\ Onwards(r, q)
<1> DEFINE q == [run[r] EXCEPT !.at = p]
<1>1. run' = [run EXCEPT ![r] = q]
  BY DEF Goto
<1>2. Onwards(r, q)
  BY DEF Onwards, Types, Run
<1> QED
  BY <1>1, <1>2

-----------------------------------------------------------------------------
(* Steps that neither mark a step nor send a mail                          *)

\* Rows go, or stop being due; they keep their id and their step.
Calmer(new) ==
    /\ new \in [Addresses -> Lead \cup {NoLead}]
    /\ \A e \in Addresses : new[e] # NoLead =>
           /\ lead[e] # NoLead
           /\ new[e].id = lead[e].id /\ new[e].step = lead[e].step
           /\ new[e].status = "active" => Active(e) /\ (new[e].due <= 0 => lead[e].due <= 0)

\* Runs move on.
RunsOnwards == \A r \in Runs : run'[r] = run[r] \/ Onwards(r, run'[r])

LEMMA Calm ==
    ASSUME Types, Steady, Calmer(lead'), RunsOnwards, run' \in [Runs -> Run],
           UNCHANGED <<created, sent>>
    PROVE  Types' /\ Steady'
<1>1. Types'
  BY DEF Types, RunsOnwards, Onwards, Calmer
<1>2. \A e \in Addresses : \A i : IsRow(e, i)' => IsRow(e, i)
  BY DEF IsRow, Calmer
<1>3. \A e \in Addresses : Due(e)' /\ lead'[e] # NoLead => Due(e)
  BY DEF Due, Active, Calmer
<1>4. \A r \in Runs : Hand(r)' => Hand(r) /\ This(r)' = This(r)
  BY DEF RunsOnwards, Onwards, Hand, This
<1>5. Rows'
  <2> SUFFICES ASSUME NEW e \in Addresses, lead'[e] # NoLead
               PROVE  /\ lead'[e].id \in 1..created'
                      /\ Active(e)' => lead'[e].step < Steps
                      /\ \A f \in Addresses : IsRow(f, lead[e].id)' => f = e
    BY DEF Rows, Calmer
  <2>1. lead[e] # NoLead /\ lead'[e].id = lead[e].id /\ lead'[e].step = lead[e].step
    BY DEF Calmer
  <2> QED
    BY <1>2, <2>1 DEF Rows, Calmer, Active, Steady
<1>6. Copies'
  <2> SUFFICES ASSUME NEW r \in Runs, NEW k \in 1..Len(run'[r].todo)
               PROVE  /\ run'[r].todo[k].id \in 1..created'
                      /\ run'[r].todo[k].step < Steps
                      /\ \A e \in Addresses : IsRow(e, run[r].todo[k].id)' => e = run'[r].todo[k].email
    BY DEF Copies
  <2>1. PICK j \in 1..Len(run[r].todo) : run'[r].todo[k] = run[r].todo[j]
    BY DEF RunsOnwards, Onwards
  <2> QED
    BY <1>2, <2>1 DEF Copies, Steady
<1>7. Moved'
  <2> SUFFICES ASSUME NEW r \in Runs, Hand(r)', NEW e \in Addresses, IsRow(e, This(r).id)'
               PROVE  (lead[e].step = This(r).step + 1 /\ ~Due(e))'
    BY DEF Moved
  <2>1. Hand(r) /\ This(r)' = This(r)
    BY <1>4
  <2>2. IsRow(e, This(r).id) /\ lead'[e] # NoLead
    BY <1>2, <2>1 DEF IsRow
  <2>3. lead[e].step = This(r).step + 1 /\ ~Due(e)
    BY <2>1, <2>2 DEF Moved, Steady
  <2>4. lead'[e].step = lead[e].step
    BY <2>2 DEF Calmer
  <2> QED
    BY <1>3, <2>1, <2>2, <2>3, <2>4
<1>8. OneHand'
  BY <1>4 DEF OneHand, Steady
<1>9. Behind'
  <2> SUFFICES ASSUME NEW i \in 1..MaxLeads, NEW m \in 1..Len(sent[i])
               PROVE  /\ i <= created
                      /\ \A e \in Addresses : IsRow(e, i)' => sent[i][m] < lead'[e].step
                      /\ \A r \in Runs : Hand(r)' /\ This(r).id' = i => sent[i][m] < This(r).step'
    BY DEF Behind
  <2>1. \A e \in Addresses : IsRow(e, i)' => lead'[e].step = lead[e].step
    BY DEF IsRow, Calmer
  <2>2. ASSUME NEW e \in Addresses, IsRow(e, i)' PROVE sent[i][m] < lead'[e].step
    BY <1>2, <2>1, <2>2 DEF Behind, Steady
  <2>3. ASSUME NEW r \in Runs, Hand(r)', This(r).id' = i PROVE sent[i][m] < This(r).step'
    BY <1>4, <2>3 DEF Behind, Steady
  <2>4. i <= created
    BY DEF Behind, Steady
  <2> QED
    BY <2>2, <2>3, <2>4
<1>10. EachStepOnce'
  BY DEF EachStepOnce, Steady
<1> QED
  BY <1>1, <1>5, <1>6, <1>7, <1>8, <1>9, <1>10 DEF Steady

LEMMA SameRows == Types => Calmer(lead)
BY DEF Calmer, Types, Active

LEMMA RowGoes ==
    ASSUME Types, NEW e \in Addresses
    PROVE  Calmer([lead EXCEPT ![e] = NoLead])
BY DEF Calmer, Types, Active

LEMMA RowStops ==
    ASSUME Types, NEW e \in Addresses, lead[e] # NoLead, NEW status \in Stops
    PROVE  Calmer(Stopped(e, status))
<1>1. lead[e] \in Lead
  BY DEF Types
<1>2. Stopped(e, status) = [lead EXCEPT ![e] = [lead[e] EXCEPT !.status = status, !.due = 0]]
  BY <1>1 DEF Stopped, Types
<1>3. [lead[e] EXCEPT !.status = status, !.due = 0] \in Lead
  <2>1. 0 \in (-Late)..Gap
    BY FunnelAssumption
  <2> QED
    BY <1>1, <2>1 DEF Lead, Statuses
<1>4. status # "active"
  BY DEF Stops
<1>5. \A f \in Addresses : Stopped(e, status)[f] = IF f = e THEN [lead[e] EXCEPT !.status = status, !.due = 0] ELSE lead[f]
  BY <1>2 DEF Types
<1> QED
  BY <1>1, <1>2, <1>3, <1>4, <1>5 DEF Calmer, Types, Active, Lead

\* One run moves on, the rows are calmer.
LEMMA CalmStep ==
    ASSUME FInv, Rest', NEW r \in Runs, Calmer(lead'),
           \E q : run' = [run EXCEPT ![r] = q] /\ Onwards(r, q),
           UNCHANGED <<created, sent>>
    PROVE  FInv'
<1>1. run' \in [Runs -> Run] /\ RunsOnwards
  BY DEF FInv, Types, Onwards, RunsOnwards
<1> QED
  BY <1>1, Calm DEF FInv

\* No run moves, the rows are calmer.
LEMMA CalmRequest ==
    ASSUME FInv, Rest', Calmer(lead'), UNCHANGED <<created, sent, run>>
    PROVE  FInv'
<1>1. run' \in [Runs -> Run] /\ RunsOnwards
  BY DEF FInv, Types, RunsOnwards
<1> QED
  BY <1>1, Calm DEF FInv

-----------------------------------------------------------------------------
(* Requests                                                                *)

\* Nothing of the sequence moves.
LEMMA Elsewhere ==
    ASSUME FInv, Rest', UNCHANGED <<lead, created, sent, run>>
    PROVE  FInv'
BY SameRows, CalmRequest DEF FInv

LEMMA EnrollFInv == ASSUME FInv, NEW e \in Addresses, Enroll(e) PROVE FInv'
<1>0. Rest'
  BY DEF FInv, Rest, Enroll
<1>1. CASE lead[e] # NoLead
  BY <1>0, <1>1, Elsewhere DEF Enroll
<1>2. CASE lead[e] = NoLead
  <2> DEFINE new == [id |-> created + 1, status |-> "active", step |-> 0, due |-> 1]
  <2>1. lead' = [lead EXCEPT ![e] = new] /\ created' = created + 1 /\ created + 1 \in 1..MaxLeads
    BY <1>2, FunnelAssumption DEF Enroll, FInv, Types
  <2>2. new \in Lead
    BY <2>1, FunnelAssumption DEF Lead, Statuses
  <2>3. Types'
    BY <2>1, <2>2, FunnelAssumption DEF Enroll, FInv, Types
  <2>4. \A f \in Addresses : lead'[f] = IF f = e THEN new ELSE lead[f]
    BY <2>1 DEF FInv, Types
  <2>5. \A f \in Addresses, i \in 1..created : IsRow(f, i)' => IsRow(f, i) /\ lead'[f] = lead[f]
    BY <2>4 DEF IsRow, FInv, Types
  <2>6. Rows'
    <3> SUFFICES ASSUME NEW f \in Addresses, lead'[f] # NoLead
                 PROVE  /\ lead'[f].id \in 1..created'
                        /\ Active(f)' => lead'[f].step < Steps
                        /\ \A g \in Addresses : IsRow(g, lead[f].id)' => g = f
      BY DEF Rows
    <3>0. created \in Nat /\ Steps \in Nat \ {0}
      BY FunnelAssumption DEF FInv, Types
    <3>1. \A g \in Addresses : lead[g] # NoLead => lead[g].id \in 1..created
      BY DEF FInv, Steady, Rows
    <3>2. \A g \in Addresses : lead'[g] # NoLead /\ lead'[g].id = created + 1 => g = e
      BY <2>4, <3>0, <3>1
    <3>3. CASE f = e
      <4>1. lead'[f] = new
        BY <2>4, <3>3
      <4>2. \A g \in Addresses : IsRow(g, lead[f].id)' => g = f
        BY <3>2, <3>3, <4>1 DEF IsRow
      <4>3. lead'[f].id \in 1..created' /\ lead'[f].step < Steps
        BY <2>1, <3>0, <4>1
      <4> QED
        BY <4>2, <4>3
    <3>4. CASE f # e
      <4>1. lead[f] # NoLead /\ lead'[f] = lead[f] /\ lead[f].id \in 1..created
        BY <2>4, <3>1, <3>4
      <4>2. \A g \in Addresses : IsRow(g, lead[f].id)' => g = f
        BY <2>5, <4>1 DEF FInv, Steady, Rows
      <4>3. Active(f)' => lead'[f].step < Steps
        BY <4>1 DEF FInv, Steady, Rows, Active
      <4> QED
        BY <2>1, <3>0, <4>1, <4>2, <4>3
    <3> QED
      BY <3>3, <3>4
  <2>7. Copies'
    BY <2>1, <2>5 DEF FInv, Steady, Types, Copies, Enroll
  <2>8. \A r \in Runs : (Hand(r)' <=> Hand(r)) /\ This(r)' = This(r)
    BY DEF Hand, This, Enroll
  <2>9. \A r \in Runs : Hand(r) => This(r).id \in 1..created
    BY HeadOfTodo DEF Hand, FInv, Steady, Copies
  <2>10. Moved'
    BY <2>5, <2>8, <2>9 DEF FInv, Steady, Moved, Due, Active
  <2>11. OneHand'
    BY <2>8 DEF FInv, Steady, OneHand
  <2>12. Behind'
    <3> SUFFICES ASSUME NEW i \in 1..MaxLeads, NEW m \in 1..Len(sent[i])
                 PROVE  /\ i <= created'
                        /\ \A f \in Addresses : IsRow(f, i)' => sent[i][m] < lead'[f].step
                        /\ \A r \in Runs : Hand(r)' /\ This(r).id' = i => sent[i][m] < This(r).step'
      BY DEF Behind, Enroll
    <3>1. i \in 1..created
      BY DEF FInv, Steady, Behind
    <3> QED
      BY <2>1, <2>5, <2>8, <3>1 DEF FInv, Steady, Behind, Types
  <2>13. EachStepOnce'
    BY DEF Enroll, FInv, Steady, EachStepOnce
  <2> QED
    BY <1>0, <2>3, <2>6, <2>7, <2>10, <2>11, <2>12, <2>13 DEF FInv, Steady
<1> QED
  BY <1>1, <1>2

LEMMA RequestFInv ==
    ASSUME FInv, NEW e \in Addresses,
           \/ StartEnroll(e) \/ Enroll(e) \/ EnrollFails(e)
           \/ Unsubscribe(e) \/ Forget(e) \/ ForgetFails(e)
           \/ StopLead(e) \/ Expire(e)
    PROVE  FInv'
<1>1. CASE StartEnroll(e)
  BY <1>1, Elsewhere DEF StartEnroll, FInv, Rest
<1>2. CASE EnrollFails(e)
  BY <1>2, Elsewhere DEF EnrollFails, FInv, Rest
<1>3. CASE Unsubscribe(e)
  BY <1>3, Elsewhere DEF Unsubscribe, FInv, Rest
<1>4. CASE Forget(e)
  BY <1>4, RowGoes, CalmRequest DEF Forget, FInv, Rest
<1>5. CASE ForgetFails(e)
  BY <1>5, Elsewhere DEF ForgetFails, FInv, Rest
<1>6. CASE StopLead(e)
  <2>1. Calmer(lead')
    BY <1>6, RowStops DEF StopLead, FInv, Stops
  <2> QED
    BY <1>6, <2>1, CalmRequest DEF StopLead, FInv, Rest
<1>7. CASE Expire(e)
  BY <1>7, RowGoes, CalmRequest DEF Expire, FInv, Rest
<1> QED
  BY <1>1, <1>2, <1>3, <1>4, <1>5, <1>6, <1>7, EnrollFInv

-----------------------------------------------------------------------------
(* Runs                                                                    *)

LEMMA StartRunFInv == ASSUME FInv, NEW r \in Runs, StartRun(r) PROVE FInv'
<1>1. PICK limit \in Limits, s \in Batches :
          Batch(s, limit) /\ run' = [run EXCEPT ![r] = [at |-> "decide", todo |-> s]]
  BY DEF StartRun
<1>2. PICK n \in 1..Cardinality(Addresses) : s \in [1..n -> {CopyOf(e) : e \in {f \in Addresses : Due(f)}}]
  BY DEF Batches
<1>3. n \in Nat \ {0}
  BY FS_CardinalityType, FunnelAssumption
<1>4. \A e \in Addresses : Due(e) => lead[e] \in Lead /\ CopyOf(e) \in Copy
  <2> SUFFICES ASSUME NEW e \in Addresses, Due(e) PROVE lead[e] \in Lead /\ CopyOf(e) \in Copy
    OBVIOUS
  <2>1. lead[e] \in Lead /\ lead[e] # NoLead
    BY DEF Due, Active, FInv, Types, NoLead
  <2>2. lead[e].step < Steps /\ lead[e].step \in 0..Steps
    BY <2>1 DEF FInv, Steady, Rows, Due, Lead
  <2> QED
    BY <2>1, <2>2 DEF CopyOf, Copy, Lead
<1>5. s \in Seq(Copy) /\ Len(s) = n
  <2>1. s \in [1..n -> Copy]
    BY <1>2, <1>4
  <2> QED
    BY <1>3, <2>1
<1>6. s # <<>>
  BY <1>3, <1>5
<1>7. \A q \in Runs : (Hand(q)' => Hand(q)) /\ (Hand(q)' => This(q)' = This(q))
  BY <1>1 DEF Hand, This, FInv, Types
<1>8. Types'
  BY <1>1, <1>5, <1>6 DEF StartRun, FInv, Types, Run, Places
<1>9. Copies'
  <2> SUFFICES ASSUME NEW q \in Runs, NEW k \in 1..Len(run'[q].todo)
               PROVE  /\ run'[q].todo[k].id \in 1..created
                      /\ run'[q].todo[k].step < Steps
                      /\ \A f \in Addresses : IsRow(f, run[q].todo[k].id)' => f = run'[q].todo[k].email
    BY DEF Copies, StartRun
  <2>1. CASE q # r
    <3>1. run'[q] = run[q]
      BY <1>1, <2>1 DEF FInv, Types
    <3> QED
      BY <3>1 DEF FInv, Steady, Copies, StartRun, IsRow
  <2>2. CASE q = r
    <3>1. run'[q].todo = s
      BY <1>1, <2>2 DEF FInv, Types
    <3>2. PICK e \in Addresses : Due(e) /\ s[k] = CopyOf(e)
      BY <1>2, <1>3, <1>5, <3>1
    <3>3. lead[e] # NoLead /\ s[k].id = lead[e].id /\ s[k].email = e /\ s[k].step = lead[e].step
      BY <3>2 DEF Due, Active, CopyOf, NoLead
    <3>4. /\ lead[e].id \in 1..created /\ lead[e].step < Steps
          /\ \A f \in Addresses : IsRow(f, lead[e].id) => f = e
      BY <3>2, <3>3 DEF FInv, Steady, Rows, Due
    <3> QED
      BY <3>1, <3>3, <3>4 DEF StartRun, IsRow
  <2> QED
    BY <2>1, <2>2
<1>10. Rows' /\ EachStepOnce'
  BY DEF StartRun, FInv, Steady, Rows, EachStepOnce, Active, IsRow
<1>11. Moved'
  BY <1>7 DEF StartRun, FInv, Steady, Moved, IsRow, Due, Active
<1>12. OneHand'
  BY <1>7 DEF FInv, Steady, OneHand
<1>13. Behind'
  BY <1>7 DEF StartRun, FInv, Steady, Behind, IsRow
<1>14. Rest'
  BY DEF StartRun, FInv, Rest
<1> QED
  BY <1>8, <1>9, <1>10, <1>11, <1>12, <1>13, <1>14 DEF FInv, Steady

LEMMA AdvanceFInv == ASSUME FInv, NEW r \in Runs, Advance(r) PROVE FInv'
<1>0. Rest'
  BY DEF FInv, Rest, Advance
<1>1. CASE ~Unmoved(r)
  <2>1. \E q : run' = [run EXCEPT ![r] = q] /\ Onwards(r, q)
    BY <1>1, NextOnwards DEF Advance, FInv
  <2> QED
    BY <1>0, <1>1, <2>1, SameRows, CalmStep DEF Advance, FInv
<1>2. CASE Unmoved(r)
  <2> DEFINE c == This(r)
             e == c.email
             n == c.step + 1
  <2>1. run[r].at = "advance" /\ c \in Copy /\ e \in Addresses
    BY HeadOfTodo DEF Advance, FInv, Copy
  <2>2. lead[e] \in Lead /\ lead[e] # NoLead /\ lead[e].id = c.id /\ Due(e) /\ lead[e].step = c.step /\ Active(e)
    BY <1>2, <2>1 DEF Unmoved, IsRow, Due, FInv, Types
  <2>3. c.step \in 0..(Steps - 1) /\ c.id \in 1..created
    BY <2>1, <2>2, FunnelAssumption DEF FInv, Steady, Rows, Lead, Copy
  <2>4. PICK row \in Lead : /\ lead' = [lead EXCEPT ![e] = row]
                            /\ row.id = c.id /\ row.step = n
                            /\ row.status = "active" => row.due > 0 /\ n < Steps
    <3>1. CASE n = Steps
      <4>1. lead' = [lead EXCEPT ![e] = [lead[e] EXCEPT !.step = n, !.status = "completed", !.due = 0]]
        BY <1>2, <3>1 DEF Advance, FInv, Types
      <4>2. 0 \in (-Late)..Gap /\ n \in 0..Steps
        BY <3>1, FunnelAssumption
      <4>3. [lead[e] EXCEPT !.step = n, !.status = "completed", !.due = 0] \in Lead
        BY <2>2, <4>2 DEF Lead, Statuses
      <4> QED
        BY <2>2, <4>1, <4>3 DEF Lead
    <3>2. CASE n # Steps
      <4>1. PICK d \in 1..Gap : lead' = [lead EXCEPT ![e].step = n, ![e].due = d]
        BY <1>2, <3>2 DEF Advance
      <4>2. lead' = [lead EXCEPT ![e] = [lead[e] EXCEPT !.step = n, !.due = d]]
        BY <4>1 DEF FInv, Types
      <4>3. d \in (-Late)..Gap /\ d > 0 /\ n \in 0..Steps /\ n < Steps
        BY <2>3, <3>2, FunnelAssumption
      <4>4. [lead[e] EXCEPT !.step = n, !.due = d] \in Lead
        BY <2>2, <4>3 DEF Lead
      <4> QED
        BY <2>2, <4>2, <4>3, <4>4 DEF Lead
    <3> QED
      BY <3>1, <3>2
  <2>5. run' = [run EXCEPT ![r].at = "vet"] /\ UNCHANGED <<created, sent>>
    BY <1>2 DEF Advance, Goto
  <2>6. Types'
    BY <2>1, <2>4, <2>5 DEF FInv, Types, Run, Places
  <2>7. \A f \in Addresses : lead'[f] = IF f = e THEN row ELSE lead[f]
    BY <2>4 DEF FInv, Types
  <2>8. \A f \in Addresses : \A i : IsRow(f, i)' <=> IsRow(f, i)
    BY <2>2, <2>4, <2>7 DEF IsRow, Lead, NoLead
  <2>9. \A q \in Runs : This(q)' = This(q) /\ run'[q].todo = run[q].todo
    BY <2>5 DEF This, FInv, Types, Run
  <2>10. \A q \in Runs : Hand(q)' => Hand(q) \/ q = r
    BY <2>5 DEF Hand, FInv, Types
  <2>11. \A q \in Runs : Hand(q) => This(q).id # c.id
    BY <2>1, <2>2 DEF FInv, Steady, Moved, IsRow
  <2>12. IsRow(e, c.id) /\ \A f \in Addresses : IsRow(f, c.id) => f = e
    BY <2>1, <2>2 DEF FInv, Steady, Rows, IsRow
  <2>13. Rows'
    <3> SUFFICES ASSUME NEW f \in Addresses, lead'[f] # NoLead
                 PROVE  /\ lead'[f].id \in 1..created
                        /\ Active(f)' => lead'[f].step < Steps
                        /\ \A g \in Addresses : IsRow(g, lead[f].id)' => g = f
      BY <2>5 DEF Rows
    <3>1. CASE f = e
      BY <2>3, <2>4, <2>7, <2>8, <2>12, <3>1 DEF Active
    <3>2. CASE f # e
      BY <2>7, <2>8, <3>2 DEF Active, FInv, Steady, Rows
    <3> QED
      BY <3>1, <3>2
  <2>14. Copies'
    BY <2>5, <2>8, <2>9 DEF FInv, Steady, Copies
  <2>15. Moved'
    <3> SUFFICES ASSUME NEW q \in Runs, Hand(q)', NEW f \in Addresses, IsRow(f, This(q).id)'
                 PROVE  (lead[f].step = This(q).step + 1 /\ ~Due(f))'
      BY DEF Moved
    <3>1. IsRow(f, This(q).id)
      BY <2>8, <2>9
    <3>2. CASE q = r
      BY <2>4, <2>7, <2>9, <2>12, <3>1, <3>2 DEF Due, Active, Lead
    <3>3. CASE q # r
      <4>1. Hand(q) /\ f # e
        BY <2>2, <2>10, <2>11, <3>1, <3>3 DEF IsRow
      <4> QED
        BY <2>7, <2>9, <3>1, <4>1 DEF FInv, Steady, Moved, Due, Active
    <3> QED
      BY <3>2, <3>3
  <2>16. OneHand'
    BY <2>9, <2>10, <2>11 DEF FInv, Steady, OneHand
  <2>17. Behind'
    <3> SUFFICES ASSUME NEW i \in 1..MaxLeads, NEW m \in 1..Len(sent[i])
                 PROVE  /\ i <= created
                        /\ \A f \in Addresses : IsRow(f, i)' => sent[i][m] < lead'[f].step
                        /\ \A q \in Runs : Hand(q)' /\ This(q).id' = i => sent[i][m] < This(q).step'
      BY <2>5 DEF Behind
    <3>1. i <= created
      BY DEF FInv, Steady, Behind
    <3>2. sent[i][m] \in Int
      <4>1. sent[i] \in Seq(0..(Steps - 1))
        BY DEF FInv, Types
      <4>2. sent[i][m] \in 0..(Steps - 1)
        BY <4>1, ElementOfSeq
      <4> QED
        BY <4>2
    <3>3. ASSUME NEW f \in Addresses, IsRow(f, i)' PROVE sent[i][m] < lead'[f].step
      <4>1. sent[i][m] < lead[f].step
        BY <2>8, <3>3 DEF FInv, Steady, Behind
      <4>2. CASE f = e
        BY <2>2, <2>3, <2>4, <2>7, <3>2, <4>1, <4>2
      <4>3. CASE f # e
        BY <2>7, <4>1, <4>3
      <4> QED
        BY <4>2, <4>3
    <3>4. ASSUME NEW q \in Runs, Hand(q)', This(q).id' = i PROVE sent[i][m] < This(q).step'
      <4>1. CASE q = r
        BY <2>2, <2>9, <2>12, <3>4, <4>1, <2>1 DEF FInv, Steady, Behind
      <4>2. CASE q # r
        BY <2>9, <2>10, <3>4, <4>2 DEF FInv, Steady, Behind
      <4> QED
        BY <4>1, <4>2
    <3> QED
      BY <3>1, <3>3, <3>4
  <2>18. EachStepOnce'
    BY <2>5 DEF FInv, Steady, EachStepOnce
  <2> QED
    BY <1>0, <2>6, <2>13, <2>14, <2>15, <2>16, <2>17, <2>18 DEF FInv, Steady
<1> QED
  BY <1>1, <1>2

LEMMA SendFInv ==
    ASSUME FInv, NEW r \in Runs, run[r].at = "send", Out(r), NextLead(r) \/ Break(r),
           Rest', UNCHANGED <<lead, created>>
    PROVE  FInv'
<1> DEFINE c == This(r)
<1>1. PICK q : run' = [run EXCEPT ![r] = q] /\ Onwards(r, q) /\ q.at \notin {"vet", "send", "restore"}
  <2>1. CASE NextLead(r)
    <3>1. PICK q : run' = [run EXCEPT ![r] = q] /\ Onwards(r, q)
      BY <2>1, NextOnwards DEF FInv
    <3>2. run'[r].at \in {"decide", "idle"}
      BY <2>1 DEF NextLead, Idle, FInv, Types
    <3>3. run'[r] = q
      BY <3>1 DEF FInv, Types
    <3> QED
      BY <3>1, <3>2, <3>3
  <2>2. CASE Break(r)
    <3>1. Idle.at \notin {"vet", "send", "restore"}
      BY DEF Idle
    <3>2. run' = [run EXCEPT ![r] = Idle] /\ Onwards(r, Idle)
      BY <2>2, IdleOnwards DEF Break
    <3> QED
      BY <3>1, <3>2
  <2> QED
    BY <2>1, <2>2
<1>2. c \in Copy /\ c.id \in 1..created /\ c.id \in 1..MaxLeads /\ c.step \in 0..(Steps - 1)
  <2>1. c \in Copy /\ c.id \in 1..created /\ c.step < Steps
    BY HeadOfTodo DEF FInv, Steady, Copies
  <2> QED
    BY <2>1, FunnelAssumption DEF Copy, FInv, Types
<1>3. sent' = [sent EXCEPT ![c.id] = Append(sent[c.id], c.step)]
  BY DEF Out
<1>4. \A p \in Runs : Hand(p)' => Hand(p) /\ p # r /\ This(p)' = This(p)
  BY <1>1 DEF Hand, This, FInv, Types
<1>5. Hand(r)
  BY DEF Hand
<1>6. run' \in [Runs -> Run] /\ \A p \in Runs : run'[p] = run[p] \/ Onwards(p, run'[p])
  BY <1>1 DEF FInv, Types, Onwards
<1>7. sent[c.id] \in Seq(0..(Steps - 1))
  BY <1>2 DEF FInv, Types
<1>8. \A i \in 1..MaxLeads : \A m \in 1..Len(sent'[i]) :
          \/ m \in 1..Len(sent[i]) /\ sent'[i][m] = sent[i][m]
          \/ i = c.id /\ m = Len(sent[i]) + 1 /\ sent'[i][m] = c.step
  <2> SUFFICES ASSUME NEW i \in 1..MaxLeads, NEW m \in 1..Len(sent'[i])
               PROVE  \/ m \in 1..Len(sent[i]) /\ sent'[i][m] = sent[i][m]
                      \/ i = c.id /\ m = Len(sent[i]) + 1 /\ sent'[i][m] = c.step
    OBVIOUS
  <2>1. CASE i # c.id
    BY <1>3, <2>1 DEF FInv, Types
  <2>2. CASE i = c.id
    <3>1. sent'[i] = Append(sent[i], c.step)
      BY <1>3, <2>2 DEF FInv, Types
    <3> QED
      BY <1>2, <1>7, <2>2, <3>1, AppendProperties
  <2> QED
    BY <2>1, <2>2
<1>9. Types'
  <2>1. sent' \in [1..MaxLeads -> Seq(0..(Steps - 1))]
    BY <1>2, <1>3, <1>7, AppendProperties DEF FInv, Types
  <2>2. \A p \in Runs : run'[p].at # "idle" => run'[p].todo # <<>>
    BY <1>6 DEF FInv, Types, Onwards
  <2> QED
    BY <1>6, <2>1, <2>2 DEF FInv, Types
<1>10. Rows'
  BY DEF FInv, Steady, Rows, Active, IsRow
<1>11. Copies'
  <2> SUFFICES ASSUME NEW p \in Runs, NEW k \in 1..Len(run'[p].todo)
               PROVE  /\ run'[p].todo[k].id \in 1..created
                      /\ run'[p].todo[k].step < Steps
                      /\ \A f \in Addresses : IsRow(f, run[p].todo[k].id)' => f = run'[p].todo[k].email
    BY DEF Copies
  <2>1. PICK j \in 1..Len(run[p].todo) : run'[p].todo[k] = run[p].todo[j]
    BY <1>6 DEF Onwards
  <2> QED
    BY <2>1 DEF FInv, Steady, Copies, IsRow
<1>12. Moved'
  BY <1>4 DEF FInv, Steady, Moved, IsRow, Due, Active
<1>13. OneHand'
  BY <1>4 DEF FInv, Steady, OneHand
<1>14. Behind'
  <2> SUFFICES ASSUME NEW i \in 1..MaxLeads, NEW m \in 1..Len(sent'[i])
               PROVE  /\ i <= created
                      /\ \A f \in Addresses : IsRow(f, i)' => sent'[i][m] < lead[f].step
                      /\ \A p \in Runs : Hand(p)' /\ This(p).id' = i => sent'[i][m] < This(p).step'
    BY DEF Behind
  <2>1. CASE m \in 1..Len(sent[i]) /\ sent'[i][m] = sent[i][m]
    BY <1>4, <2>1 DEF FInv, Steady, Behind, IsRow
  <2>2. CASE i = c.id /\ m = Len(sent[i]) + 1 /\ sent'[i][m] = c.step
    <3>1. \A p \in Runs : Hand(p)' => This(p).id' # i
      BY <1>4, <1>5, <2>2 DEF FInv, Steady, OneHand
    <3>2. \A f \in Addresses : IsRow(f, i)' => lead[f].step = c.step + 1
      BY <1>5, <2>2 DEF FInv, Steady, Moved, IsRow
    <3>3. i <= created /\ c.step < c.step + 1
      BY <1>2, <2>2
    <3> QED
      BY <2>2, <3>1, <3>2, <3>3
  <2> QED
    BY <1>8, <2>1, <2>2
<1>15. EachStepOnce'
  <2> SUFFICES ASSUME NEW i \in 1..MaxLeads, NEW m \in 1..Len(sent'[i]), NEW n \in 1..Len(sent'[i]), m < n
               PROVE  sent'[i][m] < sent'[i][n]
    BY DEF EachStepOnce
  <2>0. Len(sent[i]) \in Nat
    BY DEF FInv, Types
  <2>1. m \in 1..Len(sent[i]) /\ sent'[i][m] = sent[i][m]
    BY <1>8, <2>0
  <2>2. CASE n \in 1..Len(sent[i]) /\ sent'[i][n] = sent[i][n]
    BY <2>1, <2>2 DEF FInv, Steady, EachStepOnce
  <2>3. CASE i = c.id /\ n = Len(sent[i]) + 1 /\ sent'[i][n] = c.step
    BY <1>5, <2>1, <2>3 DEF FInv, Steady, Behind
  <2> QED
    BY <1>8, <2>2, <2>3
<1> QED
  BY <1>9, <1>10, <1>11, <1>12, <1>13, <1>14, <1>15 DEF FInv, Steady

LEMMA RestoreFInv == ASSUME FInv, NEW r \in Runs, Restore(r) PROVE FInv'
<1> DEFINE c == This(r)
           e == c.email
<1>0. Rest'
  BY DEF FInv, Rest, Restore
<1>1. CASE ~(IsRow(e, c.id) /\ lead[e].step = c.step + 1)
  <2>1. lead' = lead
    BY <1>1 DEF Restore
  <2> QED
    BY <1>0, <2>1, SameRows, CalmStep, BreakOnwards DEF Restore, FInv
<1>2. CASE IsRow(e, c.id) /\ lead[e].step = c.step + 1
  <2> DEFINE row == [lead[e] EXCEPT !.step = c.step, !.due = c.due, !.status = "active"]
  <2>1. run[r].at = "restore" /\ Hand(r) /\ c \in Copy /\ e \in Addresses
    BY HeadOfTodo DEF Restore, Hand, FInv, Copy
  <2>2. c.step < Steps /\ c.id \in 1..created
    BY <2>1, HeadOfTodo DEF FInv, Steady, Copies
  <2>3. lead[e] # NoLead /\ lead[e].id = c.id /\ lead[e] \in Lead
    BY <1>2, <2>1 DEF IsRow, FInv, Types
  <2>4. lead' = [lead EXCEPT ![e] = row]
    <3>1. lead' = [lead EXCEPT ![e].step = c.step, ![e].due = c.due, ![e].status = "active"]
      BY <1>2 DEF Restore
    <3> QED
      BY <2>1, <2>3, <3>1 DEF FInv, Types
  <2>5. row \in Lead /\ row.id = c.id /\ row.step = c.step
    BY <2>1, <2>3 DEF Lead, Copy, Statuses
  <2>6. run' = [run EXCEPT ![r] = Idle] /\ UNCHANGED <<created, sent>>
    BY DEF Restore, Break
  <2>7. \A f \in Addresses : lead'[f] = IF f = e THEN row ELSE lead[f]
    BY <2>4 DEF FInv, Types
  <2>8. \A f \in Addresses : \A i : IsRow(f, i)' <=> IsRow(f, i)
    BY <2>3, <2>5, <2>7 DEF IsRow, Lead, NoLead
  <2>9. \A q \in Runs : Hand(q)' => Hand(q) /\ q # r /\ This(q)' = This(q)
    BY <2>6 DEF Hand, This, Idle, FInv, Types
  <2>10. \A q \in Runs : Hand(q)' => This(q).id # c.id
    BY <2>1, <2>9 DEF FInv, Steady, OneHand
  <2>11. Types'
    BY <2>4, <2>5, <2>6, IdleRun DEF FInv, Types, Idle
  <2>12. \A f \in Addresses : IsRow(f, c.id) => f = e
    BY <2>1, <2>3 DEF FInv, Steady, Rows
  <2>13. Rows'
    <3> SUFFICES ASSUME NEW f \in Addresses, lead'[f] # NoLead
                 PROVE  /\ lead'[f].id \in 1..created
                        /\ Active(f)' => lead'[f].step < Steps
                        /\ \A g \in Addresses : IsRow(g, lead[f].id)' => g = f
      BY <2>6 DEF Rows
    <3>1. CASE f = e
      BY <2>2, <2>5, <2>7, <2>8, <2>12, <3>1 DEF Active
    <3>2. CASE f # e
      BY <2>7, <2>8, <3>2 DEF Active, FInv, Steady, Rows
    <3> QED
      BY <3>1, <3>2
  <2>14. Copies'
    <3>1. \A q \in Runs : run'[q] = run[q] \/ run'[q].todo = <<>>
      BY <2>6 DEF Idle, FInv, Types
    <3> QED
      BY <2>6, <2>8, <3>1 DEF FInv, Steady, Copies
  <2>15. Moved'
    <3> SUFFICES ASSUME NEW q \in Runs, Hand(q)', NEW f \in Addresses, IsRow(f, This(q).id)'
                 PROVE  (lead[f].step = This(q).step + 1 /\ ~Due(f))'
      BY DEF Moved
    <3>1. Hand(q) /\ This(q)' = This(q) /\ This(q).id # c.id
      BY <2>9, <2>10
    <3>2. IsRow(f, This(q).id)
      BY <2>8, <3>1
    <3>3. f # e
      BY <2>3, <3>1, <3>2 DEF IsRow
    <3> QED
      BY <2>7, <3>1, <3>2, <3>3 DEF FInv, Steady, Moved, Due, Active
  <2>16. OneHand'
    BY <2>9 DEF FInv, Steady, OneHand
  <2>17. Behind'
    <3> SUFFICES ASSUME NEW i \in 1..MaxLeads, NEW m \in 1..Len(sent[i])
                 PROVE  /\ i <= created
                        /\ \A f \in Addresses : IsRow(f, i)' => sent[i][m] < lead'[f].step
                        /\ \A q \in Runs : Hand(q)' /\ This(q).id' = i => sent[i][m] < This(q).step'
      BY <2>6 DEF Behind
    <3>1. i <= created
      BY DEF FInv, Steady, Behind
    <3>2. ASSUME NEW f \in Addresses, IsRow(f, i)' PROVE sent[i][m] < lead'[f].step
      <4>1. CASE f = e
        <5>1. i = c.id
          BY <2>3, <2>8, <3>2, <4>1 DEF IsRow
        <5> QED
          BY <2>1, <2>5, <2>7, <4>1, <5>1 DEF FInv, Steady, Behind
      <4>2. CASE f # e
        BY <2>7, <2>8, <3>2, <4>2 DEF FInv, Steady, Behind
      <4> QED
        BY <4>1, <4>2
    <3>3. ASSUME NEW q \in Runs, Hand(q)', This(q).id' = i PROVE sent[i][m] < This(q).step'
      BY <2>9, <3>3 DEF FInv, Steady, Behind
    <3> QED
      BY <3>1, <3>2, <3>3
  <2>18. EachStepOnce'
    BY <2>6 DEF FInv, Steady, EachStepOnce
  <2> QED
    BY <1>0, <2>11, <2>13, <2>14, <2>15, <2>16, <2>17, <2>18 DEF FInv, Steady
<1> QED
  BY <1>1, <1>2

LEMMA ThisAddress == ASSUME FInv, NEW r \in Runs, run[r].at # "idle" PROVE This(r).email \in Addresses
BY HeadOfTodo DEF FInv, Copy

LEMMA WorkFInv == ASSUME FInv, NEW r \in Runs, Work(r) PROVE FInv'
<1>0. Types /\ Calmer(lead)
  BY SameRows DEF FInv
<1>1. CASE Drop(r)
  <2>1. Calmer(lead')
    BY <1>0, <1>1, RowGoes, ThisAddress DEF Drop
  <2> QED
    BY <1>0, <1>1, <2>1, NextOnwards, CalmStep DEF Drop, FInv, Rest
<1>2. CASE Hold(r)
  <2> DEFINE e == This(r).email
  <2>1. Calmer(lead')
    <3>1. CASE IsRow(e, This(r).id) /\ Active(e)
      <4>1. lead' = [lead EXCEPT ![e] = [lead[e] EXCEPT !.due = 1]]
        BY <1>2, <3>1 DEF Hold, FInv, Types
      <4>2. lead[e] \in Lead /\ 1 \in (-Late)..Gap
        BY <1>2, <3>1, ThisAddress, FunnelAssumption DEF Hold, IsRow, FInv, Types
      <4>3. [lead[e] EXCEPT !.due = 1] \in Lead
        BY <4>2 DEF Lead
      <4>4. \A f \in Addresses : lead'[f] = IF f = e THEN [lead[e] EXCEPT !.due = 1] ELSE lead[f]
        BY <4>1 DEF FInv, Types
      <4>5. e \in Addresses
        BY <1>2, ThisAddress DEF Hold
      <4>6. lead' \in [Addresses -> Lead \cup {NoLead}]
        BY <4>1, <4>3 DEF FInv, Types
      <4> QED
        BY <3>1, <4>2, <4>4, <4>6 DEF Calmer, Active, IsRow, Lead
    <3>2. CASE ~(IsRow(e, This(r).id) /\ Active(e))
      BY <1>0, <1>2, <3>2 DEF Hold
    <3> QED
      BY <3>1, <3>2
  <2> QED
    BY <1>0, <1>2, <2>1, NextOnwards, CalmStep DEF Hold, FInv, Rest
<1>3. CASE Proceed(r)
  <2>1. \E q : run' = [run EXCEPT ![r] = q] /\ Onwards(r, q)
    BY <1>0, <1>3, GotoOnwards DEF Proceed, Places
  <2> QED
    BY <1>0, <1>3, <2>1, CalmStep DEF Proceed, FInv, Rest
<1>4. CASE Vet(r)
  <2>1. CASE This(r).email \in suppressed
    <3>1. Calmer(lead')
      BY <1>0, <1>4, <2>1, RowGoes, ThisAddress DEF Vet
    <3> QED
      BY <1>0, <1>4, <2>1, <3>1, NextOnwards, CalmStep DEF Vet, FInv, Rest
  <2>2. CASE This(r).email \notin suppressed
    <3>1. \E q : run' = [run EXCEPT ![r] = q] /\ Onwards(r, q)
      BY <1>0, <1>4, <2>2, GotoOnwards DEF Vet, Places, Hand
    <3> QED
      BY <1>0, <1>4, <2>2, <3>1, CalmStep DEF Vet, FInv, Rest
  <2> QED
    BY <2>1, <2>2
<1>5. CASE Send(r)
  BY <1>5, SendFInv DEF Send, FInv, Rest
<1>6. CASE Suppress(r)
  <2>1. Rest'
    BY <1>6, ThisAddress DEF Suppress, FInv, Rest
  <2> QED
    BY <1>0, <1>6, <2>1, NextOnwards, CalmStep DEF Suppress
<1> QED
  BY <1>1, <1>2, <1>3, <1>4, <1>5, <1>6, AdvanceFInv, RestoreFInv DEF Work

LEMMA ChanceFInv == ASSUME FInv, NEW r \in Runs, Chance(r) PROVE FInv'
<1>0. Types /\ Calmer(lead)
  BY SameRows DEF FInv
<1>1. CASE Convert(r)
  <2>1. Calmer(lead')
    BY <1>0, <1>1, RowStops, ThisAddress DEF Convert, Stops, IsRow
  <2> QED
    BY <1>0, <1>1, <2>1, NextOnwards, CalmStep DEF Convert, FInv, Rest
<1>2. CASE SendUnclear(r)
  <2>1. Rest'
    BY <1>2, FunnelAssumption DEF SendUnclear, FInv, Rest
  <2> QED
    BY <1>2, <2>1, SendFInv DEF SendUnclear
<1>3. CASE Bounce(r)
  <2>1. Calmer(lead')
    BY <1>0, <1>3, RowStops, ThisAddress DEF Bounce, Stops, IsRow
  <2>2. \E q : run' = [run EXCEPT ![r] = q] /\ Onwards(r, q)
    BY <1>0, <1>3, GotoOnwards DEF Bounce, Places
  <2> QED
    BY <1>0, <1>3, <2>1, <2>2, CalmStep DEF Bounce, FInv, Rest
<1>4. CASE Refuse(r)
  <2>1. Rest'
    BY <1>4, FunnelAssumption DEF Refuse, FInv, Rest
  <2>2. \E q : run' = [run EXCEPT ![r] = q] /\ Onwards(r, q)
    BY <1>0, <1>4, GotoOnwards DEF Refuse, Places, Hand
  <2> QED
    BY <1>0, <1>4, <2>1, <2>2, CalmStep DEF Refuse
<1>5. CASE Die(r)
  <2>1. Rest'
    BY <1>5, FunnelAssumption DEF Die, FInv, Rest
  <2> QED
    BY <1>0, <1>5, <2>1, BreakOnwards, CalmStep DEF Die
<1> QED
  BY <1>1, <1>2, <1>3, <1>4, <1>5 DEF Chance

-----------------------------------------------------------------------------
(* A day passes: rows become due, and nothing is in hand.                  *)

LEMMA DayFInv == ASSUME FInv, Day PROVE FInv'
<1>1. \A r \in Runs : ~Hand(r)' /\ run'[r] = run[r]
  BY DEF Day, Hand, Idle
<1>2. \A e \in Addresses :
          /\ lead'[e] \in Lead \cup {NoLead}
          /\ lead'[e] = NoLead <=> lead[e] = NoLead
          /\ lead[e] # NoLead => /\ lead'[e].id = lead[e].id /\ lead'[e].step = lead[e].step
                                 /\ lead'[e].status = lead[e].status
  <2> SUFFICES ASSUME NEW e \in Addresses
               PROVE  /\ lead'[e] \in Lead \cup {NoLead}
                      /\ lead'[e] = NoLead <=> lead[e] = NoLead
                      /\ lead[e] # NoLead => /\ lead'[e].id = lead[e].id /\ lead'[e].step = lead[e].step
                                             /\ lead'[e].status = lead[e].status
    OBVIOUS
  <2>1. CASE Active(e) /\ lead[e].due > -Late
    <3>1. lead[e] \in Lead /\ lead[e] # NoLead
      BY <2>1 DEF Active, NoLead, FInv, Types
    <3>2. lead'[e] = [lead[e] EXCEPT !.due = lead[e].due - 1]
      BY <2>1 DEF Day
    <3>3. lead[e].due - 1 \in (-Late)..Gap
      BY <2>1, <3>1, FunnelAssumption DEF Lead
    <3>4. [lead[e] EXCEPT !.due = lead[e].due - 1] \in Lead
      BY <3>1, <3>3 DEF Lead
    <3>5. [lead[e] EXCEPT !.due = lead[e].due - 1] # NoLead
      BY <2>1, <3>1 DEF Active, NoLead, Lead
    <3> QED
      BY <3>1, <3>2, <3>4, <3>5 DEF Lead
  <2>2. CASE ~(Active(e) /\ lead[e].due > -Late)
    BY <2>2 DEF Day, FInv, Types
  <2> QED
    BY <2>1, <2>2
<1>3. \A e \in Addresses : \A i : IsRow(e, i)' <=> IsRow(e, i)
  BY <1>2 DEF IsRow
<1>4. lead' \in [Addresses -> Lead \cup {NoLead}]
  BY <1>2 DEF Day
<1>5. Types'
  BY <1>4 DEF Day, FInv, Types
<1>6. Rows'
  BY <1>2, <1>3 DEF Day, FInv, Steady, Rows, Active
<1>7. Copies'
  BY <1>1, <1>3 DEF Day, FInv, Steady, Copies
<1>8. Moved' /\ OneHand'
  BY <1>1 DEF Moved, OneHand
<1>9. Behind'
  <2> SUFFICES ASSUME NEW i \in 1..MaxLeads, NEW m \in 1..Len(sent[i])
               PROVE  /\ i <= created
                      /\ \A f \in Addresses : IsRow(f, i)' => sent[i][m] < lead'[f].step
                      /\ \A q \in Runs : Hand(q)' /\ This(q).id' = i => sent[i][m] < This(q).step'
    BY DEF Behind, Day
  <2>1. \A f \in Addresses : IsRow(f, i)' => IsRow(f, i) /\ lead'[f].step = lead[f].step
    BY <1>2, <1>3 DEF IsRow
  <2> QED
    BY <1>1, <2>1 DEF FInv, Steady, Behind
<1>10. EachStepOnce' /\ Rest'
  BY DEF Day, FInv, Steady, EachStepOnce, Rest
<1> QED
  BY <1>5, <1>6, <1>7, <1>8, <1>9, <1>10 DEF FInv, Steady

-----------------------------------------------------------------------------
LEMMA InitFInv == Init => FInv
<1> SUFFICES ASSUME Init PROVE FInv
  OBVIOUS
<1>1. Types
  <2>1. lead \in [Addresses -> Lead \cup {NoLead}] /\ created \in 0..MaxLeads
    BY FunnelAssumption DEF Init
  <2>2. sent \in [1..MaxLeads -> Seq(0..(Steps - 1))]
    BY EmptySeq DEF Init
  <2>3. run \in [Runs -> Run] /\ \A r \in Runs : run[r].at = "idle"
    BY IdleRun DEF Init, Idle
  <2>4. \A r \in Runs : run[r].at # "idle" => run[r].todo # <<>>
    BY <2>3
  <2> QED
    BY <2>1, <2>2, <2>3, <2>4 DEF Types
<1>2. Rest
  <2>1. faults \in 0..MaxFaults
    BY FunnelAssumption DEF Init
  <2> QED
    BY <2>1, Zenon DEF Init, Rest
<1>3. \A r \in Runs : ~Hand(r) /\ run[r].todo = <<>>
  BY DEF Init, Hand, Idle
<1>4. Rows /\ Copies /\ Moved /\ OneHand
  BY <1>3 DEF Init, Rows, Copies, Moved, OneHand
<1>5. \A i \in 1..MaxLeads : sent[i] = <<>>
  BY DEF Init
<1>6. Behind /\ EachStepOnce
  BY <1>5 DEF Behind, EachStepOnce
<1> QED
  BY <1>1, <1>2, <1>4, <1>6 DEF FInv, Steady

LEMMA NextFInv == FInv /\ [Next]_vars => FInv'
<1> SUFFICES ASSUME FInv, [Next]_vars PROVE FInv'
  OBVIOUS
<1>1. CASE SetBooking
  BY <1>1, Elsewhere DEF SetBooking, FInv, Rest
<1>2. CASE UNCHANGED vars
  BY <1>2, Elsewhere DEF vars, FInv, Rest
<1> QED
  BY <1>1, <1>2, RequestFInv, StartRunFInv, WorkFInv, ChanceFInv, DayFInv DEF Next

\* The leads, the rows and the runs stay in order in every reachable state.
THEOREM FInvHolds == Spec => []FInv
BY InitFInv, NextFInv, PTL DEF Spec

\* The variables keep their types: no due date leaves its range, and no step
\* the sequence.
THEOREM FunnelTypes == Spec => []TypeOK
<1>1. FInv => TypeOK
  BY DEF FInv, Types, Rest, Run, TypeOK
<1> QED
  BY <1>1, FInvHolds, PTL

\* However many runs overlap, and wherever they die: no lead gets a step of the
\* sequence twice, or out of order.
THEOREM NoStepTwice == Spec => []EachStepOnce
<1>1. FInv => EachStepOnce
  BY DEF FInv, Steady
<1> QED
  BY <1>1, FInvHolds, PTL

-----------------------------------------------------------------------------
(* A step that starts a lead again                                         *)

\* e is stopped, and the step makes it active.
Revived(e) == lead[e].status \in Stops /\ lead'[e].status = "active"

\* The step e is at was marked by a run that could not send it.
PutBack(e) ==
    \E r \in Runs : run[r].at = "restore" /\ This(r).email = e
                    /\ This(r).id = lead[e].id /\ This(r).step + 1 = lead[e].step

LEMMA CalmRevivesNobody ==
    ASSUME Calmer(lead'), NEW e \in Addresses
    PROVE  ~Revived(e)
BY DEF Calmer, Revived, Active, NoLead, Stops

LEMMA RevivedByRestore ==
    ASSUME FInv, Next, NEW e \in Addresses, Revived(e)
    PROVE  PutBack(e)
<1>0. lead[e].status \in Stops /\ lead'[e].status = "active" /\ lead[e] \in Lead \cup {NoLead}
  BY DEF Revived, FInv, Types
<1>1. lead[e] # NoLead /\ lead[e] \in Lead /\ ~Active(e)
  BY <1>0 DEF NoLead, Stops, Active
<1>2. ASSUME NEW f \in Addresses,
             \/ StartEnroll(f) \/ Enroll(f) \/ EnrollFails(f)
             \/ Unsubscribe(f) \/ Forget(f) \/ ForgetFails(f)
             \/ StopLead(f) \/ Expire(f)
      PROVE  FALSE
  <2>1. CASE Enroll(f)
    BY <1>0, <1>1, <2>1 DEF Enroll, FInv, Types, Active
  <2>2. CASE Forget(f) \/ Expire(f)
    BY <1>0, <1>1, <2>2 DEF Forget, Expire, FInv, Types, NoLead, Active
  <2>3. CASE StopLead(f)
    BY <2>3, RowStops, CalmRevivesNobody DEF StopLead, FInv, Stops
  <2>4. CASE StartEnroll(f) \/ EnrollFails(f) \/ Unsubscribe(f) \/ ForgetFails(f)
    BY <1>0, <1>1, <2>4 DEF StartEnroll, EnrollFails, Unsubscribe, ForgetFails, Active
  <2> QED
    BY <1>2, <2>1, <2>2, <2>3, <2>4
<1>3. CASE SetBooking \/ Day
  BY <1>0, <1>1, <1>3 DEF SetBooking, Day, Active
<1>4. ASSUME NEW r \in Runs, StartRun(r) \/ Work(r) \/ Chance(r)
      PROVE  PutBack(e)
  <2>1. CASE StartRun(r) \/ Proceed(r) \/ Send(r) \/ Suppress(r) \/ SendUnclear(r) \/ Refuse(r) \/ Die(r)
    BY <1>0, <1>1, <2>1 DEF StartRun, Proceed, Send, Suppress, SendUnclear, Refuse, Die, Active
  <2>2. CASE Drop(r) \/ Vet(r)
    BY <1>0, <1>1, <2>2 DEF Drop, Vet, FInv, Types, NoLead, Active
  <2>3. CASE Convert(r) \/ Bounce(r)
    <3>1. Calmer(lead')
      BY <2>3, RowStops, SameRows, ThisAddress DEF Convert, Bounce, Stops, IsRow, FInv
    <3> QED
      BY <3>1, CalmRevivesNobody
  <2>4. CASE Hold(r) \/ Advance(r)
    <3> DEFINE f == This(r).email
    <3>1. f # e => lead'[e] = lead[e]
      BY <2>4 DEF Hold, Advance, Unmoved, Due, FInv, Types
    <3>2. f = e => lead'[e] = lead[e]
      BY <1>1, <2>4 DEF Hold, Advance, Unmoved, Due
    <3> QED
      BY <1>0, <1>1, <3>1, <3>2 DEF Active
  <2>5. CASE Restore(r)
    <3> DEFINE f == This(r).email
    <3>1. IsRow(f, This(r).id) /\ lead[f].step = This(r).step + 1 /\ f = e
      BY <1>0, <1>1, <2>5 DEF Restore, Active, FInv, Types
    <3> QED
      BY <2>5, <3>1 DEF Restore, PutBack, IsRow
  <2> QED
    BY <1>4, <2>1, <2>2, <2>3, <2>4, <2>5 DEF Work, Chance
<1> QED
  BY <1>2, <1>3, <1>4 DEF Next

\* A lead that was stopped stays stopped, but for the run that had marked its next
\* step before the stop and puts back what it had read.
THEOREM StopsHold == Spec => StopHolds
<1>1. FInv /\ [Next]_vars =>
          [\A e \in Addresses :
              lead[e].status \in Stops /\ lead'[e].status = "active" =>
                  \E r \in Runs : /\ run[r].at = "restore" /\ This(r).email = e
                                /\ This(r).id = lead[e].id /\ This(r).step + 1 = lead[e].step]_vars
  BY RevivedByRestore DEF Revived, PutBack, vars
<1> QED
  BY <1>1, FInvHolds, PTL DEF Spec, StopHolds

-----------------------------------------------------------------------------
(* How long a lead may wait                                                *)

\* The run r has c still to do.
Reads(r, c) == \E k \in 1..Len(run[r].todo) : run[r].todo[k] = c

\* c is what a run would read of a lead now.
Current(c) == Due(c.email) /\ CopyOf(c.email) = c

\* A lead that is due is as the runs of this day have read it; they all read the
\* same, and work from the oldest on.
Fresh  == \A r \in Runs, c \in Copy : Reads(r, c) /\ Due(c.email) => CopyOf(c.email) = c
Agree  == \A r, q \in Runs, c, d \in Copy : Reads(r, c) /\ Reads(q, d) /\ c.email = d.email => c = d
Sorted == \A r \in Runs : \A j, k \in 1..Len(run[r].todo) :
              j <= k => run[r].todo[j].due <= run[r].todo[k].due

Queue == Fresh /\ Agree /\ Sorted

\* f is read before c, or with it; f is about to be put back, as old as it was.
Ahead(f, c)  == Due(f) /\ lead[f].due <= c.due
Restoring(f) == \E r \in Runs : run[r].at = "restore" /\ This(r).email = f
Front(c)     == {f \in Addresses \ {c.email} : Ahead(f, c) \/ Restoring(f)}

\* With each day that c waits somebody leaves its front, or a run was cut short;
\* k of this has happened for the next day already.
Wait(c, k) == Cardinality(Front(c)) - c.due + k <= Cardinality(Addresses) + faults

\* Today's run r will do c, or somebody in front of it.
Promise(r, c) ==
    /\ run[r].at \in {"decide", "advance"}
    /\ Reads(r, c) \/ (This(r).email # c.email /\ Ahead(This(r).email, c))

Patient ==
    \/ Late < Cardinality(Addresses) + faults
    \/ /\ \A c \in Copy : Current(c) \/ (\E r \in Runs : Reads(r, c)) => Wait(c, 1)
       /\ \A r \in Runs, c \in Copy : run[r].at = "restore" /\ This(r) = c => Wait(c, 2)
       /\ ran => \A c \in Copy : Current(c) => Wait(c, 2) \/ \E r \in Runs : Promise(r, c)

LEMMA Counts ==
    ASSUME NEW F \in SUBSET Addresses, NEW G \in SUBSET Addresses
    PROVE  /\ Cardinality(F) \in Nat /\ Cardinality(G) \in Nat /\ Cardinality(Addresses) \in Nat
           /\ F \subseteq G => Cardinality(F) <= Cardinality(G)
           /\ \A f : F \subseteq G \cup {f} => Cardinality(F) <= Cardinality(G) + 1
           /\ \A f \in G : F \subseteq G \ {f} => Cardinality(F) + 1 <= Cardinality(G)
<1>1. IsFiniteSet(F) /\ IsFiniteSet(G)
  BY FS_Subset, FunnelAssumption
<1>2. Cardinality(F) \in Nat /\ Cardinality(G) \in Nat /\ Cardinality(Addresses) \in Nat
  BY <1>1, FS_CardinalityType, FunnelAssumption
<1>3. F \subseteq G => Cardinality(F) <= Cardinality(G)
  BY <1>1, FS_Subset
<1>4. ASSUME NEW f, F \subseteq G \cup {f} PROVE Cardinality(F) <= Cardinality(G) + 1
  <2>1. IsFiniteSet(G \cup {f}) /\ Cardinality(G \cup {f}) <= Cardinality(G) + 1
    <3>1. /\ IsFiniteSet(G \cup {f})
          /\ f \notin G => Cardinality(G \cup {f}) = Cardinality(G) + 1
      BY <1>1, FS_AddElement
    <3>2. f \in G => G \cup {f} = G
      OBVIOUS
    <3> QED
      BY <1>2, <3>1, <3>2
  <2>2. Cardinality(F) <= Cardinality(G \cup {f}) /\ Cardinality(G \cup {f}) \in Nat
    BY <1>4, <2>1, FS_Subset, FS_CardinalityType
  <2> QED
    BY <1>2, <2>1, <2>2
<1>5. ASSUME NEW f \in G, F \subseteq G \ {f} PROVE Cardinality(F) + 1 <= Cardinality(G)
  <2>1. IsFiniteSet(G \ {f}) /\ Cardinality(G \ {f}) = Cardinality(G) - 1
    BY <1>1, FS_RemoveElement
  <2>2. Cardinality(F) <= Cardinality(G \ {f})
    BY <1>5, <2>1, FS_Subset
  <2> QED
    BY <1>2, <2>1, <2>2
<1> QED
  BY <1>2, <1>3, <1>4, <1>5

LEMMA FrontType ==
    ASSUME NEW c \in Copy
    PROVE  /\ Front(c) \in SUBSET Addresses /\ Front(c)' \in SUBSET Addresses
           /\ Cardinality(Front(c)) \in Nat /\ Cardinality(Front(c)') \in Nat
           /\ Cardinality(Addresses) \in Nat /\ c.due \in Int /\ c.email \in Addresses
<1>1. Front(c) \in SUBSET Addresses /\ Front(c)' \in SUBSET Addresses
  BY DEF Front
<1>2. c.due \in Int /\ c.email \in Addresses
  BY FunnelAssumption DEF Copy
<1> QED
  BY <1>1, <1>2, Counts

\* The lead of an address cannot be in front of itself.
LEMMA FrontBound ==
    ASSUME NEW c \in Copy
    PROVE  /\ Cardinality(Front(c)) + 1 <= Cardinality(Addresses)
           /\ Cardinality(Front(c)') + 1 <= Cardinality(Addresses)
<1>1. Front(c) \subseteq Addresses \ {c.email} /\ Front(c)' \subseteq Addresses \ {c.email}
  BY DEF Front
<1> QED
  BY <1>1, FrontType, Counts

LEMMA FaultsNat == FInv => faults \in Nat
BY FunnelAssumption DEF FInv, Rest

LEMMA DueCopy ==
    ASSUME Types, NEW e \in Addresses, Due(e)
    PROVE  lead[e] \in Lead /\ CopyOf(e) \in Copy /\ Current(CopyOf(e))
<1>1. lead[e] \in Lead
  BY DEF Due, Active, Types, NoLead
<1> QED
  BY <1>1 DEF CopyOf, Copy, Lead, Current

LEMMA HeadRead ==
    ASSUME Types, NEW r \in Runs, run[r].at # "idle"
    PROVE  Reads(r, This(r)) /\ This(r) \in Copy
BY HeadOfTodo DEF Reads

\* Who is due has no step in hand anywhere.
LEMMA DueAtRest ==
    ASSUME FInv, Queue, NEW f \in Addresses, Due(f)
    PROVE  ~Restoring(f)
<1> SUFFICES ASSUME NEW r \in Runs, run[r].at = "restore", This(r).email = f PROVE FALSE
  BY DEF Restoring
<1>1. Reads(r, This(r)) /\ This(r) \in Copy
  BY HeadRead DEF FInv
<1>2. CopyOf(f) = This(r)
  BY <1>1 DEF Queue, Fresh
<1>3. IsRow(f, This(r).id)
  BY <1>2 DEF CopyOf, IsRow, Due, Active, NoLead
<1> QED
  BY <1>3 DEF FInv, Steady, Moved, Hand

-----------------------------------------------------------------------------
(* Steps after which nobody is due who was not                             *)

Quiet == \A e \in Addresses : Due(e)' => lead'[e] = lead[e]

\* What a run has to do, it had to do before.
Shorter ==
    \A r \in Runs : \E n \in Nat :
        /\ Len(run'[r].todo) + n <= Len(run[r].todo)
        /\ \A k \in 1..Len(run'[r].todo) : run'[r].todo[k] = run[r].todo[k + n]

NoneFails == \A r \in Runs : run'[r].at = "restore" => run[r].at = "restore" /\ run'[r] = run[r]

LEMMA ShorterReads ==
    ASSUME Types, Types', Shorter, NEW r \in Runs, NEW c, Reads(r, c)'
    PROVE  Reads(r, c)
<1>1. PICK n \in Nat : /\ Len(run'[r].todo) + n <= Len(run[r].todo)
                       /\ \A k \in 1..Len(run'[r].todo) : run'[r].todo[k] = run[r].todo[k + n]
  BY DEF Shorter
<1>2. PICK k \in 1..Len(run'[r].todo) : run'[r].todo[k] = c
  BY DEF Reads
<1>3. Len(run'[r].todo) \in Nat /\ Len(run[r].todo) \in Nat
  BY DEF Types, Run
<1>4. k + n \in 1..Len(run[r].todo) /\ run[r].todo[k + n] = c
  BY <1>1, <1>2, <1>3
<1> QED
  BY <1>4 DEF Reads

LEMMA QuietRows ==
    ASSUME Quiet, NEW c \in Copy
    PROVE  /\ Due(c.email)' => Due(c.email) /\ lead'[c.email] = lead[c.email]
           /\ Current(c)' => Current(c)
<1>1. c.email \in Addresses
  BY FrontType
<1>2. Due(c.email)' => Due(c.email) /\ lead'[c.email] = lead[c.email]
  BY <1>1 DEF Quiet, Due, Active
<1> QED
  BY <1>2 DEF Current, CopyOf

LEMMA ShorterOrder ==
    ASSUME Types, Types', Queue, Shorter
    PROVE  Agree' /\ Sorted'
<1>1. Agree'
  BY ShorterReads DEF Agree, Queue
<1>2. Sorted'
  <2> SUFFICES ASSUME NEW r \in Runs, NEW j \in 1..Len(run'[r].todo), NEW k \in 1..Len(run'[r].todo), j <= k
               PROVE  run'[r].todo[j].due <= run'[r].todo[k].due
    BY DEF Sorted
  <2>1. PICK n \in Nat : /\ Len(run'[r].todo) + n <= Len(run[r].todo)
                         /\ \A i \in 1..Len(run'[r].todo) : run'[r].todo[i] = run[r].todo[i + n]
    BY DEF Shorter
  <2>2. Len(run'[r].todo) \in Nat /\ Len(run[r].todo) \in Nat
    BY DEF Types, Run
  <2>3. j + n \in 1..Len(run[r].todo) /\ k + n \in 1..Len(run[r].todo) /\ j + n <= k + n
    BY <2>1, <2>2
  <2> QED
    BY <2>1, <2>3 DEF Queue, Sorted
<1> QED
  BY <1>1, <1>2

LEMMA QueueKept ==
    ASSUME Types, Types', Queue, Quiet, Shorter
    PROVE  Queue'
<1>1. Fresh'
  BY ShorterReads, QuietRows DEF Fresh, Queue, CopyOf
<1> QED
  BY <1>1, ShorterOrder DEF Queue

\* Who is not due and not about to be put back is in nobody's front.
LEMMA FrontMember ==
    ASSUME NEW c \in Copy, NEW f
    PROVE  f \in Front(c)' <=> f \in Addresses /\ f # c.email /\ (Ahead(f, c)' \/ Restoring(f)')
BY DEF Front

LEMMA NoNewFront ==
    ASSUME Quiet, NoneFails, NEW c \in Copy
    PROVE  Front(c)' \subseteq Front(c)
<1>1. \A f : Restoring(f)' => Restoring(f)
  BY DEF Restoring, NoneFails, This
<1>2. \A f \in Addresses : Ahead(f, c)' => Ahead(f, c)
  BY DEF Ahead, Quiet, Due, Active
<1> QED
  BY <1>1, <1>2 DEF Front

LEMMA WaitKept ==
    ASSUME FInv, NEW c \in Copy, Front(c)' \subseteq Front(c), UNCHANGED faults, NEW k \in Nat, Wait(c, k)
    PROVE  Wait(c, k)'
<1>1. Cardinality(Front(c)') <= Cardinality(Front(c))
  BY FrontType, Counts
<1> QED
  BY <1>1, FrontType, FaultsNat DEF Wait

\* Somebody in front of c was served.
LEMMA Served ==
    ASSUME FInv, Queue, Quiet, NoneFails, UNCHANGED faults, NEW c \in Copy, Wait(c, 1),
           NEW f \in Addresses, f # c.email, Ahead(f, c), ~Due(f)'
    PROVE  Wait(c, 2)'
<1>1. f \in Front(c) /\ Front(c)' \subseteq Front(c)
  BY NoNewFront DEF Front
<1>2. ~Restoring(f)
  BY DueAtRest DEF Ahead
<1>3. ~Restoring(f)' /\ ~Ahead(f, c)'
  BY <1>2 DEF Restoring, NoneFails, This, Ahead
<1>4. f \notin Front(c)'
  BY <1>3, FrontMember
<1>5. Cardinality(Front(c)') + 1 <= Cardinality(Front(c))
  BY <1>1, <1>4, FrontType, Counts
<1> QED
  BY <1>5, FrontType, FaultsNat DEF Wait

\* A run at work keeps its list, or it has dealt with the first of it.
NextRun(r) == IF Len(run[r].todo) > 1 THEN [at |-> "decide", todo |-> Tail(run[r].todo)] ELSE Idle

Working(r) == run[r].at \in {"decide", "advance"}

Kept(r) ==
    Working(r) =>
        \/ run'[r].todo = run[r].todo /\ run'[r].at \in {"decide", "advance"}
        \/ \E f \in Addresses : /\ f = This(r).email /\ ~Due(f)'
                                /\ Due(f) \/ run'[r] = NextRun(r)

LEMMA NextRunReads ==
    ASSUME Types, NEW r \in Runs, run'[r] = NextRun(r), NEW c, Reads(r, c), c # This(r)
    PROVE  run'[r].at = "decide" /\ Reads(r, c)'
<1>1. PICK k \in 1..Len(run[r].todo) : run[r].todo[k] = c
  BY DEF Reads
<1>2. run[r].todo \in Seq(Copy) /\ Len(run[r].todo) \in Nat /\ run[r].todo # <<>>
  BY <1>1 DEF Types, Run
<1>3. k # 1 /\ Len(run[r].todo) > 1
  BY <1>1, <1>2 DEF This
<1>4. run'[r] = [at |-> "decide", todo |-> Tail(run[r].todo)]
  BY <1>3 DEF NextRun
<1>5. k - 1 \in 1..Len(Tail(run[r].todo)) /\ Tail(run[r].todo)[k - 1] = c
  BY <1>1, <1>2, <1>3, HeadTailProperties
<1>6. run'[r].todo = Tail(run[r].todo) /\ run'[r].at = "decide"
  BY <1>4
<1> QED
  BY <1>5, <1>6 DEF Reads

\* Today's promise to c is kept, or it stands.
LEMMA PromiseKept ==
    ASSUME FInv, Queue, Quiet, NoneFails, UNCHANGED faults, NEW r \in Runs, Kept(r),
           NEW c \in Copy, Wait(c, 1), Current(c)', Promise(r, c)
    PROVE  Wait(c, 2)' \/ Promise(r, c)'
<1>0. Working(r) /\ Current(c) /\ Due(c.email)' /\ run[r].at # "idle"
  BY QuietRows DEF Promise, Working, Current
<1>1. This(r) \in Copy /\ Reads(r, This(r)) /\ This(r) = run[r].todo[1] /\ 1 \in 1..Len(run[r].todo)
  BY <1>0, HeadRead, HeadOfTodo DEF FInv
<1>2. PICK f \in Addresses : f = This(r).email
  BY <1>1, FrontType
<1>3. ASSUME Ahead(f, c), f # c.email, ~Due(f)' PROVE Wait(c, 2)'
  BY <1>3, Served
<1>4. CASE run'[r].todo = run[r].todo /\ run'[r].at \in {"decide", "advance"}
  <2>1. CASE Reads(r, c)
    BY <1>4, <2>1 DEF Promise, Reads
  <2>2. CASE Ahead(f, c) /\ f # c.email
    <3>1. CASE Due(f)'
      <4>1. Ahead(f, c)'
        BY <2>2, <3>1 DEF Quiet, Ahead
      <4>2. This(r).email' = f
        BY <1>2, <1>4 DEF This
      <4> QED
        BY <1>4, <2>2, <4>1, <4>2 DEF Promise
    <3> QED
      BY <1>3, <2>2, <3>1
  <2> QED
    BY <1>2, <2>1, <2>2 DEF Promise
<1>5. CASE ~Due(f)' /\ (Due(f) \/ run'[r] = NextRun(r))
  <2>1. f # c.email
    BY <1>0, <1>5
  <2>2. CASE Ahead(f, c)
    BY <1>3, <1>5, <2>1, <2>2
  <2>3. CASE ~Ahead(f, c)
    <3>1. Reads(r, c)
      BY <1>2, <2>3 DEF Promise
    <3>2. CASE Due(f)
      <4>1. CopyOf(f) = This(r)
        BY <1>1, <1>2, <3>2 DEF Queue, Fresh
      <4>2. PICK k \in 1..Len(run[r].todo) : run[r].todo[k] = c
        BY <3>1 DEF Reads
      <4>3. run[r].todo[1].due <= c.due
        BY <1>1, <4>2 DEF Queue, Sorted
      <4> QED
        BY <1>1, <2>3, <3>2, <4>1, <4>3 DEF Ahead, CopyOf
    <3>3. CASE run'[r] = NextRun(r)
      BY <1>2, <2>1, <3>1, <3>3, NextRunReads DEF Promise, FInv
    <3> QED
      BY <1>5, <3>2, <3>3
  <2> QED
    BY <2>2, <2>3
<1> QED
  BY <1>0, <1>2, <1>4, <1>5 DEF Kept

LEMMA QuietStep ==
    ASSUME FInv, FInv', Queue, Patient, Quiet, Shorter, NoneFails, \A r \in Runs : Kept(r), UNCHANGED <<ran, faults>>
    PROVE  Queue' /\ Patient'
<1>1. Queue'
  BY QueueKept DEF FInv
<1>2. CASE Late < Cardinality(Addresses) + faults
  <2>1. Late < Cardinality(Addresses) + faults'
    BY <1>2
  <2> QED
    BY <1>1, <2>1 DEF Patient
<1>3. CASE ~(Late < Cardinality(Addresses) + faults)
  <2>1. ASSUME NEW c \in Copy, Current(c)' \/ \E r \in Runs : Reads(r, c)'
        PROVE  Wait(c, 1)'
    <3>1. Current(c) \/ \E r \in Runs : Reads(r, c)
      BY <2>1, QuietRows, ShorterReads DEF FInv
    <3>2. Wait(c, 1)
      BY <1>3, <3>1 DEF Patient
    <3> QED
      BY <3>2, NoNewFront, WaitKept
  <2>2. ASSUME NEW r \in Runs, NEW c \in Copy, run'[r].at = "restore", This(r)' = c
        PROVE  Wait(c, 2)'
    <3>1. run[r].at = "restore" /\ This(r) = c
      BY <2>2 DEF NoneFails, This
    <3>2. Wait(c, 2)
      BY <1>3, <3>1 DEF Patient
    <3> QED
      BY <3>2, NoNewFront, WaitKept
  <2>3. ASSUME ran', NEW c \in Copy, Current(c)'
        PROVE  Wait(c, 2)' \/ \E r \in Runs : Promise(r, c)'
    <3>0. ran
      BY <2>3, Zenon
    <3>1. Current(c) /\ Wait(c, 1)
      BY <1>3, <2>3, QuietRows DEF Patient
    <3>2. CASE Wait(c, 2)
      BY <3>2, NoNewFront, WaitKept
    <3>3. ASSUME NEW r \in Runs, Promise(r, c) PROVE Wait(c, 2)' \/ Promise(r, c)'
      BY <2>3, <3>1, <3>3, PromiseKept
    <3> QED
      BY <1>3, <3>0, <3>1, <3>2, <3>3, Zenon DEF Patient
  <2> QED
    BY <1>1, <2>1, <2>2, <2>3, Zenon DEF Patient
<1> QED
  BY <1>1, <1>2, <1>3

\* No run moves.
LEMMA QuietRequest ==
    ASSUME FInv, FInv', Queue, Patient, Quiet, UNCHANGED <<run, ran, faults>>
    PROVE  Queue' /\ Patient'
<1>1. Shorter
  <2> SUFFICES ASSUME NEW r \in Runs
               PROVE  /\ Len(run'[r].todo) + 0 <= Len(run[r].todo)
                      /\ \A k \in 1..Len(run'[r].todo) : run'[r].todo[k] = run[r].todo[k + 0]
    BY DEF Shorter
  <2>1. Len(run[r].todo) \in Nat
    BY DEF FInv, Types, Run
  <2> QED
    BY <2>1
<1>2. NoneFails /\ \A r \in Runs : Kept(r)
  BY DEF NoneFails, Kept, Working
<1> QED
  BY <1>1, <1>2, QuietStep

\* The run r moves on: to its next lead, or to another await.
LEMMA QuietRun ==
    ASSUME FInv, FInv', Queue, Patient, Quiet, NEW r \in Runs, run[r].at # "idle",
           NEW p \in Places \ {"restore"}, Kept(r),
           \/ run' = [run EXCEPT ![r] = NextRun(r)]
           \/ run' = [run EXCEPT ![r] = [run[r] EXCEPT !.at = p]],
           UNCHANGED <<ran, faults>>
    PROVE  Queue' /\ Patient'
<1>1. \A q \in Runs : q # r => run'[q] = run[q]
  BY DEF FInv, Types
<1>2. run[r].todo \in Seq(Copy) /\ Len(run[r].todo) \in Nat
  BY DEF FInv, Types, Run
<1>3. /\ run'[r].at # "restore"
      /\ \/ run'[r].todo = run[r].todo
         \/ run'[r].todo = Tail(run[r].todo) /\ Len(run[r].todo) > 1
         \/ run'[r].todo = <<>>
  <2>1. CASE run' = [run EXCEPT ![r] = NextRun(r)]
    <3>1. run'[r] = NextRun(r)
      BY <2>1 DEF FInv, Types
    <3> QED
      BY <3>1 DEF NextRun, Idle
  <2>2. CASE run' = [run EXCEPT ![r] = [run[r] EXCEPT !.at = p]]
    <3>1. run'[r] = [run[r] EXCEPT !.at = p] /\ run[r] \in Run
      BY <2>2 DEF FInv, Types
    <3>2. run'[r].todo = run[r].todo /\ run'[r].at = p
      BY <3>1 DEF Run
    <3>3. p # "restore"
      OBVIOUS
    <3> QED
      BY <3>2, <3>3
  <2> QED
    BY <2>1, <2>2
<1>4. \E n \in Nat : /\ Len(run'[r].todo) + n <= Len(run[r].todo)
                     /\ \A k \in 1..Len(run'[r].todo) : run'[r].todo[k] = run[r].todo[k + n]
  <2>1. CASE run'[r].todo = run[r].todo
    <3>1. /\ Len(run'[r].todo) + 0 <= Len(run[r].todo)
          /\ \A k \in 1..Len(run'[r].todo) : run'[r].todo[k] = run[r].todo[k + 0]
      BY <1>2, <2>1
    <3> QED
      BY <3>1
  <2>2. CASE run'[r].todo = Tail(run[r].todo) /\ Len(run[r].todo) > 1
    <3>1. run[r].todo # <<>>
      BY <1>2, <2>2
    <3>2. Len(Tail(run[r].todo)) = Len(run[r].todo) - 1
      BY <1>2, <3>1, HeadTailProperties
    <3>3. \A k \in 1..Len(Tail(run[r].todo)) : Tail(run[r].todo)[k] = run[r].todo[k + 1]
      BY <1>2, <2>2, LongTail
    <3>4. /\ Len(run'[r].todo) + 1 <= Len(run[r].todo)
          /\ \A k \in 1..Len(run'[r].todo) : run'[r].todo[k] = run[r].todo[k + 1]
      BY <1>2, <2>2, <3>2, <3>3
    <3> QED
      BY <3>4
  <2>3. CASE run'[r].todo = <<>>
    <3>1. /\ Len(run'[r].todo) + 0 <= Len(run[r].todo)
          /\ \A k \in 1..Len(run'[r].todo) : run'[r].todo[k] = run[r].todo[k + 0]
      BY <1>2, <2>3
    <3> QED
      BY <3>1
  <2> QED
    BY <1>3, <2>1, <2>2, <2>3
<1>5. \A q \in Runs : q # r => \E n \in Nat : /\ Len(run'[q].todo) + n <= Len(run[q].todo)
                                              /\ \A k \in 1..Len(run'[q].todo) : run'[q].todo[k] = run[q].todo[k + n]
  <2> SUFFICES ASSUME NEW q \in Runs, q # r
               PROVE  /\ Len(run'[q].todo) + 0 <= Len(run[q].todo)
                      /\ \A k \in 1..Len(run'[q].todo) : run'[q].todo[k] = run[q].todo[k + 0]
    OBVIOUS
  <2>1. run'[q] = run[q] /\ Len(run[q].todo) \in Nat
    BY <1>1 DEF FInv, Types, Run
  <2> QED
    BY <2>1
<1>6. Shorter
  BY <1>4, <1>5 DEF Shorter
<1>7. NoneFails
  BY <1>1, <1>3 DEF NoneFails
<1>8. \A q \in Runs : Kept(q)
  BY <1>1 DEF Kept, Working
<1> QED
  BY <1>6, <1>7, <1>8, QuietStep

-----------------------------------------------------------------------------
(* Requests, and the daily run where nothing fails                         *)

LEMMA SameQuiet == UNCHANGED lead => Quiet
BY DEF Quiet

\* One row changes, and is not due afterwards.
LEMMA OneQuiet ==
    ASSUME Types, NEW e \in Addresses, NEW row, lead' = [lead EXCEPT ![e] = row],
           ~(row.status = "active" /\ row.due <= 0)
    PROVE  Quiet /\ ~Due(e)'
BY DEF Quiet, Due, Active, Types

LEMMA NoLeadQuiet ==
    ASSUME Types, NEW e \in Addresses, lead' = [lead EXCEPT ![e] = NoLead]
    PROVE  Quiet /\ ~Due(e)'
BY DEF Quiet, Due, Active, Types, NoLead

LEMMA StoppedQuiet ==
    ASSUME Types, NEW e \in Addresses, lead[e] # NoLead, NEW status \in Stops, lead' = Stopped(e, status)
    PROVE  Quiet /\ ~Due(e)'
<1>1. lead[e] \in Lead /\ status # "active"
  BY DEF Types, Stops
<1>2. lead' = [lead EXCEPT ![e] = [lead[e] EXCEPT !.status = status, !.due = 0]]
  BY <1>1 DEF Stopped, Types
<1>3. [lead[e] EXCEPT !.status = status, !.due = 0].status = status
  BY <1>1 DEF Lead
<1> QED
  BY <1>1, <1>2, <1>3, OneQuiet

LEMMA RequestPatient ==
    ASSUME FInv, FInv', Queue, Patient, NEW e \in Addresses,
           \/ StartEnroll(e) \/ Enroll(e) \/ EnrollFails(e)
           \/ Unsubscribe(e) \/ Forget(e) \/ ForgetFails(e)
           \/ StopLead(e) \/ Expire(e)
    PROVE  Queue' /\ Patient'
<1>0. UNCHANGED <<run, ran, faults>>
  BY DEF StartEnroll, Enroll, EnrollFails, Unsubscribe, Forget, ForgetFails, StopLead, Expire
<1>1. Quiet
  <2>1. CASE StartEnroll(e) \/ EnrollFails(e) \/ Unsubscribe(e) \/ ForgetFails(e)
    BY <2>1, SameQuiet DEF StartEnroll, EnrollFails, Unsubscribe, ForgetFails
  <2>2. CASE Enroll(e)
    <3> DEFINE row == [id |-> created + 1, status |-> "active", step |-> 0, due |-> 1]
    <3>1. ~(row.due <= 0)
      OBVIOUS
    <3>2. UNCHANGED lead \/ lead' = [lead EXCEPT ![e] = row]
      BY <2>2 DEF Enroll
    <3> HIDE DEF row
    <3> QED
      BY <3>1, <3>2, SameQuiet, OneQuiet DEF FInv
  <2>3. CASE Forget(e) \/ Expire(e)
    BY <2>3, NoLeadQuiet DEF Forget, Expire, FInv
  <2>4. CASE StopLead(e)
    BY <2>4, StoppedQuiet DEF StopLead, Stops, FInv
  <2> QED
    BY <2>1, <2>2, <2>3, <2>4
<1> QED
  BY <1>0, <1>1, QuietRequest

\* A run deals with the first lead on its list, and goes on to the next.
LEMMA NextPatient ==
    ASSUME FInv, FInv', Queue, Patient, Quiet, NEW r \in Runs, run[r].at # "idle", NextLead(r),
           Working(r) => ~\E f \in Addresses : f = This(r).email /\ Due(f)',
           UNCHANGED <<ran, faults>>
    PROVE  Queue' /\ Patient'
<1>1. run' = [run EXCEPT ![r] = NextRun(r)]
  BY DEF NextLead, NextRun
<1>2. run'[r] = NextRun(r)
  BY <1>1 DEF FInv, Types
<1>3. Kept(r)
  BY <1>2, ThisAddress DEF Kept
<1>4. "idle" \in Places \ {"restore"}
  BY DEF Places
<1> QED
  BY <1>1, <1>3, <1>4, QuietRun

\* A run goes on to another await.
LEMMA GotoPatient ==
    ASSUME FInv, FInv', Queue, Patient, Quiet, NEW r \in Runs, run[r].at # "idle",
           NEW p \in Places \ {"restore"}, Goto(r, p),
           \/ p = "advance"
           \/ ~Working(r)
           \/ \E f \in Addresses : f = This(r).email /\ Due(f) /\ ~Due(f)',
           UNCHANGED <<ran, faults>>
    PROVE  Queue' /\ Patient'
<1>1. run' = [run EXCEPT ![r] = [run[r] EXCEPT !.at = p]]
  BY DEF Goto
<1>2. run'[r].at = p /\ run'[r].todo = run[r].todo
  BY <1>1 DEF FInv, Types, Run
<1>3. Kept(r)
  BY <1>2 DEF Kept
<1> QED
  BY <1>1, <1>3, QuietRun

LEMMA AdvancePatient ==
    ASSUME FInv, FInv', Queue, Patient, NEW r \in Runs, Advance(r)
    PROVE  Queue' /\ Patient'
<1>0. run[r].at # "idle" /\ UNCHANGED <<ran, faults>>
  BY DEF Advance
<1>1. PICK e \in Addresses : e = This(r).email
  BY <1>0, ThisAddress
<1>2. This(r) \in Copy /\ Reads(r, This(r))
  BY <1>0, HeadRead DEF FInv
<1>3. CASE ~Unmoved(r)
  <2>1. ~Due(e)
    <3> SUFFICES ASSUME Due(e) PROVE FALSE
      OBVIOUS
    <3>1. CopyOf(e) = This(r)
      BY <1>1, <1>2 DEF Queue, Fresh
    <3>2. IsRow(e, This(r).id) /\ lead[e].step = This(r).step
      BY <3>1 DEF CopyOf, IsRow, Due, Active, NoLead
    <3> QED
      BY <1>1, <1>3, <3>2 DEF Unmoved
  <2>2. UNCHANGED lead /\ NextLead(r)
    BY <1>3 DEF Advance
  <2>3. ~Due(e)'
    BY <2>1, <2>2 DEF Due, Active
  <2> QED
    BY <1>0, <1>1, <2>2, <2>3, SameQuiet, NextPatient
<1>4. CASE Unmoved(r)
  <2>1. Due(e) /\ lead[e] \in Lead
    BY <1>1, <1>4 DEF Unmoved, Due, Active, FInv, Types, NoLead
  <2>2. PICK row : /\ lead' = [lead EXCEPT ![e] = row]
                   /\ ~(row.status = "active" /\ row.due <= 0)
    <3> DEFINE n == This(r).step + 1
    <3>1. CASE n = Steps
      <4>1. lead' = [lead EXCEPT ![e] = [lead[e] EXCEPT !.step = n, !.status = "completed", !.due = 0]]
        BY <1>1, <1>4, <3>1 DEF Advance, FInv, Types
      <4>2. [lead[e] EXCEPT !.step = n, !.status = "completed", !.due = 0].status = "completed"
        BY <2>1 DEF Lead
      <4> QED
        BY <4>1, <4>2
    <3>2. CASE n # Steps
      <4>1. PICK d \in 1..Gap : lead' = [lead EXCEPT ![e] = [lead[e] EXCEPT !.step = n, !.due = d]]
        BY <1>1, <1>4, <3>2 DEF Advance, FInv, Types
      <4>2. [lead[e] EXCEPT !.step = n, !.due = d].due = d /\ ~(d <= 0)
        BY <2>1, FunnelAssumption DEF Lead
      <4> QED
        BY <4>1, <4>2
    <3> QED
      BY <3>1, <3>2
  <2>3. Quiet /\ ~Due(e)'
    BY <2>2, OneQuiet DEF FInv
  <2>4. Goto(r, "vet") /\ "vet" \in Places \ {"restore"}
    BY <1>4 DEF Advance, Places
  <2> QED
    BY <1>0, <1>1, <2>1, <2>3, <2>4, GotoPatient
<1> QED
  BY <1>3, <1>4

LEMMA QuietWork ==
    ASSUME FInv, FInv', Queue, Patient, NEW r \in Runs,
           \/ Drop(r) \/ Hold(r) \/ Proceed(r) \/ Vet(r)
           \/ Send(r) \/ Suppress(r) \/ Convert(r) \/ Bounce(r)
    PROVE  Queue' /\ Patient'
<1>0. run[r].at # "idle" /\ UNCHANGED <<ran, faults>>
  BY DEF Drop, Hold, Proceed, Vet, Send, Suppress, Convert, Bounce
<1>1. PICK e \in Addresses : e = This(r).email
  BY <1>0, ThisAddress
<1>2. This(r) \in Copy /\ Reads(r, This(r))
  BY <1>0, HeadRead DEF FInv
<1>3. Due(e) => IsRow(e, This(r).id) /\ Active(e)
  <2> SUFFICES ASSUME Due(e) PROVE IsRow(e, This(r).id) /\ Active(e)
    OBVIOUS
  <2>1. CopyOf(e) = This(r)
    BY <1>1, <1>2 DEF Queue, Fresh
  <2> QED
    BY <2>1 DEF CopyOf, IsRow, Due, Active, NoLead
<1>4. {"advance", "send", "suppress"} \subseteq Places \ {"restore"}
  BY DEF Places
<1>5. CASE Drop(r)
  <2>1. NextLead(r) /\ lead' = [lead EXCEPT ![e] = NoLead]
    BY <1>1, <1>5 DEF Drop
  <2> QED
    BY <1>0, <1>1, <2>1, NoLeadQuiet, NextPatient DEF FInv
<1>6. CASE Hold(r)
  <2>1. NextLead(r)
    BY <1>6 DEF Hold
  <2>2. CASE IsRow(e, This(r).id) /\ Active(e)
    <3>1. lead[e] \in Lead
      BY <2>2 DEF FInv, Types, IsRow
    <3>2. lead' = [lead EXCEPT ![e] = [lead[e] EXCEPT !.due = 1]]
      BY <1>1, <1>6, <2>2 DEF Hold, FInv, Types
    <3>3. ~([lead[e] EXCEPT !.due = 1].due <= 0)
      BY <3>1 DEF Lead
    <3>4. Quiet /\ ~Due(e)'
      BY <3>2, <3>3, OneQuiet DEF FInv
    <3> QED
      BY <1>0, <1>1, <2>1, <3>4, NextPatient
  <2>3. CASE ~(IsRow(e, This(r).id) /\ Active(e))
    <3>1. UNCHANGED lead
      BY <1>1, <1>6, <2>3 DEF Hold
    <3>2. Quiet /\ ~Due(e)'
      BY <1>3, <2>3, <3>1, SameQuiet DEF Due, Active
    <3> QED
      BY <1>0, <1>1, <2>1, <3>2, NextPatient
  <2> QED
    BY <2>2, <2>3
<1>7. CASE Proceed(r)
  BY <1>0, <1>4, <1>7, SameQuiet, GotoPatient DEF Proceed
<1>8. CASE Vet(r)
  <2>1. ~Working(r)
    BY <1>8 DEF Vet, Working
  <2>2. CASE e \in suppressed
    <3>1. NextLead(r) /\ lead' = [lead EXCEPT ![e] = NoLead]
      BY <1>1, <1>8, <2>2 DEF Vet
    <3> QED
      BY <1>0, <2>1, <3>1, NoLeadQuiet, NextPatient DEF FInv
  <2>3. CASE e \notin suppressed
    <3>1. Goto(r, "send") /\ UNCHANGED lead
      BY <1>1, <1>8, <2>3 DEF Vet
    <3> QED
      BY <1>0, <1>4, <2>1, <3>1, SameQuiet, GotoPatient
  <2> QED
    BY <2>2, <2>3
<1>9. CASE Send(r) \/ Suppress(r)
  <2>1. NextLead(r) /\ UNCHANGED lead /\ ~Working(r)
    BY <1>9 DEF Send, Suppress, Working
  <2> QED
    BY <1>0, <2>1, SameQuiet, NextPatient
<1>10. CASE Convert(r)
  <2>1. NextLead(r)
    BY <1>10 DEF Convert
  <2>2. CASE IsRow(e, This(r).id)
    <3>1. lead[e] # NoLead /\ lead' = Stopped(e, "stopped") /\ "stopped" \in Stops
      BY <1>1, <1>10, <2>2 DEF Convert, IsRow, Stops
    <3> QED
      BY <1>0, <1>1, <2>1, <3>1, StoppedQuiet, NextPatient DEF FInv
  <2>3. CASE ~IsRow(e, This(r).id)
    <3>1. UNCHANGED lead
      BY <1>1, <1>10, <2>3 DEF Convert
    <3>2. Quiet /\ ~Due(e)'
      BY <1>3, <2>3, <3>1, SameQuiet DEF Due, Active
    <3> QED
      BY <1>0, <1>1, <2>1, <3>2, NextPatient
  <2> QED
    BY <2>2, <2>3
<1>11. CASE Bounce(r)
  <2>1. Goto(r, "suppress") /\ ~Working(r)
    BY <1>11 DEF Bounce, Working
  <2>2. Quiet
    <3>1. CASE IsRow(e, This(r).id)
      <4>1. lead[e] # NoLead /\ lead' = Stopped(e, "bounced") /\ "bounced" \in Stops
        BY <1>1, <1>11, <3>1 DEF Bounce, IsRow, Stops
      <4> QED
        BY <4>1, StoppedQuiet DEF FInv
    <3>2. CASE ~IsRow(e, This(r).id)
      BY <1>1, <1>11, <3>2, SameQuiet DEF Bounce
    <3> QED
      BY <3>1, <3>2
  <2> QED
    BY <1>0, <1>4, <2>1, <2>2, GotoPatient
<1> QED
  BY <1>5, <1>6, <1>7, <1>8, <1>9, <1>10, <1>11

-----------------------------------------------------------------------------
(* What fails                                                              *)

LEMMA BreakShorter ==
    ASSUME Types, NEW r \in Runs, Break(r)
    PROVE  Shorter /\ NoneFails
<1>1. run'[r] = Idle /\ \A q \in Runs : q # r => run'[q] = run[q]
  BY DEF Break, Types
<1>2. \A q \in Runs : Len(run[q].todo) \in Nat
  BY DEF Types, Run
<1>3. ASSUME NEW q \in Runs
      PROVE  /\ Len(run'[q].todo) + 0 <= Len(run[q].todo)
             /\ \A k \in 1..Len(run'[q].todo) : run'[q].todo[k] = run[q].todo[k + 0]
  <2>1. CASE q = r
    <3>1. run'[q].todo = <<>>
      BY <1>1, <2>1 DEF Idle
    <3> QED
      BY <1>2, <3>1
  <2>2. CASE q # r
    BY <1>1, <1>2, <2>2
  <2> QED
    BY <2>1, <2>2
<1>4. Shorter
  BY <1>3 DEF Shorter
<1>5. NoneFails
  BY <1>1 DEF NoneFails, Idle
<1> QED
  BY <1>4, <1>5

LEMMA GotoShorter ==
    ASSUME Types, NEW r \in Runs, NEW p, Goto(r, p)
    PROVE  Shorter
<1>1. \A q \in Runs : run'[q].todo = run[q].todo /\ Len(run[q].todo) \in Nat
  BY DEF Goto, Types, Run
<1>2. ASSUME NEW q \in Runs
      PROVE  /\ Len(run'[q].todo) + 0 <= Len(run[q].todo)
             /\ \A k \in 1..Len(run'[q].todo) : run'[q].todo[k] = run[q].todo[k + 0]
  BY <1>1
<1> QED
  BY <1>2 DEF Shorter

\* A fault makes up for a lead that comes into the front, or for a day lost.
LEMMA FaultWait ==
    ASSUME FInv, NEW c \in Copy, NEW k \in Nat, Wait(c, k), faults' = faults + 1
    PROVE  /\ \A f : Front(c)' \subseteq Front(c) \cup {f} => Wait(c, k)'
           /\ Front(c)' \subseteq Front(c) => Wait(c, k)' /\ Wait(c, k + 1)'
<1>1. ASSUME NEW f, Front(c)' \subseteq Front(c) \cup {f} PROVE Wait(c, k)'
  <2>1. Cardinality(Front(c)') <= Cardinality(Front(c)) + 1
    BY <1>1, FrontType, Counts
  <2> QED
    BY <2>1, FrontType, FaultsNat DEF Wait
<1>2. ASSUME Front(c)' \subseteq Front(c) PROVE Wait(c, k)' /\ Wait(c, k + 1)'
  <2>1. Cardinality(Front(c)') <= Cardinality(Front(c))
    BY <1>2, FrontType, Counts
  <2> QED
    BY <2>1, FrontType, FaultsNat DEF Wait
<1> QED
  BY <1>1, <1>2

LEMMA LateStays ==
    ASSUME FInv, Late < Cardinality(Addresses) + faults, faults' \in Nat, faults' >= faults
    PROVE  Patient'
<1>1. Late \in Nat /\ Cardinality(Addresses) \in Nat /\ faults \in Nat
  BY FunnelAssumption, FS_CardinalityType, FaultsNat
<1>2. Late < Cardinality(Addresses) + faults'
  BY <1>1
<1> QED
  BY <1>2 DEF Patient

LEMMA CutPatient ==
    ASSUME FInv, FInv', Queue, Patient, NEW r \in Runs, Break(r), UNCHANGED <<lead, ran>>, faults' = faults + 1
    PROVE  Queue' /\ Patient'
<1>1. Quiet /\ Shorter /\ NoneFails
  BY SameQuiet, BreakShorter DEF FInv
<1>2. Queue'
  BY <1>1, QueueKept DEF FInv
<1>3. CASE Late < Cardinality(Addresses) + faults
  BY <1>2, <1>3, LateStays, FaultsNat
<1>4. CASE ~(Late < Cardinality(Addresses) + faults)
  <2>1. ASSUME NEW c \in Copy, Current(c)' \/ \E q \in Runs : Reads(q, c)'
        PROVE  Wait(c, 1)' /\ Wait(c, 2)'
    <3>1. Current(c) \/ \E q \in Runs : Reads(q, c)
      BY <1>1, <2>1, QuietRows, ShorterReads DEF FInv
    <3>2. Wait(c, 1)
      BY <1>4, <3>1 DEF Patient
    <3>3. Wait(c, 1)' /\ Wait(c, 1 + 1)'
      BY <1>1, <3>2, NoNewFront, FaultWait
    <3> QED
      BY <3>3
  <2>2. ASSUME NEW q \in Runs, NEW c \in Copy, run'[q].at = "restore", This(q)' = c
        PROVE  Wait(c, 2)'
    <3>1. run[q].at = "restore" /\ This(q) = c
      BY <1>1, <2>2 DEF NoneFails, This
    <3>2. Wait(c, 2)
      BY <1>4, <3>1 DEF Patient
    <3> QED
      BY <1>1, <3>2, NoNewFront, FaultWait
  <2> QED
    BY <1>2, <2>1, <2>2, Zenon DEF Patient
<1> QED
  BY <1>3, <1>4

LEMMA RefusePatient ==
    ASSUME FInv, FInv', Queue, Patient, NEW r \in Runs, Refuse(r)
    PROVE  Queue' /\ Patient'
<1>0. run[r].at = "send" /\ Goto(r, "restore") /\ UNCHANGED <<lead, ran>> /\ faults' = faults + 1
  BY DEF Refuse
<1>1. Quiet /\ Shorter
  BY <1>0, SameQuiet, GotoShorter DEF FInv
<1>2. Queue'
  BY <1>1, QueueKept DEF FInv
<1>3. /\ run'[r].at = "restore" /\ \A q \in Runs : q # r => run'[q] = run[q]
      /\ \A q \in Runs : run'[q].todo = run[q].todo
  BY <1>0 DEF Goto, FInv, Types, Run
<1>4. \A f : Restoring(f)' => Restoring(f) \/ f = This(r).email
  BY <1>3 DEF Restoring, This
<1>5. \A c \in Copy : Front(c)' \subseteq Front(c) \cup {This(r).email}
  BY <1>0, <1>4 DEF Front, Ahead, Due, Active
<1>6. This(r) \in Copy /\ Reads(r, This(r))
  BY <1>0, HeadRead DEF FInv
<1>7. CASE Late < Cardinality(Addresses) + faults
  BY <1>0, <1>2, <1>7, LateStays, FaultsNat
<1>8. CASE ~(Late < Cardinality(Addresses) + faults)
  <2>1. ASSUME NEW c \in Copy, Current(c)' \/ \E q \in Runs : Reads(q, c)'
        PROVE  Wait(c, 1) /\ Wait(c, 1)'
    <3>1. Current(c) \/ \E q \in Runs : Reads(q, c)
      BY <1>1, <2>1, QuietRows, ShorterReads DEF FInv
    <3>2. Wait(c, 1)
      BY <1>8, <3>1 DEF Patient
    <3> QED
      BY <1>0, <1>5, <3>2, FaultWait
  <2>2. ASSUME NEW q \in Runs, NEW c \in Copy, run'[q].at = "restore", This(q)' = c
        PROVE  Wait(c, 2)'
    <3>1. CASE q = r
      <4>1. c = This(r)
        BY <1>3, <2>2, <3>1 DEF This
      <4>2. Wait(c, 1)
        BY <1>6, <1>8, <4>1 DEF Patient
      <4>3. Front(c)' \subseteq Front(c)
        BY <1>5, <4>1 DEF Front
      <4>4. Wait(c, 1 + 1)'
        BY <1>0, <4>2, <4>3, FaultWait
      <4> QED
        BY <4>4
    <3>2. CASE q # r
      <4>1. run[q].at = "restore" /\ This(q) = c
        BY <1>3, <2>2, <3>2 DEF This
      <4>2. Wait(c, 2)
        BY <1>8, <4>1 DEF Patient
      <4> QED
        BY <1>0, <1>5, <4>2, FaultWait
    <3> QED
      BY <3>1, <3>2
  <2>3. ASSUME ran', NEW c \in Copy, Current(c)'
        PROVE  Wait(c, 2)' \/ \E q \in Runs : Promise(q, c)'
    <3>1. ran /\ Current(c)
      BY <1>0, <1>1, <2>3, QuietRows, Zenon
    <3>2. CASE Wait(c, 2)
      BY <1>0, <1>5, <3>2, FaultWait
    <3>3. ASSUME NEW q \in Runs, Promise(q, c) PROVE Promise(q, c)'
      <4>1. q # r /\ run'[q] = run[q]
        BY <1>0, <1>3, <3>3 DEF Promise
      <4> QED
        BY <1>0, <3>3, <4>1 DEF Promise, Reads, This, Ahead, Due, Active
    <3> QED
      BY <1>8, <3>1, <3>2, <3>3, Zenon DEF Patient
  <2> QED
    BY <1>2, <2>1, <2>2, <2>3, Zenon DEF Patient
<1> QED
  BY <1>7, <1>8

\* A step is put back: the lead is due again, as long as it was when it was read.
LEMMA PutBackPatient ==
    ASSUME FInv, FInv', Queue, Patient, NEW r \in Runs, Restore(r),
           IsRow(This(r).email, This(r).id), lead[This(r).email].step = This(r).step + 1
    PROVE  Queue' /\ Patient'
<1>0. run[r].at = "restore" /\ Break(r) /\ UNCHANGED <<ran, faults>>
  BY DEF Restore
<1>1. PICK x \in Copy : x = This(r) /\ Reads(r, x)
  BY <1>0, HeadRead DEF FInv
<1>2. PICK e \in Addresses : e = x.email
  BY FrontType
<1>3. lead[e] \in Lead /\ lead[e].id = x.id
  BY <1>1, <1>2 DEF IsRow, FInv, Types
<1>4. lead' = [lead EXCEPT ![e] = [lead[e] EXCEPT !.step = x.step, !.due = x.due, !.status = "active"]]
  BY <1>1, <1>2 DEF Restore, FInv, Types
<1>5. /\ \A f \in Addresses : f # e => lead'[f] = lead[f]
      /\ lead'[e].id = x.id /\ lead'[e].step = x.step /\ lead'[e].due = x.due
  BY <1>3, <1>4 DEF FInv, Types, Lead
<1>6. CopyOf(e)' = x
  BY <1>2, <1>5 DEF CopyOf, Copy
<1>7. Shorter /\ NoneFails
  BY <1>0, BreakShorter DEF FInv
<1>8. Restoring(e) /\ ~Due(e)
  BY <1>0, <1>1, <1>2, DueAtRest DEF Restoring
<1>9. \A f \in Addresses : f # e => (Due(f)' <=> Due(f)) /\ \A c \in Copy : Ahead(f, c)' <=> Ahead(f, c)
  BY <1>5 DEF Due, Active, Ahead
<1>10. \A c \in Copy : Front(c)' \subseteq Front(c)
  <2>1. \A f : Restoring(f)' => Restoring(f)
    BY <1>7 DEF Restoring, NoneFails, This
  <2> QED
    BY <1>8, <1>9, <2>1 DEF Front
<1>11. ASSUME NEW c \in Copy, Current(c)' PROVE c = x \/ (c.email # e /\ Current(c))
  <2>1. CASE c.email = e
    BY <1>6, <1>11, <2>1 DEF Current
  <2>2. CASE c.email # e
    BY <1>5, <1>9, <1>11, <2>2, FrontType DEF Current, CopyOf
  <2> QED
    BY <2>1, <2>2
<1>12. Fresh'
  <2> SUFFICES ASSUME NEW q \in Runs, NEW c \in Copy, Reads(q, c)', Due(c.email)'
               PROVE  CopyOf(c.email)' = c
    BY DEF Fresh
  <2>1. Reads(q, c)
    BY <1>7, ShorterReads DEF FInv
  <2>2. CASE c.email = e
    <3>1. c = x
      BY <1>1, <1>2, <2>1, <2>2 DEF Queue, Agree
    <3> QED
      BY <1>2, <1>6, <3>1
  <2>3. CASE c.email # e
    <3>1. c.email \in Addresses
      BY FrontType
    <3>2. Due(c.email)
      BY <1>9, <2>3, <3>1
    <3>3. CopyOf(c.email) = c
      BY <2>1, <3>2 DEF Queue, Fresh
    <3> QED
      BY <1>5, <2>3, <3>1, <3>3 DEF CopyOf
  <2> QED
    BY <2>2, <2>3
<1>13. Queue'
  BY <1>7, <1>12, ShorterOrder DEF Queue, FInv
<1>14. CASE Late < Cardinality(Addresses) + faults
  BY <1>0, <1>13, <1>14, LateStays, FaultsNat
<1>15. CASE ~(Late < Cardinality(Addresses) + faults)
  <2>1. Wait(x, 1) /\ Wait(x, 2)
    BY <1>0, <1>1, <1>15 DEF Patient
  <2>2. ASSUME NEW c \in Copy, Current(c)' \/ \E q \in Runs : Reads(q, c)'
        PROVE  Wait(c, 1)'
    <3>1. c = x \/ Current(c) \/ \E q \in Runs : Reads(q, c)
      BY <1>7, <1>11, <2>2, ShorterReads DEF FInv
    <3>2. Wait(c, 1)
      BY <1>15, <2>1, <3>1 DEF Patient
    <3> QED
      BY <1>0, <1>10, <3>2, WaitKept
  <2>3. ASSUME NEW q \in Runs, NEW c \in Copy, run'[q].at = "restore", This(q)' = c
        PROVE  Wait(c, 2)'
    <3>1. run[q].at = "restore" /\ This(q) = c
      BY <1>7, <2>3 DEF NoneFails, This
    <3>2. Wait(c, 2)
      BY <1>15, <3>1 DEF Patient
    <3> QED
      BY <1>0, <1>10, <3>2, WaitKept
  <2>4. ASSUME ran', NEW c \in Copy, Current(c)'
        PROVE  Wait(c, 2)' \/ \E q \in Runs : Promise(q, c)'
    <3>1. CASE Wait(c, 2)
      BY <1>0, <1>10, <3>1, WaitKept
    <3>2. CASE ~Wait(c, 2)
      <4>1. ran
        BY <1>0, <2>4, Zenon
      <4>2. Current(c)
        BY <1>11, <2>1, <2>4, <3>2
      <4>3. PICK q \in Runs : Promise(q, c)
        BY <1>15, <3>2, <4>1, <4>2, Zenon DEF Patient
      <4>4. q # r
        BY <1>0, <4>3 DEF Promise
      <4>5. run'[q] = run[q]
        BY <1>0, <4>4 DEF Break, FInv, Types
      <4>6. CASE Reads(q, c)
        BY <4>3, <4>5, <4>6 DEF Promise, Reads
      <4>7. CASE This(q).email # c.email /\ Ahead(This(q).email, c)
        <5>1. This(q).email # e
          BY <1>8, <4>7 DEF Ahead
        <5>2. This(q).email \in Addresses
          BY <4>3, ThisAddress DEF Promise
        <5>3. PICK f \in Addresses : f = This(q).email
          BY <5>2
        <5>4. Ahead(f, c)' /\ f # c.email
          BY <1>9, <4>7, <5>1, <5>3
        <5>5. This(q).email' = f
          BY <4>5, <5>3 DEF This
        <5> QED
          BY <4>3, <4>5, <5>4, <5>5 DEF Promise
      <4> QED
        BY <4>3, <4>6, <4>7 DEF Promise
    <3> QED
      BY <3>1, <3>2
  <2> QED
    BY <1>13, <2>2, <2>3, <2>4, Zenon DEF Patient
<1> QED
  BY <1>14, <1>15

LEMMA RestorePatient ==
    ASSUME FInv, FInv', Queue, Patient, NEW r \in Runs, Restore(r)
    PROVE  Queue' /\ Patient'
<1>1. CASE IsRow(This(r).email, This(r).id) /\ lead[This(r).email].step = This(r).step + 1
  BY <1>1, PutBackPatient
<1>2. CASE ~(IsRow(This(r).email, This(r).id) /\ lead[This(r).email].step = This(r).step + 1)
  <2>1. UNCHANGED <<lead, ran, faults>> /\ Break(r) /\ ~Working(r)
    BY <1>2 DEF Restore, Working
  <2>2. \A q \in Runs : q # r => run'[q] = run[q]
    BY <2>1 DEF Break, FInv, Types
  <2>3. \A q \in Runs : Kept(q)
    BY <2>1, <2>2 DEF Kept, Working
  <2> QED
    BY <2>1, <2>3, SameQuiet, BreakShorter, QuietStep DEF FInv
<1> QED
  BY <1>1, <1>2

-----------------------------------------------------------------------------
(* A run starts, a day passes                                              *)

LEMMA StartRunPatient ==
    ASSUME FInv, FInv', Queue, Patient, NEW r \in Runs, StartRun(r)
    PROVE  Queue' /\ Patient'
<1>1. PICK limit \in Limits, s \in Batches :
          Batch(s, limit) /\ run' = [run EXCEPT ![r] = [at |-> "decide", todo |-> s]]
  BY DEF StartRun
<1>2. PICK n \in 1..Cardinality(Addresses) : s \in [1..n -> {CopyOf(e) : e \in {f \in Addresses : Due(f)}}]
  BY DEF Batches
<1>3. n \in Nat \ {0} /\ 1 \in 1..n
  BY FS_CardinalityType, FunnelAssumption
<1>4. Len(s) = n
  BY <1>2, <1>3
<1>5. \A k \in 1..n : s[k] \in Copy /\ Current(s[k])
  <2> SUFFICES ASSUME NEW k \in 1..n PROVE s[k] \in Copy /\ Current(s[k])
    OBVIOUS
  <2>1. PICK e \in Addresses : Due(e) /\ s[k] = CopyOf(e)
    BY <1>2
  <2> QED
    BY <2>1, DueCopy DEF FInv
<1>6. /\ run'[r] = [at |-> "decide", todo |-> s]
      /\ \A q \in Runs : q # r => run'[q] = run[q]
  BY <1>1 DEF FInv, Types
<1>7. UNCHANGED <<lead, faults>>
  BY DEF StartRun
<1>8. \A c : Current(c)' <=> Current(c)
  BY <1>7 DEF Current, CopyOf, Due, Active
<1>9. ASSUME NEW q \in Runs, NEW c \in Copy, Reads(q, c)' PROVE Reads(q, c) \/ Current(c)
  BY <1>4, <1>5, <1>6, <1>9 DEF Reads
<1>10. \A c, d \in Copy : Current(c) /\ c.email = d.email /\ (Current(d) \/ \E q \in Runs : Reads(q, d)) => c = d
  BY DEF Current, Queue, Fresh
<1>11. Fresh'
  <2> SUFFICES ASSUME NEW q \in Runs, NEW c \in Copy, Reads(q, c)', Due(c.email)'
               PROVE  CopyOf(c.email)' = c
    BY DEF Fresh
  <2>1. Due(c.email)
    BY <1>7 DEF Due, Active
  <2>2. CopyOf(c.email) = c
    BY <1>9, <2>1 DEF Current, Queue, Fresh
  <2> QED
    BY <1>7, <2>2 DEF CopyOf
<1>12. Agree'
  <2> SUFFICES ASSUME NEW q \in Runs, NEW p \in Runs, NEW c \in Copy, NEW d \in Copy,
                      Reads(q, c)', Reads(p, d)', c.email = d.email
               PROVE  c = d
    BY DEF Agree
  <2>1. Reads(q, c) \/ Current(c)
    BY <1>9
  <2>2. Reads(p, d) \/ Current(d)
    BY <1>9
  <2>3. CASE Current(c) \/ Current(d)
    BY <1>10, <2>1, <2>2, <2>3
  <2>4. CASE Reads(q, c) /\ Reads(p, d)
    BY <2>4 DEF Queue, Agree
  <2> QED
    BY <2>1, <2>2, <2>3, <2>4
<1>13. Sorted'
  <2> SUFFICES ASSUME NEW q \in Runs, NEW j \in 1..Len(run'[q].todo), NEW k \in 1..Len(run'[q].todo), j <= k
               PROVE  run'[q].todo[j].due <= run'[q].todo[k].due
    BY DEF Sorted
  <2>1. CASE q # r
    BY <1>6, <2>1 DEF Queue, Sorted
  <2>2. CASE q = r
    <3>1. run'[q].todo = s /\ j \in 1..n /\ k \in 1..n
      BY <1>4, <1>6, <2>2
    <3>2. CASE j = k
      BY <1>5, <3>1, <3>2, FrontType
    <3>3. CASE j < k
      BY <1>1, <1>4, <3>1, <3>3 DEF Batch
    <3> QED
      BY <3>1, <3>2, <3>3
  <2> QED
    BY <2>1, <2>2
<1>14. Queue'
  BY <1>11, <1>12, <1>13 DEF Queue
<1>15. Quiet /\ NoneFails
  BY <1>6, <1>7, SameQuiet DEF NoneFails
<1>16. CASE Late < Cardinality(Addresses) + faults
  BY <1>7, <1>14, <1>16, LateStays, FaultsNat
<1>17. CASE ~(Late < Cardinality(Addresses) + faults)
  <2>1. ASSUME NEW c \in Copy, Current(c)' \/ \E q \in Runs : Reads(q, c)'
        PROVE  Wait(c, 1)'
    <3>1. Current(c) \/ \E q \in Runs : Reads(q, c)
      BY <1>8, <1>9, <2>1
    <3>2. Wait(c, 1)
      BY <1>17, <3>1 DEF Patient
    <3> QED
      BY <1>7, <1>15, <3>2, NoNewFront, WaitKept
  <2>2. ASSUME NEW q \in Runs, NEW c \in Copy, run'[q].at = "restore", This(q)' = c
        PROVE  Wait(c, 2)'
    <3>1. run[q].at = "restore" /\ This(q) = c
      BY <1>15, <2>2 DEF NoneFails, This
    <3>2. Wait(c, 2)
      BY <1>17, <3>1 DEF Patient
    <3> QED
      BY <1>7, <1>15, <3>2, NoNewFront, WaitKept
  <2>3. ASSUME NEW c \in Copy, Current(c)'
        PROVE  Promise(r, c)'
    <3>1. Current(c) /\ c.email \in Addresses
      BY <1>8, <2>3, FrontType
    <3>2. CASE \E i \in 1..Len(s) : s[i].email = c.email
      <4>1. PICK i \in 1..n : s[i].email = c.email
        BY <1>4, <3>2
      <4>2. s[i] = c
        BY <1>5, <1>10, <3>1, <4>1
      <4> QED
        BY <1>4, <1>6, <4>2 DEF Promise, Reads
    <3>3. CASE \A i \in 1..Len(s) : s[i].email # c.email
      <4>1. s[1].due <= lead[c.email].due /\ lead[c.email].due = c.due
        BY <1>1, <1>3, <1>4, <3>1, <3>3 DEF Batch, Current, CopyOf
      <4>2. PICK f \in Addresses : f = s[1].email
        BY <1>3, <1>5, FrontType
      <4>3. f # c.email /\ Due(f) /\ lead[f].due = s[1].due
        BY <1>3, <1>4, <1>5, <3>3, <4>2 DEF Current, CopyOf
      <4>4. Ahead(f, c)'
        BY <1>7, <4>1, <4>3 DEF Ahead, Due, Active
      <4>5. This(r)' = s[1]
        BY <1>3, <1>4, <1>6 DEF This
      <4>6. This(r).email' = f
        BY <4>2, <4>5
      <4> QED
        BY <1>6, <4>3, <4>4, <4>6 DEF Promise
    <3> QED
      BY <3>2, <3>3
  <2> QED
    BY <1>14, <2>1, <2>2, <2>3, Zenon DEF Patient
<1> QED
  BY <1>16, <1>17

\* The day ends with nobody at work, so whoever is due has been promised nothing:
\* he has come one closer to the head, or somebody failed.
LEMMA DayPatient ==
    ASSUME FInv, FInv', Queue, Patient, Day
    PROVE  Queue' /\ Patient'
<1>1. /\ \A r \in Runs : run[r] = Idle /\ run'[r] = Idle
      /\ ran' = FALSE /\ UNCHANGED faults
      /\ ran \/ \A e \in Addresses : ~Due(e)
  BY DEF Day
<1>2. \A r \in Runs, c \in Copy : ~Reads(r, c) /\ ~Reads(r, c)'
  BY <1>1 DEF Reads, Idle
<1>3. Queue'
  BY <1>1, <1>2 DEF Queue, Fresh, Agree, Sorted, Idle
<1>4. CASE Late < Cardinality(Addresses) + faults
  BY <1>1, <1>3, <1>4, LateStays, FaultsNat
<1>5. CASE ~(Late < Cardinality(Addresses) + faults)
  <2>0. Late \in Nat /\ Cardinality(Addresses) \in Nat /\ faults \in Nat
    BY FunnelAssumption, FS_CardinalityType, FaultsNat
  <2>1. \A f : ~Restoring(f)'
    BY <1>1 DEF Restoring, Idle
  <2>2. \A f \in Addresses : Due(f)' => /\ lead[f] \in Lead /\ Active(f)
                                        /\ IF lead[f].due > -Late THEN lead'[f].due = lead[f].due - 1
                                                                  ELSE lead'[f].due = lead[f].due
    <3> SUFFICES ASSUME NEW f \in Addresses, Due(f)'
                 PROVE  /\ lead[f] \in Lead /\ Active(f)
                        /\ IF lead[f].due > -Late THEN lead'[f].due = lead[f].due - 1
                                                  ELSE lead'[f].due = lead[f].due
      OBVIOUS
    <3>1. lead'[f] = IF Active(f) /\ lead[f].due > -Late THEN [lead[f] EXCEPT !.due = lead[f].due - 1] ELSE lead[f]
      BY DEF Day
    <3>2. Active(f)
      BY <3>1 DEF Due, Active
    <3>3. lead[f] \in Lead
      BY <3>2 DEF Active, NoLead, FInv, Types
    <3> QED
      BY <3>1, <3>2, <3>3 DEF Lead
  <2>3. ASSUME NEW c \in Copy, Current(c)' PROVE Wait(c, 1)'
    <3> DEFINE e == c.email
               d == CopyOf(e)
    <3>1. e \in Addresses /\ Due(e)' /\ c.due = lead'[e].due /\ lead'[e].due <= 0
      BY <2>3, FrontType DEF Current, CopyOf, Due
    <3>2. lead[e] \in Lead /\ Active(e) /\ lead[e].due \in (-Late)..Gap /\ Gap \in Nat
      BY <2>2, <3>1, FunnelAssumption DEF Lead
    <3>3. CASE lead[e].due > 0
      <4>1. c.due = 0
        BY <2>0, <2>2, <3>1, <3>2, <3>3
      <4>2. Cardinality(Front(c)') - c.due + 1 <= Cardinality(Addresses) + faults
        BY <2>0, <4>1, FrontBound, FrontType
      <4> QED
        BY <1>1, <4>2 DEF Wait
    <3>4. CASE lead[e].due <= 0
      <4>1. Due(e) /\ d \in Copy /\ Current(d) /\ d.due = lead[e].due /\ d.email = e
        BY <3>1, <3>2, <3>4, DueCopy DEF Due, FInv, CopyOf
      <4>2. \A r \in Runs : ~Promise(r, d)
        BY <1>1 DEF Promise, Idle
      <4>3. Wait(d, 2)
        BY <1>1, <1>5, <3>1, <4>1, <4>2, Zenon DEF Patient
      <4>4. Cardinality(Front(d)) - d.due + 2 <= Cardinality(Addresses) + faults
        BY <4>3 DEF Wait
      <4>5. Cardinality(Front(d)) \in Nat /\ d.due \in Int
        BY <4>1, FrontType
      <4>6. lead[e].due > -Late
        BY <1>5, <2>0, <3>2, <4>1, <4>4, <4>5
      <4>7. c.due = d.due - 1
        BY <2>2, <3>1, <4>1, <4>6
      <4>8. ASSUME NEW f \in Front(c)' PROVE f \in Front(d)
        <5>1. f \in Addresses /\ f # e /\ Due(f)' /\ lead'[f].due <= c.due
          BY <2>1, FrontMember DEF Ahead
        <5>2. lead[f] \in Lead /\ Active(f) /\ lead[f].due \in (-Late)..Gap
          BY <2>2, <5>1 DEF Lead
        <5>3. lead[f].due <= d.due
          BY <2>0, <2>2, <3>2, <4>1, <4>6, <4>7, <5>1, <5>2
        <5>4. Ahead(f, d)
          BY <2>0, <3>2, <3>4, <4>1, <5>2, <5>3 DEF Ahead, Due
        <5> QED
          BY <4>1, <5>1, <5>4 DEF Front
      <4>9. Cardinality(Front(c)') <= Cardinality(Front(d))
        BY <4>1, <4>8, FrontType, Counts
      <4>10. Cardinality(Front(c)') - c.due + 1 <= Cardinality(Addresses) + faults
        BY <2>0, <4>4, <4>5, <4>7, <4>9, FrontType
      <4> QED
        BY <1>1, <4>10 DEF Wait
    <3> QED
      BY <2>0, <3>2, <3>3, <3>4
  <2>4. \A r \in Runs : run'[r].at # "restore"
    BY <1>1 DEF Idle
  <2> QED
    BY <1>1, <1>2, <1>3, <2>3, <2>4, Zenon DEF Patient
<1> QED
  BY <1>4, <1>5

-----------------------------------------------------------------------------
LEMMA InitPatient == Init => Queue /\ Patient
<1> SUFFICES ASSUME Init PROVE Queue /\ Patient
  OBVIOUS
<1>1. \A r \in Runs : run[r] = Idle
  BY DEF Init
<1>2. \A r \in Runs, c \in Copy : ~Reads(r, c)
  BY <1>1 DEF Reads, Idle
<1>3. \A c \in Copy : ~Current(c)
  BY FrontType DEF Init, Current, Due, Active, NoLead
<1>4. Queue
  BY <1>1, <1>2 DEF Queue, Fresh, Agree, Sorted, Idle
<1>5. Patient
  <2>1. \A r \in Runs : run[r].at # "restore"
    BY <1>1 DEF Idle
  <2> QED
    BY <1>2, <1>3, <2>1, Zenon DEF Patient
<1> QED
  BY <1>4, <1>5

LEMMA NextPatience == FInv /\ FInv' /\ Queue /\ Patient /\ [Next]_vars => Queue' /\ Patient'
<1> SUFFICES ASSUME FInv, FInv', Queue, Patient, [Next]_vars PROVE Queue' /\ Patient'
  OBVIOUS
<1>1. CASE SetBooking \/ UNCHANGED vars
  <2>1. UNCHANGED <<lead, run, ran, faults>>
    BY <1>1 DEF SetBooking, vars
  <2> QED
    BY <2>1, SameQuiet, QuietRequest
<1>2. ASSUME NEW r \in Runs, Work(r) \/ Chance(r) PROVE Queue' /\ Patient'
  <2>1. CASE Advance(r)
    BY <2>1, AdvancePatient
  <2>2. CASE Restore(r)
    BY <2>2, RestorePatient
  <2>3. CASE Refuse(r)
    BY <2>3, RefusePatient
  <2>4. CASE SendUnclear(r) \/ Die(r)
    BY <2>4, CutPatient DEF SendUnclear, Die
  <2> QED
    BY <1>2, <2>1, <2>2, <2>3, <2>4, QuietWork DEF Work, Chance
<1>3. CASE Day
  BY <1>3, DayPatient
<1> QED
  BY <1>1, <1>2, <1>3, RequestPatient, StartRunPatient DEF Next

\* However many leads wait for something and however many runs overlap, a lead that
\* is due waits no longer than there are others, and a day more for each fault.
THEOREM NobodyStarves == Spec => []NotStarved
<1>1. FInv /\ Patient => NotStarved
  <2> SUFFICES ASSUME FInv, Patient, NEW e \in Addresses, Active(e)
               PROVE  -lead[e].due < Cardinality(Addresses) + faults
    BY DEF NotStarved
  <2>1. lead[e] \in Lead
    BY DEF Active, NoLead, FInv, Types
  <2>2. /\ lead[e].due \in (-Late)..Gap /\ Late \in Nat /\ Gap \in Nat
        /\ Cardinality(Addresses) \in Nat /\ faults \in Nat
    BY <2>1, FunnelAssumption, FS_CardinalityType, FaultsNat DEF Lead
  <2>3. CASE Late < Cardinality(Addresses) + faults
    BY <2>2, <2>3
  <2>4. CASE ~(Late < Cardinality(Addresses) + faults) /\ lead[e].due <= 0
    <3>1. PICK c \in Copy : Current(c) /\ c.due = lead[e].due
      BY <2>4, DueCopy DEF Due, FInv, CopyOf
    <3>2. Cardinality(Front(c)) - c.due + 1 <= Cardinality(Addresses) + faults
      BY <2>4, <3>1 DEF Patient, Wait
    <3> QED
      BY <2>2, <3>1, <3>2, FrontType
  <2>5. CASE lead[e].due > 0
    BY <2>2, <2>5
  <2> QED
    BY <2>2, <2>3, <2>4, <2>5
<1>2. Init /\ FInv => FInv /\ Queue /\ Patient
  BY InitPatient
<1>3. FInv /\ FInv' /\ (FInv /\ Queue /\ Patient) /\ [Next]_vars => (FInv /\ Queue /\ Patient)'
  BY NextPatience
<1> QED
  BY <1>1, <1>2, <1>3, FInvHolds, PTL DEF Spec

=============================================================================
