---------------------------- MODULE ReportsProofs ----------------------------
(***************************************************************************)
(* The safety properties of Reports hold for any number of handlers, keys  *)
(* and deliveries, and for every window and batch.  The inductive          *)
(* invariant counts: a mail about a first report was preceded by a report  *)
(* of its own, and so was every handler still at work.                     *)
(***************************************************************************)
EXTENDS Reports, TLAPS, FiniteSetTheorems, WellFoundedInduction

\* A report of which its handler has still to count or store something.
AtWork  == {h \in Handlers : req[h].at \in {"records", "count"}}
Mailing == {h \in Handlers : req[h].at = "mail"}

\* Ids are given once.
Given == \A i \in Stored : i <= taken

Sound ==
    \A h \in Handlers : /\ req[h].at = "idle" => req[h] = Idle
                        /\ req[h].at = "records" => req[h].id \in 1..taken

\* Every first-report mail has a report of its own, and one of them is all there was
\* at a time.
Counted ==
    /\ mails + Cardinality(Mailing) <= swept + 1
    /\ mails + Cardinality(Mailing) + Cardinality(AtWork) <= swept + Cardinality(Stored)

\* Until two handlers meet or something fails, a report without a mail has its
\* handler still at work on it.
Alone ==
    ~crossed /\ faults = 0 =>
        /\ \A g, h \in Handlers : req[g] # Idle /\ req[h] # Idle => g = h
        /\ mails = 0 => \A i \in Stored : \E h \in Handlers :
               req[h].at = "mail" \/ (req[h].at \in {"records", "count"} /\ req[h].id = i)

Core == Given /\ Sound /\ RecordsComplete /\ Counted /\ Alone
RInv == TypeOK /\ Core

-----------------------------------------------------------------------------
(* Counting                                                                *)

LEMMA RowsAreNoNoRow == NoRow \notin Row
BY DEF NoRow, Row

LEMMA Finite ==
    /\ IsFiniteSet(Ids)
    /\ \A S \in SUBSET Ids : IsFiniteSet(S) /\ Cardinality(S) \in Nat
    /\ \A S \in SUBSET Handlers : IsFiniteSet(S) /\ Cardinality(S) \in Nat
<1>1. IsFiniteSet(Ids)
  BY FS_Interval, BoundsAssumption DEF Ids
<1> QED
  BY <1>1, FS_Subset, FS_CardinalityType, BoundsAssumption

\* A set of handlers, without one of them.
LEMMA OneLess ==
    ASSUME NEW S \in SUBSET Handlers, NEW h \in S
    PROVE  Cardinality(S \ {h}) = Cardinality(S) - 1 /\ Cardinality(S) \in Nat
BY Finite, FS_RemoveElement

LEMMA OneMore ==
    ASSUME NEW S \in SUBSET Handlers, NEW h \in Handlers \ S
    PROVE  Cardinality(S \cup {h}) = Cardinality(S) + 1 /\ Cardinality(S) \in Nat
BY Finite, FS_AddElement

LEMMA CountedSets ==
    /\ AtWork \in SUBSET Handlers /\ Mailing \in SUBSET Handlers /\ Stored \in SUBSET Ids
    /\ Cardinality(AtWork) \in Nat /\ Cardinality(Mailing) \in Nat /\ Cardinality(Stored) \in Nat
BY Finite DEF AtWork, Mailing, Stored

LEMMA Smallest ==
    ASSUME NEW T \in SUBSET Nat, T # {}
    PROVE  \E x \in T : \A y \in T : x <= y
<1> DEFINE R == {ss \in Nat \X Nat : ss[1] < ss[2]}
<1>1. IsWellFoundedOn(R, Nat)
  BY NatLessThanWellFounded DEF OpToRel
<1>2. PICK x \in T : \A y \in T : ~(<<y, x>> \in R)
  BY <1>1, WFMin
<1>3. \A y \in T : ~(y < x)
  BY <1>2
<1> QED
  BY <1>3

\* The n smallest of a set of ids are all of it, if they are fewer than n.
LEMMA LeastIsAll ==
    ASSUME NEW S \in SUBSET Ids, NEW n \in Nat, Cardinality(Least(S, n)) < n
    PROVE  Least(S, n) = S
<1> DEFINE Out == S \ Least(S, n)
           Below(i) == {j \in S : j < i}
<1>1. SUFFICES ASSUME Out # {} PROVE FALSE
  BY DEF Least
<1>2. PICK i \in Out : \A j \in Out : i <= j
  <2>1. Out \in SUBSET Nat
    <3>1. S \in SUBSET Nat
      BY BoundsAssumption DEF Ids
    <3> QED
      BY <3>1
  <2> HIDE DEF Out
  <2> QED
    BY <1>1, <2>1, Smallest
<1>3. Below(i) \subseteq Least(S, n)
  <2>1. \A j \in S : j \in Int
    BY DEF Ids
  <2> QED
    BY <1>2, <2>1
<1>4. Cardinality(Below(i)) <= Cardinality(Least(S, n))
  BY <1>3, Finite, FS_Subset DEF Least
<1>5. ~(Cardinality(Below(i)) < n)
  BY <1>2 DEF Least
<1>6. Cardinality(Below(i)) \in Nat /\ Cardinality(Least(S, n)) \in Nat
  BY Finite DEF Least
<1> QED
  BY <1>4, <1>5, <1>6

-----------------------------------------------------------------------------
(* Steps of the run and the clock                                          *)

\* Reports stay as they were, but for records past their window.
RowsStay ==
    /\ row' \in [Ids -> Row \cup {NoRow}]
    /\ \A i \in Ids : row'[i] = NoRow <=> row[i] = NoRow
    /\ \A i \in Stored : row'[i].key = row[i].key
    /\ \A i \in Stored : row'[i].records = row[i].records \/ i \in Expired'
    /\ Expired \subseteq Expired'

\* Reports past their window go.
RowsGo ==
    /\ row' = [i \in Ids |-> IF i \in Leaving THEN NoRow ELSE row[i]]
    /\ swept' = swept + Cardinality(Leaving)
    /\ age' = age

LEMMA StayKeeps ==
    ASSUME RInv, RowsStay, TypeOK', UNCHANGED <<req, mails, taken, swept, torn, crossed>>,
           faults' = 0 => faults = 0
    PROVE  Core'
<1>1. Stored' = Stored
  BY DEF Stored, RowsStay
<1>2. AtWork' = AtWork /\ Mailing' = Mailing
  BY DEF AtWork, Mailing
<1>3. Given'
  BY <1>1 DEF RInv, Core, Given
<1>4. Sound'
  BY DEF RInv, Core, Sound
<1>5. RecordsComplete'
  BY <1>1 DEF RInv, Core, RecordsComplete, RowsStay
<1>6. Counted'
  BY <1>1, <1>2 DEF RInv, Core, Counted
<1>7. Alone'
  BY <1>1 DEF RInv, Core, Alone
<1> QED
  BY <1>3, <1>4, <1>5, <1>6, <1>7 DEF Core

LEMMA ExpiredStored == Expired \in SUBSET Ids /\ Expired \subseteq Stored /\ RawExpired \in SUBSET Ids
BY DEF Expired, Stored, RawExpired

LEMMA LeavingExpired ==
    Leaving \subseteq Expired /\ Leaving \in SUBSET Ids /\ Leaving \in SUBSET Stored /\ Cardinality(Leaving) \in Nat
<1>1. Leaving \subseteq Expired
  BY DEF Leaving, Least
<1> QED
  BY <1>1, ExpiredStored, Finite

LEMMA GoKeeps ==
    ASSUME RInv, RowsGo, UNCHANGED <<req, mails, taken, torn, crossed, faults>>
    PROVE  Core' /\ Stored' = Stored \ Leaving /\ row' \in [Ids -> Row \cup {NoRow}]
           /\ \A i \in Stored' : row'[i] = row[i]
<1>1. Leaving \in SUBSET Stored /\ Cardinality(Leaving) \in Nat
  BY LeavingExpired
<1>2. Stored' = Stored \ Leaving /\ \A i \in Stored' : row'[i] = row[i]
  BY DEF RowsGo, Stored
<1>3. row' \in [Ids -> Row \cup {NoRow}]
  BY DEF RowsGo, RInv, TypeOK
<1>4. Cardinality(Stored') = Cardinality(Stored) - Cardinality(Leaving)
  <2>1. IsFiniteSet(Stored) /\ Stored \cap Leaving = Leaving
    BY <1>1, Finite DEF Stored
  <2>2. Cardinality(Stored \ Leaving) = Cardinality(Stored) - Cardinality(Stored \cap Leaving)
    BY <2>1, FS_Difference
  <2> QED
    BY <1>2, <2>1, <2>2
<1>5. AtWork' = AtWork /\ Mailing' = Mailing
  BY DEF AtWork, Mailing
<1>6. Counted'
  <2>1. swept \in Nat /\ mails \in Nat
    BY DEF RInv, TypeOK
  <2>2. mails' = mails /\ swept' = swept + Cardinality(Leaving)
    BY DEF RowsGo
  <2>3. /\ Cardinality(AtWork) \in Nat /\ Cardinality(Mailing) \in Nat /\ Cardinality(Stored) \in Nat
        /\ Counted
    BY CountedSets DEF RInv, Core
  <2>4. mails' + Cardinality(Mailing') <= swept' + 1
    BY <1>1, <1>5, <2>1, <2>2, <2>3 DEF Counted
  <2>5. mails' + Cardinality(Mailing') + Cardinality(AtWork') <= swept' + Cardinality(Stored')
    BY <1>1, <1>4, <1>5, <2>1, <2>2, <2>3 DEF Counted
  <2> QED
    BY <2>4, <2>5 DEF Counted
<1>7. Given'
  BY <1>2 DEF RInv, Core, Given
<1>8. Sound'
  BY DEF RInv, Core, Sound
<1>9. RecordsComplete'
  <2>1. \A i \in Stored' : i \in Expired => i \in Expired'
    BY <1>2 DEF Expired, Past, RowsGo
  <2> QED
    BY <1>2, <2>1 DEF RInv, Core, RecordsComplete
<1>10. Alone'
  BY <1>2 DEF RInv, Core, Alone
<1> QED
  BY <1>2, <1>3, <1>6, <1>7, <1>8, <1>9, <1>10 DEF Core

\* Nothing of the reports and their handlers changes.
LEMMA NothingStored ==
    ASSUME RInv, TypeOK', UNCHANGED <<row, age, req, mails, taken, swept, torn, crossed>>,
           faults' = 0 => faults = 0
    PROVE  RInv'
<1>1. RowsStay
  BY DEF RInv, TypeOK, RowsStay, Expired, Past, Stored
<1> QED
  BY <1>1, StayKeeps DEF RInv

LEMMA MinOfTwo ==
    ASSUME NEW a \in Int, NEW b \in Int
    PROVE  Min({a, b}) = IF a <= b THEN a ELSE b
<1> DEFINE m == IF a <= b THEN a ELSE b
<1>1. m \in {a, b} /\ \A y \in {a, b} : m <= y
  OBVIOUS
<1>2. \A x \in {a, b} : (\A y \in {a, b} : x <= y) => x = m
  OBVIOUS
<1> QED
  BY <1>1, <1>2, Zenon DEF Min

\* A place of the run, and the one after it.
LEMMA AfterTable ==
    ASSUME RInv, sweep.at # "idle"
    PROVE  After \in {"idle", "raw", "others"} /\ Table \in {"reports", "raw", "others"}
BY DEF After, Table, RInv, TypeOK

LEMMA LoopTypes ==
    ASSUME RInv, sweep.at # "idle", sweep.left > 0, NEW more, NEW p \in {"records", "raw", "others"}, Loop(more, p)
    PROVE  /\ sweep' \in [at : {"idle", "records", "reports", "raw", "others"}, left : 0..Statements]
           /\ clean' \subseteq {"reports", "raw", "others"}
<1>1. sweep.left - 1 \in 0..Statements
  BY BoundsAssumption DEF RInv, TypeOK
<1> QED
  BY <1>1, AfterTable DEF Loop, RInv, TypeOK

LEMMA RunRInv == ASSUME RInv, Run \/ SweepFails PROVE RInv'
<1>0. TypeOK /\ BoundsAssumption
  BY BoundsAssumption DEF RInv
<1>1. CASE StartRun
  <2>1. sweep' \in [at : {"idle", "records", "reports", "raw", "others"}, left : 0..Statements]
    BY <1>0, <1>1 DEF StartRun, StartWith, BoundsAssumption
  <2>2. TypeOK'
    BY <1>0, <1>1, <2>1 DEF StartRun, StartWith, TypeOK, store, history, Stored
  <2> QED
    BY <1>1, <2>2, NothingStored DEF StartRun, StartWith, store, history
<1>2. CASE SweepRecords
  <2> DEFINE n == Min({RecordBatch, SumFunction([i \in Expired |-> row[i].records])})
  <2>1. PICK cut \in [Expired -> 0..Size] :
            /\ \A i \in Expired : cut[i] <= row[i].records
            /\ row' = [i \in Ids |-> IF i \in Expired THEN [row[i] EXCEPT !.records = @ - cut[i]] ELSE row[i]]
    BY <1>2 DEF SweepRecords, SweepRecordsOf
  <2>2. /\ sweep.at = "records" /\ sweep.left > 0 /\ sweep'.left = sweep.left - 1
        /\ sweep' = [at |-> IF n < RecordBatch THEN "reports" ELSE "records", left |-> sweep.left - 1]
        /\ UNCHANGED <<age, others, req, clean, ran, mails, taken, swept, history, faults>>
    BY <1>2 DEF SweepRecords, SweepRecordsOf
  <2>3. \A i \in Expired : row[i] \in Row /\ [row[i] EXCEPT !.records = @ - cut[i]] \in Row
    <3> SUFFICES ASSUME NEW i \in Expired PROVE row[i] \in Row /\ [row[i] EXCEPT !.records = @ - cut[i]] \in Row
      OBVIOUS
    <3>1. row[i] \in Row
      BY <1>0 DEF Expired, Stored, TypeOK
    <3>2. row[i].records - cut[i] \in 0..Size
      BY <1>0, <2>1, <3>1 DEF Row, BoundsAssumption
    <3> QED
      BY <3>1, <3>2 DEF Row
  <2>4. row' \in [Ids -> Row \cup {NoRow}]
    BY <1>0, <2>1, <2>3 DEF TypeOK
  <2>5. \A i \in Ids : /\ row'[i] = NoRow <=> row[i] = NoRow
                       /\ i \in Stored => /\ row'[i].key = row[i].key /\ row'[i].age = row[i].age
                                          /\ i \notin Expired => row'[i].records = row[i].records
    BY <2>1, <2>3, RowsAreNoNoRow DEF Expired, Stored, Row
  <2>6. Stored' = Stored /\ Expired' = Expired
    BY <2>2, <2>5 DEF Stored, Expired, Past
  <2>7. RowsStay
    BY <2>4, <2>5, <2>6 DEF RowsStay, Stored
  <2>8. sweep' \in [at : {"idle", "records", "reports", "raw", "others"}, left : 0..Statements]
    BY <1>0, <2>2 DEF TypeOK, BoundsAssumption
  <2>9. TypeOK'
    BY <1>0, <2>2, <2>4, <2>5, <2>6, <2>8 DEF TypeOK, history, Stored
  <2> QED
    BY <2>2, <2>7, <2>9, StayKeeps DEF RInv, history
<1>3. CASE SweepReports
  <2>1. RowsGo /\ UNCHANGED <<age, others, req, ran, mails, taken, torn, crossed, faults>>
    BY <1>3 DEF SweepReports, SweepReportsWhile, RowsGo, history
  <2>2. /\ Core' /\ Stored' = Stored \ Leaving /\ row' \in [Ids -> Row \cup {NoRow}]
        /\ \A i \in Stored' : row'[i] = row[i]
    BY <2>1, GoKeeps
  <2>3. swept' \in Nat
    BY <1>0, <2>1, LeavingExpired DEF RowsGo, TypeOK
  <2>4. /\ sweep' \in [at : {"idle", "records", "reports", "raw", "others"}, left : 0..Statements]
        /\ clean' \subseteq {"reports", "raw", "others"}
    BY <1>3, LoopTypes DEF SweepReports, SweepReportsWhile
  <2>5. TypeOK'
    BY <1>0, <2>1, <2>2, <2>3, <2>4 DEF TypeOK
  <2> QED
    BY <2>2, <2>5 DEF RInv
<1>4. CASE ClearRaw
  <2> DEFINE cleared == Least(RawExpired, Batch)
  <2>1. /\ row' = [i \in Ids |-> IF i \in cleared THEN [row[i] EXCEPT !.raw = FALSE] ELSE row[i]]
        /\ UNCHANGED <<age, others, req, ran, mails, taken, swept, torn, crossed, faults>>
    BY <1>4 DEF ClearRaw, history
  <2>2. \A i \in cleared : row[i] \in Row /\ [row[i] EXCEPT !.raw = FALSE] \in Row
    <3> SUFFICES ASSUME NEW i \in cleared PROVE row[i] \in Row /\ [row[i] EXCEPT !.raw = FALSE] \in Row
      OBVIOUS
    <3>1. row[i] \in Row
      BY <1>0 DEF Least, RawExpired, Stored, TypeOK
    <3>2. [row[i] EXCEPT !.raw = FALSE] \in Row
      BY <3>1 DEF Row
    <3> QED
      BY <3>1, <3>2
  <2>3. row' \in [Ids -> Row \cup {NoRow}]
    BY <1>0, <2>1, <2>2 DEF TypeOK
  <2>4. \A i \in Ids : /\ row'[i] = NoRow <=> row[i] = NoRow
                       /\ i \in Stored => /\ row'[i].key = row[i].key /\ row'[i].age = row[i].age
                                          /\ row'[i].records = row[i].records
    BY <2>1, <2>2, RowsAreNoNoRow DEF Row
  <2>5. Stored' = Stored /\ Expired' = Expired
    BY <2>1, <2>4 DEF Stored, Expired, Past
  <2>6. RowsStay
    BY <2>3, <2>4, <2>5 DEF RowsStay, Stored
  <2>7. /\ sweep' \in [at : {"idle", "records", "reports", "raw", "others"}, left : 0..Statements]
        /\ clean' \subseteq {"reports", "raw", "others"}
    BY <1>4, LoopTypes DEF ClearRaw
  <2>8. TypeOK'
    BY <1>0, <2>1, <2>3, <2>4, <2>5, <2>7 DEF TypeOK, Stored
  <2> QED
    BY <2>1, <2>6, <2>8, StayKeeps DEF RInv
<1>5. CASE SweepOthers
  <2>1. Min({Batch, others}) \in 0..others
    BY <1>0, MinOfTwo DEF TypeOK, BoundsAssumption
  <2>2. others' \in 0..MaxOthers
    BY <1>0, <1>5, <2>1 DEF SweepOthers, TypeOK, BoundsAssumption
  <2>3. /\ sweep' \in [at : {"idle", "records", "reports", "raw", "others"}, left : 0..Statements]
        /\ clean' \subseteq {"reports", "raw", "others"}
    BY <1>5, LoopTypes DEF SweepOthers
  <2>4. TypeOK'
    BY <1>0, <1>5, <2>2, <2>3 DEF SweepOthers, TypeOK, store, history, Stored
  <2> QED
    BY <1>5, <2>4, NothingStored DEF SweepOthers, store, history
<1>6. CASE Truncate
  <2>1. sweep' \in [at : {"idle", "records", "reports", "raw", "others"}, left : 0..Statements]
    BY <1>0, <1>6, AfterTable DEF Truncate, TypeOK
  <2>2. TypeOK'
    BY <1>0, <1>6, <2>1 DEF Truncate, TypeOK, store, history, Stored
  <2> QED
    BY <1>6, <2>2, NothingStored DEF Truncate, store, history
<1>7. CASE SweepFails
  <2>1. sweep' \in [at : {"idle", "records", "reports", "raw", "others"}, left : 0..Statements]
    <3>1. PICK next \in {After, "idle"} :
              sweep' = [sweep EXCEPT !.at = next, !.left = IF @ > 0 THEN @ - 1 ELSE 0]
      BY <1>7 DEF SweepFails
    <3>2. next \in {"idle", "raw", "others"}
      BY <1>7, AfterTable DEF SweepFails
    <3>3. (IF sweep.left > 0 THEN sweep.left - 1 ELSE 0) \in 0..Statements
      BY <1>0 DEF TypeOK, BoundsAssumption
    <3> QED
      BY <1>0, <3>1, <3>2, <3>3 DEF TypeOK
  <2>2. faults' \in 0..MaxFaults /\ faults' # 0
    BY <1>0, <1>7 DEF SweepFails, TypeOK, BoundsAssumption
  <2>3. TypeOK'
    BY <1>0, <1>7, <2>1, <2>2 DEF SweepFails, TypeOK, store, history, Stored
  <2> QED
    BY <1>7, <2>2, <2>3, NothingStored DEF SweepFails, store, history
<1> QED
  BY <1>1, <1>2, <1>3, <1>4, <1>5, <1>6, <1>7 DEF Run

LEMMA DayRInv == ASSUME RInv, Day PROVE RInv'
<1>0. TypeOK /\ BoundsAssumption
  BY BoundsAssumption DEF RInv
<1>1. \A a \in 0..(Window + 1) : Min({a + 1, Window + 1}) \in 0..(Window + 1)
                                /\ (a > Window => Min({a + 1, Window + 1}) > Window)
  BY <1>0, MinOfTwo DEF BoundsAssumption
<1>2. age' \in [Keys -> 0..(Window + 1)] /\ \A k \in Keys : age[k] > Window => age'[k] > Window
  BY <1>0, <1>1 DEF Day, TypeOK
<1>3. \A i \in Stored : /\ row[i] \in Row
                        /\ row'[i] = [row[i] EXCEPT !.age = Min({row[i].age + 1, Window + 1})]
                        /\ row'[i] \in Row
  BY <1>0, <1>1 DEF Day, Stored, TypeOK, Row
<1>4. row' \in [Ids -> Row \cup {NoRow}] /\ \A i \in Ids : row'[i] = NoRow <=> row[i] = NoRow
  BY <1>3, RowsAreNoNoRow DEF Day, Stored
<1>5. \A i \in Stored : /\ row'[i].key = row[i].key /\ row'[i].records = row[i].records
                        /\ row[i].age > Window => row'[i].age > Window
  <2> SUFFICES ASSUME NEW i \in Stored
               PROVE  /\ row'[i].key = row[i].key /\ row'[i].records = row[i].records
                      /\ row[i].age > Window => row'[i].age > Window
    OBVIOUS
  <2>1. row[i].age \in 0..(Window + 1)
    BY <1>3 DEF Row
  <2>2. row'[i].age = Min({row[i].age + 1, Window + 1})
    BY <1>3 DEF Row
  <2> QED
    BY <1>1, <1>3, <2>1, <2>2 DEF Row
<1>6. Stored' = Stored
  BY <1>4 DEF Stored
<1>7. Expired \subseteq Expired'
  BY <1>2, <1>3, <1>5, <1>6 DEF Expired, Past, Row
<1>8. RowsStay
  BY <1>4, <1>5, <1>7 DEF RowsStay
<1>9. faults' \in 0..MaxFaults /\ (faults' = 0 => faults = 0)
  BY <1>0 DEF Day, TypeOK, BoundsAssumption
<1>10. TypeOK'
  BY <1>0, <1>2, <1>4, <1>5, <1>6, <1>9 DEF Day, TypeOK, history, Stored
<1> QED
  BY <1>8, <1>9, <1>10, StayKeeps DEF Day, RInv, history

-----------------------------------------------------------------------------
(* Steps of the handlers                                                   *)

LEMMA HandlerTypes ==
    ASSUME RInv, NEW h \in Handlers,
           NEW p \in {"idle", "records", "count", "mail"}, NEW i \in 0..MaxDeliveries
    PROVE  [req EXCEPT ![h] = [at |-> p, id |-> i]]
               \in [Handlers -> [at : {"idle", "records", "count", "mail"}, id : 0..MaxDeliveries]]
BY DEF RInv, TypeOK

\* A handler without a row is added to the table.
LEMMA NewReport ==
    ASSUME RInv, NEW h \in Handlers, NEW k \in Keys, Deliver(h, k), ~Had(k)
    PROVE  RInv'
<1> DEFINE i == taken + 1
           new == [key |-> k, age |-> 0, records |-> 0, raw |-> RawDays > 0]
<1>0. TypeOK /\ BoundsAssumption
  BY BoundsAssumption DEF RInv
<1>1. /\ req[h] = Idle /\ taken' = i
      /\ row' = [row EXCEPT ![i] = new]
      /\ req' = [req EXCEPT ![h] = [at |-> "records", id |-> i]]
      /\ crossed' = (crossed \/ \E g \in Handlers : req[g] # Idle)
      /\ UNCHANGED <<age, others, sweep, clean, ran, mails, swept, torn, faults>>
  BY DEF Deliver, DeliverIf, run
<1>2. i \in Ids /\ i \in 0..MaxDeliveries /\ taken \in Nat /\ i \notin Stored
  <2>1. taken < MaxDeliveries /\ taken \in 0..MaxDeliveries /\ MaxDeliveries \in Nat
    BY <1>0 DEF Deliver, DeliverIf, TypeOK, BoundsAssumption
  <2>2. ~(i <= taken)
    BY <2>1
  <2>3. i \notin Stored
    BY <2>2 DEF RInv, Core, Given
  <2> QED
    BY <2>1, <2>3 DEF Ids
<1>3. new \in Row /\ new # NoRow
  <2>1. (RawDays > 0) \in BOOLEAN
    OBVIOUS
  <2>2. 0 \in 0..(Window + 1) /\ 0 \in 0..Size
    BY <1>0 DEF BoundsAssumption
  <2>3. new \in Row
    BY <2>1, <2>2 DEF Row
  <2> QED
    BY <2>3, RowsAreNoNoRow
<1>4. \A j \in Ids : row'[j] = IF j = i THEN new ELSE row[j]
  BY <1>0, <1>1 DEF TypeOK
<1>5. Stored' = Stored \cup {i}
  BY <1>2, <1>3, <1>4 DEF Stored
<1>6. row' \in [Ids -> Row \cup {NoRow}]
  BY <1>0, <1>1, <1>3 DEF TypeOK
<1>7. req' \in [Handlers -> [at : {"idle", "records", "count", "mail"}, id : 0..MaxDeliveries]]
  BY <1>1, <1>2, HandlerTypes
<1>8. \A j, l \in Stored' : row'[j].key = row'[l].key => j = l
  <2>1. \A j \in Stored : row'[j] = row[j] /\ row[j].key # k
    BY <1>2, <1>4 DEF Stored, Had
  <2>2. row'[i].key = k
    BY <1>2, <1>4
  <2> QED
    BY <1>0, <1>5, <2>1, <2>2 DEF TypeOK
<1>9. TypeOK'
  <2>1. crossed' \in BOOLEAN
    BY <1>0, <1>1, Zenon DEF TypeOK
  <2> QED
    BY <1>0, <1>1, <1>2, <1>6, <1>7, <1>8, <2>1 DEF TypeOK
<1>10. Given'
  BY <1>0, <1>1, <1>2, <1>5 DEF RInv, Core, Given, Stored, Ids, TypeOK
<1>11. \A g \in Handlers : req'[g] = IF g = h THEN [at |-> "records", id |-> i] ELSE req[g]
  BY <1>0, <1>1 DEF TypeOK
<1>12. Sound'
  BY <1>1, <1>2, <1>11 DEF RInv, Core, Sound
<1>13. RecordsComplete'
  <2> SUFFICES ASSUME NEW j \in Stored'
               PROVE  \/ row'[j].records = Size
                      \/ \E g \in Handlers : req'[g].at = "records" /\ req'[g].id = j
                      \/ j \in torn'
                      \/ j \in Expired'
    BY DEF RecordsComplete
  <2>1. CASE j = i
    BY <1>11, <2>1
  <2>2. CASE j # i
    <3>1. j \in Stored /\ row'[j] = row[j]
      BY <1>4, <1>5, <2>2 DEF Stored
    <3>2. j \in Expired => j \in Expired'
      BY <1>1, <3>1 DEF Expired, Past
    <3>3. \A g \in Handlers : req[g].at = "records" => req'[g] = req[g]
      BY <1>1, <1>11 DEF Idle
    <3> QED
      BY <1>1, <3>1, <3>2, <3>3 DEF RInv, Core, RecordsComplete
  <2> QED
    BY <2>1, <2>2
<1>14. Counted'
  <2>1. AtWork' = AtWork \cup {h} /\ Mailing' = Mailing /\ h \notin AtWork
    BY <1>1, <1>11 DEF AtWork, Mailing, Idle
  <2>2. Cardinality(AtWork') = Cardinality(AtWork) + 1
    BY <2>1, OneMore, CountedSets
  <2>3. Cardinality(Stored') = Cardinality(Stored) + 1
    BY <1>2, <1>5, Finite, FS_AddElement, CountedSets
  <2>4. mails \in Nat /\ swept \in Nat /\ mails' = mails /\ swept' = swept /\ Counted
    BY <1>0, <1>1 DEF TypeOK, RInv, Core
  <2> QED
    BY <2>1, <2>2, <2>3, <2>4, CountedSets DEF Counted
<1>15. Alone'
  <2> SUFFICES ASSUME ~crossed', faults' = 0
               PROVE  /\ \A g, f \in Handlers : req'[g] # Idle /\ req'[f] # Idle => g = f
                      /\ mails' = 0 => \A j \in Stored' : \E g \in Handlers :
                             req'[g].at = "mail" \/ (req'[g].at \in {"records", "count"} /\ req'[g].id = j)
    BY DEF Alone
  <2>1. ~crossed /\ faults = 0 /\ \A g \in Handlers : req[g] = Idle
    BY <1>1
  <2>2. mails = 0 => Stored = {}
    BY <2>1 DEF RInv, Core, Alone, Idle
  <2>3. \A g \in Handlers : req'[g] # Idle => g = h
    BY <1>11, <2>1
  <2>4. req'[h].at = "records" /\ req'[h].id = i
    BY <1>11
  <2> QED
    BY <1>1, <1>5, <2>2, <2>3, <2>4
<1> QED
  BY <1>9, <1>10, <1>12, <1>13, <1>14, <1>15 DEF RInv, Core

LEMMA DuplicateReport ==
    ASSUME RInv, NEW h \in Handlers, NEW k \in Keys, Deliver(h, k), Had(k)
    PROVE  RInv'
<1>0. TypeOK /\ BoundsAssumption
  BY BoundsAssumption DEF RInv
<1>1. /\ req[h] = Idle /\ taken' = taken + 1 /\ taken < MaxDeliveries
      /\ req' = [req EXCEPT ![h].at = "idle"]
      /\ UNCHANGED <<row, crossed, age, others, sweep, clean, ran, mails, swept, torn, faults>>
  BY DEF Deliver, DeliverIf, run
<1>2. req' = req
  BY <1>0, <1>1 DEF TypeOK, Idle
<1>3. TypeOK'
  BY <1>0, <1>1, <1>2 DEF TypeOK, BoundsAssumption, Stored
<1>4. Stored' = Stored /\ Expired' = Expired /\ AtWork' = AtWork /\ Mailing' = Mailing
  BY <1>1, <1>2 DEF Stored, Expired, Past, AtWork, Mailing
<1>5. Given'
  <2> SUFFICES ASSUME NEW j \in Stored PROVE j <= taken + 1
    BY <1>1, <1>4 DEF Given
  <2>1. j <= taken /\ j \in Int /\ taken \in Int
    BY <1>0 DEF RInv, Core, Given, Stored, Ids, TypeOK
  <2> QED
    BY <2>1
<1>6. Sound'
  <2>1. taken \in Nat
    BY <1>0 DEF TypeOK
  <2>2. 1..taken \subseteq 1..(taken + 1)
    BY <2>1
  <2> QED
    BY <1>1, <1>2, <2>2 DEF RInv, Core, Sound
<1>7. RecordsComplete' /\ Counted' /\ Alone'
  BY <1>1, <1>2, <1>4 DEF RInv, Core, RecordsComplete, Counted, Alone
<1> QED
  BY <1>3, <1>5, <1>6, <1>7 DEF RInv, Core

\* A handler goes on, and the reports stay.
LEMMA HandlerGoes ==
    ASSUME RInv, NEW h \in Handlers, req[h].at # "idle", TypeOK',
           NEW q, req' = [req EXCEPT ![h] = q],
           q = Idle \/ (q.at \in {"count", "mail"} /\ q.id = req[h].id),
           q.at = "count" => req[h].at = "records",
           q.at = "mail" => req[h].at = "count" /\ Cardinality(Stored) = 1,
           q = Idle => \/ req[h].at = "mail" /\ mails' = mails + 1
                       \/ req[h].at = "records" /\ req[h].id \notin Stored /\ mails' = mails
                       \/ req[h].at = "count" /\ Cardinality(Stored) # 1 /\ mails' = mails
                       \/ faults' # 0 /\ mails' = mails,
           q # Idle => mails' = mails,
           row' \in [Ids -> Row \cup {NoRow}],
           \A i \in Ids : /\ row'[i] = NoRow <=> row[i] = NoRow
                          /\ i \in Stored => /\ row'[i].age = row[i].age /\ row'[i].key = row[i].key
                                             /\ row'[i].records \in {row[i].records, Size},
           req[h].at = "records" =>
               req[h].id \notin Stored \/ row'[req[h].id].records = Size \/ req[h].id \in torn',
           torn \subseteq torn', faults' = 0 => faults = 0,
           UNCHANGED <<age, taken, swept, crossed>>
    PROVE  RInv'
<1>0. TypeOK /\ h \in Handlers
  BY DEF RInv
<1>1. Stored' = Stored
  BY DEF Stored
<1>2. Expired' = Expired
  BY <1>1 DEF Expired, Past, Stored
<1>3. \A g \in Handlers : req'[g] = IF g = h THEN q ELSE req[g]
  BY <1>0 DEF TypeOK
<1>4. Given'
  BY <1>1 DEF RInv, Core, Given
<1>5. q.at \in {"idle", "count", "mail"} /\ (q = Idle <=> q.at = "idle")
  BY DEF Idle
<1>6. Sound'
  BY <1>3, <1>5 DEF RInv, Core, Sound
<1>7. RecordsComplete'
  <2> SUFFICES ASSUME NEW i \in Stored
               PROVE  \/ row'[i].records = Size
                      \/ \E g \in Handlers : req'[g].at = "records" /\ req'[g].id = i
                      \/ i \in torn'
                      \/ i \in Expired
    BY <1>1, <1>2 DEF RecordsComplete
  <2>1. CASE row[i].records = Size
    BY <2>1 DEF Stored
  <2>2. CASE i \in torn \/ i \in Expired
    BY <2>2
  <2>3. ASSUME NEW g \in Handlers, req[g].at = "records", req[g].id = i
        PROVE  \/ row'[i].records = Size \/ i \in torn'
               \/ \E f \in Handlers : req'[f].at = "records" /\ req'[f].id = i
    <3>1. CASE g = h
      BY <2>3, <3>1
    <3>2. CASE g # h
      BY <1>3, <2>3, <3>2
    <3> QED
      BY <3>1, <3>2
  <2> QED
    BY <2>1, <2>2, <2>3 DEF RInv, Core, RecordsComplete
<1>8. Counted'
  <2> DEFINE w == Cardinality(AtWork)
             m == Cardinality(Mailing)
             n == Cardinality(Stored)
  <2>0. /\ w \in Nat /\ m \in Nat /\ n \in Nat /\ mails \in Nat /\ swept \in Nat /\ swept' = swept
        /\ mails + m <= swept + 1 /\ mails + m + w <= swept + n /\ Cardinality(Stored') = n
    BY <1>0, <1>1, CountedSets DEF TypeOK, RInv, Core, Counted
  <2>1. /\ AtWork \in SUBSET Handlers /\ Mailing \in SUBSET Handlers
        /\ AtWork' \in SUBSET Handlers /\ Mailing' \in SUBSET Handlers
    BY DEF AtWork, Mailing
  <2>2. CASE q.at = "count"
    <3>1. AtWork' = AtWork /\ Mailing' = Mailing /\ mails' = mails
      BY <1>3, <1>5, <2>2 DEF AtWork, Mailing
    <3> QED
      BY <2>0, <3>1 DEF Counted
  <2>3. CASE q.at = "mail"
    <3>1. AtWork' = AtWork \ {h} /\ Mailing' = Mailing \cup {h} /\ mails' = mails
          /\ h \in AtWork /\ h \notin Mailing /\ n = 1
      BY <1>3, <1>5, <2>3 DEF AtWork, Mailing
    <3>2. Cardinality(AtWork') = w - 1 /\ Cardinality(Mailing') = m + 1
      BY <2>1, <3>1, OneLess, OneMore
    <3>3. w >= 1
      <4>1. Cardinality(AtWork') \in Nat
        BY <2>1, Finite
      <4> QED
        BY <2>0, <3>2, <4>1
    <3>4. mails + (m + 1) <= swept + 1 /\ mails + (m + 1) + (w - 1) <= swept + n
      BY <2>0, <3>1, <3>3
    <3>5. /\ mails' + Cardinality(Mailing') <= swept' + 1
          /\ mails' + Cardinality(Mailing') + Cardinality(AtWork') <= swept' + Cardinality(Stored')
      <4> HIDE DEF w, m, n
      <4> QED
        BY <2>0, <3>1, <3>2, <3>4
    <3> QED
      BY <3>5 DEF Counted
  <2>4. CASE q.at = "idle" /\ req[h].at = "mail"
    <3>1. AtWork' = AtWork /\ Mailing' = Mailing \ {h} /\ h \in Mailing
      BY <1>3, <2>4 DEF AtWork, Mailing
    <3>2. Cardinality(Mailing') = m - 1
      BY <2>1, <3>1, OneLess
    <3>3. mails' \in {mails, mails + 1}
      BY <1>5, <2>4
    <3> QED
      BY <2>0, <3>1, <3>2, <3>3 DEF Counted
  <2>5. CASE q.at = "idle" /\ req[h].at # "mail"
    <3>1. AtWork' = AtWork \ {h} /\ Mailing' = Mailing /\ h \in AtWork
      BY <1>0, <1>3, <2>5 DEF AtWork, Mailing, TypeOK
    <3>2. Cardinality(AtWork') = w - 1
      BY <2>1, <3>1, OneLess
    <3>3. mails' = mails
      BY <1>5, <2>5
    <3> QED
      BY <2>0, <3>1, <3>2, <3>3 DEF Counted
  <2> QED
    BY <1>5, <2>2, <2>3, <2>4, <2>5
<1>9. Alone'
  <2> SUFFICES ASSUME ~crossed', faults' = 0
               PROVE  /\ \A g, f \in Handlers : req'[g] # Idle /\ req'[f] # Idle => g = f
                      /\ mails' = 0 => \A j \in Stored' : \E g \in Handlers :
                             req'[g].at = "mail" \/ (req'[g].at \in {"records", "count"} /\ req'[g].id = j)
    BY DEF Alone
  <2>1. ~crossed /\ faults = 0 /\ req[h] # Idle
    BY DEF Idle
  <2>2. \A g \in Handlers : req[g] # Idle => g = h
    BY <2>1 DEF RInv, Core, Alone
  <2>3. \A g \in Handlers : req'[g] # Idle => g = h
    BY <1>3, <2>2
  <2>4. ASSUME mails' = 0, NEW j \in Stored'
        PROVE  \E g \in Handlers : req'[g].at = "mail" \/ (req'[g].at \in {"records", "count"} /\ req'[g].id = j)
    <3>1. mails = 0 /\ ~(q = Idle /\ req[h].at = "mail")
      BY <1>0, <2>4 DEF TypeOK
    <3>2. \A l \in Stored : req[h].at = "mail" \/ (req[h].at \in {"records", "count"} /\ req[h].id = l)
      BY <2>1, <2>2, <3>1 DEF RInv, Core, Alone, Idle
    <3>3. CASE q.at = "mail"
      BY <1>3, <3>3
    <3>4. CASE q.at = "count"
      BY <1>1, <1>3, <1>5, <2>4, <3>2, <3>4
    <3>5. CASE q = Idle /\ req[h].at = "records" /\ req[h].id \notin Stored
      BY <1>1, <2>4, <3>2, <3>5
    <3>6. CASE q = Idle /\ req[h].at = "count" /\ Cardinality(Stored) # 1
      <4>1. Stored = {req[h].id}
        BY <1>1, <2>4, <3>2, <3>6
      <4> QED
        BY <3>6, <4>1, FS_Singleton
    <3> QED
      BY <1>5, <3>1, <3>3, <3>4, <3>5, <3>6
  <2> QED
    BY <2>3, <2>4
<1> QED
  BY <1>4, <1>6, <1>7, <1>8, <1>9 DEF RInv, Core

\* Who is about to store records has the id of a report that came in.
LEMMA StoringIds ==
    ASSUME RInv, NEW h \in Handlers, req[h].at = "records"
    PROVE  req[h].id \in Ids
<1>1. req[h].id \in 1..taken
  BY DEF RInv, Core, Sound
<1>2. taken \in 0..MaxDeliveries /\ MaxDeliveries \in Nat
  BY BoundsAssumption DEF RInv, TypeOK, BoundsAssumption
<1> QED
  BY <1>1, <1>2 DEF Ids

LEMMA StepRInv == ASSUME RInv, NEW h \in Handlers, Step(h) \/ Die(h) PROVE RInv'
<1>0. TypeOK /\ BoundsAssumption /\ req[h] \in [at : {"idle", "records", "count", "mail"}, id : 0..MaxDeliveries]
  BY BoundsAssumption DEF RInv, TypeOK
<1>1. Idle = [at |-> "idle", id |-> 0] /\ 0 \in 0..MaxDeliveries
  BY <1>0 DEF Idle, BoundsAssumption
<1>2. \A i \in Ids : i \in Stored => row[i] \in Row
  BY <1>0 DEF Stored, TypeOK
<1>3. CASE Records(h)
  <2> DEFINE i == req[h].id
  <2>1. req[h].at = "records" /\ i \in Ids
    BY <1>3, StoringIds DEF Records
  <2>2. CASE i \in Stored
    <3> DEFINE q == [at |-> "count", id |-> i]
    <3>1. /\ row' = [row EXCEPT ![i] = [row[i] EXCEPT !.records = Size]]
          /\ req' = [req EXCEPT ![h] = q]
          /\ UNCHANGED <<age, others, sweep, clean, ran, mails, taken, swept, torn, crossed, faults>>
      BY <1>0, <1>3, <2>2 DEF Records, Goto, run, history, TypeOK
    <3>2. [row[i] EXCEPT !.records = Size] \in Row
      BY <1>0, <1>2, <2>1, <2>2 DEF Row, BoundsAssumption
    <3>3. row' \in [Ids -> Row \cup {NoRow}]
      BY <1>0, <3>1, <3>2 DEF TypeOK
    <3>4. \A j \in Ids : row'[j] = IF j = i THEN [row[i] EXCEPT !.records = Size] ELSE row[j]
      BY <1>0, <3>1 DEF TypeOK
    <3>5. row[i] \in Row /\ row[i] # NoRow /\ [row[i] EXCEPT !.records = Size] # NoRow
      BY <1>2, <2>1, <2>2, <3>2, RowsAreNoNoRow
    <3>6. \A j \in Ids : /\ row'[j] = NoRow <=> row[j] = NoRow
                         /\ j \in Stored => /\ row'[j].age = row[j].age /\ row'[j].key = row[j].key
                                            /\ row'[j].records \in {row[j].records, Size}
      BY <3>4, <3>5 DEF Row
    <3>7. row'[i].records = Size
      BY <2>1, <3>4, <3>5 DEF Row
    <3>8. Stored' = Stored
      BY <3>6 DEF Stored
    <3>9. TypeOK'
      <4>1. req' \in [Handlers -> [at : {"idle", "records", "count", "mail"}, id : 0..MaxDeliveries]]
        BY <1>0, <3>1, HandlerTypes
      <4>2. \A j, l \in Stored' : row'[j].key = row'[l].key => j = l
        BY <1>0, <3>6, <3>8 DEF TypeOK, Stored
      <4> QED
        BY <1>0, <3>1, <3>3, <4>1, <4>2 DEF TypeOK
    <3>10. q # Idle /\ q.at = "count" /\ q.id = req[h].id
      BY <1>1
    <3> QED
      BY <2>1, <3>1, <3>3, <3>6, <3>7, <3>9, <3>10, HandlerGoes
  <2>3. CASE i \notin Stored
    <3>1. req' = [req EXCEPT ![h] = Idle] /\ UNCHANGED <<row, age, others, sweep, clean, ran, mails, taken, swept, torn, crossed, faults>>
      BY <1>3, <2>3 DEF Records, Over, run, history
    <3>2. TypeOK'
      <4>1. req' \in [Handlers -> [at : {"idle", "records", "count", "mail"}, id : 0..MaxDeliveries]]
        BY <1>1, <3>1, HandlerTypes
      <4> QED
        BY <1>0, <3>1, <4>1 DEF TypeOK, Stored
    <3>3. row' \in [Ids -> Row \cup {NoRow}]
      BY <3>2 DEF TypeOK
    <3> QED
      BY <1>1, <2>1, <2>3, <3>1, <3>2, <3>3, HandlerGoes
  <2> QED
    BY <2>2, <2>3
<1>4. CASE Count(h)
  <2>1. req[h].at = "count" /\ UNCHANGED <<row, age, others, sweep, clean, ran, mails, taken, swept, torn, crossed, faults>>
    BY <1>4 DEF Count, store, run, history
  <2>2. PICK q : /\ req' = [req EXCEPT ![h] = q]
                 /\ \/ q = Idle /\ Cardinality(Stored) # 1
                    \/ q = [at |-> "mail", id |-> req[h].id] /\ Cardinality(Stored) = 1
    <3>1. CASE Cardinality(Stored) = 1
      <4>1. req' = [req EXCEPT ![h] = [at |-> "mail", id |-> req[h].id]]
        BY <1>0, <1>4, <3>1 DEF Count, Goto, TypeOK
      <4> QED
        BY <3>1, <4>1
    <3>2. CASE Cardinality(Stored) # 1
      BY <1>4, <3>2 DEF Count, Over
    <3> QED
      BY <3>1, <3>2
  <2>3. TypeOK'
    <3>1. req' \in [Handlers -> [at : {"idle", "records", "count", "mail"}, id : 0..MaxDeliveries]]
      BY <1>0, <1>1, <2>2, HandlerTypes
    <3> QED
      BY <1>0, <2>1, <3>1 DEF TypeOK, Stored
  <2>4. row' \in [Ids -> Row \cup {NoRow}]
    BY <2>3 DEF TypeOK
  <2> QED
    BY <1>1, <2>1, <2>2, <2>3, <2>4, HandlerGoes
<1>5. CASE Mail(h)
  <2>1. /\ req[h].at = "mail" /\ mails' = mails + 1 /\ req' = [req EXCEPT ![h] = Idle]
        /\ UNCHANGED <<row, age, others, sweep, clean, ran, taken, swept, torn, crossed, faults>>
    BY <1>5 DEF Mail, Over, store, run, history
  <2>2. TypeOK'
    <3>1. req' \in [Handlers -> [at : {"idle", "records", "count", "mail"}, id : 0..MaxDeliveries]]
      BY <1>1, <2>1, HandlerTypes
    <3>2. mails' \in Nat
      BY <1>0, <2>1 DEF TypeOK
    <3> QED
      BY <1>0, <2>1, <3>1, <3>2 DEF TypeOK, Stored
  <2>3. row' \in [Ids -> Row \cup {NoRow}]
    BY <2>2 DEF TypeOK
  <2> QED
    BY <1>1, <2>1, <2>2, <2>3, HandlerGoes
<1>6. CASE Die(h)
  <2>1. /\ req[h] # Idle /\ faults < MaxFaults /\ faults' = faults + 1 /\ req' = [req EXCEPT ![h] = Idle]
        /\ torn' = IF req[h].at = "records" THEN torn \cup {req[h].id} ELSE torn
        /\ UNCHANGED <<row, age, others, sweep, clean, ran, mails, taken, swept, crossed>>
    BY <1>6 DEF Die, Over, store, run
  <2>2. faults' \in 0..MaxFaults /\ faults' # 0
    BY <1>0, <2>1 DEF TypeOK, BoundsAssumption
  <2>3. req[h].at # "idle"
    BY <2>1 DEF RInv, Core, Sound
  <2>4. TypeOK'
    <3>1. req' \in [Handlers -> [at : {"idle", "records", "count", "mail"}, id : 0..MaxDeliveries]]
      BY <1>1, <2>1, HandlerTypes
    <3>2. torn' \subseteq Ids
      BY <1>0, <2>1, StoringIds DEF TypeOK
    <3> QED
      BY <1>0, <2>1, <2>2, <3>1, <3>2 DEF TypeOK, Stored
  <2>5. row' \in [Ids -> Row \cup {NoRow}]
    BY <2>4 DEF TypeOK
  <2>6. torn \subseteq torn' /\ (req[h].at = "records" => req[h].id \in torn')
    BY <2>1
  <2> QED
    BY <1>1, <2>1, <2>2, <2>3, <2>4, <2>5, <2>6, HandlerGoes
<1> QED
  BY <1>3, <1>4, <1>5, <1>6 DEF Step

-----------------------------------------------------------------------------
LEMMA InitRInv == Init => RInv
<1> SUFFICES ASSUME Init PROVE RInv
  OBVIOUS
<1>0. BoundsAssumption
  BY BoundsAssumption
<1>1. Stored = {} /\ AtWork = {} /\ Mailing = {}
  BY DEF Init, Stored, AtWork, Mailing, Idle
<1>2. age \in [Keys -> 0..(Window + 1)]
  BY <1>0 DEF Init, BoundsAssumption
<1>3. sweep \in [at : {"idle", "records", "reports", "raw", "others"}, left : 0..Statements]
  BY <1>0 DEF Init, BoundsAssumption
<1>4. req \in [Handlers -> [at : {"idle", "records", "count", "mail"}, id : 0..MaxDeliveries]]
  BY <1>0 DEF Init, Idle, BoundsAssumption
<1>5. taken \in 0..MaxDeliveries /\ faults \in 0..MaxFaults /\ mails \in Nat /\ swept \in Nat
  BY <1>0 DEF Init, BoundsAssumption
<1>6. TypeOK
  BY <1>1, <1>2, <1>3, <1>4, <1>5 DEF Init, TypeOK
<1>7. Counted
  BY <1>1, FS_EmptySet DEF Init, Counted
<1>8. Given /\ Sound /\ RecordsComplete /\ Alone
  BY <1>1 DEF Init, Given, Sound, RecordsComplete, Alone, Idle
<1> QED
  BY <1>6, <1>7, <1>8 DEF RInv, Core

LEMMA NextRInv == RInv /\ [Next]_vars => RInv'
<1> SUFFICES ASSUME RInv, [Next]_vars PROVE RInv'
  OBVIOUS
<1>1. ASSUME NEW h \in Handlers, NEW k \in Keys, Deliver(h, k) PROVE RInv'
  BY <1>1, NewReport, DuplicateReport
<1>2. CASE UNCHANGED vars
  <2>1. TypeOK'
    BY <1>2 DEF vars, store, run, history, RInv, TypeOK, Stored
  <2> QED
    BY <1>2, <2>1, NothingStored DEF vars, store, run, history
<1> QED
  BY <1>1, <1>2, StepRInv, RunRInv, DayRInv DEF Next

\* The store, the counts and the run stay in order in every reachable state.
THEOREM RInvHolds == Spec => []RInv
BY InitRInv, NextRInv, PTL DEF Spec

\* The variables keep their types, and no two stored reports have the same key.
THEOREM ReportsTypes == Spec => []TypeOK
<1>1. RInv => TypeOK
  BY DEF RInv
<1> QED
  BY <1>1, RInvHolds, PTL

\* A report within its window has all its records, unless its handler is about to
\* store them or stopped short of it.
THEOREM RecordsKept == Spec => []RecordsComplete
<1>1. RInv => RecordsComplete
  BY DEF RInv, Core
<1> QED
  BY <1>1, RInvHolds, PTL

\* The first-report mail is not repeated while reports are kept, and not left out
\* unless something failed or two handlers met.
THEOREM FirstMailIsOne == Spec => []FirstMailOnce
<1>1. RInv => FirstMailOnce
  <2> SUFFICES ASSUME RInv PROVE FirstMailOnce
    OBVIOUS
  <2>1. mails <= 1 + swept
    <3>1. mails \in Nat /\ swept \in Nat /\ Cardinality(Mailing) \in Nat
      BY CountedSets DEF RInv, TypeOK
    <3> QED
      BY <3>1 DEF RInv, Core, Counted
  <2>2. ASSUME Stored # {}, \A h \in Handlers : req[h] = Idle
        PROVE  mails > 0 \/ crossed \/ faults > 0
    <3>1. mails \in Nat /\ faults \in Nat
      BY BoundsAssumption DEF RInv, TypeOK
    <3>2. ~crossed /\ faults = 0 => mails # 0
      BY <2>2 DEF RInv, Core, Alone, Idle
    <3> QED
      BY <3>1, <3>2
  <2> QED
    BY <2>1, <2>2 DEF FirstMailOnce
<1> QED
  BY <1>1, RInvHolds, PTL

-----------------------------------------------------------------------------
(* A sweep that says it is done                                            *)

\* What a table is reported clean of.
Done(t) == CASE t = "reports" -> Expired = {}
             [] t = "raw"     -> RawExpired = {}
             [] t = "others"  -> others = 0

LEMMA SweepDone ==
    ASSUME RInv, Next, NEW t \in clean' \ clean
    PROVE  Done(t)'
<1>0. TypeOK /\ BoundsAssumption
  BY BoundsAssumption DEF RInv
<1>1. CASE SweepReports
  <2>1. t = "reports" /\ ~(Cardinality(Leaving) >= Batch)
    <3> DEFINE more == Cardinality(Leaving) >= Batch
    <3>1. Loop(more, "records") /\ sweep.at = "reports"
      BY <1>1 DEF SweepReports, SweepReportsWhile
    <3>2. Table = "reports"
      BY <3>1 DEF Table
    <3>3. clean' = IF more THEN clean ELSE clean \cup {Table}
      BY <3>1 DEF Loop
    <3> QED
      BY <3>2, <3>3
  <2>2. Leaving = Expired
    <3>1. Cardinality(Least(Expired, Batch)) < Batch
      BY <1>0, <2>1, LeavingExpired DEF Leaving, BoundsAssumption
    <3> QED
      BY <1>0, <3>1, LeastIsAll, ExpiredStored DEF Leaving, BoundsAssumption
  <2>3. Expired' = {}
    BY <1>1, <2>2 DEF SweepReports, SweepReportsWhile, Expired, Stored, Past
  <2> QED
    BY <2>1, <2>3 DEF Done
<1>2. CASE ClearRaw
  <2> DEFINE cleared == Least(RawExpired, Batch)
  <2>1. t = "raw" /\ ~(Cardinality(cleared) >= Batch)
    <3> DEFINE more == Cardinality(cleared) >= Batch
    <3>1. Loop(more, "raw") /\ sweep.at = "raw"
      BY <1>2 DEF ClearRaw
    <3>2. Table = "raw"
      BY <3>1 DEF Table
    <3>3. clean' = IF more THEN clean ELSE clean \cup {Table}
      BY <3>1 DEF Loop
    <3> QED
      BY <3>2, <3>3
  <2>2. cleared = RawExpired
    <3>1. cleared \in SUBSET Ids
      BY ExpiredStored DEF Least
    <3>2. Cardinality(cleared) \in Nat
      BY <3>1, Finite
    <3> QED
      BY <1>0, <2>1, <3>2, LeastIsAll, ExpiredStored DEF BoundsAssumption
  <2>3. row' = [i \in Ids |-> IF i \in RawExpired THEN [row[i] EXCEPT !.raw = FALSE] ELSE row[i]]
    BY <1>2, <2>2 DEF ClearRaw
  <2>4. RawExpired' = {}
    <3> SUFFICES ASSUME NEW i \in RawExpired' PROVE FALSE
      OBVIOUS
    <3>1. i \in Ids /\ row'[i] # NoRow /\ row'[i].raw /\ row'[i].age > RawDays
      BY DEF RawExpired, Stored
    <3>2. CASE i \in RawExpired
      <4>1. row[i] \in Row
        BY <1>0, <3>2 DEF RawExpired, Stored, TypeOK
      <4>2. row'[i] = [row[i] EXCEPT !.raw = FALSE]
        BY <2>3, <3>1, <3>2
      <4>3. ~row'[i].raw
        BY <4>1, <4>2 DEF Row
      <4> QED
        BY <3>1, <4>3
    <3>3. CASE i \notin RawExpired
      BY <2>3, <3>1, <3>3 DEF RawExpired, Stored
    <3> QED
      BY <3>2, <3>3
  <2> QED
    BY <2>1, <2>4 DEF Done
<1>3. CASE SweepOthers
  <2>1. t = "others" /\ ~(Min({Batch, others}) >= Batch)
    <3> DEFINE more == Min({Batch, others}) >= Batch
    <3>1. Loop(more, "others") /\ sweep.at = "others"
      BY <1>3 DEF SweepOthers
    <3>2. Table = "others"
      BY <3>1 DEF Table
    <3>3. clean' = IF more THEN clean ELSE clean \cup {Table}
      BY <3>1 DEF Loop
    <3> QED
      BY <3>2, <3>3
  <2>2. Min({Batch, others}) = others
    BY <1>0, <2>1, MinOfTwo DEF TypeOK, BoundsAssumption
  <2>3. others' = 0
    BY <1>0, <1>3, <2>2 DEF SweepOthers, TypeOK, BoundsAssumption
  <2> QED
    BY <2>1, <2>3 DEF Done
<1>4. CASE StartRun
  BY <1>4 DEF StartRun, StartWith
<1>5. CASE SweepRecords \/ Truncate \/ SweepFails \/ Day
  BY <1>5 DEF SweepRecords, SweepRecordsOf, Truncate, SweepFails, Day
<1>6. ASSUME NEW h \in Handlers, Step(h) \/ Die(h) \/ \E k \in Keys : Deliver(h, k)
      PROVE  FALSE
  BY <1>6 DEF Step, Records, Count, Mail, Die, Deliver, DeliverIf, run
<1> QED
  BY <1>1, <1>2, <1>3, <1>4, <1>5, <1>6 DEF Next, Run

\* A table that the run reports without a remark has nothing left that should have
\* gone, whatever the batch and the budget.
THEOREM HonestSweeps == Spec => SweepHonest
<1>1. RInv /\ [Next]_vars =>
          [\A t \in clean' \ clean : CASE t = "reports" -> Expired' = {}
                                        [] t = "raw"     -> RawExpired' = {}
                                        [] t = "others"  -> others' = 0]_vars
  BY SweepDone DEF Done, vars, run
<1> QED
  BY <1>1, RInvHolds, PTL DEF Spec, SweepHonest

=============================================================================
