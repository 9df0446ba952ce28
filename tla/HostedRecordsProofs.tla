------------------------ MODULE HostedRecordsProofs ------------------------
(***************************************************************************)
(* The properties of HostedRecords hold for any number of requests,        *)
(* domains and ids, and any cap and limit.  The invariant says which       *)
(* record, row and address each request may still rely on between two of   *)
(* its steps.                                                              *)
(***************************************************************************)
EXTENDS HostedRecords, TLAPS, FiniteSetTheorems

Enabling(r) == req[r].op = "enable"

\* Where a request may stand.
Shape(r) ==
    /\ req[r].op = "none" <=> req[r].at = "idle"
    /\ req[r].op = "none" => req[r] = Idle
    /\ req[r].op = "enable" => /\ req[r].at \in {"insert", "accept", "write", "count", "config", "finish",
                                                 "undo", "uncount", "undoConfig", "undoToken", "undoRow"}
                               /\ req[r].row = NoRow
    /\ req[r].op = "rotate" => req[r].at \in {"dmarc", "tls", "accept"}
    /\ req[r].op = "disable" => req[r].at \in {"remove", "uncount", "forgetConfig", "forgetToken", "forgetRow"}
    /\ req[r].op = "trim" => req[r].at \in {"remove", "uncount", "forget"}
    /\ req[r].op \in {"enable", "rotate"} => req[r].new \in 1..issued
    /\ Enabling(r) => req[r].made <= Len(Plan(r))
    /\ req[r].at = "insert" => req[r].made = 0
    /\ Enabling(r) /\ req[r].at = "accept" => req[r].made = 0
    /\ req[r].at = "write" => req[r].made < Len(Plan(r))
    /\ req[r].at = "count" => req[r].made # 0

Shapes == \A r \in Requests : Shape(r)

\* Each enabling has an id of its own.
Distinct ==
    \A r, s \in Requests : Enabling(r) /\ Enabling(s) /\ req[r].new = req[s].new => r = s

\* One record of a kind under an id.
Unique == \A x, y \in zone : x.id = y.id /\ x.kind = y.kind => x = y

\* An enabling that may still write a record.
Unfinished == {"insert", "accept", "write", "count"}

\* The kinds a request has written so far.
Made(r) == {All[j] : j \in 1..req[r].made}
Unwritten ==
    \A r \in Requests : Enabling(r) /\ req[r].at \in Unfinished =>
        \A x \in zone : x.id = req[r].new => x.kind \in Made(r)

\* An id that is in use for a domain, in the zone, its row or a request.
InRequest(i, d) ==
    \E r \in Requests : /\ Domain(r) = d
                        /\ (Enabling(r) /\ req[r].new = i) \/ (\E k \in Kinds : req[r].row.ids[k] = i)
InUse(i, d) ==
    \/ \E x \in zone : x.id = i /\ x.domain = d
    \/ \E k \in Kinds : row[d].ids[k] = i
    \/ InRequest(i, d)

\* An id in use was issued, for one domain.
OneDomain ==
    \A i \in Ids \ {0} : \A d \in Domains :
        InUse(i, d) => i <= issued /\ \A e \in Domains : InUse(i, e) => d = e

Core ==
    /\ TypeOK /\ IsFiniteSet(zone)
    /\ Shapes /\ Distinct /\ Unique /\ Unwritten /\ OneDomain

-----------------------------------------------------------------------------
(* The plan and the type of requests                                       *)

LEMMA Bounds == MaxIds \in Nat /\ Ids \subseteq Nat /\ 0 \in Ids
BY BoundsAssumption DEF Ids

LEMMA PlanFacts ==
    /\ All = <<"dmarc", "spf", "tls", "txt", "host">> /\ Len(All) = 5 /\ Len(Always) = 3
    /\ \A j \in 1..5 : All[j] \in Kinds
    /\ \A i, j \in 1..5 : All[i] = All[j] => i = j
    /\ \A k \in Kinds : \E j \in 1..5 : All[j] = k
BY DEF All, Always, Kinds

LEMMA PlanOf ==
    ASSUME NEW r \in Requests
    PROVE  /\ Len(Plan(r)) = IF req[r].mta THEN 5 ELSE 3
           /\ \A j \in 1..Len(Plan(r)) : Plan(r)[j] = All[j]
<1>1. Always[1] = All[1] /\ Always[2] = All[2] /\ Always[3] = All[3]
  BY PlanFacts DEF Always
<1>2. CASE req[r].mta
  BY <1>2, PlanFacts DEF Plan
<1>3. CASE ~req[r].mta
  <2>1. Plan(r) = Always /\ Len(Plan(r)) = 3
    BY <1>3, PlanFacts DEF Plan
  <2>2. ASSUME NEW j \in 1..3  PROVE Always[j] = All[j]
    <3>1. j = 1 \/ j = 2 \/ j = 3
      OBVIOUS
    <3> QED  BY <1>1, <3>1
  <2> QED  BY <1>3, <2>1, <2>2
<1> QED  BY <1>2, <1>3

LEMMA IdleType == Idle \in Request /\ NoRow \in Row /\ NoToken \in Token
<1>1. (CHOOSE d \in Domains : TRUE) \in Domains
  BY BoundsAssumption
<1>2. NoRow \in Row /\ NoToken \in Token
  BY Bounds DEF NoRow, Row, NoToken, Token
<1> QED  BY <1>1, <1>2, Bounds DEF Idle, Request, Ops, Places

-----------------------------------------------------------------------------
(* The core: what every step preserves                                     *)

Others(r) == \A s \in Requests \ {r} : req'[s] = req[s]

\* A request goes on as what it is, or is over; it writes no record.
GoesOn(r) ==
    \/ req'[r] = Idle
    \/ /\ req'[r].op = req[r].op /\ req'[r].domain = req[r].domain /\ req'[r].new = req[r].new
       /\ req'[r].mta = req[r].mta /\ req'[r].row = req[r].row
       /\ Enabling(r) /\ req'[r].at \in Unfinished =>
              req[r].at \in Unfinished /\ req'[r].made = req[r].made

\* The ids in the rows stay or go, but for those an enabling brings.
RowsKeep(r) ==
    \A d \in Domains, k \in Kinds :
        \/ row'[d].ids[k] \in {0, row[d].ids[k]}
        \/ d = Domain(r) /\ Enabling(r) /\ row'[d].ids[k] = req[r].new

LEMMA InUseKept ==
    ASSUME TypeOK, NEW r \in Requests, Others(r), RowsKeep(r),
           \A x \in zone' : \E y \in zone : x.id = y.id /\ x.domain = y.domain,
           req'[r] = Idle \/ (/\ req'[r].op = req[r].op /\ req'[r].domain = req[r].domain
                              /\ req'[r].new = req[r].new /\ req'[r].row = req[r].row),
           NEW i \in Ids \ {0}, NEW d \in Domains, InUse(i, d)'
    PROVE  InUse(i, d)
<1>1. CASE \E x \in zone' : x.id = i /\ x.domain = d
  BY <1>1 DEF InUse
<1>2. CASE \E k \in Kinds : row'[d].ids[k] = i
  BY <1>2 DEF InUse, InRequest, RowsKeep, Enabling, Domain
<1>3. CASE InRequest(i, d)'
  <2>1. PICK s \in Requests :
            /\ req'[s].domain = d
            /\ (req'[s].op = "enable" /\ req'[s].new = i) \/ (\E k \in Kinds : req'[s].row.ids[k] = i)
    BY <1>3 DEF InRequest, Enabling, Domain
  <2>2. req'[s] # Idle
    BY <2>1 DEF Idle, NoRow
  <2>3. /\ req'[s].op = req[s].op /\ req'[s].domain = req[s].domain
        /\ req'[s].new = req[s].new /\ req'[s].row = req[s].row
    BY <2>2 DEF Others
  <2> QED  BY <2>1, <2>3 DEF InUse, InRequest, Enabling, Domain
<1> QED  BY <1>1, <1>2, <1>3 DEF InUse

\* A step that writes no record leaves the core alone.
LEMMA Quiet ==
    ASSUME Core, NEW r \in Requests, Others(r), GoesOn(r), RowsKeep(r),
           zone' \subseteq zone, issued' = issued, TypeOK', Shape(r)'
    PROVE  Core'
<1> USE DEF Core
<1>1. IsFiniteSet(zone')
  BY FS_Subset
<1>2. Shapes'
  BY DEF Shapes, Shape, Others, Enabling, Plan
<1>3. Distinct'
  BY DEF Distinct, Others, GoesOn, Enabling, Idle
<1>4. Unique'
  BY DEF Unique
<1>5. Unwritten'
  BY DEF Unwritten, Others, GoesOn, Enabling, Made, Idle
<1>6. OneDomain'
  <2>1. \A i \in Ids \ {0}, d \in Domains : InUse(i, d)' => InUse(i, d)
    BY InUseKept DEF GoesOn
  <2> QED  BY <2>1 DEF OneDomain
<1> QED  BY <1>1, <1>2, <1>3, <1>4, <1>5, <1>6

\* So does one that touches neither zone, rows nor requests.
LEMMA Aside ==
    ASSUME Core, UNCHANGED <<zone, row, req, issued>>, TypeOK'
    PROVE  Core'
BY DEF Core, Shapes, Shape, Distinct, Unique, Unwritten, OneDomain, Enabling, Plan, Made,
       InUse, InRequest, Domain

\* How the moves of a request keep its type.
LEMMA Moves ==
    ASSUME Core, NEW r \in Requests
    PROVE  /\ req \in [Requests -> Request]
           /\ Domain(r) \in Domains /\ req[r].new \in Ids /\ req[r].made \in 0..5 /\ req[r].row \in Row
           /\ Leave(r) => Others(r) /\ GoesOn(r) /\ req' \in [Requests -> Request] /\ Shape(r)'
           /\ \A p \in Places : Goto(r, p) => /\ Others(r) /\ req' \in [Requests -> Request]
                                              /\ req'[r] = [req[r] EXCEPT !.at = p]
<1>1. req \in [Requests -> Request]
  BY DEF Core, TypeOK
<1>2. req[r] \in Request
  BY <1>1
<1>3. /\ Domain(r) \in Domains /\ req[r].new \in Ids /\ req[r].made \in 0..5 /\ req[r].row \in Row
  BY <1>2 DEF Request, Domain
<1>4. ASSUME Leave(r)
      PROVE  Others(r) /\ GoesOn(r) /\ req' \in [Requests -> Request] /\ Shape(r)'
  <2>1. req'[r] = Idle /\ Others(r) /\ req' \in [Requests -> Request]
    BY <1>1, <1>4, IdleType DEF Leave, Others
  <2> QED  BY <2>1 DEF GoesOn, Shape, Idle, Enabling
<1>5. ASSUME NEW p \in Places, Goto(r, p)
      PROVE  /\ Others(r) /\ req' \in [Requests -> Request]
             /\ req'[r] = [req[r] EXCEPT !.at = p]
  BY <1>1, <1>2, <1>5 DEF Goto, Others, Request
<1> QED  BY <1>1, <1>3, <1>4, <1>5

\* Numbers of records.
LEMMA Counts ==
    ASSUME Core
    PROVE  /\ Cardinality(zone) \in Nat /\ count \in Nat
           /\ \A S \in SUBSET zone : Cardinality(S) \in Nat
           /\ \A n \in Int : AtLeast0(n) \in Nat
<1>1. \A S \in SUBSET zone : IsFiniteSet(S)
  BY FS_Subset DEF Core
<1>2. \A S \in SUBSET zone : Cardinality(S) \in Nat
  BY <1>1, FS_CardinalityType
<1> QED  BY <1>2 DEF Core, TypeOK, AtLeast0

\* The record an enabling writes is new.
LEMMA NewRecordFacts ==
    ASSUME Core, NEW r \in Requests, At(r, {"enable"}, "write")
    PROVE  /\ NewRecord(r) \in Record /\ NewRecord(r) \notin zone
           /\ NewRecord(r).id = req[r].new /\ NewRecord(r).domain = Domain(r)
           /\ NewRecord(r).kind = All[req[r].made + 1]
           /\ NewRecord(r).kind \in Carriers => NewRecord(r).token = req[r].new
           /\ req[r].made + 1 \in 1..5
           /\ \A x \in zone : x.id = req[r].new => x.kind # NewRecord(r).kind
<1>1. /\ req[r].made \in 0..5 /\ req[r].made < Len(Plan(r)) /\ Domain(r) \in Domains /\ req[r].new \in Ids
  BY Moves DEF At, Core, Shapes, Shape
<1>2. req[r].made + 1 \in 1..5 /\ Plan(r)[req[r].made + 1] = All[req[r].made + 1]
  BY <1>1, PlanOf
<1>3. All[req[r].made + 1] \in Kinds
  BY <1>2, PlanFacts
<1>4. /\ NewRecord(r) \in Record
      /\ NewRecord(r).id = req[r].new /\ NewRecord(r).domain = Domain(r)
      /\ NewRecord(r).kind = All[req[r].made + 1]
      /\ NewRecord(r).kind \in Carriers => NewRecord(r).token = req[r].new
  BY <1>1, <1>2, <1>3, Bounds DEF NewRecord, Record
<1>5. ASSUME NEW x \in zone, x.id = req[r].new
      PROVE  x.kind # NewRecord(r).kind
  <2>1. PICK j \in 1..req[r].made : x.kind = All[j]
    BY <1>5 DEF Core, Unwritten, Unfinished, Enabling, Made, At
  <2>2. j \in 1..5 /\ j # req[r].made + 1
    BY <1>1, <2>1
  <2> QED  BY <1>2, <1>4, <2>1, <2>2, PlanFacts
<1> QED  BY <1>2, <1>4, <1>5

\* What is left of the core when a request writes a record.
LEMMA Written ==
    ASSUME Core, NEW r \in Requests, At(r, {"enable"}, "write"), Others(r),
           zone' = zone \cup {NewRecord(r)}, issued' = issued, row' = row, TypeOK', Shape(r)',
           /\ req'[r].op = req[r].op /\ req'[r].domain = req[r].domain /\ req'[r].new = req[r].new
           /\ req'[r].mta = req[r].mta /\ req'[r].row = req[r].row,
           req'[r].at \in Unfinished => req'[r].made = req[r].made + 1
    PROVE  Core'
<1> USE DEF Core
<1> DEFINE x == NewRecord(r)
<1>0. /\ x.id = req[r].new /\ x.domain = Domain(r) /\ x.kind = All[req[r].made + 1] /\ x \notin zone
      /\ \A y \in zone : y.id = req[r].new => y.kind # x.kind
      /\ req[r].made \in 0..5
  BY NewRecordFacts, Moves
<1> HIDE DEF x
<1>z. zone' = zone \cup {x}
  BY DEF x
<1>1. IsFiniteSet(zone')
  BY <1>z, FS_AddElement
<1>2. Shapes'
  BY DEF Shapes, Shape, Others, Enabling, Plan
<1>3. Distinct'
  BY DEF Distinct, Others, Enabling
<1>4. Unique'
  BY <1>0, <1>z DEF Unique
<1>5. Unwritten'
  <2> SUFFICES ASSUME NEW s \in Requests, Enabling(s)', req'[s].at \in Unfinished,
                      NEW y \in zone', y.id = req'[s].new
               PROVE  y.kind \in Made(s)'
    BY DEF Unwritten
  <2>1. CASE s # r
    <3>1. req'[s] = req[s] /\ Enabling(s) /\ Made(s)' = Made(s)
      BY <2>1 DEF Others, Enabling, Made
    <3>2. y # x
      BY <1>0, <2>1, <3>1 DEF Distinct, At, Enabling
    <3> QED  BY <1>z, <3>1, <3>2 DEF Unwritten
  <2>2. CASE s = r
    <3>1. Made(r)' = Made(r) \cup {x.kind}
      BY <1>0, <2>2 DEF Made
    <3>2. CASE y \in zone
      BY <2>2, <3>1, <3>2 DEF Unwritten, Unfinished, At, Enabling
    <3>3. CASE y = x
      BY <2>2, <3>1, <3>3
    <3> QED  BY <1>z, <3>2, <3>3
  <2> QED  BY <2>1, <2>2
<1>6. OneDomain'
  <2>1. ASSUME NEW i \in Ids \ {0}, NEW d \in Domains, InUse(i, d)'
        PROVE  InUse(i, d)
    <3>1. CASE \E y \in zone' : y.id = i /\ y.domain = d
      BY <1>0, <1>z, <3>1 DEF InUse, InRequest, At, Enabling
    <3>2. CASE \E k \in Kinds : row'[d].ids[k] = i
      BY <3>2 DEF InUse
    <3>3. CASE InRequest(i, d)'
      <4>1. PICK s \in Requests :
                /\ req'[s].domain = d
                /\ (req'[s].op = "enable" /\ req'[s].new = i) \/ (\E k \in Kinds : req'[s].row.ids[k] = i)
        BY <3>3 DEF InRequest, Enabling, Domain
      <4>2. /\ req'[s].op = req[s].op /\ req'[s].domain = req[s].domain
            /\ req'[s].new = req[s].new /\ req'[s].row = req[s].row
        BY DEF Others
      <4> QED  BY <4>1, <4>2 DEF InUse, InRequest, Enabling, Domain
    <3> QED  BY <2>1, <3>1, <3>2, <3>3 DEF InUse
  <2> QED  BY <2>1 DEF OneDomain
<1> QED  BY <1>1, <1>2, <1>3, <1>4, <1>5, <1>6

-----------------------------------------------------------------------------
(* The core, action by action                                              *)

\* A request that begins brings a new id, or the row it read.
LEMMA Begun ==
    ASSUME Core, NEW r \in Requests, NEW d \in Domains, Others(r),
           zone' = zone, row' = row, issued' \in {issued, issued + 1}, TypeOK', Shape(r)',
           req'[r].domain = d, req'[r].row = NoRow \/ req'[r].row = row[d],
           req'[r].op = "enable" =>
               req'[r].new = issued + 1 /\ issued' = issued + 1 /\ req'[r].made = 0
    PROVE  Core'
<1> USE DEF Core
<1>0. issued \in Nat /\ req \in [Requests -> Request]
  BY Bounds DEF TypeOK
<1>1. IsFiniteSet(zone')
  OBVIOUS
<1>2. Shapes'
  <2>1. ASSUME NEW s \in Requests \ {r}  PROVE Shape(s)'
    <3>1. req'[s] = req[s] /\ Shape(s) /\ req[s].new \in Nat
      BY <1>0, Bounds DEF Others, Shapes, Request
    <3> QED  BY <1>0, <3>1 DEF Shape, Enabling, Plan
  <2> QED  BY <2>1 DEF Shapes
<1>3. \A x \in zone : x.id <= issued
  <2> SUFFICES ASSUME NEW x \in zone PROVE x.id <= issued
    OBVIOUS
  <2>1. x.id \in Ids /\ x.domain \in Domains
    BY DEF TypeOK, Record
  <2>2. InUse(x.id, x.domain)
    BY DEF InUse
  <2>3. CASE x.id = 0
    BY <1>0, <2>3
  <2>4. CASE x.id # 0
    BY <2>1, <2>2, <2>4 DEF OneDomain
  <2> QED  BY <2>3, <2>4
<1>4. \A s \in Requests : Enabling(s) => req[s].new <= issued
  BY <1>0 DEF Shapes, Shape, Enabling
<1>5. Distinct'
  BY <1>0, <1>4 DEF Distinct, Others, Enabling
<1>6. Unique'
  BY DEF Unique
<1>7. Unwritten'
  <2> SUFFICES ASSUME NEW s \in Requests, Enabling(s)', req'[s].at \in Unfinished,
                      NEW y \in zone, y.id = req'[s].new
               PROVE  y.kind \in Made(s)'
    BY DEF Unwritten
  <2>1. s # r
    BY <1>0, <1>3 DEF Enabling
  <2> QED  BY <2>1 DEF Unwritten, Others, Enabling, Made
<1>8. OneDomain'
  <2>1. ASSUME NEW i \in Ids \ {0}, NEW e \in Domains, InUse(i, e)'
        PROVE  InUse(i, e) \/ (i = issued + 1 /\ issued' = issued + 1 /\ e = d)
    <3>1. CASE \E y \in zone' : y.id = i /\ y.domain = e
      BY <3>1 DEF InUse
    <3>2. CASE \E k \in Kinds : row'[e].ids[k] = i
      BY <3>2 DEF InUse
    <3>3. CASE InRequest(i, e)'
      <4>1. PICK s \in Requests :
                /\ req'[s].domain = e
                /\ (req'[s].op = "enable" /\ req'[s].new = i) \/ (\E k \in Kinds : req'[s].row.ids[k] = i)
        BY <3>3 DEF InRequest, Enabling, Domain
      <4>2. CASE s # r
        BY <4>1, <4>2 DEF Others, InUse, InRequest, Enabling, Domain
      <4>3. CASE s = r
        <5>1. \A k \in Kinds : NoRow.ids[k] = 0
          BY DEF NoRow
        <5> QED  BY <4>1, <4>3, <5>1 DEF InUse
      <4> QED  BY <4>2, <4>3
    <3> QED  BY <2>1, <3>1, <3>2, <3>3 DEF InUse
  <2>2. \A i \in Ids \ {0}, e \in Domains : InUse(i, e) => i <= issued
    BY DEF OneDomain
  <2>3. Ids \subseteq Nat
    BY Bounds
  <2> QED
    <3> SUFFICES ASSUME NEW i \in Ids \ {0}, NEW e \in Domains, InUse(i, e)'
                 PROVE  i <= issued' /\ \A f \in Domains : InUse(i, f)' => e = f
      BY DEF OneDomain
    <3>1. CASE i <= issued
      BY <1>0, <2>1, <2>3, <3>1 DEF OneDomain
    <3>2. CASE ~(i <= issued)
      <4>1. i = issued + 1 /\ issued' = issued + 1 /\ e = d
        BY <2>1, <2>2, <3>2
      <4> QED  BY <1>0, <2>1, <2>2, <3>2, <4>1
    <3> QED  BY <3>1, <3>2
<1> QED  BY <1>1, <1>2, <1>5, <1>6, <1>7, <1>8

LEMMA StartEnableCore ==
    ASSUME Core, NEW r \in Requests, NEW d \in Domains, NEW m \in BOOLEAN, StartEnable(r, d, m)
    PROVE  Core'
<1>0. /\ issued \in Nat /\ issued + 1 \in Ids /\ req \in [Requests -> Request] /\ crossed \subseteq Domains
      /\ issued' = issued + 1
  BY Bounds DEF Core, TypeOK, StartEnable, Ids
<1>1. /\ Others(r) /\ req' \in [Requests -> Request] /\ crossed' \subseteq Domains
      /\ req'[r] = [op |-> "enable", at |-> "insert", domain |-> d,
                    new |-> issued + 1, mta |-> m, made |-> 0, row |-> NoRow]
  <2>1. [op |-> "enable", at |-> "insert", domain |-> d,
         new |-> issued + 1, mta |-> m, made |-> 0, row |-> NoRow] \in Request
    BY <1>0, IdleType DEF Request, Ops, Places
  <2>2. crossed' \subseteq Domains
    BY <1>0 DEF StartEnable, Cross
  <2> QED  BY <1>0, <2>1, <2>2 DEF StartEnable, Others
<1>2. TypeOK'
  BY <1>0, <1>1 DEF Core, TypeOK, StartEnable, store
<1>3. Len(Plan(r)') \in Nat
  <2>1. Plan(r)' = All \/ Plan(r)' = Always
    BY DEF Plan
  <2> QED  BY <2>1, PlanFacts
<1>4. Shape(r)'
  BY <1>0, <1>1, <1>3 DEF Shape, Enabling
<1> QED  BY <1>0, <1>1, <1>2, <1>4, Begun DEF StartEnable, store

LEMMA StartRotateCore ==
    ASSUME Core, NEW r \in Requests, NEW d \in Domains, StartRotate(r, d)
    PROVE  Core'
<1>0. /\ issued \in Nat /\ issued + 1 \in Ids /\ req \in [Requests -> Request] /\ crossed \subseteq Domains
      /\ issued' = issued + 1 /\ row[d] \in Row
  BY Bounds DEF Core, TypeOK, StartRotate, Ids
<1>1. /\ Others(r) /\ req' \in [Requests -> Request] /\ crossed' \subseteq Domains
      /\ req'[r] = [Idle EXCEPT !.op = "rotate", !.at = "dmarc", !.domain = d,
                                !.new = issued + 1, !.row = row[d]]
  <2>1. [Idle EXCEPT !.op = "rotate", !.at = "dmarc", !.domain = d,
                     !.new = issued + 1, !.row = row[d]] \in Request
    BY <1>0, IdleType DEF Request, Ops, Places
  <2>2. crossed' \subseteq Domains
    BY <1>0 DEF StartRotate, Cross
  <2> QED  BY <1>0, <2>1, <2>2 DEF StartRotate, Others
<1>2. TypeOK'
  BY <1>0, <1>1 DEF Core, TypeOK, StartRotate, store
<1>3. /\ req'[r].op = "rotate" /\ req'[r].at = "dmarc" /\ req'[r].domain = d
      /\ req'[r].new = issued + 1 /\ req'[r].row = row[d]
  BY <1>1 DEF Idle
<1>4. Shape(r)'
  BY <1>0, <1>3 DEF Shape, Enabling
<1> QED  BY <1>0, <1>1, <1>2, <1>3, <1>4, Begun DEF StartRotate, store

LEMMA StartRemovalCore ==
    ASSUME Core, NEW r \in Requests, NEW d \in Domains, NEW op \in {"disable", "trim"}, StartRemoval(r, d, op)
    PROVE  Core'
<1>0. /\ req \in [Requests -> Request] /\ crossed \subseteq Domains /\ row[d] \in Row
  BY DEF Core, TypeOK
<1>1. /\ Others(r) /\ req' \in [Requests -> Request] /\ crossed' \subseteq Domains
      /\ req'[r] = [Idle EXCEPT !.op = op, !.at = "remove", !.domain = d, !.row = row[d],
                                !.made = IF op = "trim" THEN 3 ELSE 0]
  <2> DEFINE Started(n) == [Idle EXCEPT !.op = op, !.at = "remove", !.domain = d, !.row = row[d], !.made = n]
  <2>1. Started(IF op = "trim" THEN 3 ELSE 0) \in Request
    <3>1. ASSUME NEW n \in {0, 3}  PROVE Started(n) \in Request
      <4>1. n \in 0..5 /\ op \in Ops /\ "remove" \in Places
        BY DEF Ops, Places
      <4> QED  BY <1>0, <4>1, IdleType DEF Request
    <3>2. (IF op = "trim" THEN 3 ELSE 0) \in {0, 3}
      OBVIOUS
    <3> HIDE DEF Started
    <3> QED  BY <3>1, <3>2
  <2>2. crossed' \subseteq Domains
    BY <1>0 DEF StartRemoval, Cross
  <2> QED  BY <1>0, <2>1, <2>2, PlanFacts DEF StartRemoval, Others
<1>2. TypeOK'
  BY <1>0, <1>1 DEF Core, TypeOK, StartRemoval, store
<1>3. req'[r].op = op /\ req'[r].at = "remove" /\ req'[r].domain = d /\ req'[r].row = row[d]
  BY <1>1 DEF Idle
<1>4. Shape(r)'
  BY <1>0, <1>3 DEF Shape, Enabling
<1> QED  BY <1>0, <1>1, <1>2, <1>3, <1>4, Begun DEF StartRemoval, store

LEMMA InsertCore ==
    ASSUME Core, NEW r \in Requests, Insert(r)
    PROVE  Core'
<1> USE DEF Core
<1>0. req[r].op = "enable" /\ req[r].at = "insert" /\ Shape(r)
  BY DEF Insert, At, Shapes
<1>1. CASE row[Domain(r)] = NoRow
  <2>1. Goto(r, "accept") /\ row' = [row EXCEPT ![Domain(r)] = [NoRow EXCEPT !.hid = req[r].new]]
    BY <1>1 DEF Insert
  <2>2. Others(r) /\ req' \in [Requests -> Request] /\ req'[r] = [req[r] EXCEPT !.at = "accept"]
    BY <2>1, Moves DEF Places
  <2>3. [NoRow EXCEPT !.hid = req[r].new] \in Row /\ \A k \in Kinds : NoRow.ids[k] = 0
    BY Moves, IdleType DEF Row, NoRow
  <2>4. TypeOK'
    BY <2>1, <2>2, <2>3, Moves DEF TypeOK, Insert, history
  <2>5. RowsKeep(r)
    BY <2>1, <2>3, Moves DEF RowsKeep, TypeOK
  <2>6. req'[r].op = "enable" /\ req'[r].at = "accept" /\ req'[r].made = req[r].made /\ req'[r].new = req[r].new
        /\ req'[r].row = req[r].row /\ req'[r].mta = req[r].mta /\ req'[r].domain = req[r].domain
    BY <1>0, <2>2, Moves DEF Request
  <2>7. Shape(r)' /\ GoesOn(r)
    BY <1>0, <2>6 DEF Shape, Enabling, Plan, GoesOn, Unfinished, Insert
  <2> QED  BY <2>2, <2>4, <2>5, <2>7, Quiet DEF Insert
<1>2. CASE row[Domain(r)] # NoRow
  <2>1. Leave(r) /\ row' = row
    BY <1>2 DEF Insert
  <2>2. TypeOK' /\ RowsKeep(r)
    BY <2>1, Moves DEF TypeOK, Insert, history, RowsKeep
  <2> QED  BY <2>1, <2>2, Moves, Quiet DEF Insert
<1> QED  BY <1>1, <1>2

LEMMA AcceptTokenCore ==
    ASSUME Core, NEW r \in Requests, AcceptToken(r)
    PROVE  Core'
<1> USE DEF Core
<1>0. req[r].op = "enable" /\ req[r].at = "accept" /\ Shape(r)
  BY DEF AcceptToken, At, Shapes
<1>1. Others(r) /\ req' \in [Requests -> Request] /\ req'[r] = [req[r] EXCEPT !.at = "write"]
  BY Moves DEF Places, AcceptToken
<1>2. TypeOK'
  BY <1>1, Moves DEF TypeOK, AcceptToken, SetToken, Token, history
<1>3. req'[r].op = "enable" /\ req'[r].at = "write" /\ req'[r].made = req[r].made /\ req'[r].new = req[r].new
      /\ req'[r].row = req[r].row /\ req'[r].mta = req[r].mta /\ req'[r].domain = req[r].domain
  BY <1>0, <1>1, Moves DEF Request
<1>4. Shape(r)' /\ GoesOn(r)
  BY <1>0, <1>3, PlanOf DEF Shape, Enabling, Plan, GoesOn, Unfinished, AcceptToken
<1> QED  BY <1>1, <1>2, <1>4, Quiet DEF AcceptToken, RowsKeep

\* A request stands at place p and has made n records.
Becomes(r, n, p) ==
    /\ req'[r].at = p /\ req'[r].made = n
    /\ req'[r].op = req[r].op /\ req'[r].domain = req[r].domain /\ req'[r].new = req[r].new
    /\ req'[r].mta = req[r].mta /\ req'[r].row = req[r].row

LEMMA Stepped ==
    ASSUME Core, NEW r \in Requests, NEW n \in 0..5, NEW p \in Places,
           \/ req' = [req EXCEPT ![r].made = n, ![r].at = p]
           \/ req' = [req EXCEPT ![r].made = n] /\ p = req[r].at
           \/ req' = [req EXCEPT ![r].at = p] /\ n = req[r].made
    PROVE  Others(r) /\ req' \in [Requests -> Request] /\ Becomes(r, n, p)
<1>1. req \in [Requests -> Request] /\ req[r] \in Request
  BY Moves
<1>2. [req[r] EXCEPT !.made = n, !.at = p] \in Request
  BY <1>1 DEF Request
<1>3. CASE req' = [req EXCEPT ![r].made = n, ![r].at = p]
  <2>1. req' = [req EXCEPT ![r] = [req[r] EXCEPT !.made = n, !.at = p]]
    BY <1>1, <1>3
  <2>2. Others(r) /\ req' \in [Requests -> Request] /\ req'[r] = [req[r] EXCEPT !.made = n, !.at = p]
    BY <1>1, <1>2, <2>1 DEF Others
  <2> QED  BY <1>1, <2>2 DEF Becomes, Request
<1>4. CASE req' = [req EXCEPT ![r].made = n] /\ p = req[r].at
  <2>1. [req[r] EXCEPT !.made = n] \in Request
    BY <1>1 DEF Request
  <2>2. Others(r) /\ req' \in [Requests -> Request] /\ req'[r] = [req[r] EXCEPT !.made = n]
    BY <1>1, <1>4, <2>1 DEF Others
  <2> QED  BY <1>1, <1>4, <2>2 DEF Becomes, Request
<1>5. CASE req' = [req EXCEPT ![r].at = p] /\ n = req[r].made
  <2>1. [req[r] EXCEPT !.at = p] \in Request
    BY <1>1 DEF Request
  <2>2. Others(r) /\ req' \in [Requests -> Request] /\ req'[r] = [req[r] EXCEPT !.at = p]
    BY <1>1, <1>5, <2>1 DEF Others
  <2> QED  BY <1>1, <1>5, <2>2 DEF Becomes, Request
<1> QED  BY <1>3, <1>4, <1>5

\* How a record that is written leaves the request that wrote it.
LEMMA WriteSteps ==
    ASSUME Core, NEW r \in Requests, Write(r) \/ WriteUnacknowledged(r)
    PROVE  /\ At(r, {"enable"}, "write") /\ zone' = zone \cup {NewRecord(r)}
           /\ Others(r) /\ req' \in [Requests -> Request]
           /\ req[r].made \in 0..5 /\ req[r].made < Len(Plan(r)) /\ req[r].made + 1 \in 0..5
           /\ Write(r) => Becomes(r, req[r].made + 1, "count")
           /\ ~Write(r) => Becomes(r, req[r].made, "undo")
<1>1. At(r, {"enable"}, "write") /\ zone' = zone \cup {NewRecord(r)}
  BY DEF Write, WriteUnacknowledged
<1>2. req[r].made \in 0..5 /\ req[r].made + 1 \in 0..5
  BY <1>1, Moves, NewRecordFacts
<1>3. req[r].made < Len(Plan(r))
  BY <1>1 DEF Core, Shapes, Shape, At
<1>4. "count" \in Places /\ "undo" \in Places
  BY DEF Places
<1>5. CASE Write(r)
  <2>1. req' = [req EXCEPT ![r].made = req[r].made + 1, ![r].at = "count"]
    BY <1>5, Moves DEF Write
  <2> QED  BY <1>1, <1>2, <1>3, <1>4, <1>5, <2>1, Stepped
<1>6. CASE ~Write(r)
  <2>1. req' = [req EXCEPT ![r].at = "undo"]
    BY <1>6 DEF WriteUnacknowledged, Goto
  <2> QED  BY <1>1, <1>2, <1>3, <1>4, <1>6, <2>1, Stepped
<1> QED  BY <1>5, <1>6

LEMMA WriteCore ==
    ASSUME Core, NEW r \in Requests, Write(r) \/ WriteUnacknowledged(r)
    PROVE  Core'
<1> USE DEF Core
<1>0. /\ At(r, {"enable"}, "write") /\ zone' = zone \cup {NewRecord(r)} /\ Shape(r)
      /\ Others(r) /\ req' \in [Requests -> Request]
      /\ req[r].made \in 0..5 /\ req[r].made < Len(Plan(r))
      /\ Becomes(r, req[r].made + 1, "count") \/ Becomes(r, req[r].made, "undo")
  BY WriteSteps DEF Shapes
<1>1. /\ issued' = issued /\ row' = row
      /\ token' = token /\ mtaSts' = mtaSts /\ cron' = cron /\ torn' = torn /\ crossed' = crossed
      /\ count' = count /\ drifted' \in BOOLEAN
      /\ leaked' \in {leaked, leaked \cup {Domain(r)}}
  BY DEF Write, WriteUnacknowledged, TypeOK, history
<1>2. Len(Plan(r)) \in {3, 5} /\ Plan(r)' = Plan(r)
  BY <1>0, PlanOf DEF Becomes, Plan
<1>3. Shape(r)'
  <2>1. \A l \in {3, 5}, m \in 0..5 : m < l => m + 1 <= l /\ m <= l /\ m + 1 # 0
    OBVIOUS
  <2> QED  BY <1>0, <1>1, <1>2, <2>1 DEF Shape, Enabling, Becomes, At
<1>4. TypeOK'
  <2>1. Domain(r) \in Domains /\ NewRecord(r) \in Record
    BY <1>0, Moves, NewRecordFacts
  <2> QED  BY <1>0, <1>1, <2>1 DEF TypeOK
<1>5. req'[r].at \in Unfinished => req'[r].made = req[r].made + 1
  BY <1>0 DEF Becomes, Unfinished
<1> QED  BY <1>0, <1>1, <1>3, <1>4, <1>5, Written DEF Becomes

\* The places a request of an operation may go to without writing a record.
Fits(r, p) ==
    /\ req[r].op # "none"
    /\ Enabling(r) => \/ p \in {"config", "finish", "undo", "undoConfig", "undoToken", "undoRow"}
                      \/ p = "write" /\ req[r].at = "count" /\ req[r].made < Len(Plan(r))
    /\ req[r].op = "rotate" => p \in {"tls", "accept"}
    /\ req[r].op = "disable" => p \in {"remove", "forgetConfig", "forgetToken", "forgetRow"}
    /\ req[r].op = "trim" => p \in {"remove", "forget"}

LEMMA Going ==
    ASSUME Core, NEW r \in Requests, NEW p, Fits(r, p), Goto(r, p), issued' = issued
    PROVE  /\ Others(r) /\ GoesOn(r) /\ Shape(r)' /\ req' \in [Requests -> Request]
           /\ req'[r] = [req[r] EXCEPT !.at = p]
<1>0. p \in Places /\ Shape(r) /\ req[r] \in Request
  <2>1. req[r] \in Request
    BY Moves
  <2>2. req[r].op \in {"enable", "rotate", "disable", "trim"}
    BY <2>1 DEF Fits, Request, Ops
  <2> QED  BY <2>1, <2>2 DEF Fits, Places, Core, Shapes, Enabling
<1>1. Others(r) /\ req' \in [Requests -> Request] /\ req'[r] = [req[r] EXCEPT !.at = p]
  BY <1>0, Moves
<1>2. req'[r].op = req[r].op /\ req'[r].at = p /\ req'[r].made = req[r].made /\ req'[r].new = req[r].new
      /\ req'[r].row = req[r].row /\ req'[r].mta = req[r].mta /\ req'[r].domain = req[r].domain
  BY <1>0, <1>1 DEF Request
<1>3. GoesOn(r)
  BY <1>2 DEF GoesOn, Fits, Enabling, Unfinished
<1>4. Len(Plan(r)') = Len(Plan(r))
  BY <1>2 DEF Plan
<1>5. Shape(r)'
  <2>1. req[r].op \in {"enable", "rotate", "disable", "trim"}
    BY <1>0 DEF Fits, Request, Ops
  <2> QED  BY <1>0, <1>2, <1>4, <2>1 DEF Shape, Enabling, Fits
<1> QED  BY <1>1, <1>3, <1>5

\* A request that makes one more or one less record.
LEMMA Stepping ==
    ASSUME Core, NEW r \in Requests, NEW n \in 0..5, NEW p, Becomes(r, n, p), Others(r), issued' = issued,
           \/ Enabling(r) /\ p \in {"undo", "uncount"} /\ n <= req[r].made
           \/ req[r].op \in {"disable", "trim"} /\ p \in {"remove", "uncount"}
    PROVE  GoesOn(r) /\ Shape(r)'
<1>0. Shape(r) /\ req[r].made \in 0..5
  BY Moves DEF Core, Shapes
<1>1. GoesOn(r)
  BY DEF GoesOn, Becomes, Unfinished, Enabling
<1>2. Plan(r)' = Plan(r) /\ Len(Plan(r)) \in {3, 5}
  BY PlanOf DEF Becomes, Plan
<1>3. \A l \in {3, 5} : req[r].made <= l /\ n <= req[r].made => n <= l
  BY <1>0
<1>4. Shape(r)'
  BY <1>0, <1>2, <1>3 DEF Shape, Enabling, Becomes
<1> QED  BY <1>1, <1>4

LEMMA RowsStay ==
    ASSUME NEW r \in Requests, row' = row
    PROVE  RowsKeep(r)
BY DEF RowsKeep

LEMMA InsertConfigCore ==
    ASSUME Core, NEW r \in Requests, InsertConfig(r)
    PROVE  Core'
<1> USE DEF Core
<1>1. Enabling(r) /\ Fits(r, "undo") /\ Fits(r, "finish")
  BY DEF InsertConfig, At, Fits, Enabling
<1>2. issued' = issued /\ zone' = zone /\ row' = row /\ (Goto(r, "undo") \/ Goto(r, "finish"))
      /\ mtaSts' \in {mtaSts, mtaSts \cup {Domain(r)}}
  BY DEF InsertConfig, history
<1>3. Others(r) /\ GoesOn(r) /\ Shape(r)' /\ req' \in [Requests -> Request]
  BY <1>1, <1>2, Going
<1>4. TypeOK'
  BY <1>2, <1>3, Moves DEF TypeOK, InsertConfig, history
<1> QED  BY <1>2, <1>3, <1>4, Quiet, RowsStay

LEMMA FinishCore ==
    ASSUME Core, NEW r \in Requests, Finish(r)
    PROVE  Core'
<1> USE DEF Core
<1>1. Leave(r) /\ Enabling(r) /\ zone' = zone /\ issued' = issued
  BY DEF Finish, At, Enabling, history
<1>2. /\ row' \in [Domains -> Row]
      /\ \A d \in Domains \ {Domain(r)} : row'[d] = row[d]
      /\ \A k \in Kinds : row'[Domain(r)].ids[k] \in {0, row[Domain(r)].ids[k], req[r].new}
  <2>1. row \in [Domains -> Row] /\ Domain(r) \in Domains /\ req[r].new \in Ids /\ 0 \in Ids
    BY Moves, Bounds DEF TypeOK
  <2>2. CASE row[Domain(r)] = NoRow
    BY <2>1, <2>2 DEF Finish
  <2>3. CASE row[Domain(r)] # NoRow
    <3> DEFINE ids == [k \in Kinds |-> IF k \in MtaKinds /\ ~req[r].mta THEN 0 ELSE req[r].new]
    <3>1. row' = [row EXCEPT ![Domain(r)] = [row[Domain(r)] EXCEPT !.ids = ids]]
      BY <2>1, <2>3 DEF Finish
    <3>2. ids \in [Kinds -> Ids]
      BY <2>1
    <3>3. [row[Domain(r)] EXCEPT !.ids = ids] \in Row /\ [row[Domain(r)] EXCEPT !.ids = ids].ids = ids
      BY <2>1, <3>2 DEF Row
    <3>4. \A k \in Kinds : ids[k] \in {0, req[r].new}
      OBVIOUS
    <3> HIDE DEF ids
    <3> QED  BY <2>1, <3>1, <3>3, <3>4
  <2> QED  BY <2>2, <2>3
<1>3. RowsKeep(r)
  BY <1>1, <1>2 DEF RowsKeep
<1>4. TypeOK'
  BY <1>1, <1>2, Moves DEF TypeOK, Finish, history
<1> QED  BY <1>1, <1>3, <1>4, Moves, Quiet

LEMMA EnableFailsCore ==
    ASSUME Core, NEW r \in Requests, EnableFails(r)
    PROVE  Core'
<1> USE DEF Core
<1>1. Fits(r, "undo") /\ Goto(r, "undo") /\ issued' = issued /\ zone' = zone /\ row' = row
  BY DEF EnableFails, Fits, Enabling, store
<1>2. Others(r) /\ GoesOn(r) /\ Shape(r)' /\ req' \in [Requests -> Request]
  BY <1>1, Going
<1>3. TypeOK'
  BY <1>2 DEF TypeOK, EnableFails, store
<1> QED  BY <1>1, <1>2, <1>3, Quiet, RowsStay

\* Where an enabling goes on after a record was counted.
LEMMA CountGoes ==
    ASSUME Core, NEW r \in Requests, Count(r)
    PROVE  /\ Enabling(r) /\ req[r].at = "count" /\ Goto(r, AfterCount(r)) /\ Fits(r, AfterCount(r))
           /\ AfterCount(r) \in {"write", "config", "finish"}
           /\ UNCHANGED <<zone, row, token, mtaSts, cron, issued, history>> /\ count' = count + 1
  BY DEF Count, At, Enabling, Fits, AfterCount

LEMMA CountCore ==
    ASSUME Core, NEW r \in Requests, Count(r)
    PROVE  Core'
<1> USE DEF Core
<1>1. Goto(r, AfterCount(r)) /\ Fits(r, AfterCount(r)) /\ issued' = issued /\ zone' = zone /\ row' = row
  BY CountGoes DEF history
<1>2. Others(r) /\ GoesOn(r) /\ Shape(r)' /\ req' \in [Requests -> Request]
  BY <1>1, Going
<1>3. count' \in Nat
  BY CountGoes, Counts
<1>4. TypeOK'
  BY <1>2, <1>3, CountGoes DEF TypeOK, history
<1> QED  BY <1>1, <1>2, <1>4, Quiet, RowsStay

\* Where a request goes on after a removal was counted, or after its count failed.
LEMMA UncountGoes ==
    ASSUME Core, NEW r \in Requests, Uncount(r) \/ UncountFails(r)
    PROVE  /\ req[r].at = "uncount" /\ Goto(r, AfterUncount(r)) /\ Fits(r, AfterUncount(r))
           /\ Enabling(r) => AfterUncount(r) = "undo"
           /\ ~Enabling(r) => req[r].op \in {"disable", "trim"} /\ AfterUncount(r) = "remove"
           /\ UNCHANGED <<zone, row, token, mtaSts, cron, issued, leaked, torn, crossed>>
<1>1. req[r].at = "uncount" /\ Goto(r, AfterUncount(r)) /\ Shape(r) /\ req[r].op \in Ops
  BY Moves DEF Uncount, UncountFails, At, Core, Shapes, Request
<1>2. req[r].op \in {"enable", "disable", "trim"}
  BY <1>1 DEF Shape, Ops
<1>3. /\ Enabling(r) => AfterUncount(r) = "undo"
      /\ ~Enabling(r) => req[r].op \in {"disable", "trim"} /\ AfterUncount(r) = "remove"
  BY <1>2 DEF AfterUncount, Enabling
<1>4. Fits(r, AfterUncount(r))
  BY <1>2, <1>3 DEF Fits, Enabling
<1> QED  BY <1>1, <1>3, <1>4 DEF Uncount, UncountFails, store, history

LEMMA UncountCore ==
    ASSUME Core, NEW r \in Requests, Uncount(r) \/ UncountFails(r)
    PROVE  Core'
<1> USE DEF Core
<1>1. Goto(r, AfterUncount(r)) /\ Fits(r, AfterUncount(r)) /\ issued' = issued /\ zone' = zone /\ row' = row
  BY UncountGoes
<1>2. Others(r) /\ GoesOn(r) /\ Shape(r)' /\ req' \in [Requests -> Request]
  BY <1>1, Going
<1>3. count' \in Nat /\ drifted' \in BOOLEAN
  <2>1. count - 1 \in Int
    BY Counts
  <2> QED  BY <2>1, Counts DEF Uncount, UncountFails, store, history, TypeOK
<1>4. TypeOK'
  BY <1>2, <1>3, UncountGoes DEF TypeOK
<1> QED  BY <1>1, <1>2, <1>4, Quiet, RowsStay

\* What an enabling takes back, and where it goes on.
LEMMA UndoSteps ==
    ASSUME Core, NEW r \in Requests, Undo(r), req[r].made # 0
    PROVE  /\ req[r].made - 1 \in 0..5 /\ req[r].made - 1 <= req[r].made
           /\ Becomes(r, req[r].made - 1, "uncount") /\ Others(r) /\ req' \in [Requests -> Request]
           /\ zone' = zone \ Found(req[r].new, Plan(r)[req[r].made])
           /\ drifted' = (drifted \/ Found(req[r].new, Plan(r)[req[r].made]) = {})
<1>1. req[r].made - 1 \in 0..5 /\ req[r].made - 1 <= req[r].made
  BY Moves
<1>2. req' = [req EXCEPT ![r].made = req[r].made - 1, ![r].at = "uncount"]
  BY Moves DEF Undo
<1>3. "uncount" \in Places
  BY DEF Places
<1> QED  BY <1>1, <1>2, <1>3, Stepped DEF Undo

LEMMA UndoCore ==
    ASSUME Core, NEW r \in Requests, Undo(r)
    PROVE  Core'
<1> USE DEF Core
<1>0. /\ Enabling(r) /\ req[r].at = "undo" /\ req[r].op = "enable"
      /\ issued' = issued /\ row' = row /\ drifted' \in BOOLEAN
  BY DEF Undo, At, Enabling, TypeOK
<1>1. CASE req[r].made = 0
  <2>1. Fits(r, "undoConfig") /\ Goto(r, "undoConfig") /\ zone' = zone
    BY <1>0, <1>1 DEF Undo, Fits, Enabling
  <2>2. Others(r) /\ GoesOn(r) /\ Shape(r)' /\ req' \in [Requests -> Request]
    BY <1>0, <2>1, Going
  <2>3. TypeOK'
    BY <1>0, <2>1, <2>2 DEF TypeOK, Undo
  <2> QED  BY <1>0, <2>1, <2>2, <2>3, Quiet, RowsStay
<1>2. CASE req[r].made # 0
  <2>1. Others(r) /\ req' \in [Requests -> Request] /\ zone' \subseteq zone
    BY <1>2, UndoSteps
  <2>2. GoesOn(r) /\ Shape(r)'
    BY <1>0, <1>2, UndoSteps, Stepping
  <2>3. TypeOK'
    BY <1>0, <2>1 DEF TypeOK, Undo
  <2> QED  BY <1>0, <2>1, <2>2, <2>3, Quiet, RowsStay
<1> QED  BY <1>1, <1>2

LEMMA UndoFailsCore ==
    ASSUME Core, NEW r \in Requests, UndoFails(r)
    PROVE  Core'
<1> USE DEF Core
<1>0. /\ Enabling(r) /\ req[r].at = "undo" /\ req[r].made \in 0..5 /\ req[r].made # 0
      /\ issued' = issued /\ row' = row /\ zone' = zone
  BY Moves DEF UndoFails, At, Enabling, store
<1> DEFINE n == req[r].made - 1
<1>1. n \in 0..5 /\ n <= req[r].made /\ req' = [req EXCEPT ![r].made = n] /\ "undo" \in Places
  BY <1>0 DEF UndoFails, Places
<1> HIDE DEF n
<1>2. Others(r) /\ Becomes(r, n, "undo") /\ req' \in [Requests -> Request]
  BY <1>0, <1>1, Stepped
<1>3. GoesOn(r) /\ Shape(r)'
  BY <1>0, <1>1, <1>2, Stepping
<1>4. TypeOK'
  BY <1>0, <1>2, Moves DEF TypeOK, UndoFails, store
<1> QED  BY <1>0, <1>2, <1>3, <1>4, Quiet, RowsStay

Forgetting == {"undoConfig", "undoToken", "undoRow", "forgetConfig", "forgetToken", "forgetRow"}

LEMMA ProceedFacts ==
    ASSUME Core, NEW r \in Requests, req[r].at \in Forgetting, Proceed(r), issued' = issued
    PROVE  /\ Others(r) /\ GoesOn(r) /\ Shape(r)' /\ req' \in [Requests -> Request]
           /\ IF req[r].at \in {"undoRow", "forgetRow"} THEN req'[r] = Idle
              ELSE req'[r] = [req[r] EXCEPT !.at = AfterUndo(req[r].at)]
<1>0. Shape(r) /\ req[r].op \in Ops
  BY Moves DEF Core, Shapes, Request
<1>1. /\ req[r].at \in {"undoRow", "forgetRow"} <=> AfterUndo(req[r].at) = "idle"
      /\ req[r].at \in {"undoConfig", "undoToken"} => AfterUndo(req[r].at) \in {"undoToken", "undoRow"}
      /\ req[r].at \in {"forgetConfig", "forgetToken"} => AfterUndo(req[r].at) \in {"forgetToken", "forgetRow"}
  BY DEF AfterUndo, Forgetting
<1>2. CASE req[r].at \in {"undoRow", "forgetRow"}
  <2>1. Leave(r)
    BY <1>1, <1>2 DEF Proceed
  <2> QED  BY <1>2, <2>1, Moves DEF Leave
<1>3. CASE req[r].at \notin {"undoRow", "forgetRow"}
  <2>1. Goto(r, AfterUndo(req[r].at))
    BY <1>1, <1>3 DEF Proceed
  <2>2. Fits(r, AfterUndo(req[r].at))
    BY <1>0, <1>1, <1>3 DEF Fits, Enabling, Shape, Forgetting, Ops
  <2> QED  BY <1>3, <2>1, <2>2, Going
<1> QED  BY <1>2, <1>3

LEMMA DeleteRowCore ==
    ASSUME Core, NEW r \in Requests, DeleteRow(r)
    PROVE  Core'
<1> USE DEF Core
<1>1. req[r].at \in Forgetting /\ Proceed(r) /\ issued' = issued /\ zone' = zone
  BY DEF DeleteRow, Forgetting, history
<1>2. Others(r) /\ GoesOn(r) /\ Shape(r)' /\ req' \in [Requests -> Request]
  BY <1>1, ProceedFacts
<1>3. row' = row \/ row' = [row EXCEPT ![Domain(r)] = NoRow]
  BY DEF DeleteRow
<1>4. RowsKeep(r)
  BY <1>3, Moves DEF RowsKeep, NoRow, TypeOK
<1>5. TypeOK'
  <2>1. row' \in [Domains -> Row] /\ token' \in [Domains -> Token] /\ mtaSts' \subseteq Domains
    BY <1>3, IdleType, Moves DEF DeleteRow, TypeOK
  <2> QED  BY <1>1, <1>2, <2>1 DEF TypeOK, DeleteRow, history
<1> QED  BY <1>1, <1>2, <1>4, <1>5, Quiet

LEMMA DeleteRowFailsCore ==
    ASSUME Core, NEW r \in Requests, DeleteRowFails(r)
    PROVE  Core'
<1> USE DEF Core
<1>1. req[r].at \in Forgetting /\ Proceed(r) /\ issued' = issued /\ zone' = zone /\ row' = row
  BY DEF DeleteRowFails, Forgetting, store
<1>2. Others(r) /\ GoesOn(r) /\ Shape(r)' /\ req' \in [Requests -> Request]
  BY <1>1, ProceedFacts
<1>3. TypeOK'
  BY <1>1, <1>2, Moves DEF TypeOK, DeleteRowFails, store
<1> QED  BY <1>1, <1>2, <1>3, Quiet, RowsStay

\* The record that a rotation writes over, and the one it leaves there.
LEMMA Retargeted ==
    ASSUME Core, NEW r \in Requests, NEW k \in Carriers, NEW next \in {"tls", "accept"}, Retarget(r, k, next)
    PROVE  \E x \in zone, y \in Record :
               /\ x.id = req[r].row.ids[k] /\ x.kind = k
               /\ Found(req[r].row.ids[k], k) = {x}
               /\ y.id = x.id /\ y.kind = x.kind /\ y.domain = x.domain /\ y.token = req[r].new
               /\ zone' = (zone \ {x}) \cup {y}
<1>1. PICK x \in zone : x.id = req[r].row.ids[k] /\ x.kind = k
  BY DEF Retarget, Found
<1>2. Found(req[r].row.ids[k], k) = {x}
  BY <1>1 DEF Found, Core, Unique
<1> DEFINE y == [x EXCEPT !.token = req[r].new]
<1>3. x \in Record /\ req[r].new \in Ids
  BY Moves DEF Core, TypeOK
<1>4. y \in Record /\ y.id = x.id /\ y.kind = x.kind /\ y.domain = x.domain /\ y.token = req[r].new
  BY <1>3 DEF Record
<1>5. zone' = (zone \ {x}) \cup {[z EXCEPT !.token = req[r].new] : z \in {x}}
  BY <1>2 DEF Retarget
<1>6. zone' = (zone \ {x}) \cup {y}
  BY <1>5
<1> QED  BY <1>1, <1>2, <1>4, <1>6

LEMMA RetargetCore ==
    ASSUME Core, NEW r \in Requests, NEW k \in Carriers, NEW next \in {"tls", "accept"}, Retarget(r, k, next)
    PROVE  Core'
<1> USE DEF Core
<1>0. PICK x \in zone, y \in Record :
          /\ y.id = x.id /\ y.kind = x.kind /\ y.domain = x.domain
          /\ zone' = (zone \ {x}) \cup {y}
  BY Retargeted
<1>1. Goto(r, next) /\ Fits(r, next) /\ issued' = issued /\ row' = row
  BY DEF Retarget, At, Fits, Enabling, history
<1>2. Others(r) /\ GoesOn(r) /\ Shape(r)' /\ req' \in [Requests -> Request] /\ req'[r] = [req[r] EXCEPT !.at = next]
  BY <1>1, Going
<1>3. TypeOK'
  BY <1>0, <1>1, <1>2 DEF TypeOK, Retarget, history
<1>4. IsFiniteSet(zone')
  <2>1. IsFiniteSet(zone \ {x})
    BY FS_RemoveElement
  <2> QED  BY <1>0, <2>1, FS_AddElement
<1>5. Shapes'
  <2>1. ASSUME NEW s \in Requests \ {r}  PROVE Shape(s)'
    <3>1. req'[s] = req[s] /\ Shape(s)
      BY <1>2 DEF Others, Shapes
    <3> QED  BY <1>1, <3>1 DEF Shape, Enabling, Plan
  <2> QED  BY <1>2, <2>1 DEF Shapes
<1>6. /\ req'[r].op = req[r].op /\ req'[r].domain = req[r].domain /\ req'[r].new = req[r].new
      /\ req'[r].row = req[r].row /\ ~Enabling(r)
  BY <1>2, Moves DEF Request, Retarget, At, Enabling
<1>a. \A s \in Requests : /\ Enabling(s)' <=> Enabling(s)
                          /\ Enabling(s) => req'[s] = req[s]
                          /\ req'[s].new = req[s].new
  BY <1>2, <1>6 DEF Others, Enabling
<1>7. Distinct'
  BY <1>a DEF Distinct
<1>8. Unique'
  BY <1>0 DEF Unique
<1>9. Unwritten'
  BY <1>0, <1>a DEF Unwritten, Made
<1>10. OneDomain'
  <2>1. \A i \in Ids \ {0}, d \in Domains : InUse(i, d)' => InUse(i, d)
    BY <1>0, <1>1, <1>2, <1>6, InUseKept, RowsStay
  <2> QED  BY <1>1, <2>1 DEF OneDomain
<1> QED  BY <1>3, <1>4, <1>5, <1>7, <1>8, <1>9, <1>10

\* A request that leaves with no change in the zone or the rows.
LEMMA Over ==
    ASSUME Core, NEW r \in Requests, Leave(r), zone' \subseteq zone, row' = row, issued' = issued,
           token' \in [Domains -> Token], mtaSts' \subseteq Domains, count' \in Nat, cron' = cron,
           leaked' \subseteq Domains, torn' \subseteq Domains, crossed' = crossed, drifted' \in BOOLEAN
    PROVE  Core'
<1>1. TypeOK'
  BY Moves DEF TypeOK, Core
<1> QED  BY <1>1, Moves, Quiet, RowsStay

LEMMA LeavingCore ==
    ASSUME Core, NEW r \in Requests,
           AcceptRotated(r) \/ ForgetConfig(r) \/ Abort(r)
    PROVE  Core'
<1>0. Domain(r) \in Domains /\ req[r].new \in Ids
  BY Moves
<1>1. CASE AcceptRotated(r)
  <2>1. token' \in [Domains -> Token]
    BY <1>0, <1>1 DEF AcceptRotated, SetToken, Core, TypeOK, Token
  <2> QED  BY <1>1, <2>1, Over DEF AcceptRotated, Core, TypeOK, history
<1>3. CASE ForgetConfig(r)
  BY <1>3, Over DEF ForgetConfig, Core, TypeOK, history
<1>4. CASE Abort(r)
  <2>1. leaked' \subseteq Domains /\ torn' \subseteq Domains /\ drifted' \in BOOLEAN
    BY <1>0, <1>4 DEF Abort, Core, TypeOK
  <2> QED  BY <1>4, <2>1, Over DEF Abort, Core, TypeOK, store
<1> QED  BY <1>1, <1>3, <1>4

\* What a disabling or a trimming removes, and where it goes on.
LEMMA RemoveSteps ==
    ASSUME Core, NEW r \in Requests, Remove(r)
    PROVE  LET gone == Found(req[r].row.ids[Target(r)], Target(r))
           IN  /\ req[r].op \in {"disable", "trim"} /\ req[r].at = "remove" /\ ~Enabling(r)
               /\ req[r].made \in 0..4 /\ req[r].made + 1 \in 0..5
               /\ Becomes(r, req[r].made + 1, IF gone = {} THEN "remove" ELSE "uncount")
               /\ Others(r) /\ req' \in [Requests -> Request]
               /\ zone' = zone \ gone
               /\ UNCHANGED <<row, token, mtaSts, count, cron, issued, history>>
<1> DEFINE gone == Found(req[r].row.ids[Target(r)], Target(r))
           p == IF gone = {} THEN "remove" ELSE "uncount"
<1>1. req[r].op \in {"disable", "trim"} /\ req[r].at = "remove" /\ ~Enabling(r)
  BY DEF Remove, At, Enabling
<1>2. req[r].made \in 0..4 /\ req[r].made + 1 \in 0..5
  <2>1. req[r].made < 5
    BY PlanFacts DEF Remove
  <2> QED  BY <2>1, Moves
<1>3. req' = [req EXCEPT ![r].made = req[r].made + 1, ![r].at = p] /\ zone' = zone \ gone
  BY Moves DEF Remove
<1>4. p \in Places
  BY DEF Places
<1> HIDE DEF p
<1>5. Becomes(r, req[r].made + 1, p) /\ Others(r) /\ req' \in [Requests -> Request]
  BY <1>2, <1>3, <1>4, Stepped
<1> QED  BY <1>1, <1>2, <1>3, <1>5 DEF p, Remove, history

LEMMA RemoveCore ==
    ASSUME Core, NEW r \in Requests, Remove(r)
    PROVE  Core'
<1> USE DEF Core
<1>1. PICK p \in {"remove", "uncount"} :
          /\ Becomes(r, req[r].made + 1, p) /\ Others(r) /\ req' \in [Requests -> Request]
          /\ req[r].op \in {"disable", "trim"} /\ req[r].made + 1 \in 0..5
  BY RemoveSteps
<1>2. GoesOn(r) /\ Shape(r)'
  BY <1>1, RemoveSteps, Stepping
<1>3. zone' \subseteq zone /\ row' = row /\ issued' = issued
  BY RemoveSteps
<1>4. TypeOK'
  BY <1>1, <1>3, RemoveSteps DEF TypeOK, history
<1> QED  BY <1>1, <1>2, <1>3, <1>4, Quiet, RowsStay

LEMMA RemovedCore ==
    ASSUME Core, NEW r \in Requests, Removed(r)
    PROVE  Core'
<1> USE DEF Core
<1>0. zone' = zone /\ issued' = issued /\ row \in [Domains -> Row] /\ Domain(r) \in Domains
  BY Moves DEF Removed, TypeOK, history
<1>1. CASE req[r].op = "disable"
  <2>1. Goto(r, "forgetConfig") /\ row' = row /\ Fits(r, "forgetConfig")
    BY <1>1 DEF Removed, Fits, Enabling
  <2>2. Others(r) /\ GoesOn(r) /\ Shape(r)' /\ req' \in [Requests -> Request]
    BY <1>0, <2>1, Going
  <2>3. TypeOK'
    BY <1>0, <2>1, <2>2 DEF TypeOK, Removed, history
  <2> QED  BY <1>0, <2>1, <2>2, <2>3, Quiet, RowsStay
<1>2. CASE req[r].op # "disable"
  <2>1. Goto(r, "forget") /\ Fits(r, "forget")
    BY <1>2 DEF Removed, Fits, Enabling, At
  <2>2. Others(r) /\ GoesOn(r) /\ Shape(r)' /\ req' \in [Requests -> Request]
    BY <1>0, <2>1, Going
  <2>3. row' \in [Domains -> Row] /\ RowsKeep(r)
    <3>1. CASE row[Domain(r)] = NoRow
      <4>1. row' = row
        BY <1>2, <3>1 DEF Removed
      <4> QED  BY <1>0, <4>1, RowsStay
    <3>2. CASE row[Domain(r)] # NoRow
      <4> DEFINE old == row[Domain(r)].ids
                 ids == [k \in Kinds |-> IF k \in MtaKinds THEN 0 ELSE old[k]]
      <4>1. row' = [row EXCEPT ![Domain(r)] = [row[Domain(r)] EXCEPT !.ids = ids]]
        BY <1>0, <1>2, <3>2 DEF Removed
      <4>2. ids \in [Kinds -> Ids] /\ \A k \in Kinds : ids[k] \in {0, old[k]}
        BY <1>0, Bounds DEF Row
      <4> HIDE DEF ids
      <4>3. [row[Domain(r)] EXCEPT !.ids = ids] \in Row /\ [row[Domain(r)] EXCEPT !.ids = ids].ids = ids
        BY <1>0, <4>2 DEF Row
      <4> QED  BY <1>0, <4>1, <4>2, <4>3 DEF RowsKeep
    <3> QED  BY <3>1, <3>2
  <2>4. TypeOK'
    BY <1>0, <2>2, <2>3 DEF TypeOK, Removed, history
  <2> QED  BY <1>0, <2>2, <2>3, <2>4, Quiet
<1> QED  BY <1>1, <1>2

LEMMA AsideCore ==
    ASSUME Core, (\E d \in Domains : GraceEnds(d)) \/ ListZone \/ Observe
    PROVE  Core'
<1>1. CASE \E d \in Domains : GraceEnds(d)
  <2>1. TypeOK'
    BY <1>1, Bounds DEF GraceEnds, Core, TypeOK, Token, history
  <2> QED  BY <1>1, <2>1, Aside DEF GraceEnds
<1>2. CASE ListZone
  <2>1. TypeOK'
    BY <1>2, Counts DEF ListZone, Core, TypeOK, store, history
  <2> QED  BY <1>2, <2>1, Aside DEF ListZone, store
<1>3. CASE Observe
  <2>1. TypeOK'
    BY <1>3 DEF Observe, Core, TypeOK
  <2> QED  BY <1>3, <2>1, Aside DEF Observe
<1> QED  BY <1>1, <1>2, <1>3

LEMMA CoreInit == Init => Core
<1> SUFFICES ASSUME Init PROVE Core
  OBVIOUS
<1> USE DEF Init
<1>1. TypeOK
  BY IdleType, Bounds DEF TypeOK
<1>2. IsFiniteSet(zone)
  BY FS_EmptySet
<1>3. Shapes /\ Distinct /\ Unwritten
  BY DEF Shapes, Shape, Distinct, Unwritten, Enabling, Idle
<1>4. Unique
  BY DEF Unique
<1>5. OneDomain
  <2>1. ASSUME NEW i \in Ids \ {0}, NEW d \in Domains  PROVE ~InUse(i, d)
    BY DEF InUse, InRequest, Idle, NoRow, Enabling
  <2> QED  BY <2>1 DEF OneDomain
<1> QED  BY <1>1, <1>2, <1>3, <1>4, <1>5 DEF Core

LEMMA CoreStep == Core /\ [Next]_vars => Core'
<1> SUFFICES ASSUME Core, [Next]_vars PROVE Core'
  OBVIOUS
<1>1. CASE \E r \in Requests, d \in Domains, m \in BOOLEAN : StartEnable(r, d, m)
  BY <1>1, StartEnableCore
<1>2. CASE \E r \in Requests, d \in Domains : StartRotate(r, d)
  BY <1>2, StartRotateCore
<1>3. CASE \E r \in Requests, d \in Domains, op \in {"disable", "trim"} : StartRemoval(r, d, op)
  BY <1>3, StartRemovalCore
<1>4. CASE \E r \in Requests : Enable(r)
  BY <1>4, InsertCore, AcceptTokenCore, WriteCore, CountCore, InsertConfigCore, FinishCore, EnableFailsCore,
     UndoCore, UndoFailsCore, UncountCore, DeleteRowFailsCore DEF Enable
<1>5. CASE \E r \in Requests : Rotate(r)
  <2>1. "dmarc" \in Carriers /\ "tls" \in Carriers
    BY DEF Carriers
  <2> QED  BY <1>5, <2>1, RetargetCore, LeavingCore DEF Rotate
<1>6. CASE \E r \in Requests : Disable(r)
  BY <1>6, RemoveCore, RemovedCore, LeavingCore DEF Disable
<1>7. CASE \E r \in Requests : Uncount(r) \/ DeleteRow(r)
  BY <1>7, UncountCore, DeleteRowCore
<1>8. CASE \E r \in Requests : Abort(r)
  BY <1>8, LeavingCore
<1>9. CASE (\E d \in Domains : GraceEnds(d)) \/ ListZone \/ Observe
  BY <1>9, AsideCore
<1>10. CASE UNCHANGED vars
  <2>1. TypeOK'
    BY <1>10 DEF vars, TypeOK, Core
  <2> QED  BY <1>10, <2>1, Aside DEF vars
<1> QED  BY <1>1, <1>2, <1>3, <1>4, <1>5, <1>6, <1>7, <1>8, <1>9, <1>10 DEF Next

\* What the variables hold: types, shapes of requests and ids, in every reachable state.
THEOREM CoreHolds == Spec => []Core
BY CoreInit, CoreStep, PTL DEF Spec

\* The variables of the hosted records keep their types; the count never goes below zero.
THEOREM HostedTypes == Spec => []TypeOK
<1>1. Core => TypeOK
  BY DEF Core
<1> QED  BY CoreHolds, <1>1, PTL

-----------------------------------------------------------------------------
(* The cap                                                                 *)

\* Enablings whose row is not inserted yet.
Inserting == {r \in Requests : Enabling(r) /\ req[r].at = "insert"}
Full == Cardinality(Hosted) + Cardinality(Inserting) <= Cap - 1 + Cardinality(Requests)

LEMMA Sizes ==
    /\ IsFiniteSet(Hosted) /\ IsFiniteSet(Inserting)
    /\ Cardinality(Hosted) \in Nat /\ Cardinality(Inserting) \in Nat
    /\ Cardinality(Inserting) <= Cardinality(Requests)
    /\ Cardinality(Requests) \in Nat /\ Cardinality(Requests) # 0 /\ Cap \in Nat
<1>1. Hosted \in SUBSET Domains /\ Inserting \in SUBSET Requests
  BY DEF Hosted, Inserting
<1>2. IsFiniteSet(Hosted) /\ IsFiniteSet(Inserting) /\ Cardinality(Inserting) <= Cardinality(Requests)
  BY <1>1, BoundsAssumption, FS_Subset
<1> QED  BY <1>2, BoundsAssumption, FS_CardinalityType, FS_EmptySet

\* A step that hosts no more domains and begins no enabling.
LEMMA NotFuller ==
    ASSUME Full, IsFiniteSet(Hosted'), IsFiniteSet(Inserting'),
           Hosted' \subseteq Hosted, Inserting' \subseteq Inserting
    PROVE  Full'
<1>1. Cardinality(Hosted') <= Cardinality(Hosted) /\ Cardinality(Hosted') \in Nat
  BY Sizes, FS_Subset, FS_CardinalityType
<1>2. Cardinality(Inserting') <= Cardinality(Inserting) /\ Cardinality(Inserting') \in Nat
  BY Sizes, FS_Subset, FS_CardinalityType
<1> QED  BY <1>1, <1>2, Sizes DEF Full

LEMMA FullStep == Core /\ Core' /\ Full /\ [Next]_vars => Full'
<1> SUFFICES ASSUME Core, Core', Full, [Next]_vars PROVE Full'
  OBVIOUS
<1>0. /\ IsFiniteSet(Hosted') /\ IsFiniteSet(Inserting')
      /\ Cardinality(Hosted') \in Nat /\ Cardinality(Inserting') \in Nat
      /\ Cardinality(Inserting') <= Cardinality(Requests)
  <2>1. Hosted' \in SUBSET Domains /\ Inserting' \in SUBSET Requests
    BY DEF Hosted, Inserting
  <2>2. IsFiniteSet(Hosted') /\ IsFiniteSet(Inserting') /\ Cardinality(Inserting') <= Cardinality(Requests)
    BY <2>1, BoundsAssumption, FS_Subset
  <2> QED  BY <2>2, FS_CardinalityType
<1>t. row \in [Domains -> Row] /\ req \in [Requests -> Request]
  BY DEF Core, TypeOK
<1>1. CASE \E r \in Requests, d \in Domains, m \in BOOLEAN : StartEnable(r, d, m)
  <2>1. Hosted' = Hosted /\ Cardinality(Hosted) < Cap
    BY <1>1 DEF StartEnable, Admitted, Hosted, store
  <2> QED  BY <1>0, <2>1, Sizes DEF Full
<1>2. ASSUME NEW r \in Requests, Insert(r), row[Domain(r)] = NoRow
      PROVE  Full'
  <2>1. Domain(r) \in Domains /\ Domain(r) \notin Hosted /\ r \in Inserting /\ req[r].new \in 1..issued
        /\ issued \in Nat
    BY <1>2, Moves, Bounds DEF Hosted, Inserting, Insert, At, Enabling, Core, Shapes, Shape, TypeOK
  <2>2. Hosted' \subseteq Hosted \cup {Domain(r)}
    BY <1>t, <1>2 DEF Insert, Hosted
  <2>3. Inserting' \subseteq Inserting \ {r}
    <3>1. "accept" \in Places /\ Goto(r, "accept")
      BY <1>2 DEF Places, Insert
    <3>2. Others(r) /\ req'[r].at = "accept"
      BY <1>t, <3>1, Moves DEF Request
    <3> QED  BY <3>2 DEF Others, Inserting, Enabling
  <2>4. Cardinality(Hosted') <= Cardinality(Hosted) + 1
    <3>1. IsFiniteSet(Hosted \cup {Domain(r)}) /\ Cardinality(Hosted \cup {Domain(r)}) = Cardinality(Hosted) + 1
      BY <2>1, Sizes, FS_AddElement
    <3> QED  BY <2>2, <3>1, FS_Subset
  <2>5. Cardinality(Inserting') <= Cardinality(Inserting) - 1
    <3>1. IsFiniteSet(Inserting \ {r}) /\ Cardinality(Inserting \ {r}) = Cardinality(Inserting) - 1
      BY <2>1, Sizes, FS_RemoveElement
    <3> QED  BY <2>3, <3>1, FS_Subset
  <2> QED  BY <1>0, <2>4, <2>5, Sizes DEF Full
<1>3. ASSUME ~\E r \in Requests, d \in Domains, m \in BOOLEAN : StartEnable(r, d, m),
             ~\E r \in Requests : Insert(r) /\ row[Domain(r)] = NoRow
      PROVE  Hosted' \subseteq Hosted /\ Inserting' \subseteq Inserting
  <2>a. ASSUME NEW r \in Requests, Others(r), req'[r].at # "insert" \/ ~Enabling(r)'
        PROVE  Inserting' \subseteq Inserting
    BY <2>a DEF Inserting, Others, Enabling
  <2>l. ASSUME NEW r \in Requests, Leave(r)  PROVE Inserting' \subseteq Inserting
    BY <1>t, <2>l, <2>a, Moves DEF Leave, Idle
  <2>g. ASSUME NEW r \in Requests, NEW p \in Places \ {"insert"}, Goto(r, p)  PROVE Inserting' \subseteq Inserting
    <3>1. Others(r) /\ req'[r] = [req[r] EXCEPT !.at = p] /\ req[r] \in Request
      BY <1>t, <2>g, Moves
    <3>2. req'[r].at = p
      BY <3>1 DEF Request
    <3> QED  BY <2>a, <2>g, <3>1, <3>2
  <2>n. ASSUME NEW r \in Requests, NEW n, NEW p, Becomes(r, n, p), Others(r), p # "insert"
        PROVE  Inserting' \subseteq Inserting
    BY <2>a, <2>n DEF Becomes
  <2>r. row' = row => Hosted' \subseteq Hosted
    BY DEF Hosted
  <2>1. CASE \E r \in Requests, d \in Domains : StartRotate(r, d)
    <3>1. PICK r \in Requests, d \in Domains : StartRotate(r, d)
      BY <2>1
    <3>2. Others(r) /\ req'[r].at = "dmarc" /\ row' = row
      BY <1>t, <3>1 DEF StartRotate, Others, Idle, store
    <3> QED  BY <2>a, <2>r, <3>2
  <2>2. CASE \E r \in Requests, d \in Domains, op \in {"disable", "trim"} : StartRemoval(r, d, op)
    <3>1. PICK r \in Requests, d \in Domains, op \in {"disable", "trim"} : StartRemoval(r, d, op)
      BY <2>2
    <3>2. Others(r) /\ req'[r].at = "remove" /\ row' = row
      BY <1>t, <3>1 DEF StartRemoval, Others, Idle, store
    <3> QED  BY <2>a, <2>r, <3>2
  <2>3. ASSUME NEW r \in Requests, Enable(r)  PROVE Hosted' \subseteq Hosted /\ Inserting' \subseteq Inserting
    <3>1. CASE Insert(r)
      BY <1>3, <2>l, <2>r, <3>1 DEF Insert
    <3>2. CASE AcceptToken(r)
      BY <2>g, <2>r, <3>2 DEF AcceptToken, Places
    <3>3. CASE Write(r) \/ WriteUnacknowledged(r)
      <4>1. row' = row
        BY <3>3 DEF Write, WriteUnacknowledged, history
      <4> QED  BY <2>n, <2>r, <3>3, <4>1, WriteSteps
    <3>4. CASE Count(r)
      BY <2>g, <2>r, <3>4, CountGoes DEF Places
    <3>5. CASE InsertConfig(r)
      BY <2>g, <2>r, <3>5 DEF InsertConfig, Places
    <3>6. CASE Finish(r)
      BY <1>t, <2>l, <3>6 DEF Finish, Hosted
    <3>7. CASE EnableFails(r)
      BY <2>g, <2>r, <3>7 DEF EnableFails, Places, store
    <3>8. CASE Undo(r)
      <4>1. row' = row /\ (req[r].made = 0 => Goto(r, "undoConfig"))
        BY <3>8 DEF Undo
      <4> QED  BY <2>g, <2>n, <2>r, <3>8, <4>1, UndoSteps DEF Places
    <3>10. CASE UndoFails(r)
      <4>1. row' = row /\ Others(r) /\ req'[r].at = "undo"
        BY <1>t, <3>10 DEF UndoFails, Others, At, store, Request
      <4> QED  BY <2>a, <2>r, <4>1
    <3>11. CASE UncountFails(r)
      <4>1. row' = row /\ Goto(r, AfterUncount(r)) /\ AfterUncount(r) \in Places \ {"insert"}
        BY <3>11 DEF UncountFails, AfterUncount, Places, store
      <4> QED  BY <2>g, <2>r, <4>1
    <3>9. CASE DeleteRowFails(r)
      BY <2>l, <2>g, <2>r, <3>9 DEF DeleteRowFails, Proceed, AfterUndo, Places, store
    <3> QED  BY <2>3, <3>1, <3>2, <3>3, <3>4, <3>5, <3>6, <3>7, <3>8, <3>9, <3>10, <3>11 DEF Enable
  <2>4. CASE \E r \in Requests : Rotate(r)
    BY <2>l, <2>g, <2>r, <2>4 DEF Rotate, Retarget, AcceptRotated, Places
  <2>5. ASSUME NEW r \in Requests, Disable(r)  PROVE Hosted' \subseteq Hosted /\ Inserting' \subseteq Inserting
    <3>1. CASE Remove(r)
      BY <2>n, <2>r, <3>1, RemoveSteps
    <3>2. CASE ForgetConfig(r)
      BY <2>l, <2>r, <3>2 DEF ForgetConfig
    <3>3. CASE Removed(r)
      BY <1>t, <2>g, <3>3 DEF Removed, Places, Hosted
    <3> QED  BY <2>5, <3>1, <3>2, <3>3 DEF Disable
  <2>6. CASE \E r \in Requests : DeleteRow(r)
    <3>1. PICK r \in Requests : DeleteRow(r)
      BY <2>6
    <3>2. Hosted' \subseteq Hosted
      BY <1>t, <3>1 DEF DeleteRow, Hosted
    <3>3. AfterUndo(req[r].at) \in {"idle", "undoToken", "undoRow", "forgetToken", "forgetRow"} /\ Proceed(r)
      BY <3>1 DEF DeleteRow, AfterUndo
    <3> QED  BY <2>l, <2>g, <3>2, <3>3 DEF Proceed, Places
  <2>7. CASE \E r \in Requests : Abort(r)
    BY <2>l, <2>r, <2>7 DEF Abort, store
  <2>9. CASE \E r \in Requests : Uncount(r)
    <3>1. PICK r \in Requests : Uncount(r)
      BY <2>9
    <3>2. row' = row /\ Goto(r, AfterUncount(r)) /\ AfterUncount(r) \in Places \ {"insert"}
      BY <3>1 DEF Uncount, AfterUncount, Places
    <3> QED  BY <2>g, <2>r, <3>2
  <2>8. CASE (\E d \in Domains : GraceEnds(d)) \/ ListZone \/ Observe \/ UNCHANGED vars
    BY <2>8 DEF GraceEnds, ListZone, Observe, vars, store, Hosted, Inserting, Enabling
  <2> QED  BY <1>3, <2>1, <2>2, <2>3, <2>4, <2>5, <2>6, <2>7, <2>8, <2>9 DEF Next
<1> QED  BY <1>0, <1>1, <1>2, <1>3, NotFuller

\* service.ts:115: the cap can be passed by the enablings that run at the same time,
\* less one, and by no more, however often domains are enabled and disabled.
THEOREM CapKept == Spec => []CapBounded
<1>1. Init => Full
  <2> SUFFICES ASSUME Init PROVE Full
    OBVIOUS
  <2>1. Hosted = {} /\ Inserting = {}
    BY DEF Init, Hosted, Inserting, Idle, Enabling
  <2>2. Cardinality(Hosted) = 0 /\ Cardinality(Inserting) = 0
    BY <2>1, FS_EmptySet
  <2> QED  BY <2>2, Sizes DEF Full
<1>2. Full => CapBounded
  BY Sizes DEF Full, CapBounded
<1> QED  BY CoreHolds, <1>1, <1>2, FullStep, PTL DEF Spec

-----------------------------------------------------------------------------
(* One domain: who works on it, and what is left of it                     *)

\* The row an enabling inserts.
OwnRow(n) == [NoRow EXCEPT !.hid = n]

\* A domain in order: nothing of it leaked, and no requests crossed on it.
Orderly == Domains \ (leaked \cup crossed)

Waiting(r) == Enabling(r) /\ req[r].at = "insert"
Writing(r) == Enabling(r) /\ req[r].at \in {"write", "count", "config", "finish", "undo", "uncount"}

\* Requests on one domain at a time are enablings.
Alone(d) == \A r, s \in Busy(d) : r # s => Enabling(r) /\ Enabling(s)

\* What a request may rely on: an enabling owns the row, the others have read it.
Relies(r, d) ==
    /\ Enabling(r) /\ ~Waiting(r) => row[d] = OwnRow(req[r].new)
    /\ Enabling(r) /\ req[r].at \in {"write", "count", "config", "finish"} => token[d].cur = req[r].new
    /\ ~Enabling(r) => row[d] # NoRow
    /\ ~Enabling(r) /\ req[r].at \in {"dmarc", "tls", "accept", "remove", "uncount"} => req[r].row = row[d]

\* What a request has taken away.
Took(r, d) ==
    /\ ~Enabling(r) /\ req[r].at \in {"remove", "uncount"} =>
           \A x \in zone : x.domain = d /\ x.kind \in Made(r) => req[r].op = "trim" /\ x.kind \notin MtaKinds
    /\ req[r].at \in {"forgetConfig", "forgetToken", "forgetRow"} => \A x \in zone : x.domain # d
    /\ req[r].at \in {"undoToken", "undoRow", "forgetToken", "forgetRow"} => d \notin mtaSts
    /\ req[r].at \in {"undoRow", "forgetRow"} => token[d] = NoToken

\* Every record of the domain is in its row or known to the enabling that made it.
Known(d) ==
    \A x \in zone : x.domain = d =>
        /\ x.id # 0
        /\ \/ row[d].ids[x.kind] = x.id
           \/ \E r \in Busy(d) : Writing(r) /\ x.id = req[r].new /\ x.kind \in Made(r)

\* The row goes last.
RowLast(d) == token[d] # NoToken \/ d \in mtaSts => row[d] # NoRow

Sound(d) ==
    /\ Alone(d) /\ Known(d) /\ RowLast(d)
    /\ \A r \in Busy(d) : Relies(r, d) /\ Took(r, d)

\* A rotation has written its address into the record of kind k.
Moved(r, k) == req[r].op = "rotate" /\ (req[r].at = "accept" \/ (req[r].at = "tls" /\ k = "dmarc"))

\* The address in a record is the accepted one, or that of the rotation at work.
Addressed(d) ==
    \A x \in zone : x.domain = d /\ x.kind \in Carriers =>
        /\ x.token # 0
        /\ \/ \E r \in Busy(d) : Moved(r, x.kind) /\ x.token = req[r].new
           \/ x.token = token[d].cur /\ \A r \in Busy(d) : ~Moved(r, x.kind)

AllSound == \A d \in Orderly : Sound(d)
AllAddressed == \A d \in Orderly \ torn : Addressed(d)

LEMMA NoRowFacts ==
    /\ \A k \in Kinds : NoRow.ids[k] = 0
    /\ \A n \in Ids \ {0} : OwnRow(n) # NoRow
    /\ \A n \in Ids : \A k \in Kinds : OwnRow(n).ids[k] = 0
    /\ \A n, m \in Ids : OwnRow(n) = OwnRow(m) => n = m
BY DEF NoRow, OwnRow

\* An enabling past its insert works alone, but for others that wait for theirs;
\* any other request works alone.
LEMMA Actor ==
    ASSUME Core, NEW d \in Domains, Sound(d), NEW r \in Busy(d), ~Waiting(r)
    PROVE  /\ \A s \in Busy(d) \ {r} : Waiting(s) /\ Enabling(r)
           /\ Enabling(r) => \A k \in Kinds : row[d].ids[k] = 0
           /\ r \in Requests /\ Domain(r) = d /\ req[r].at # "idle" /\ req[r].op # "none"
<1>1. r \in Requests /\ Domain(r) = d /\ req[r].at # "idle" /\ req[r].op # "none" /\ req[r].new \in Ids
  BY Moves DEF Busy, Core, Shapes, Shape
<1>2. ASSUME NEW s \in Busy(d) \ {r}  PROVE Waiting(s) /\ Enabling(r)
  <2>1. Enabling(r) /\ Enabling(s)
    BY <1>2 DEF Sound, Alone
  <2>2. s \in Requests /\ req[s].new \in Ids
    BY Moves DEF Busy
  <2>3. CASE ~Waiting(s)
    <3>1. req[r].new = req[s].new
      BY <1>1, <2>1, <2>2, <2>3, NoRowFacts DEF Sound, Relies
    <3> QED  BY <1>1, <1>2, <2>1, <2>2, <3>1 DEF Core, Distinct
  <2> QED  BY <2>1, <2>3
<1>3. Enabling(r) => \A k \in Kinds : row[d].ids[k] = 0
  BY <1>1, NoRowFacts DEF Sound, Relies
<1> QED  BY <1>1, <1>2, <1>3

\* A waiting enabling relies on nothing.
LEMMA WaitingRelies ==
    ASSUME NEW r, NEW d, Waiting(r)
    PROVE  Relies(r, d) /\ Took(r, d) /\ ~Writing(r) /\ \A k : ~Moved(r, k)
BY DEF Waiting, Relies, Took, Writing, Moved, Enabling

\* Other domains are not concerned.
LEMMA Elsewhere ==
    ASSUME NEW r \in Requests, NEW d \in Domains, Others(r), r \notin Busy(d), r \notin Busy(d)',
           row'[d] = row[d], token'[d] = token[d], d \in mtaSts' <=> d \in mtaSts,
           \A x \in zone' : x.domain = d => x \in zone
    PROVE  /\ Sound(d) => Sound(d)'
           /\ Addressed(d) => Addressed(d)'
<1>1. Busy(d)' = Busy(d)
  BY DEF Busy, Others, Domain
<1>2. \A s \in Busy(d) : /\ req'[s] = req[s]
                         /\ Enabling(s)' <=> Enabling(s)
                         /\ Waiting(s)' <=> Waiting(s)
                         /\ Writing(s)' <=> Writing(s)
                         /\ Made(s)' = Made(s)
                         /\ \A k : Moved(s, k)' <=> Moved(s, k)
  BY DEF Busy, Others, Enabling, Waiting, Writing, Made, Moved
<1>3. ASSUME Sound(d)  PROVE Sound(d)'
  <2>1. Alone(d)' /\ RowLast(d)'
    BY <1>1, <1>2, <1>3 DEF Sound, Alone, RowLast
  <2>2. Known(d)'
    BY <1>1, <1>2, <1>3 DEF Sound, Known
  <2>3. ASSUME NEW s \in Busy(d)  PROVE Relies(s, d)' /\ Took(s, d)'
    <3>1. Relies(s, d) /\ Took(s, d)
      BY <1>3 DEF Sound
    <3> QED  BY <1>2, <3>1 DEF Relies, Took
  <2> QED  BY <1>1, <2>1, <2>2, <2>3 DEF Sound
<1>4. ASSUME Addressed(d)  PROVE Addressed(d)'
  BY <1>1, <1>2, <1>4 DEF Addressed
<1> QED  BY <1>3, <1>4

SameRequest(r) ==
    /\ req'[r].op = req[r].op /\ req'[r].domain = req[r].domain /\ req'[r].new = req[r].new
    /\ req'[r].row = req[r].row /\ req'[r].at \notin {"idle", "insert"}

\* A record is still known after a step of request r.
KnownAfter(r, d, x) ==
    /\ x.id # 0
    /\ \/ row'[d].ids[x.kind] = x.id
       \/ req'[r] # Idle /\ Writing(r)' /\ x.id = req[r].new /\ x.kind \in Made(r)'

\* A step of the one request that acts on a domain.
LEMMA ActorStep ==
    ASSUME Core, NEW d \in Domains, Sound(d), NEW r \in Busy(d), ~Waiting(r), Others(r),
           req'[r] = Idle \/ SameRequest(r),
           req'[r] # Idle => Relies(r, d)' /\ Took(r, d)',
           \A x \in zone' : x.domain = d => KnownAfter(r, d, x),
           RowLast(d)'
    PROVE  Sound(d)'
<1>1. /\ \A s \in Busy(d) \ {r} : Waiting(s) /\ Enabling(r)
      /\ r \in Requests /\ Domain(r) = d
  BY Actor
<1>2. \A s \in Busy(d) \ {r} : s \in Requests /\ req'[s] = req[s] /\ Waiting(s)'
  BY <1>1 DEF Busy, Others, Waiting, Enabling
<1>3. Busy(d)' \subseteq Busy(d) /\ (r \in Busy(d)' => req'[r] # Idle /\ SameRequest(r))
      /\ (req'[r] # Idle => r \in Busy(d)')
  <2>1. Idle.at = "idle"
    BY DEF Idle
  <2>2. ASSUME NEW s \in Requests, s # r  PROVE s \in Busy(d)' <=> s \in Busy(d)
    BY <2>2 DEF Busy, Domain, Others
  <2>3. r \in Busy(d)' <=> req'[r] # Idle
    BY <1>1, <2>1 DEF Busy, Domain, SameRequest
  <2>4. \A s \in Busy(d)' : s \in Requests
    BY DEF Busy
  <2> QED  BY <2>2, <2>3, <2>4
<1>4. Alone(d)'
  <2> SUFFICES ASSUME NEW s \in Busy(d)', NEW t \in Busy(d)', s # t
               PROVE  Enabling(s)' /\ Enabling(t)'
    BY DEF Alone
  <2>1. Enabling(s) /\ Enabling(t)
    BY <1>3 DEF Sound, Alone
  <2>2. \A u \in Busy(d)' : Enabling(u)' <=> Enabling(u)
    BY <1>2, <1>3 DEF Enabling, SameRequest
  <2> QED  BY <2>1, <2>2
<1>5. \A s \in Busy(d)' : Relies(s, d)' /\ Took(s, d)'
  <2>1. ASSUME NEW s \in Busy(d)' \ {r}  PROVE Relies(s, d)' /\ Took(s, d)'
    <3>1. Waiting(s)'
      BY <1>2, <1>3
    <3> QED  BY <3>1 DEF Waiting, Relies, Took, Enabling
  <2> QED  BY <1>3, <2>1
<1>6. Known(d)'
  BY <1>3 DEF Known, KnownAfter, SameRequest
<1> QED  BY <1>4, <1>5, <1>6 DEF Sound

\* Of an orderly domain, when no request has records in hand, all records are in the row.
LEMMA InRow ==
    ASSUME Core, NEW d \in Domains, Sound(d), NEW r \in Busy(d), ~Waiting(r), NEW x \in zone, x.domain = d
    PROVE  /\ x.id # 0 /\ x.id \in Ids /\ x.kind \in Kinds
           /\ ~Enabling(r) => row[d].ids[x.kind] = x.id
           /\ Enabling(r) => Writing(r) /\ x.id = req[r].new /\ x.kind \in Made(r)
<1>1. x.id \in Ids /\ x.kind \in Kinds
  BY DEF Core, TypeOK, Record
<1>2. x.id # 0 /\ (row[d].ids[x.kind] = x.id \/ \E s \in Busy(d) : Writing(s) /\ x.id = req[s].new /\ x.kind \in Made(s))
  BY DEF Sound, Known
<1>3. \A s \in Busy(d) : Writing(s) => s = r
  BY Actor DEF Waiting, Writing
<1>4. Enabling(r) => \A k \in Kinds : row[d].ids[k] = 0
  BY Actor
<1>5. Writing(r) => Enabling(r)
  BY DEF Writing
<1> QED  BY <1>1, <1>2, <1>3, <1>4, <1>5

-----------------------------------------------------------------------------
(* Soundness of a domain, action by action                                 *)

\* Requests that begin.
LEMMA StartSound ==
    ASSUME Core, NEW d \in Domains, Sound(d), NEW r \in Requests,
           Others(r), req[r].at = "idle", zone' = zone, UNCHANGED <<row, token, mtaSts>>,
           req'[r].domain = d, req'[r].at # "idle",
           \A s \in Busy(d) : req'[r].op = "enable" /\ Enabling(s),
           Relies(r, d)', Took(r, d)'
    PROVE  Sound(d)' /\ (Addressed(d) /\ (\A k : ~Moved(r, k)') => Addressed(d)')
<1>1. Busy(d)' = Busy(d) \cup {r} /\ r \notin Busy(d)
  BY DEF Busy, Others, Domain
<1>2. \A s \in Busy(d) : /\ s # r /\ req'[s] = req[s]
                         /\ Enabling(s)' <=> Enabling(s)
                         /\ Waiting(s)' <=> Waiting(s)
                         /\ Writing(s)' <=> Writing(s)
                         /\ Made(s)' = Made(s)
                         /\ \A k : Moved(s, k)' <=> Moved(s, k)
  BY <1>1 DEF Busy, Others, Enabling, Waiting, Writing, Made, Moved
<1>3. Alone(d)' /\ RowLast(d)' /\ Known(d)'
  <2>1. Alone(d)'
    <3> SUFFICES ASSUME NEW s \in Busy(d)', NEW t \in Busy(d)', s # t
                 PROVE  Enabling(s)' /\ Enabling(t)'
      BY DEF Alone
    <3>1. CASE s \in Busy(d) /\ t \in Busy(d)
      BY <1>2, <3>1 DEF Sound, Alone
    <3>2. CASE s = r \/ t = r
      BY <1>1, <1>2, <3>2 DEF Enabling
    <3> QED  BY <1>1, <3>1, <3>2
  <2>2. RowLast(d)'
    BY DEF Sound, RowLast
  <2>3. Known(d)'
    BY <1>1, <1>2 DEF Sound, Known
  <2> QED  BY <2>1, <2>2, <2>3
<1>4. ASSUME NEW s \in Busy(d)  PROVE Relies(s, d)' /\ Took(s, d)'
  <2>1. Relies(s, d) /\ Took(s, d)
    BY DEF Sound
  <2> QED  BY <1>2, <2>1 DEF Relies, Took
<1>5. Addressed(d) /\ (\A k : ~Moved(r, k)') => Addressed(d)'
  BY <1>1, <1>2 DEF Addressed
<1> QED  BY <1>1, <1>3, <1>4, <1>5 DEF Sound

\* What a request keeps when it goes to another place.
LEMMA GotoSame ==
    ASSUME Core, NEW r \in Requests, NEW p, Fits(r, p) \/ (Enabling(r) /\ p \in {"accept", "write"}), Goto(r, p)
    PROVE  /\ Others(r) /\ SameRequest(r) /\ req'[r].at = p /\ req'[r] # Idle
           /\ Made(r)' = Made(r) /\ (Enabling(r)' <=> Enabling(r))
<1>0. p \in Places /\ p \notin {"idle", "insert"} /\ req[r] \in Request
  <2>1. req[r] \in Request
    BY Moves
  <2>2. req[r].op \in Ops
    BY <2>1 DEF Request
  <2> QED  BY <2>1, <2>2 DEF Fits, Places, Ops, Enabling
<1>1. Others(r) /\ req'[r] = [req[r] EXCEPT !.at = p]
  BY <1>0, Moves
<1>2. req'[r].op = req[r].op /\ req'[r].at = p /\ req'[r].made = req[r].made /\ req'[r].new = req[r].new
      /\ req'[r].row = req[r].row /\ req'[r].domain = req[r].domain
  BY <1>0, <1>1 DEF Request
<1>3. req'[r] # Idle
  BY <1>0, <1>2 DEF Idle
<1> QED  BY <1>0, <1>1, <1>2, <1>3 DEF SameRequest, Made, Enabling

LEMMA LeaveSame ==
    ASSUME Core, NEW r \in Requests, Leave(r)
    PROVE  Others(r) /\ req'[r] = Idle /\ \A d : r \notin Busy(d)'
BY Moves DEF Leave, Busy, Idle

\* Requests that leave; an enabling only when nothing of it is left.
LEMMA LeaveSound ==
    ASSUME Core, NEW d \in Domains, Sound(d), NEW r \in Busy(d), ~Waiting(r), Leave(r),
           zone' \subseteq zone, row'[d] = row[d], RowLast(d)',
           Enabling(r) => \A x \in zone : x.domain # d
    PROVE  Sound(d)'
<1>1. r \in Requests
  BY DEF Busy
<1>2. \A x \in zone' : x.domain = d => KnownAfter(r, d, x)
  BY InRow DEF KnownAfter
<1> QED  BY <1>1, <1>2, LeaveSame, ActorStep

\* A waiting enabling that leaves was not in anybody's way.
LEMMA GiveUpSound ==
    ASSUME Core, NEW d \in Domains, Sound(d), NEW r \in Busy(d), Waiting(r), Leave(r),
           zone' = zone, UNCHANGED <<row, token, mtaSts>>
    PROVE  Sound(d)'
<1>1. r \in Requests /\ Others(r) /\ r \notin Busy(d)'
  BY LeaveSame DEF Busy
<1>2. Busy(d)' = Busy(d) \ {r}
  BY <1>1 DEF Busy, Others, Domain
<1>3. \A s \in Busy(d)' : /\ req'[s] = req[s]
                          /\ Enabling(s)' <=> Enabling(s)
                          /\ Writing(s)' <=> Writing(s)
                          /\ Waiting(s)' <=> Waiting(s)
                          /\ Made(s)' = Made(s)
  BY <1>1, <1>2 DEF Busy, Others, Enabling, Waiting, Writing, Made
<1>4. Alone(d)' /\ RowLast(d)'
  BY <1>2, <1>3 DEF Sound, Alone, RowLast
<1>5. Known(d)'
  <2>1. ~Writing(r)
    BY DEF Waiting, Writing
  <2> QED  BY <1>2, <1>3, <2>1 DEF Sound, Known
<1>6. ASSUME NEW s \in Busy(d)'  PROVE Relies(s, d)' /\ Took(s, d)'
  <2>1. Relies(s, d) /\ Took(s, d)
    BY <1>2 DEF Sound
  <2> QED  BY <1>3, <2>1 DEF Relies, Took
<1> QED  BY <1>4, <1>5, <1>6 DEF Sound

\* A request at work is busy on its domain.
LEMMA AtWork ==
    ASSUME Core, NEW r \in Requests, req[r].at # "idle", NEW d, d = Domain(r)
    PROVE  d \in Domains /\ r \in Busy(d)
BY Moves DEF Busy

LEMMA InsertSound ==
    ASSUME Core, NEW r \in Requests, Insert(r), NEW d, d = Domain(r), Sound(d)
    PROVE  Sound(d)'
<1>0. d \in Domains /\ r \in Busy(d) /\ Waiting(r) /\ Enabling(r)
  BY AtWork DEF Insert, At, Waiting, Enabling
<1>1. CASE row[d] # NoRow
  BY <1>0, <1>1, GiveUpSound DEF Insert, history
<1>2. CASE row[d] = NoRow
  <2>1. Goto(r, "accept") /\ row' = [row EXCEPT ![d] = OwnRow(req[r].new)]
        /\ zone' = zone /\ token' = token /\ mtaSts' = mtaSts
    BY <1>2 DEF Insert, OwnRow
  <2>2. Others(r) /\ SameRequest(r) /\ req'[r].at = "accept" /\ req'[r] # Idle /\ Enabling(r)'
    BY <1>0, <2>1, GotoSame
  <2>3. row'[d] = OwnRow(req[r].new) /\ row'[d] # NoRow /\ req[r].new \in Ids \ {0}
    <3>1. row'[d] = OwnRow(req[r].new)
      BY <1>0, <2>1 DEF Core, TypeOK
    <3>2. req[r].new \in Ids \ {0}
      BY <1>0, Moves, Bounds DEF Core, Shapes, Shape, Enabling, TypeOK
    <3> QED  BY <3>1, <3>2, NoRowFacts
  <2>4. \A s \in Busy(d) : Waiting(s)
    <3> SUFFICES ASSUME NEW s \in Busy(d), ~Waiting(s) PROVE FALSE
      OBVIOUS
    <3>1. Enabling(s)
      BY <1>0, <1>2 DEF Sound, Relies
    <3>2. req[s].new \in Ids \ {0}
      <4>1. s \in Requests
        BY DEF Busy
      <4> QED  BY <3>1, <4>1, Moves, Bounds DEF Core, Shapes, Shape, Enabling, TypeOK
    <3>3. row[d] = OwnRow(req[s].new)
      BY <3>1 DEF Sound, Relies
    <3> QED  BY <1>2, <3>2, <3>3, NoRowFacts
  <2>5. \A x \in zone : x.domain # d
    <3> SUFFICES ASSUME NEW x \in zone, x.domain = d PROVE FALSE
      OBVIOUS
    <3>1. x.id # 0 /\ row[d].ids[x.kind] = x.id /\ x.kind \in Kinds
      BY <2>4 DEF Sound, Known, Waiting, Writing, Core, TypeOK, Record
    <3> QED  BY <1>2, <3>1, NoRowFacts
  <2>6. Busy(d)' = Busy(d)
    BY <1>0, <2>2 DEF Busy, Others, Domain, SameRequest
  <2>7. \A s \in Busy(d) \ {r} : req'[s] = req[s] /\ Waiting(s)' /\ Enabling(s)'
    BY <2>2, <2>4 DEF Busy, Others, Waiting, Enabling
  <2>8. Alone(d)'
    BY <2>2, <2>6, <2>7 DEF Alone
  <2>9. Known(d)' /\ RowLast(d)'
    BY <2>1, <2>3, <2>5 DEF Known, RowLast
  <2>10. Relies(r, d)' /\ Took(r, d)'
    BY <2>2, <2>3 DEF Relies, Took, SameRequest
  <2>11. ASSUME NEW s \in Busy(d) \ {r}  PROVE Relies(s, d)' /\ Took(s, d)'
    BY <2>7 DEF Relies, Took, Waiting, Enabling
  <2> QED  BY <2>6, <2>8, <2>9, <2>10, <2>11 DEF Sound
<1> QED  BY <1>1, <1>2

LEMMA AcceptTokenSound ==
    ASSUME Core, NEW r \in Requests, AcceptToken(r), NEW d, d = Domain(r), Sound(d)
    PROVE  Sound(d)' /\ \A x \in zone' : x.domain # d
<1>0. d \in Domains /\ r \in Busy(d) /\ ~Waiting(r) /\ Enabling(r) /\ req[r].at = "accept"
  BY AtWork DEF AcceptToken, At, Waiting, Enabling
<1>1. Others(r) /\ SameRequest(r) /\ req'[r].at = "write" /\ req'[r] # Idle /\ Enabling(r)' /\ zone' = zone /\ row' = row
  BY <1>0, GotoSame DEF AcceptToken
<1>2. \A x \in zone : x.domain # d
  BY <1>0, InRow DEF Writing
<1>3. token'[d].cur = req[r].new
  BY <1>0 DEF AcceptToken, SetToken, Core, TypeOK
<1>4. row[d] = OwnRow(req[r].new) /\ row[d] # NoRow
  <2>1. req[r].new \in Ids \ {0}
    BY <1>0, Moves, Bounds DEF Core, Shapes, Shape, Enabling, TypeOK
  <2> QED  BY <1>0, <2>1, NoRowFacts DEF Sound, Relies
<1>5. Relies(r, d)' /\ Took(r, d)' /\ RowLast(d)'
  BY <1>1, <1>3, <1>4 DEF Relies, Took, RowLast, SameRequest
<1> QED  BY <1>0, <1>1, <1>2, <1>5, ActorStep

LEMMA WriteSound ==
    ASSUME Core, NEW r \in Requests, Write(r), NEW d, d = Domain(r), Sound(d)
    PROVE  Sound(d)'
<1>0. /\ d \in Domains /\ r \in Busy(d) /\ ~Waiting(r) /\ Enabling(r) /\ req[r].at = "write"
      /\ At(r, {"enable"}, "write")
  BY AtWork DEF Write, At, Waiting, Enabling
<1>1. /\ zone' = zone \cup {NewRecord(r)} /\ UNCHANGED <<row, token, mtaSts>>
      /\ Others(r) /\ Becomes(r, req[r].made + 1, "count")
  BY WriteSteps DEF Write
<1>2. SameRequest(r) /\ req'[r] # Idle /\ Enabling(r)' /\ Writing(r)'
  BY <1>0, <1>1 DEF SameRequest, Becomes, Idle, Enabling, Writing
<1>3. Made(r)' = Made(r) \cup {NewRecord(r).kind} /\ NewRecord(r).id = req[r].new
  <2>1. NewRecord(r).kind = All[req[r].made + 1] /\ req[r].made \in 0..5 /\ NewRecord(r).id = req[r].new
    BY <1>0, NewRecordFacts, Moves
  <2> QED  BY <1>1, <2>1 DEF Made, Becomes
<1>4. req[r].new \in Ids \ {0}
  BY <1>0, Moves, Bounds DEF Core, Shapes, Shape, Enabling, TypeOK
<1>5. \A x \in zone' : x.domain = d => KnownAfter(r, d, x)
  BY <1>0, <1>1, <1>2, <1>3, <1>4, InRow DEF KnownAfter
<1>6. Relies(r, d) /\ RowLast(d)
  BY <1>0 DEF Sound
<1>7. Relies(r, d)' /\ Took(r, d)' /\ RowLast(d)'
  BY <1>0, <1>1, <1>2, <1>6 DEF Relies, Took, RowLast, Waiting, Enabling, Becomes
<1> QED  BY <1>0, <1>1, <1>2, <1>5, <1>7, ActorStep

\* An enabling that goes on within what it has written.
LEMMA TryingSound ==
    ASSUME Core, NEW d \in Domains, Sound(d), NEW r \in Busy(d), Writing(r),
           Others(r), SameRequest(r), req'[r].at \in {"write", "config", "finish", "undo", "uncount"}, req'[r] # Idle,
           req'[r].at \in {"undo", "uncount"} \/ req[r].at \notin {"undo", "uncount"},
           \A x \in zone' : x \in zone /\ (x.domain = d /\ x.kind \in Made(r) => x.kind \in Made(r)'),
           row'[d] = row[d], token'[d] = token[d]
    PROVE  Sound(d)'
<1>0. r \in Requests /\ Enabling(r) /\ ~Waiting(r) /\ Enabling(r)' /\ Writing(r)'
  BY DEF Busy, Writing, Waiting, Enabling, SameRequest
<1>1. \A x \in zone' : x.domain = d => KnownAfter(r, d, x)
  BY <1>0, InRow DEF KnownAfter
<1>2. Relies(r, d)
  BY DEF Sound
<1>3. Relies(r, d)' /\ Took(r, d)'
  BY <1>0, <1>2 DEF Relies, Took, Waiting, SameRequest, Writing
<1>4. RowLast(d)'
  <2>1. req[r].new \in Ids \ {0}
    BY <1>0, Moves, Bounds DEF Core, Shapes, Shape, Enabling, TypeOK
  <2> QED  BY <1>0, <1>2, <2>1, NoRowFacts DEF RowLast, Relies
<1> QED  BY <1>0, <1>1, <1>3, <1>4, ActorStep

LEMMA TriedSound ==
    ASSUME Core, NEW r \in Requests, Count(r) \/ InsertConfig(r) \/ EnableFails(r), NEW d, d = Domain(r), Sound(d)
    PROVE  Sound(d)'
<1>0. d \in Domains /\ r \in Busy(d) /\ Writing(r) /\ Enabling(r) /\ req[r].at \notin {"undo", "uncount"}
  <2>1. req[r].op = "enable" /\ req[r].at \in {"write", "count", "config", "finish"}
    BY DEF Count, InsertConfig, EnableFails, At, Tried
  <2> QED  BY <2>1, AtWork DEF Writing, Enabling
<1>1. /\ zone' = zone /\ row' = row /\ token' = token
      /\ \E p \in {"write", "config", "undo", "finish"} : Goto(r, p) /\ Fits(r, p)
  <2>1. Fits(r, "undo") /\ Fits(r, "finish")
    BY <1>0 DEF Fits, Enabling
  <2>2. CASE Count(r)
    BY <2>2, CountGoes
  <2>3. CASE InsertConfig(r) \/ EnableFails(r)
    <3>1. Goto(r, "undo") \/ Goto(r, "finish")
      BY <2>3 DEF InsertConfig, EnableFails
    <3> QED  BY <2>1, <2>3, <3>1 DEF InsertConfig, EnableFails, history, store
  <2> QED  BY <2>2, <2>3
<1>2. /\ Others(r) /\ SameRequest(r) /\ req'[r].at \in {"write", "config", "undo", "finish"} /\ req'[r] # Idle
      /\ Made(r)' = Made(r)
  BY <1>1, GotoSame
<1> QED  BY <1>0, <1>1, <1>2, TryingSound

LEMMA FinishSound ==
    ASSUME Core, NEW r \in Requests, Finish(r), NEW d, d = Domain(r), Sound(d)
    PROVE  Sound(d)'
<1>0. d \in Domains /\ r \in Busy(d) /\ ~Waiting(r) /\ Enabling(r) /\ Shape(r) /\ Leave(r)
  BY AtWork DEF Finish, At, Waiting, Enabling, Core, Shapes
<1>1. req[r].new \in Ids \ {0} /\ row \in [Domains -> Row] /\ zone' = zone
  BY <1>0, Moves, Bounds DEF Core, Shape, Enabling, TypeOK, Finish
<1>2. row[d] # NoRow
  BY <1>0, <1>1, NoRowFacts DEF Sound, Relies
<1> DEFINE ids == [k \in Kinds |-> IF k \in MtaKinds /\ ~req[r].mta THEN 0 ELSE req[r].new]
<1>3. row'[d].ids = ids
  <2>1. row' = [row EXCEPT ![d] = [row[d] EXCEPT !.ids = ids]]
    BY <1>0, <1>2 DEF Finish
  <2>2. row[d] \in Row
    BY <1>0, <1>1
  <2> HIDE DEF ids
  <2>3. row'[d] = [row[d] EXCEPT !.ids = ids]
    BY <1>0, <1>1, <2>1
  <2> QED  BY <2>2, <2>3 DEF Row
<1>4. ASSUME NEW x \in zone, x.domain = d  PROVE KnownAfter(r, d, x)
  <2>1. x.id # 0 /\ x.kind \in Kinds /\ x.id = req[r].new /\ x.kind \in Made(r)
    BY <1>0, <1>4, InRow
  <2>2. x.kind \notin MtaKinds \/ req[r].mta
    <3> SUFFICES ASSUME ~req[r].mta PROVE x.kind \notin MtaKinds
      OBVIOUS
    <3>1. Len(Plan(r)) = 3
      BY PlanOf
    <3>2. req[r].made \in 0..5 /\ req[r].made <= 3
      BY <1>0, <3>1, Moves DEF Shape
    <3>3. PICK j \in 1..req[r].made : x.kind = All[j]
      BY <2>1 DEF Made
    <3>4. j \in 1..3
      BY <3>2
    <3> QED  BY <3>3, <3>4 DEF All, MtaKinds
  <2>3. row'[d].ids[x.kind] = req[r].new
    BY <1>3, <2>1, <2>2
  <2> QED  BY <2>1, <2>3 DEF KnownAfter
<1>5. RowLast(d)'
  <2>1. row'[d].ids["dmarc"] = req[r].new
    BY <1>3 DEF Kinds, MtaKinds
  <2>2. row'[d] # NoRow
    BY <1>1, <2>1, NoRowFacts DEF Kinds
  <2> QED  BY <2>2 DEF RowLast
<1> QED  BY <1>0, <1>1, <1>4, <1>5, LeaveSame, ActorStep

LEMMA UndoSound ==
    ASSUME Core, NEW r \in Requests, Undo(r), NEW d, d = Domain(r), Sound(d)
    PROVE  Sound(d)'
<1>0. /\ d \in Domains /\ r \in Busy(d) /\ Writing(r) /\ Enabling(r) /\ ~Waiting(r) /\ req[r].at = "undo"
      /\ req[r] \in Request /\ req \in [Requests -> Request] /\ req[r].made \in 0..5 /\ Shape(r)
  BY AtWork, Moves DEF Undo, At, Writing, Waiting, Enabling, Core, Shapes
<1>1. UNCHANGED <<row, token, mtaSts>>
  BY DEF Undo
<1>2. CASE req[r].made = 0
  <2>1. Goto(r, "undoConfig") /\ Fits(r, "undoConfig") /\ zone' = zone
    BY <1>0, <1>2 DEF Undo, Fits, Enabling
  <2>2. Others(r) /\ SameRequest(r) /\ req'[r].at = "undoConfig" /\ req'[r] # Idle /\ (Enabling(r)' <=> Enabling(r))
    BY <2>1, GotoSame
  <2>3. \A x \in zone : x.domain # d
    <3>1. Made(r) = {}
      BY <1>2 DEF Made
    <3> QED  BY <1>0, <3>1, InRow
  <2>4. Relies(r, d) /\ RowLast(d)
    BY <1>0 DEF Sound
  <2>5. Relies(r, d)' /\ Took(r, d)' /\ RowLast(d)'
    BY <1>0, <1>1, <2>2, <2>4 DEF Relies, Took, RowLast, SameRequest, Waiting
  <2> QED  BY <1>0, <2>1, <2>2, <2>3, <2>5, ActorStep
<1>3. CASE req[r].made # 0
  <2> DEFINE k == Plan(r)[req[r].made]
             n == req[r].made - 1
  <2>1. zone' = zone \ Found(req[r].new, k) /\ Becomes(r, n, "uncount") /\ Others(r)
    BY <1>3, UndoSteps
  <2>2. k = All[req[r].made] /\ n \in 0..5
    <3>1. req[r].made \in 1..Len(Plan(r))
      BY <1>0, <1>3, PlanOf DEF Shape
    <3> QED  BY <1>0, <1>3, <3>1, PlanOf
  <2>4. SameRequest(r) /\ req'[r].at = "uncount" /\ req'[r].made = n /\ req'[r] # Idle
    BY <2>1 DEF SameRequest, Becomes, Idle
  <2>5. Made(r) \subseteq Made(r)' \cup {k}
    <3>1. \A j \in 1..req[r].made : j \in 1..n \/ j = req[r].made
      BY <1>0
    <3> QED  BY <2>2, <2>4, <3>1 DEF Made
  <2> HIDE DEF k, n
  <2>6. ASSUME NEW x \in zone', x.domain = d, x.kind \in Made(r)  PROVE x.kind \in Made(r)'
    <3>1. x \in zone /\ x \notin Found(req[r].new, k)
      BY <2>1
    <3>2. x.id = req[r].new
      BY <1>0, <2>6, <3>1, InRow
    <3>3. x.kind # k
      BY <3>1, <3>2 DEF Found
    <3> QED  BY <2>5, <2>6, <3>3
  <2>7. zone' \subseteq zone
    BY <2>1
  <2> QED  BY <1>0, <1>1, <2>1, <2>4, <2>6, <2>7, TryingSound
<1> QED  BY <1>2, <1>3

\* The places where a request forgets a domain, and what is gone by then.
LEMMA ForgettingFacts ==
    ASSUME Core, NEW r \in Requests, req[r].at \in Forgetting, NEW d, d = Domain(r), Sound(d)
    PROVE  /\ d \in Domains /\ r \in Busy(d) /\ ~Waiting(r) /\ req[r] # Idle
           /\ \A x \in zone : x.domain # d
           /\ Relies(r, d) /\ Took(r, d) /\ RowLast(d)
<1>1. /\ req[r].at # "idle" /\ d \in Domains /\ r \in Busy(d) /\ ~Waiting(r) /\ ~Writing(r) /\ Shape(r)
  <2>1. req[r].at # "idle"
    BY DEF Forgetting
  <2> QED  BY <2>1, AtWork DEF Forgetting, Waiting, Writing, Core, Shapes
<1>2. Relies(r, d) /\ Took(r, d) /\ RowLast(d)
  BY <1>1 DEF Sound
<1>3. \A x \in zone : x.domain # d
  <2>1. CASE Enabling(r)
    BY <1>1, <2>1, InRow
  <2>2. CASE ~Enabling(r)
    <3>1. req[r].at \in {"forgetConfig", "forgetToken", "forgetRow"}
      <4>1. req[r].op \in Ops
        BY Moves DEF Request
      <4> QED  BY <1>1, <2>2, <4>1 DEF Shape, Forgetting, Enabling, Ops
    <3> QED  BY <1>2, <3>1 DEF Took
  <2> QED  BY <2>1, <2>2
<1> QED  BY <1>1, <1>2, <1>3 DEF Idle

LEMMA DeleteRowSound ==
    ASSUME Core, NEW r \in Requests, DeleteRow(r), NEW d, d = Domain(r), Sound(d)
    PROVE  Sound(d)'
<1>0. req[r].at \in Forgetting /\ Proceed(r) /\ issued' = issued /\ zone' = zone
  BY DEF DeleteRow, Forgetting, history
<1>1. /\ d \in Domains /\ r \in Busy(d) /\ ~Waiting(r)
      /\ \A x \in zone : x.domain # d
      /\ Relies(r, d) /\ Took(r, d) /\ RowLast(d)
  BY <1>0, ForgettingFacts
<1>2. Others(r) /\ IF req[r].at \in {"undoRow", "forgetRow"} THEN req'[r] = Idle
                   ELSE req'[r] = [req[r] EXCEPT !.at = AfterUndo(req[r].at)]
  BY <1>0, ProceedFacts
<1>3. req[r] \in Request /\ row \in [Domains -> Row] /\ token \in [Domains -> Token]
  BY Moves DEF Core, TypeOK
<1>4. CASE req[r].at \in {"undoRow", "forgetRow"}
  <2>1. row'[d] = NoRow /\ token'[d] = NoToken /\ d \notin mtaSts'
    BY <1>1, <1>3, <1>4 DEF DeleteRow, Took
  <2>2. RowLast(d)'
    BY <2>1 DEF RowLast
  <2> QED  BY <1>0, <1>1, <1>2, <1>4, <2>2, ActorStep
<1>5. CASE req[r].at \in {"undoConfig", "undoToken", "forgetConfig", "forgetToken"}
  <2>1. /\ SameRequest(r) /\ (Enabling(r)' <=> Enabling(r))
        /\ req'[r].at = AfterUndo(req[r].at)
    <3>1. req'[r] = [req[r] EXCEPT !.at = AfterUndo(req[r].at)] /\ AfterUndo(req[r].at) \notin {"idle", "insert"}
      BY <1>2, <1>5 DEF AfterUndo
    <3> QED  BY <1>3, <3>1 DEF SameRequest, Request, Enabling
  <2>2. req'[r].at \in {"undoToken", "undoRow", "forgetToken", "forgetRow"}
    BY <1>5, <2>1 DEF AfterUndo
  <2>3. /\ row' = row
        /\ req[r].at \in {"undoConfig", "forgetConfig"} => token' = token /\ mtaSts' = mtaSts \ {d}
        /\ req[r].at \in {"undoToken", "forgetToken"} => token'[d] = NoToken /\ mtaSts' = mtaSts
    BY <1>1, <1>3, <1>5 DEF DeleteRow
  <2>4. req[r].at \in {"undoConfig", "forgetConfig"} <=> req'[r].at \in {"undoToken", "forgetToken"}
    BY <1>5, <2>1 DEF AfterUndo
  <2>5. Took(r, d)'
    BY <1>0, <1>1, <1>5, <2>2, <2>3, <2>4 DEF Took
  <2>6. RowLast(d)'
    BY <1>1, <1>5, <2>3 DEF RowLast
  <2>7. Relies(r, d)'
    BY <1>1, <2>1, <2>2, <2>3 DEF Relies, SameRequest, Waiting
  <2> QED  BY <1>0, <1>1, <1>2, <2>1, <2>5, <2>6, <2>7, ActorStep
<1> QED  BY <1>0, <1>4, <1>5 DEF Forgetting

LEMMA DeleteRowFailsSound ==
    ASSUME Core, NEW r \in Requests, DeleteRowFails(r), NEW d, d = Domain(r), Sound(d), d \notin leaked'
    PROVE  Sound(d)'
<1>0. req[r].at = "undoRow" /\ req[r].at \in Forgetting /\ Proceed(r) /\ zone' = zone /\ UNCHANGED <<row, token, mtaSts>>
  BY DEF DeleteRowFails, Forgetting, store
<1>1. d \in Domains /\ r \in Busy(d) /\ ~Waiting(r) /\ RowLast(d) /\ \A x \in zone : x.domain # d
  BY <1>0, ForgettingFacts
<1>2. Leave(r)
  BY <1>0 DEF Proceed, AfterUndo
<1>3. RowLast(d)'
  BY <1>0, <1>1 DEF RowLast
<1> QED  BY <1>0, <1>1, <1>2, <1>3, LeaveSound

\* A rotation works alone, and its records are those of the row.
LEMMA RotateFacts ==
    ASSUME Core, NEW r \in Requests, req[r].op = "rotate", NEW d, d = Domain(r), Sound(d)
    PROVE  /\ d \in Domains /\ Busy(d) = {r} /\ ~Waiting(r) /\ ~Enabling(r)
           /\ req[r].row = row[d] /\ row[d] # NoRow
           /\ \A x \in zone : x.domain = d => x.id # 0 /\ row[d].ids[x.kind] = x.id
<1>1. req[r].at \in {"dmarc", "tls", "accept"} /\ ~Enabling(r) /\ ~Waiting(r)
  BY DEF Core, Shapes, Shape, Enabling, Waiting
<1>2. d \in Domains /\ r \in Busy(d)
  BY <1>1, AtWork
<1> QED  BY <1>1, <1>2, Actor, InRow DEF Sound, Relies

LEMMA RetargetSound ==
    ASSUME Core, NEW r \in Requests, NEW k \in Carriers, NEW next \in {"tls", "accept"}, Retarget(r, k, next),
           NEW d, d = Domain(r), Sound(d)
    PROVE  Sound(d)'
<1>0. req[r].op = "rotate" /\ Goto(r, next) /\ UNCHANGED <<row, token, mtaSts>>
  BY DEF Retarget, At
<1>1. /\ d \in Domains /\ r \in Busy(d) /\ ~Waiting(r) /\ ~Enabling(r)
      /\ req[r].row = row[d] /\ row[d] # NoRow
      /\ \A x \in zone : x.domain = d => x.id # 0 /\ row[d].ids[x.kind] = x.id
  BY <1>0, RotateFacts
<1>2. Others(r) /\ SameRequest(r) /\ req'[r].at = next /\ req'[r] # Idle /\ ~Enabling(r)'
  <2>1. Fits(r, next)
    BY <1>0 DEF Fits, Enabling
  <2> QED  BY <1>0, <1>1, <2>1, GotoSame
<1>3. \A x \in zone' : x.domain = d => KnownAfter(r, d, x)
  <2>1. PICK x \in zone, y \in Record : /\ y.id = x.id /\ y.kind = x.kind /\ y.domain = x.domain
                                       /\ zone' = (zone \ {x}) \cup {y}
    BY Retargeted
  <2>2. ASSUME NEW z \in zone', z.domain = d  PROVE z.id # 0 /\ row'[d].ids[z.kind] = z.id
    <3>1. z \in zone \/ z = y
      BY <2>1
    <3> QED  BY <1>0, <1>1, <2>1, <2>2, <3>1
  <2> QED  BY <2>2 DEF KnownAfter
<1>4. Relies(r, d)' /\ Took(r, d)' /\ RowLast(d)'
  BY <1>0, <1>1, <1>2 DEF Relies, Took, RowLast, SameRequest
<1> QED  BY <1>1, <1>2, <1>3, <1>4, ActorStep

LEMMA AcceptRotatedSound ==
    ASSUME Core, NEW r \in Requests, AcceptRotated(r), NEW d, d = Domain(r), Sound(d)
    PROVE  Sound(d)'
<1>0. req[r].op = "rotate" /\ Leave(r) /\ row' = row /\ zone' = zone
  BY DEF AcceptRotated, At
<1>1. d \in Domains /\ r \in Busy(d) /\ ~Waiting(r) /\ ~Enabling(r) /\ row[d] # NoRow
  BY <1>0, RotateFacts
<1>2. RowLast(d)'
  BY <1>0, <1>1 DEF RowLast
<1> QED  BY <1>0, <1>1, <1>2, LeaveSound

\* A disabling or a removal of MTA-STS works alone, and its records are those of the row.
LEMMA RemoverFacts ==
    ASSUME Core, NEW r \in Requests, req[r].op \in {"disable", "trim"}, req[r].at \in {"remove", "uncount"},
           NEW d, d = Domain(r), Sound(d)
    PROVE  /\ d \in Domains /\ r \in Busy(d) /\ ~Waiting(r) /\ ~Enabling(r) /\ req[r] \in Request
           /\ req[r].row = row[d] /\ row[d] # NoRow
           /\ \A x \in zone : x.domain = d => x.id # 0 /\ x.kind \in Kinds /\ row[d].ids[x.kind] = x.id
           /\ \A x \in zone : x.domain = d /\ x.kind \in Made(r) => req[r].op = "trim" /\ x.kind \notin MtaKinds
<1>1. req[r].at # "idle" /\ ~Enabling(r) /\ ~Waiting(r) /\ req[r] \in Request
  BY Moves DEF Enabling, Waiting
<1>2. d \in Domains /\ r \in Busy(d)
  BY <1>1, AtWork
<1>3. Relies(r, d) /\ Took(r, d)
  BY <1>2 DEF Sound
<1> QED  BY <1>1, <1>2, <1>3, InRow DEF Relies, Took

\* A removal is counted, or its count fails.
LEMMA UncountSound ==
    ASSUME Core, NEW r \in Requests, Uncount(r) \/ UncountFails(r), NEW d, d = Domain(r), Sound(d)
    PROVE  Sound(d)'
<1>0. /\ req[r].at = "uncount" /\ zone' = zone /\ UNCHANGED <<row, token, mtaSts>>
      /\ Enabling(r) => AfterUncount(r) = "undo"
      /\ ~Enabling(r) => req[r].op \in {"disable", "trim"} /\ AfterUncount(r) = "remove"
  BY UncountGoes
<1>1. d \in Domains /\ r \in Busy(d) /\ ~Waiting(r)
  BY <1>0, AtWork DEF Waiting
<1>2. /\ Others(r) /\ SameRequest(r) /\ req'[r].at = AfterUncount(r) /\ req'[r] # Idle
      /\ Made(r)' = Made(r) /\ (Enabling(r)' <=> Enabling(r))
  BY UncountGoes, GotoSame
<1>3. CASE Enabling(r)
  <2>1. Writing(r)
    BY <1>0, <1>3 DEF Writing
  <2> QED  BY <1>0, <1>1, <1>2, <1>3, <2>1, TryingSound
<1>4. CASE ~Enabling(r)
  <2>1. /\ req[r].row = row[d] /\ row[d] # NoRow
        /\ \A x \in zone : x.domain = d => x.id # 0 /\ row[d].ids[x.kind] = x.id
        /\ \A x \in zone : x.domain = d /\ x.kind \in Made(r) => req[r].op = "trim" /\ x.kind \notin MtaKinds
    BY <1>0, <1>4, RemoverFacts
  <2>2. \A x \in zone' : x.domain = d => KnownAfter(r, d, x)
    BY <1>0, <2>1 DEF KnownAfter
  <2>3. Relies(r, d)' /\ Took(r, d)' /\ RowLast(d)'
    BY <1>0, <1>2, <1>4, <2>1 DEF Relies, Took, RowLast, SameRequest
  <2> QED  BY <1>0, <1>1, <1>2, <2>2, <2>3, ActorStep
<1> QED  BY <1>3, <1>4

LEMMA RemoveSound ==
    ASSUME Core, NEW r \in Requests, Remove(r), NEW d, d = Domain(r), Sound(d)
    PROVE  Sound(d)'
<1>0. /\ req[r].op \in {"disable", "trim"} /\ req[r].at = "remove" /\ UNCHANGED <<row, token, mtaSts>>
      /\ zone' = zone \ Found(req[r].row.ids[Target(r)], Target(r))
      /\ Others(r) /\ \E p \in {"remove", "uncount"} : Becomes(r, req[r].made + 1, p)
  BY RemoveSteps
<1>1. /\ d \in Domains /\ r \in Busy(d) /\ ~Waiting(r) /\ ~Enabling(r) /\ req[r] \in Request
      /\ req[r].row = row[d] /\ row[d] # NoRow
      /\ \A x \in zone : x.domain = d => x.id # 0 /\ x.kind \in Kinds /\ row[d].ids[x.kind] = x.id
      /\ \A x \in zone : x.domain = d /\ x.kind \in Made(r) => req[r].op = "trim" /\ x.kind \notin MtaKinds
  BY <1>0, RemoverFacts
<1>2. /\ Others(r) /\ SameRequest(r) /\ req'[r].at \in {"remove", "uncount"} /\ req'[r] # Idle /\ ~Enabling(r)'
      /\ req'[r].made = req[r].made + 1
  BY <1>0, <1>1 DEF SameRequest, Becomes, Enabling, Idle
<1>3. \A x \in zone' : x.domain = d => KnownAfter(r, d, x)
  BY <1>0, <1>1 DEF KnownAfter
<1>4. Made(r)' = Made(r) \cup {Target(r)}
  <2>1. req[r].made \in 0..5
    BY Moves
  <2> QED  BY <1>2, <2>1 DEF Made, Target
<1>5. ASSUME NEW x \in zone', x.domain = d, x.kind \in Made(r)'
      PROVE  req'[r].op = "trim" /\ x.kind \notin MtaKinds
  <2>1. x \in zone /\ x.kind # Target(r)
    BY <1>0, <1>1, <1>5 DEF Found
  <2> QED  BY <1>1, <1>2, <1>4, <1>5, <2>1 DEF SameRequest
<1>6. Took(r, d)'
  BY <1>2, <1>5 DEF Took
<1>7. Relies(r, d)' /\ RowLast(d)'
  BY <1>0, <1>1, <1>2 DEF Relies, RowLast, SameRequest
<1> QED  BY <1>1, <1>2, <1>3, <1>6, <1>7, ActorStep

\* A row that is there has an id.
Named == \A d \in Domains : row[d] # NoRow => row[d].hid # 0

LEMMA RemovedSound ==
    ASSUME Core, Named, NEW r \in Requests, Removed(r), NEW d, d = Domain(r), Sound(d)
    PROVE  Sound(d)'
<1>0. req[r].op \in {"disable", "trim"} /\ req[r].at = "remove" /\ req[r].made = 5 /\ zone' = zone /\ UNCHANGED <<token, mtaSts>>
  BY PlanFacts DEF Removed, At
<1>1. /\ d \in Domains /\ r \in Busy(d) /\ ~Waiting(r) /\ ~Enabling(r) /\ req[r] \in Request
      /\ req[r].row = row[d] /\ row[d] # NoRow
      /\ \A x \in zone : x.domain = d => x.id # 0 /\ x.kind \in Kinds /\ row[d].ids[x.kind] = x.id
      /\ \A x \in zone : x.domain = d /\ x.kind \in Made(r) => req[r].op = "trim" /\ x.kind \notin MtaKinds
  BY <1>0, RemoverFacts
<1>2. \A k \in Kinds : k \in Made(r)
  BY <1>0, PlanFacts DEF Made
<1>3. CASE req[r].op = "disable"
  <2>1. Goto(r, "forgetConfig") /\ Fits(r, "forgetConfig") /\ row' = row
    BY <1>3 DEF Removed, Fits, Enabling
  <2>2. Others(r) /\ SameRequest(r) /\ req'[r].at = "forgetConfig" /\ req'[r] # Idle /\ ~Enabling(r)'
    BY <1>1, <2>1, GotoSame
  <2>3. \A x \in zone : x.domain # d
    BY <1>1, <1>2, <1>3
  <2>4. Relies(r, d)' /\ Took(r, d)' /\ RowLast(d)'
    BY <1>0, <1>1, <2>1, <2>2, <2>3 DEF Relies, Took, RowLast
  <2> QED  BY <1>0, <1>1, <2>2, <2>3, <2>4, ActorStep
<1>4. CASE req[r].op # "disable"
  <2> DEFINE old == row[d].ids
             ids == [k \in Kinds |-> IF k \in MtaKinds THEN 0 ELSE old[k]]
  <2>1. Goto(r, "forget") /\ Fits(r, "forget") /\ row' = [row EXCEPT ![d] = [row[d] EXCEPT !.ids = ids]]
    BY <1>0, <1>1, <1>4 DEF Removed, Fits, Enabling, At
  <2>2. Others(r) /\ SameRequest(r) /\ req'[r].at = "forget" /\ req'[r] # Idle /\ ~Enabling(r)'
    BY <1>1, <2>1, GotoSame
  <2>3. row'[d].ids = ids /\ row'[d].hid = row[d].hid
    <3>1. row[d] \in Row /\ row'[d] = [row[d] EXCEPT !.ids = ids]
      BY <1>1, <2>1 DEF Core, TypeOK
    <3> HIDE DEF ids
    <3> QED  BY <3>1 DEF Row
  <2>4. row'[d] # NoRow
    BY <1>1, <2>3 DEF Named, NoRow
  <2>5. ASSUME NEW x \in zone', x.domain = d  PROVE KnownAfter(r, d, x)
    <3>1. x.kind \in Kinds /\ x.kind \notin MtaKinds /\ x.id # 0 /\ row[d].ids[x.kind] = x.id
      BY <1>0, <1>1, <1>2, <2>5
    <3>2. row'[d].ids[x.kind] = row[d].ids[x.kind]
      BY <2>3, <3>1
    <3> QED  BY <3>1, <3>2 DEF KnownAfter
  <2>6. Relies(r, d)' /\ Took(r, d)' /\ RowLast(d)'
    BY <1>0, <1>1, <2>2, <2>4 DEF Relies, Took, RowLast
  <2> QED  BY <1>1, <2>2, <2>5, <2>6, ActorStep
<1> QED  BY <1>3, <1>4

LEMMA EndsSound ==
    ASSUME Core, NEW r \in Requests, ForgetConfig(r), NEW d, d = Domain(r), Sound(d)
    PROVE  Sound(d)'
<1>0. /\ req[r].op \in {"disable", "trim"} /\ req[r].at # "idle" /\ Leave(r)
      /\ zone' \subseteq zone /\ row' = row /\ token' = token /\ mtaSts' \subseteq mtaSts
  BY DEF ForgetConfig, At
<1>1. d \in Domains /\ r \in Busy(d) /\ ~Waiting(r) /\ ~Enabling(r)
  BY <1>0, AtWork DEF Waiting, Enabling
<1>2. RowLast(d)'
  BY <1>0 DEF Sound, RowLast
<1> QED  BY <1>0, <1>1, <1>2, LeaveSound

LEMMA AbortSound ==
    ASSUME Core, NEW r \in Requests, Abort(r), NEW d, d = Domain(r), Sound(d), d \notin leaked'
    PROVE  Sound(d)'
<1>0. req[r].at # "idle" /\ Leave(r) /\ zone' = zone /\ UNCHANGED <<row, token, mtaSts>>
      /\ (Enabling(r) => req[r].made = 0)
  BY DEF Abort, store, Enabling
<1>1. d \in Domains /\ r \in Busy(d)
  BY <1>0, AtWork
<1>2. CASE Waiting(r)
  BY <1>0, <1>1, <1>2, GiveUpSound
<1>3. CASE ~Waiting(r)
  <2>1. Enabling(r) => \A x \in zone : x.domain # d
    <3>1. Enabling(r) => Made(r) = {}
      BY <1>0 DEF Made
    <3> QED  BY <1>1, <1>3, <3>1, InRow
  <2>2. RowLast(d)'
    BY <1>0 DEF Sound, RowLast
  <2> QED  BY <1>0, <1>1, <1>3, <2>1, <2>2, LeaveSound
<1> QED  BY <1>2, <1>3

\* Steps that no request takes: the end of a grace, and the daily count.
LEMMA AsideSound ==
    ASSUME NEW d \in Domains, UNCHANGED <<zone, row, mtaSts, req>>,
           token'[d].cur = token[d].cur, token[d] = NoToken => token'[d] = NoToken
    PROVE  (Sound(d) => Sound(d)') /\ (Addressed(d) => Addressed(d)')
<1>1. Busy(d)' = Busy(d)
  BY DEF Busy, Domain
<1>2. Sound(d) => Sound(d)'
  BY <1>1 DEF Sound, Alone, Known, RowLast, Relies, Took, Waiting, Writing, Enabling, Made
<1>3. Addressed(d) => Addressed(d)'
  BY <1>1 DEF Addressed, Moved
<1> QED  BY <1>2, <1>3

LEMMA GraceKeeps ==
    ASSUME Core, NEW e \in Domains, GraceEnds(e), NEW d \in Domains
    PROVE  token'[d].cur = token[d].cur /\ (token[d] = NoToken => token'[d] = NoToken)
           /\ UNCHANGED <<zone, row, mtaSts, req>>
<1>1. token \in [Domains -> Token] /\ token' = [token EXCEPT ![e] = [token[e] EXCEPT !.prev = 0]] /\ token[e].prev # 0
  BY DEF GraceEnds, Core, TypeOK
<1>2. token[d] = NoToken => d # e
  BY <1>1 DEF NoToken
<1>3. [token[e] EXCEPT !.prev = 0].cur = token[e].cur
  BY <1>1 DEF Token
<1> QED  BY <1>1, <1>2, <1>3 DEF GraceEnds

\* Requests that begin on a domain in order find nobody in their way.
LEMMA Uncrossed ==
    ASSUME NEW d \in Domains, NEW op, Cross(op, d), d \notin crossed'
    PROVE  \A s \in Busy(d) : op = "enable" /\ Enabling(s)
<1> SUFFICES ASSUME NEW s \in Busy(d) PROVE op = "enable" /\ Enabling(s)
  OBVIOUS
<1>1. {op, req[s].op} = {"enable"}
  BY DEF Cross
<1> QED  BY <1>1 DEF Enabling

LEMMA StartsSound ==
    ASSUME Core, NEW r \in Requests, NEW d \in Domains, Sound(d), d \notin crossed',
           \/ \E m \in BOOLEAN : StartEnable(r, d, m)
           \/ StartRotate(r, d)
           \/ \E op \in {"disable", "trim"} : StartRemoval(r, d, op)
    PROVE  Sound(d)' /\ (Addressed(d) => Addressed(d)')
<1>0. req \in [Requests -> Request] /\ row \in [Domains -> Row]
  BY DEF Core, TypeOK
<1>1. CASE \E m \in BOOLEAN : StartEnable(r, d, m)
  <2>1. PICK m \in BOOLEAN : StartEnable(r, d, m)
    BY <1>1
  <2>2. /\ req[r].at = "idle" /\ Others(r) /\ zone' = zone /\ UNCHANGED <<row, token, mtaSts>>
        /\ req'[r].domain = d /\ req'[r].at = "insert" /\ req'[r].op = "enable"
    BY <1>0, <2>1 DEF StartEnable, Others, store
  <2>3. \A s \in Busy(d) : req'[r].op = "enable" /\ Enabling(s)
    BY <2>1, <2>2, Uncrossed DEF StartEnable
  <2>4. Waiting(r)'
    BY <2>2 DEF Waiting, Enabling
  <2>5. Relies(r, d)' /\ Took(r, d)' /\ \A k : ~Moved(r, k)'
    BY <2>2, <2>4 DEF Relies, Took, Moved, Enabling
  <2> QED  BY <2>2, <2>3, <2>5, StartSound
<1>2. CASE StartRotate(r, d)
  <2>1. /\ req[r].at = "idle" /\ Others(r) /\ zone' = zone /\ UNCHANGED <<row, token, mtaSts>>
        /\ req'[r].domain = d /\ req'[r].at = "dmarc" /\ req'[r].op = "rotate" /\ req'[r].row = row[d]
    BY <1>0, <1>2 DEF StartRotate, Others, store, Idle
  <2>2. \A s \in Busy(d) : req'[r].op = "enable" /\ Enabling(s)
    BY <1>2, Uncrossed DEF StartRotate
  <2>3. row[d] # NoRow
    BY <1>2, NoRowFacts DEF StartRotate, Kinds
  <2>4. Relies(r, d)' /\ Took(r, d)' /\ \A k : ~Moved(r, k)'
    BY <2>1, <2>3 DEF Relies, Took, Moved, Enabling
  <2> QED  BY <2>1, <2>2, <2>4, StartSound
<1>3. CASE \E op \in {"disable", "trim"} : StartRemoval(r, d, op)
  <2>1. PICK op \in {"disable", "trim"} : StartRemoval(r, d, op)
    BY <1>3
  <2>2. /\ req[r].at = "idle" /\ Others(r) /\ zone' = zone /\ UNCHANGED <<row, token, mtaSts>>
        /\ req'[r].domain = d /\ req'[r].at = "remove" /\ req'[r].op = op /\ req'[r].row = row[d] /\ row[d] # NoRow
        /\ req'[r].made = IF op = "trim" THEN 3 ELSE 0
    BY <1>0, <2>1, PlanFacts DEF StartRemoval, Others, store, Idle
  <2>3. \A s \in Busy(d) : req'[r].op = "enable" /\ Enabling(s)
    BY <2>1, Uncrossed DEF StartRemoval
  <2>4. ASSUME NEW k \in Made(r)'  PROVE op = "trim" /\ k \notin MtaKinds
    <3>1. PICK j \in 1..req'[r].made : k = All[j]
      BY DEF Made
    <3>2. op = "trim" /\ j \in {1, 2, 3}
      BY <2>2, <3>1
    <3> QED  BY <3>1, <3>2 DEF All, MtaKinds
  <2>5. Took(r, d)'
    BY <2>2, <2>4 DEF Took
  <2>6. Relies(r, d)' /\ \A k : ~Moved(r, k)'
    BY <2>2 DEF Relies, Moved, Enabling
  <2> QED  BY <2>2, <2>3, <2>5, <2>6, StartSound
<1> QED  BY <1>1, <1>2, <1>3

LEMMA StartElsewhere ==
    ASSUME Core, NEW r \in Requests, NEW e \in Domains, NEW d \in Domains, d # e,
           \/ \E m \in BOOLEAN : StartEnable(r, e, m)
           \/ StartRotate(r, e)
           \/ \E op \in {"disable", "trim"} : StartRemoval(r, e, op)
    PROVE  (Sound(d) => Sound(d)') /\ (Addressed(d) => Addressed(d)')
<1>0. req \in [Requests -> Request]
  BY DEF Core, TypeOK
<1>1. Others(r) /\ req[r].at = "idle" /\ req'[r].domain = e /\ UNCHANGED <<zone, row, token, mtaSts>>
  <2>1. CASE \E m \in BOOLEAN : StartEnable(r, e, m)
    BY <1>0, <2>1 DEF StartEnable, Others, store
  <2>2. CASE StartRotate(r, e)
    BY <1>0, <2>2 DEF StartRotate, Others, store, Idle
  <2>3. CASE \E op \in {"disable", "trim"} : StartRemoval(r, e, op)
    BY <1>0, <2>3 DEF StartRemoval, Others, store, Idle
  <2> QED  BY <2>1, <2>2, <2>3
<1>2. r \notin Busy(d) /\ r \notin Busy(d)'
  BY <1>1 DEF Busy, Domain
<1> QED  BY <1>1, <1>2, Elsewhere

\* A step of a request that is at work.
Works(r) == Enable(r) \/ Rotate(r) \/ Disable(r) \/ Uncount(r) \/ DeleteRow(r) \/ Abort(r)

LEMMA WorkFacts ==
    ASSUME Core, NEW r \in Requests, Works(r)
    PROVE  /\ req[r].at # "idle" /\ Others(r)
           /\ req'[r] = Idle \/ (/\ req'[r].domain = req[r].domain /\ req'[r].op = req[r].op
                                 /\ req'[r].new = req[r].new /\ req'[r].row = req[r].row)
<1>0. req \in [Requests -> Request] /\ req[r] \in Request
  BY Moves
<1>1. CASE \E p \in Places : Goto(r, p) /\ req[r].at # "idle"
  <2>1. Others(r) /\ \E p \in Places : req'[r] = [req[r] EXCEPT !.at = p]
    BY <1>1, Moves
  <2> QED  BY <1>0, <1>1, <2>1 DEF Request
<1>2. CASE Leave(r) /\ req[r].at # "idle"
  BY <1>2, LeaveSame
<1>3. CASE (\E n, p : req' = [req EXCEPT ![r].made = n, ![r].at = p]) /\ req[r].at # "idle"
  BY <1>0, <1>3 DEF Others, Request
<1>4. CASE (\E n : req' = [req EXCEPT ![r].made = n]) /\ req[r].at # "idle"
  BY <1>0, <1>4 DEF Others, Request
<1>5. CASE req[r].at \in Forgetting /\ Proceed(r)
  <2>1. \/ Leave(r)
        \/ \E p \in Places : Goto(r, p)
    BY <1>5 DEF Proceed, AfterUndo, Forgetting, Places
  <2> QED  BY <1>1, <1>2, <1>5, <2>1 DEF Forgetting
<1>6. CASE Insert(r) \/ AcceptToken(r) \/ InsertConfig(r) \/ EnableFails(r) \/ Rotate(r) \/ WriteUnacknowledged(r)
  BY <1>1, <1>2, <1>6 DEF Insert, AcceptToken, InsertConfig, EnableFails, Tried, At, Places, Rotate, Retarget, AcceptRotated,
     WriteUnacknowledged
<1>7. CASE Write(r)
  BY <1>3, <1>7 DEF Write, At
<1>8. CASE Finish(r) \/ ForgetConfig(r) \/ Abort(r) \/ Removed(r)
  BY <1>1, <1>2, <1>8 DEF Finish, ForgetConfig, Abort, Removed, At, Places
<1>9. CASE Undo(r) \/ UndoFails(r) \/ Remove(r)
  BY <1>1, <1>3, <1>4, <1>9 DEF Undo, UndoFails, Remove, At, Places
<1>11. CASE Count(r) \/ Uncount(r) \/ UncountFails(r)
  <2>1. \E p \in Places : Goto(r, p)
    BY <1>11 DEF Count, Uncount, UncountFails, AfterCount, AfterUncount, Places
  <2> QED  BY <1>1, <1>11, <2>1 DEF Count, Uncount, UncountFails, At
<1>10. CASE DeleteRow(r) \/ DeleteRowFails(r)
  BY <1>5, <1>10 DEF DeleteRow, DeleteRowFails, Forgetting
<1> QED  BY <1>6, <1>7, <1>8, <1>9, <1>10, <1>11 DEF Works, Enable, Disable

\* What a step leaves alone: the rows of other domains.
LEMMA RowsElsewhere ==
    ASSUME Core, NEW r \in Requests, Works(r), NEW e \in Domains, e # Domain(r)
    PROVE  row'[e] = row[e] /\ token'[e] = token[e] /\ (e \in mtaSts' <=> e \in mtaSts)
<1>0. row \in [Domains -> Row] /\ token \in [Domains -> Token] /\ Domain(r) \in Domains
  BY Moves DEF Core, TypeOK
<1>1. CASE Enable(r)
  BY <1>0, <1>1 DEF Enable, Insert, AcceptToken, Write, Count, WriteUnacknowledged, InsertConfig, Finish,
     EnableFails, Undo, UndoFails, UncountFails, DeleteRowFails, SetToken, history, store
<1>2. CASE Rotate(r) \/ Disable(r)
  BY <1>0, <1>2 DEF Rotate, Retarget, AcceptRotated, SetToken, Disable, Remove, Removed, ForgetConfig, history
<1>3. CASE Uncount(r) \/ DeleteRow(r) \/ Abort(r)
  BY <1>0, <1>3 DEF Uncount, DeleteRow, Abort, store
<1> QED  BY <1>1, <1>2, <1>3 DEF Works

\* ... and their records: an id in use is one domain's.
LEMMA ZoneElsewhere ==
    ASSUME Core, NEW r \in Requests, Works(r), NEW e \in Domains, e # Domain(r), Sound(e)
    PROVE  \A x \in zone' : x.domain = e => x \in zone
<1>1. CASE Write(r) \/ WriteUnacknowledged(r)
  BY <1>1, WriteSteps, NewRecordFacts
<1>2. CASE \E k \in Carriers, next \in {"tls", "accept"} : Retarget(r, k, next)
  <2>1. PICK k \in Carriers, next \in {"tls", "accept"} : Retarget(r, k, next)
    BY <1>2
  <2>2. PICK x \in zone, y \in Record :
            /\ x.id = req[r].row.ids[k] /\ y.domain = x.domain
            /\ zone' = (zone \ {x}) \cup {y}
    BY <2>1, Retargeted
  <2>3. x.domain # e
    <3> SUFFICES ASSUME x.domain = e PROVE FALSE
      OBVIOUS
    <3>1. x.id \in Ids \ {0} /\ k \in Kinds /\ Domain(r) \in Domains
      BY Moves DEF Sound, Known, Core, TypeOK, Record, Carriers, Kinds
    <3>2. InUse(x.id, e) /\ InUse(x.id, Domain(r))
      BY <2>2, <3>1 DEF InUse, InRequest
    <3> QED  BY <3>1, <3>2 DEF Core, OneDomain
  <2> QED  BY <2>2, <2>3
<1>3. CASE zone' \subseteq zone
  BY <1>3
<1>4. Enable(r) => zone' \subseteq zone \/ Write(r) \/ WriteUnacknowledged(r)
  BY DEF Enable, Insert, AcceptToken, Count, InsertConfig, Finish, EnableFails, Undo, UndoFails, UncountFails, DeleteRowFails, store
<1>5. Rotate(r) => zone' \subseteq zone \/ \E k \in Carriers, next \in {"tls", "accept"} : Retarget(r, k, next)
  BY DEF Rotate, AcceptRotated, Carriers
<1>6. Disable(r) \/ Uncount(r) \/ DeleteRow(r) \/ Abort(r) => zone' \subseteq zone
  BY DEF Disable, Remove, Removed, ForgetConfig, Uncount, DeleteRow, Abort, store
<1> QED  BY <1>1, <1>2, <1>3, <1>4, <1>5, <1>6 DEF Works

LEMMA Apart ==
    ASSUME Core, NEW r \in Requests, Works(r), NEW e \in Domains, e # Domain(r), Sound(e)
    PROVE  Sound(e)' /\ (Addressed(e) => Addressed(e)')
<1>1. r \notin Busy(e) /\ r \notin Busy(e)'
  <2>1. req'[r] = Idle \/ req'[r].domain = req[r].domain
    BY WorkFacts
  <2>2. r \notin Busy(e)
    BY DEF Busy
  <2> QED  BY <2>1, <2>2 DEF Busy, Domain, Idle
<1> QED  BY <1>1, WorkFacts, RowsElsewhere, ZoneElsewhere, Elsewhere

\* Where a request that works on a domain leaves it sound.
LEMMA WorksSound ==
    ASSUME Core, Named, NEW r \in Requests, Works(r), NEW d, d = Domain(r), Sound(d), d \notin leaked'
    PROVE  Sound(d)'
<1>1. CASE Enable(r)
  <2>1. ~WriteUnacknowledged(r) /\ ~UndoFails(r)
    BY DEF WriteUnacknowledged, UndoFails
  <2> QED  BY <1>1, <2>1, InsertSound, AcceptTokenSound, WriteSound, TriedSound, FinishSound, UndoSound,
              UncountSound, DeleteRowFailsSound DEF Enable
<1>2. CASE Rotate(r)
  BY <1>2, RetargetSound, AcceptRotatedSound DEF Rotate, Carriers
<1>3. CASE Disable(r)
  BY <1>3, RemoveSound, RemovedSound, EndsSound DEF Disable
<1>4. CASE Uncount(r) \/ DeleteRow(r)
  BY <1>4, UncountSound, DeleteRowSound
<1>5. CASE Abort(r)
  BY <1>5, AbortSound
<1> QED  BY <1>1, <1>2, <1>3, <1>4, <1>5 DEF Works

LEMMA NamedStep == Core /\ Named /\ [Next]_vars => Named'
<1> SUFFICES ASSUME Core, Named, [Next]_vars PROVE Named'
  OBVIOUS
<1>0. row \in [Domains -> Row]
  BY DEF Core, TypeOK
<1>1. CASE row' = row
  BY <1>1 DEF Named
<1>2. ASSUME NEW r \in Requests, Insert(r)  PROVE Named'
  <2>1. req[r].new \in Nat /\ req[r].new # 0
    BY <1>2, Moves, Bounds DEF Insert, At, Core, Shapes, Shape, TypeOK, Enabling
  <2> QED  BY <1>0, <1>2, <2>1 DEF Insert, Named, NoRow
<1>3. ASSUME NEW r \in Requests, Finish(r)  PROVE Named'
  <2> DEFINE ids == [k \in Kinds |-> IF k \in MtaKinds /\ ~req[r].mta THEN 0 ELSE req[r].new]
  <2>1. row' = row \/ (row[Domain(r)] # NoRow /\ row' = [row EXCEPT ![Domain(r)] = [row[Domain(r)] EXCEPT !.ids = ids]])
    BY <1>0, <1>3 DEF Finish
  <2> HIDE DEF ids
  <2> QED  BY <1>0, <1>1, <2>1 DEF Named, Row
<1>4. ASSUME NEW r \in Requests, Removed(r)  PROVE Named'
  <2> DEFINE ids == [k \in Kinds |-> IF k \in MtaKinds THEN 0 ELSE row[Domain(r)].ids[k]]
  <2>1. row' = row \/ (row[Domain(r)] # NoRow /\ row' = [row EXCEPT ![Domain(r)] = [row[Domain(r)] EXCEPT !.ids = ids]])
    BY <1>0, <1>4, Moves DEF Removed
  <2> HIDE DEF ids
  <2> QED  BY <1>0, <1>1, <2>1 DEF Named, Row
<1>5. ASSUME NEW r \in Requests, DeleteRow(r)  PROVE Named'
  BY <1>0, <1>5 DEF DeleteRow, Named
<1>6. ASSUME NEW r \in Requests, Enable(r)  PROVE Insert(r) \/ Finish(r) \/ row' = row
  BY <1>6 DEF Enable, AcceptToken, Write, Count, WriteUnacknowledged, InsertConfig, EnableFails, Undo, UndoFails,
     UncountFails, DeleteRowFails, history, store
<1>7. ASSUME NEW r \in Requests, Rotate(r) \/ Disable(r) \/ Uncount(r) \/ Abort(r)  PROVE Removed(r) \/ row' = row
  BY <1>7 DEF Rotate, Retarget, AcceptRotated, Disable, Remove, ForgetConfig, Uncount, Abort, history, store
<1>8. \/ \E r \in Requests : Enable(r) \/ Rotate(r) \/ Disable(r) \/ Uncount(r) \/ DeleteRow(r) \/ Abort(r)
      \/ row' = row
  BY DEF Next, vars, StartEnable, StartRotate, StartRemoval, GraceEnds, ListZone, Observe, store
<1> QED  BY <1>1, <1>2, <1>3, <1>4, <1>5, <1>6, <1>7, <1>8

\* What leaks or crosses stays so.
LEMMA Marked ==
    ASSUME [Next]_vars
    PROVE  leaked \subseteq leaked' /\ crossed \subseteq crossed' /\ torn \subseteq torn'
<1>1. ASSUME NEW r \in Requests, Enable(r) \/ Rotate(r) \/ Disable(r) \/ Uncount(r) \/ DeleteRow(r) \/ Abort(r)
      PROVE  leaked \subseteq leaked' /\ crossed \subseteq crossed' /\ torn \subseteq torn'
  <2>1. CASE Enable(r)
    BY <2>1 DEF Enable, Insert, AcceptToken, Write, Count, WriteUnacknowledged, InsertConfig, Finish,
       EnableFails, Undo, UndoFails, UncountFails, DeleteRowFails, history
  <2>2. CASE Rotate(r) \/ Disable(r)
    BY <2>2 DEF Rotate, Retarget, AcceptRotated, Disable, Remove, Removed, ForgetConfig, history
  <2>3. CASE Uncount(r) \/ DeleteRow(r) \/ Abort(r)
    BY <2>3 DEF Uncount, DeleteRow, Abort, history
  <2> QED  BY <1>1, <2>1, <2>2, <2>3
<1>2. ASSUME NEW r \in Requests, NEW d \in Domains,
             \/ \E m \in BOOLEAN : StartEnable(r, d, m)
             \/ StartRotate(r, d)
             \/ \E op \in {"disable", "trim"} : StartRemoval(r, d, op)
      PROVE  leaked \subseteq leaked' /\ crossed \subseteq crossed' /\ torn \subseteq torn'
  BY <1>2 DEF StartEnable, StartRotate, StartRemoval, Cross
<1>3. CASE (\E d \in Domains : GraceEnds(d)) \/ ListZone \/ Observe \/ UNCHANGED vars
  BY <1>3 DEF GraceEnds, ListZone, Observe, vars, history
<1> QED  BY <1>1, <1>2, <1>3 DEF Next

\* A step leaves a domain that is still in order sound.
LEMMA SoundStep ==
    ASSUME Core, Named, [Next]_vars, NEW d \in Domains, Sound(d), d \notin leaked' \cup crossed'
    PROVE  Sound(d)'
<1>1. ASSUME NEW r \in Requests, NEW e \in Domains,
             \/ \E m \in BOOLEAN : StartEnable(r, e, m)
             \/ StartRotate(r, e)
             \/ \E op \in {"disable", "trim"} : StartRemoval(r, e, op)
      PROVE  Sound(d)'
  <2>1. CASE d = e
    BY <1>1, <2>1, StartsSound
  <2>2. CASE d # e
    BY <1>1, <2>2, StartElsewhere
  <2> QED  BY <2>1, <2>2
<1>2. ASSUME NEW r \in Requests, Enable(r) \/ Rotate(r) \/ Disable(r) \/ Uncount(r) \/ DeleteRow(r) \/ Abort(r)
      PROVE  Sound(d)'
  <2>1. Works(r)
    BY <1>2 DEF Works
  <2>2. CASE d = Domain(r)
    BY <2>1, <2>2, WorksSound
  <2>3. CASE d # Domain(r)
    BY <2>1, <2>3, Apart
  <2> QED  BY <2>2, <2>3
<1>3. ASSUME NEW e \in Domains, GraceEnds(e)  PROVE Sound(d)'
  BY <1>3, GraceKeeps, AsideSound
<1>4. CASE ListZone \/ Observe \/ UNCHANGED vars
  <2>1. UNCHANGED <<zone, row, mtaSts, req, token>>
    BY <1>4 DEF ListZone, Observe, vars, store
  <2> QED  BY <2>1, AsideSound
<1> QED  BY <1>1, <1>2, <1>3, <1>4 DEF Next

LEMMA SoundInit == Init => Named /\ AllSound /\ AllAddressed
<1> SUFFICES ASSUME Init PROVE Named /\ AllSound /\ AllAddressed
  OBVIOUS
<1>1. Named
  BY DEF Init, Named
<1>2. \A d \in Domains : Busy(d) = {}
  BY DEF Init, Busy, Idle
<1>3. ASSUME NEW d \in Domains  PROVE Sound(d) /\ Addressed(d)
  BY <1>2 DEF Init, Sound, Alone, Known, RowLast, Addressed
<1> QED  BY <1>1, <1>3 DEF AllSound, AllAddressed, Orderly

LEMMA AllSoundStep == Core /\ Named /\ AllSound /\ [Next]_vars => AllSound'
<1> SUFFICES ASSUME Core, Named, AllSound, [Next]_vars, NEW d \in Orderly'
             PROVE  Sound(d)'
  BY DEF AllSound
<1>1. d \in Domains /\ d \notin leaked' \cup crossed' /\ d \in Orderly
  BY Marked DEF Orderly
<1> QED  BY <1>1, SoundStep DEF AllSound

\* service.ts:185, "All or nothing": a domain without a row that no request works on
\* has no record in the zone, no accepted address and no MTA-STS row, unless a step of the
\* cleanup failed or requests crossed.
THEOREM AllOrNothing == Spec => []NothingLeftBehind
<1>1. AllSound /\ Core => NothingLeftBehind
  <2> SUFFICES ASSUME AllSound, Core, NEW d \in Domains \ (leaked \cup crossed), row[d] = NoRow, Busy(d) = {}
               PROVE  (\A x \in zone : x.domain # d) /\ token[d] = NoToken /\ d \notin mtaSts
    BY DEF NothingLeftBehind
  <2>1. Sound(d)
    BY DEF AllSound, Orderly
  <2>2. ASSUME NEW x \in zone, x.domain = d  PROVE FALSE
    <3>1. x.id # 0 /\ row[d].ids[x.kind] = x.id /\ x.kind \in Kinds
      BY <2>1, <2>2 DEF Sound, Known, Core, TypeOK, Record
    <3> QED  BY <3>1, NoRowFacts
  <2> QED  BY <2>1, <2>2 DEF Sound, RowLast
<1>2. Init => Core /\ Named /\ AllSound
  BY CoreInit, SoundInit
<1>3. Core /\ Named /\ AllSound /\ [Next]_vars => Core' /\ Named' /\ AllSound'
  BY CoreStep, NamedStep, AllSoundStep
<1> QED  BY <1>1, <1>2, <1>3, PTL DEF Spec

-----------------------------------------------------------------------------
(* The published address                                                   *)

\* A step that writes no address, of a request that has moved none.
LEMMA AddressesKept ==
    ASSUME NEW d, Addressed(d), NEW r \in Requests, Others(r), zone' \subseteq zone, token'[d].cur = token[d].cur,
           \A k \in Carriers : ~Moved(r, k) /\ ~Moved(r, k)'
    PROVE  Addressed(d)'
<1>1. \A s \in Requests \ {r} : (s \in Busy(d)' <=> s \in Busy(d)) /\ \A k : Moved(s, k)' <=> Moved(s, k)
  BY DEF Others, Busy, Domain, Moved
<1>2. Busy(d) \subseteq Requests /\ Busy(d)' \subseteq Requests
  BY DEF Busy
<1>3. ASSUME NEW x \in zone', x.domain = d, x.kind \in Carriers
      PROVE  /\ x.token # 0
             /\ \/ \E s \in Busy(d)' : Moved(s, x.kind)' /\ x.token = req'[s].new
                \/ x.token = token'[d].cur /\ \A s \in Busy(d)' : ~Moved(s, x.kind)'
  <2>1. x \in zone /\ x.token # 0
    BY <1>3 DEF Addressed
  <2>2. CASE \E s \in Busy(d) : Moved(s, x.kind) /\ x.token = req[s].new
    <3>1. PICK s \in Busy(d) : Moved(s, x.kind) /\ x.token = req[s].new
      BY <2>2
    <3>2. s \in Requests \ {r} /\ req'[s] = req[s]
      BY <1>2, <1>3, <3>1 DEF Others
    <3> QED  BY <1>1, <2>1, <3>1, <3>2
  <2>3. CASE x.token = token[d].cur /\ \A s \in Busy(d) : ~Moved(s, x.kind)
    <3>1. \A s \in Busy(d)' : ~Moved(s, x.kind)'
      BY <1>1, <1>2, <1>3, <2>3
    <3> QED  BY <2>1, <2>3, <3>1
  <2> QED  BY <1>3, <2>1, <2>2, <2>3 DEF Addressed
<1> QED  BY <1>3 DEF Addressed

LEMMA WriteAddressed ==
    ASSUME Core, NEW r \in Requests, Write(r), NEW d, d = Domain(r), Sound(d), Addressed(d)
    PROVE  Addressed(d)'
<1>0. /\ d \in Domains /\ r \in Busy(d) /\ Enabling(r) /\ ~Waiting(r) /\ req[r].at = "write"
      /\ At(r, {"enable"}, "write") /\ Shape(r)
  BY AtWork DEF Write, At, Waiting, Enabling, Core, Shapes
<1>1. /\ zone' = zone \cup {NewRecord(r)} /\ token' = token /\ Others(r)
      /\ req'[r] = Idle \/ req'[r].domain = req[r].domain
  BY WriteSteps DEF Write, Becomes
<1>2. req'[r].op = "enable"
  BY <1>0, WriteSteps DEF Becomes, Enabling
<1>3. \A s \in Busy(d)' : \A k : ~Moved(s, k)'
  <2> SUFFICES ASSUME NEW s \in Busy(d)', s # r  PROVE req'[s].op # "rotate"
    BY <1>2 DEF Moved
  <2>1. s \in Requests /\ req'[s] = req[s] /\ s \in Busy(d)
    BY <1>1 DEF Busy, Domain, Others
  <2> QED  BY <1>0, <2>1, Actor DEF Waiting, Enabling
<1>4. \A s \in Busy(d) : \A k : ~Moved(s, k)
  <2> SUFFICES ASSUME NEW s \in Busy(d)  PROVE req[s].op # "rotate"
    BY DEF Moved
  <2> QED  BY <1>0, Actor DEF Waiting, Enabling
<1>5. token[d].cur = req[r].new /\ req[r].new # 0
  <2>1. req[r].new \in 1..issued /\ issued \in Nat
    BY <1>0, Bounds DEF Shape, Enabling, Core, TypeOK
  <2> QED  BY <1>0, <2>1 DEF Sound, Relies
<1>6. ASSUME NEW x \in zone', x.domain = d, x.kind \in Carriers
      PROVE  x.token # 0 /\ x.token = token'[d].cur
  <2>1. CASE x \in zone
    BY <1>1, <1>4, <1>6, <2>1 DEF Addressed
  <2>2. CASE x = NewRecord(r)
    BY <1>0, <1>1, <1>5, <1>6, <2>2, NewRecordFacts
  <2> QED  BY <1>1, <2>1, <2>2
<1> QED  BY <1>3, <1>6 DEF Addressed

\* The rotation writes its address into one record, then the other.
LEMMA RetargetAddressed ==
    ASSUME Core, NEW r \in Requests, Retarget(r, "dmarc", "tls") \/ Retarget(r, "tls", "accept"),
           NEW d, d = Domain(r), Sound(d), Addressed(d)
    PROVE  Addressed(d)'
<1>1. PICK k \in Carriers, next \in {"tls", "accept"} :
          /\ Retarget(r, k, next)
          /\ (k = "dmarc" /\ next = "tls") \/ (k = "tls" /\ next = "accept")
  BY DEF Carriers
<1>2. /\ req[r].op = "rotate" /\ req[r].at = k /\ Goto(r, next) /\ token' = token /\ Shape(r)
  BY <1>1 DEF Retarget, At, Core, Shapes
<1>3. /\ d \in Domains /\ Busy(d) = {r} /\ req[r].row = row[d] /\ ~Enabling(r)
      /\ \A x \in zone : x.domain = d => x.id # 0 /\ row[d].ids[x.kind] = x.id
  BY <1>2, RotateFacts
<1>4. Others(r) /\ SameRequest(r) /\ req'[r].at = next
  <2>1. Fits(r, next)
    BY <1>1, <1>2 DEF Fits, Enabling
  <2> QED  BY <1>2, <1>3, <2>1, GotoSame
<1>5. Busy(d)' = {r}
  BY <1>3, <1>4 DEF Busy, Domain, Others, SameRequest
<1>7. PICK x \in zone, y \in Record :
          /\ Found(req[r].row.ids[k], k) = {x}
          /\ x.id = req[r].row.ids[k] /\ x.kind = k
          /\ y.id = x.id /\ y.kind = x.kind /\ y.domain = x.domain /\ y.token = req[r].new
          /\ zone' = (zone \ {x}) \cup {y}
  BY <1>1, Retargeted
<1>8. ASSUME NEW z \in zone', z.domain = d, z.kind \in Carriers
      PROVE  /\ z.token # 0
             /\ \/ Moved(r, z.kind)' /\ z.token = req'[r].new
                \/ z.token = token'[d].cur /\ ~Moved(r, z.kind)'
  <2>1. req'[r].new = req[r].new /\ req[r].new # 0 /\ req'[r].op = "rotate"
    <3>1. req[r].new \in 1..issued /\ issued \in Nat
      BY <1>2, Bounds DEF Shape, Core, TypeOK
    <3> QED  BY <1>2, <1>4, <3>1 DEF SameRequest
  <2>2. CASE z = y
    BY <1>1, <1>4, <1>7, <2>1, <2>2 DEF Moved
  <2>3. CASE z \in zone /\ z # x
    <3>1. z.kind # k
      BY <1>3, <1>7, <1>8, <2>3 DEF Found
    <3>2. z.token # 0 /\ ((z.token = req[r].new /\ Moved(r, z.kind)) \/ (z.token = token[d].cur /\ ~Moved(r, z.kind)))
      BY <1>3, <1>8, <2>3 DEF Addressed
    <3>3. Moved(r, z.kind)' <=> Moved(r, z.kind)
      BY <1>1, <1>2, <1>4, <1>8, <2>1, <3>1 DEF Moved, Carriers
    <3> QED  BY <1>2, <2>1, <3>2, <3>3
  <2> QED  BY <1>7, <2>2, <2>3
<1> QED  BY <1>5, <1>8 DEF Addressed

\* The address both records name is the one that is accepted then.
LEMMA AcceptRotatedAddressed ==
    ASSUME Core, NEW r \in Requests, AcceptRotated(r), NEW d, d = Domain(r), Sound(d), Addressed(d)
    PROVE  Addressed(d)'
<1>1. req[r].op = "rotate" /\ req[r].at = "accept" /\ Leave(r) /\ zone' = zone /\ SetToken(d, req[r].new)
  BY DEF AcceptRotated, At
<1>2. d \in Domains /\ Busy(d) = {r}
  BY <1>1, RotateFacts
<1>3. token'[d].cur = req[r].new
  BY <1>1, <1>2 DEF SetToken, Core, TypeOK
<1>4. Busy(d)' = {}
  BY <1>1, <1>2, LeaveSame DEF Busy, Domain, Others
<1>5. \A k \in Carriers : Moved(r, k)
  BY <1>1 DEF Moved
<1>6. \A x \in zone : x.domain = d /\ x.kind \in Carriers => x.token # 0 /\ x.token = req[r].new
  BY <1>2, <1>5 DEF Addressed
<1> QED  BY <1>1, <1>3, <1>4, <1>6 DEF Addressed

LEMMA WorksAddressed ==
    ASSUME Core, NEW r \in Requests, Works(r), NEW d, d = Domain(r), Sound(d), Addressed(d),
           d \notin leaked' \cup torn'
    PROVE  Addressed(d)'
<1>0. /\ req[r].at # "idle" /\ Others(r) /\ (req'[r] = Idle \/ req'[r].domain = req[r].domain)
      /\ d \in Domains /\ r \in Busy(d) /\ Shape(r) /\ req[r] \in Request /\ req \in [Requests -> Request]
      /\ token \in [Domains -> Token]
  BY WorkFacts, AtWork, Moves DEF Core, Shapes, TypeOK
<1>1. ASSUME req[r].op # "rotate" \/ req[r].at = "dmarc", req'[r] = Idle \/ (req'[r].op = req[r].op /\ req[r].op # "rotate"),
             zone' \subseteq zone, token'[d].cur = token[d].cur
      PROVE  Addressed(d)'
  <2>1. \A k \in Carriers : ~Moved(r, k) /\ ~Moved(r, k)'
    BY <1>1 DEF Moved, Idle
  <2> QED  BY <1>0, <1>1, <2>1, AddressesKept
<1>2. ASSUME \A x \in zone' : x.domain # d  PROVE Addressed(d)'
  BY <1>2 DEF Addressed
<1>3. ASSUME req[r].op # "rotate", \E p : Goto(r, p)  PROVE req'[r] = Idle \/ (req'[r].op = req[r].op /\ req[r].op # "rotate")
  BY <1>0, <1>3 DEF Goto, Request
<1>4. ASSUME Leave(r)  PROVE req'[r] = Idle
  BY <1>4, LeaveSame
<1>5. CASE Write(r)
  BY <1>5, WriteAddressed
<1>6. CASE AcceptToken(r)
  BY <1>2, <1>6, AcceptTokenSound
<1>7. CASE Insert(r) \/ InsertConfig(r) \/ Finish(r) \/ EnableFails(r)
  <2>1. /\ zone' = zone /\ token' = token /\ req[r].op = "enable" /\ (Leave(r) \/ \E p : Goto(r, p))
    BY <1>7 DEF Insert, InsertConfig, Finish, EnableFails, At, store
  <2> QED  BY <1>1, <1>3, <1>4, <2>1
<1>8. CASE Undo(r) \/ Remove(r) \/ Count(r) \/ Uncount(r) \/ UncountFails(r)
  <2>1. /\ zone' \subseteq zone /\ token' = token /\ req[r].op # "rotate"
        /\ (\E p : Goto(r, p)) \/ \E n, p : req' = [req EXCEPT ![r].made = n, ![r].at = p]
    <3>1. Uncount(r) => req[r].op # "rotate"
      BY <1>0 DEF Uncount, Shape
    <3> QED  BY <1>8, <3>1 DEF Undo, Remove, Count, Uncount, UncountFails, At, store
  <2>2. req'[r].op = req[r].op
    BY <1>0, <2>1 DEF Goto, Request
  <2> QED  BY <1>1, <2>1, <2>2
<1>9. CASE UndoFails(r) \/ WriteUnacknowledged(r)
  BY <1>9 DEF UndoFails, WriteUnacknowledged
<1>10. CASE DeleteRow(r) \/ DeleteRowFails(r)
  <2>1. req[r].at \in Forgetting /\ zone' = zone
    BY <1>10 DEF DeleteRow, DeleteRowFails, Forgetting, store
  <2> QED  BY <1>2, <2>1, ForgettingFacts
<1>11. CASE ForgetConfig(r) \/ Removed(r)
  <2>1. /\ zone' \subseteq zone /\ token' = token /\ req[r].op # "rotate" /\ (Leave(r) \/ \E p : Goto(r, p))
    BY <1>11 DEF ForgetConfig, Removed, At
  <2> QED  BY <1>1, <1>3, <1>4, <2>1
<1>12. CASE Abort(r)
  <2>1. /\ zone' = zone /\ token' = token /\ Leave(r) /\ (req[r].op # "rotate" \/ req[r].at = "dmarc")
    BY <1>12 DEF Abort, store
  <2> QED  BY <1>1, <1>4, <2>1
<1>13. CASE Rotate(r)
  BY <1>13, RetargetAddressed, AcceptRotatedAddressed DEF Rotate
<1> QED  BY <1>5, <1>6, <1>7, <1>8, <1>9, <1>10, <1>11, <1>12, <1>13 DEF Works, Enable, Disable

\* A step leaves the addresses of a domain that is still in order accepted.
LEMMA AddressedStep ==
    ASSUME Core, [Next]_vars, NEW d \in Domains, Sound(d), Addressed(d), d \notin leaked' \cup crossed' \cup torn'
    PROVE  Addressed(d)'
<1>1. ASSUME NEW r \in Requests, NEW e \in Domains,
             \/ \E m \in BOOLEAN : StartEnable(r, e, m)
             \/ StartRotate(r, e)
             \/ \E op \in {"disable", "trim"} : StartRemoval(r, e, op)
      PROVE  Addressed(d)'
  <2>1. CASE d = e
    BY <1>1, <2>1, StartsSound
  <2>2. CASE d # e
    BY <1>1, <2>2, StartElsewhere
  <2> QED  BY <2>1, <2>2
<1>2. ASSUME NEW r \in Requests, Enable(r) \/ Rotate(r) \/ Disable(r) \/ Uncount(r) \/ DeleteRow(r) \/ Abort(r)
      PROVE  Addressed(d)'
  <2>1. Works(r)
    BY <1>2 DEF Works
  <2>2. CASE d = Domain(r)
    BY <2>1, <2>2, WorksAddressed
  <2>3. CASE d # Domain(r)
    BY <2>1, <2>3, Apart
  <2> QED  BY <2>2, <2>3
<1>3. ASSUME NEW e \in Domains, GraceEnds(e)  PROVE Addressed(d)'
  BY <1>3, GraceKeeps, AsideSound
<1>4. CASE ListZone \/ Observe \/ UNCHANGED vars
  <2>1. UNCHANGED <<zone, row, mtaSts, req, token>>
    BY <1>4 DEF ListZone, Observe, vars, store
  <2> QED  BY <2>1, AsideSound
<1> QED  BY <1>1, <1>2, <1>3, <1>4 DEF Next

LEMMA AllAddressedStep == Core /\ AllSound /\ AllAddressed /\ [Next]_vars => AllAddressed'
<1> SUFFICES ASSUME Core, AllSound, AllAddressed, [Next]_vars, NEW d \in (Orderly \ torn)'
             PROVE  Addressed(d)'
  BY DEF AllAddressed
<1>1. d \in Domains /\ d \notin leaked' \cup crossed' \cup torn' /\ d \in Orderly \ torn
  BY Marked DEF Orderly
<1>2. Sound(d) /\ Addressed(d)
  BY <1>1 DEF AllSound, AllAddressed
<1> QED  BY <1>1, <1>2, AddressedStep

\* service.ts:224, "Publish the new address first, then accept it": once no request works
\* on a domain, the address in each of its records is the one that is accepted, unless a
\* rotation stopped half way, a step of the cleanup failed or requests crossed.
THEOREM PublishedThenAccepted == Spec => []PublishedIsAccepted
<1>1. AllAddressed => PublishedIsAccepted
  BY DEF AllAddressed, Orderly, Addressed, PublishedIsAccepted, PublishedAccepted
<1>2. Init => Core /\ Named /\ AllSound /\ AllAddressed
  BY CoreInit, SoundInit
<1>3. Core /\ Named /\ AllSound /\ AllAddressed /\ [Next]_vars => Core' /\ Named' /\ AllSound' /\ AllAddressed'
  BY CoreStep, NamedStep, AllSoundStep, AllAddressedStep
<1> QED  BY <1>1, <1>2, <1>3, PTL DEF Spec

-----------------------------------------------------------------------------
(* The count                                                               *)

\* An enabling between a call that made a record and its count.
Pending(r) == At(r, {"enable"}, "count")
Latest(r) == Plan(r)[req[r].made]

\* The id of an enabling is in no row yet, nor in the hands of another request: only
\* the enabling itself touches its records.
Fresh ==
    \A r \in Requests : Enabling(r) =>
        /\ \A d \in Domains, k \in Kinds : row[d].ids[k] # req[r].new
        /\ \A s \in Requests, k \in Kinds : req[s].row.ids[k] # req[r].new

\* A record that is still to be counted is there.
Present ==
    \A r \in Requests : Pending(r) => \E x \in zone : x.id = req[r].new /\ x.kind = Latest(r)

LEMMA OldIds ==
    ASSUME Core
    PROVE  /\ \A d \in Domains, k \in Kinds : row[d].ids[k] <= issued
           /\ \A s \in Requests, k \in Kinds : req[s].row.ids[k] <= issued
           /\ \A s \in Requests : Enabling(s) => req[s].new # 0 /\ req[s].new \in Ids
           /\ issued \in Nat
<1>0. issued \in Nat /\ Ids \subseteq Nat
  BY Bounds DEF Core, TypeOK
<1>1. ASSUME NEW d \in Domains, NEW k \in Kinds  PROVE row[d].ids[k] <= issued
  <2>1. row[d].ids[k] \in Ids
    BY DEF Core, TypeOK, Row
  <2>2. CASE row[d].ids[k] = 0
    BY <1>0, <2>2
  <2>3. CASE row[d].ids[k] # 0
    <3>1. InUse(row[d].ids[k], d)
      BY DEF InUse
    <3> QED  BY <2>1, <2>3, <3>1 DEF Core, OneDomain
  <2> QED  BY <2>2, <2>3
<1>2. ASSUME NEW s \in Requests, NEW k \in Kinds  PROVE req[s].row.ids[k] <= issued
  <2>1. req[s].row.ids[k] \in Ids /\ Domain(s) \in Domains
    BY Moves DEF Row
  <2>2. CASE req[s].row.ids[k] = 0
    BY <1>0, <2>2
  <2>3. CASE req[s].row.ids[k] # 0
    <3>1. InUse(req[s].row.ids[k], Domain(s))
      BY DEF InUse, InRequest
    <3> QED  BY <2>1, <2>3, <3>1 DEF Core, OneDomain
  <2> QED  BY <2>2, <2>3
<1>3. \A s \in Requests : Enabling(s) => req[s].new # 0 /\ req[s].new \in Ids
  BY <1>0, Moves DEF Core, Shapes, Shape, Enabling
<1> QED  BY <1>0, <1>1, <1>2, <1>3

\* What a step of a request does to the ids in the rows.
LEMMA RowIds ==
    ASSUME Core, NEW r \in Requests, Works(r), NEW d \in Domains, NEW k \in Kinds
    PROVE  row'[d].ids[k] \in {0, row[d].ids[k]} \/ (Finish(r) /\ row'[d].ids[k] = req[r].new)
<1>0. row \in [Domains -> Row] /\ Domain(r) \in Domains
  BY Moves DEF Core, TypeOK
<1>1. CASE row' = row
  BY <1>1
<1>2. CASE Insert(r)
  <2>1. \A j \in Kinds : [NoRow EXCEPT !.hid = req[r].new].ids[j] = 0
    BY DEF NoRow
  <2> QED  BY <1>0, <1>2, <2>1 DEF Insert
<1>3. CASE Finish(r)
  <2> DEFINE ids == [j \in Kinds |-> IF j \in MtaKinds /\ ~req[r].mta THEN 0 ELSE req[r].new]
  <2>1. row' = row \/ row' = [row EXCEPT ![Domain(r)] = [row[Domain(r)] EXCEPT !.ids = ids]]
    BY <1>0, <1>3 DEF Finish
  <2>2. \A j \in Kinds : ids[j] \in {0, req[r].new}
    OBVIOUS
  <2> HIDE DEF ids
  <2>3. [row[Domain(r)] EXCEPT !.ids = ids].ids = ids
    BY <1>0 DEF Row
  <2> QED  BY <1>0, <1>3, <2>1, <2>2, <2>3
<1>4. CASE Removed(r)
  <2> DEFINE old == row[Domain(r)].ids
             ids == [j \in Kinds |-> IF j \in MtaKinds THEN 0 ELSE old[j]]
  <2>1. row' = row \/ row' = [row EXCEPT ![Domain(r)] = [row[Domain(r)] EXCEPT !.ids = ids]]
    BY <1>0, <1>4 DEF Removed
  <2>2. \A j \in Kinds : ids[j] \in {0, old[j]}
    OBVIOUS
  <2> HIDE DEF ids
  <2>3. [row[Domain(r)] EXCEPT !.ids = ids].ids = ids
    BY <1>0 DEF Row
  <2> QED  BY <1>0, <2>1, <2>2, <2>3
<1>5. CASE DeleteRow(r)
  BY <1>0, <1>5, NoRowFacts DEF DeleteRow
<1>6. Enable(r) => Insert(r) \/ Finish(r) \/ row' = row
  BY DEF Enable, AcceptToken, Write, Count, WriteUnacknowledged, InsertConfig, EnableFails, Undo, UndoFails,
     UncountFails, DeleteRowFails, history, store
<1>7. Rotate(r) \/ Disable(r) \/ Uncount(r) \/ Abort(r) => Removed(r) \/ row' = row
  BY DEF Rotate, Retarget, AcceptRotated, Disable, Remove, ForgetConfig, Uncount, Abort, history, store
<1> QED  BY <1>1, <1>2, <1>3, <1>4, <1>5, <1>6, <1>7 DEF Works

LEMMA FreshStep == Core /\ Fresh /\ [Next]_vars => Fresh'
<1> SUFFICES ASSUME Core, Fresh, [Next]_vars PROVE Fresh'
  OBVIOUS
<1>0. req \in [Requests -> Request]
  BY DEF Core, TypeOK
<1>1. ASSUME NEW r \in Requests, Works(r)  PROVE Fresh'
  <2> SUFFICES ASSUME NEW s \in Requests, Enabling(s)'
               PROVE  /\ \A d \in Domains, k \in Kinds : row'[d].ids[k] # req'[s].new
                      /\ \A u \in Requests, k \in Kinds : req'[u].row.ids[k] # req'[s].new
    BY DEF Fresh
  <2>1. /\ Others(r)
        /\ req'[r] = Idle \/ (/\ req'[r].op = req[r].op /\ req'[r].new = req[r].new /\ req'[r].row = req[r].row)
    BY <1>1, WorkFacts
  <2>2. Enabling(s) /\ req'[s].new = req[s].new /\ req[s].new # 0
    <3>1. Idle.op = "none"
      BY DEF Idle
    <3>2. Enabling(s) /\ req'[s].new = req[s].new
      BY <2>1, <3>1 DEF Others, Enabling
    <3> QED  BY <3>2, OldIds
  <2>3. ASSUME NEW d \in Domains, NEW k \in Kinds  PROVE row'[d].ids[k] # req'[s].new
    <3>1. CASE Finish(r) /\ row'[d].ids[k] = req[r].new
      <4>1. Enabling(r) /\ Leave(r)
        BY <3>1 DEF Finish, At, Enabling
      <4>2. s # r
        <5>1. req'[r] = Idle /\ Idle.op = "none"
          BY <4>1, LeaveSame DEF Idle
        <5> QED  BY <5>1 DEF Enabling
      <4> QED  BY <2>2, <3>1, <4>1, <4>2 DEF Core, Distinct
    <3>2. CASE row'[d].ids[k] \in {0, row[d].ids[k]}
      BY <2>2, <3>2 DEF Fresh
    <3> QED  BY <1>1, <3>1, <3>2, RowIds
  <2>4. ASSUME NEW u \in Requests, NEW k \in Kinds  PROVE req'[u].row.ids[k] # req'[s].new
    <3>1. Idle.row.ids[k] = 0
      BY NoRowFacts DEF Idle
    <3>2. req'[u] = Idle \/ req'[u].row = req[u].row
      BY <2>1 DEF Others
    <3> QED  BY <2>2, <3>1, <3>2 DEF Fresh
  <2> QED  BY <2>3, <2>4
<1>2. ASSUME NEW r \in Requests, NEW d \in Domains, NEW m \in BOOLEAN, StartEnable(r, d, m)  PROVE Fresh'
  <2>1. Others(r) /\ row' = row /\ req'[r].new = issued + 1 /\ req'[r].row = NoRow /\ req'[r].op = "enable"
    BY <1>0, <1>2 DEF StartEnable, Others, store
  <2> SUFFICES ASSUME NEW s \in Requests, Enabling(s)'
               PROVE  /\ \A e \in Domains, k \in Kinds : row[e].ids[k] # req'[s].new
                      /\ \A u \in Requests, k \in Kinds : req'[u].row.ids[k] # req'[s].new
    BY <2>1 DEF Fresh
  <2>2. req'[s].new # 0 /\ \A u \in Requests, k \in Kinds : req'[u].row.ids[k] \in {0, req[u].row.ids[k]}
    <3>1. s # r => Enabling(s) /\ req'[s].new = req[s].new
      BY <2>1 DEF Others, Enabling
    <3> QED  BY <2>1, <3>1, OldIds, NoRowFacts DEF Others
  <2>3. CASE s = r
    <3>1. req'[s].new = issued + 1 /\ issued \in Nat
      BY <2>1, <2>3, OldIds
    <3>2. \A i : i <= issued => i # issued + 1
      BY <3>1
    <3> QED  BY <2>2, <3>1, <3>2, OldIds
  <2>4. CASE s # r
    <3>1. Enabling(s) /\ req'[s].new = req[s].new
      BY <2>1, <2>4 DEF Others, Enabling
    <3> QED  BY <2>2, <3>1 DEF Fresh
  <2> QED  BY <2>3, <2>4
<1>3. ASSUME NEW r \in Requests, NEW d \in Domains,
             StartRotate(r, d) \/ \E op \in {"disable", "trim"} : StartRemoval(r, d, op)
      PROVE  Fresh'
  <2>1. Others(r) /\ row' = row /\ req'[r].row = row[d] /\ req'[r].op # "enable"
    <3>1. CASE StartRotate(r, d)
      BY <1>0, <3>1 DEF StartRotate, Others, store, Idle
    <3>2. ASSUME NEW op \in {"disable", "trim"}, StartRemoval(r, d, op)
          PROVE  Others(r) /\ row' = row /\ req'[r].row = row[d] /\ req'[r].op = op
      BY <1>0, <3>2 DEF StartRemoval, Others, store, Idle
    <3> QED  BY <1>3, <3>1, <3>2
  <2> QED  BY <2>1 DEF Fresh, Others, Enabling
<1>4. CASE UNCHANGED <<req, row>>
  BY <1>4 DEF Fresh, Enabling
<1>5. \/ \E r \in Requests : Works(r)
      \/ \E r \in Requests, d \in Domains :
            \/ \E m \in BOOLEAN : StartEnable(r, d, m)
            \/ StartRotate(r, d) \/ \E op \in {"disable", "trim"} : StartRemoval(r, d, op)
      \/ UNCHANGED <<req, row>>
  BY DEF Next, Works, GraceEnds, ListZone, Observe, vars, store
<1> QED  BY <1>1, <1>2, <1>3, <1>4, <1>5

-----------------------------------------------------------------------------
(* What the records to count and to count off are after a step             *)

LEMMA ToCountIs ==
    \A x : x \in ToCount <=> x \in zone /\ \E r \in Requests : Pending(r) /\ x.id = req[r].new /\ x.kind = Latest(r)
BY DEF ToCount, Found, Pending, Latest

LEMMA ToCountIsThen ==
    \A x : x \in ToCount' <=> x \in zone' /\ \E r \in Requests : Pending(r)' /\ x.id = req'[r].new /\ x.kind = Latest(r)'
BY DEF ToCount, Found, Pending, Latest

LEMMA CountedSets ==
    ASSUME Core
    PROVE  /\ IsFiniteSet(zone \ ToCount) /\ Cardinality(zone \ ToCount) \in Nat
           /\ IsFiniteSet(ToUncount) /\ Cardinality(ToUncount) \in Nat
           /\ count \in Nat /\ drifted \in BOOLEAN
<1>1. zone \ ToCount \subseteq zone /\ ToUncount \subseteq Requests
  BY DEF ToUncount
<1>2. IsFiniteSet(zone \ ToCount) /\ IsFiniteSet(ToUncount)
  BY <1>1, FS_Subset, BoundsAssumption DEF Core
<1> QED  BY <1>2, FS_CardinalityType DEF Core, TypeOK

\* The other requests wait for what they waited for.
LEMMA OthersPending ==
    ASSUME NEW r \in Requests, Others(r)
    PROVE  \A s \in Requests \ {r} :
               /\ Pending(s)' <=> Pending(s)
               /\ Latest(s)' = Latest(s) /\ req'[s].new = req[s].new
               /\ s \in ToUncount' <=> s \in ToUncount
BY DEF Others, Pending, Latest, At, Plan, ToUncount

Settled(r) == req[r].at \notin {"count", "uncount"}

\* A step of a request that is between no call and its count changes nothing that is counted.
LEMMA Calm ==
    ASSUME Core, Present, CountExact, NEW r \in Requests, Others(r), Settled(r), Settled(r)',
           zone' = zone, count' = count, drifted' = drifted
    PROVE  Present' /\ CountExact'
<1>1. ~Pending(r) /\ ~Pending(r)' /\ r \notin ToUncount /\ r \notin ToUncount'
  BY DEF Pending, At, ToUncount, Settled
<1>2. ToCount' = ToCount
  BY <1>1, OthersPending, ToCountIs, ToCountIsThen
<1>3. ToUncount' = ToUncount
  BY <1>1, OthersPending DEF ToUncount
<1>4. Present'
  BY <1>1, OthersPending DEF Present
<1> QED  BY <1>2, <1>3, <1>4 DEF CountExact

\* A step that leaves the count in doubt.
LEMMA InDoubt ==
    ASSUME Present, NEW r \in Requests, Others(r), req'[r].at # "count", zone \subseteq zone', drifted' = TRUE
    PROVE  Present' /\ CountExact'
<1>1. ~Pending(r)'
  BY DEF Pending, At
<1>2. Present'
  BY <1>1, OthersPending DEF Present
<1> QED  BY <1>2 DEF CountExact

LEMMA WriteCounts ==
    ASSUME Core, Present, CountExact, NEW r \in Requests, Write(r)
    PROVE  Present' /\ CountExact'
<1> DEFINE x == NewRecord(r)
<1>0. /\ zone' = zone \cup {x} /\ Others(r) /\ Becomes(r, req[r].made + 1, "count")
      /\ At(r, {"enable"}, "write") /\ Enabling(r) /\ count' = count /\ drifted' = drifted
  BY WriteSteps DEF Write, At, Enabling, history
<1>1. x \notin zone /\ x.id = req[r].new /\ x.kind = Plan(r)[req[r].made + 1]
  BY <1>0, NewRecordFacts DEF NewRecord
<1>2. Pending(r)' /\ Latest(r)' = x.kind /\ req'[r].new = x.id /\ ~Pending(r) /\ r \notin ToUncount /\ r \notin ToUncount'
  BY <1>0, <1>1 DEF Pending, At, Latest, Becomes, Plan, ToUncount
<1> HIDE DEF x
<1>3. \A s \in Requests \ {r} : Pending(s) => req[s].new # x.id
  BY <1>0, <1>1 DEF Pending, At, Enabling, Core, Distinct
<1>4. \A y \in zone : y.id = x.id => y.kind # x.kind
  BY <1>0, NewRecordFacts DEF x
<1>5. zone' \ ToCount' = zone \ ToCount
  <2>1. x \in ToCount'
    BY <1>0, <1>2, ToCountIsThen
  <2>2. ASSUME NEW y \in zone  PROVE y \in ToCount' <=> y \in ToCount
    BY <1>0, <1>2, <1>3, <1>4, OthersPending, ToCountIs, ToCountIsThen
  <2> QED  BY <1>0, <2>1, <2>2
<1>6. ToUncount' = ToUncount
  BY <1>0, <1>2, OthersPending DEF ToUncount
<1>7. Present'
  BY <1>0, <1>2, OthersPending DEF Present
<1> QED  BY <1>0, <1>5, <1>6, <1>7 DEF CountExact

LEMMA CountCounts ==
    ASSUME Core, Core', Present, CountExact, NEW r \in Requests, Count(r)
    PROVE  Present' /\ CountExact'
<1>0. /\ zone' = zone /\ count' = count + 1 /\ drifted' = drifted /\ Enabling(r)
      /\ Others(r) /\ req'[r].at \notin {"count", "uncount"} /\ Pending(r) /\ r \notin ToUncount
  <2>1. Others(r) /\ req'[r].at = AfterCount(r)
    BY CountGoes, GotoSame
  <2> QED  BY <2>1, CountGoes DEF Pending, At, Enabling, history, ToUncount
<1>1. ~Pending(r)' /\ r \notin ToUncount'
  BY <1>0 DEF Pending, At, ToUncount
<1>2. PICK x \in zone : x.id = req[r].new /\ x.kind = Latest(r)
  BY <1>0 DEF Present
<1>3. \A s \in Requests \ {r} : Pending(s) => req[s].new # x.id
  BY <1>0, <1>2 DEF Pending, At, Enabling, Core, Distinct
<1>4. x \in ToCount /\ x \notin ToCount' /\ \A y \in zone \ {x} : y \in ToCount' <=> y \in ToCount
  <2>1. x \in ToCount
    BY <1>0, <1>2, ToCountIs
  <2>2. x \notin ToCount'
    BY <1>0, <1>1, <1>3, OthersPending, ToCountIsThen
  <2>3. ASSUME NEW y \in zone \ {x}  PROVE y \in ToCount' <=> y \in ToCount
    <3>1. ~(y.id = req[r].new /\ y.kind = Latest(r))
      BY <1>2 DEF Core, Unique
    <3> QED  BY <1>0, <1>1, <3>1, OthersPending, ToCountIs, ToCountIsThen
  <2> QED  BY <2>1, <2>2, <2>3
<1>5. zone' \ ToCount' = (zone \ ToCount) \cup {x}
  BY <1>0, <1>4
<1>6. Cardinality(zone' \ ToCount') = Cardinality(zone \ ToCount) + 1
  <2>1. x \notin zone \ ToCount
    BY <1>4
  <2> QED  BY <1>5, <2>1, CountedSets, FS_AddElement
<1>7. ToUncount' = ToUncount
  BY <1>0, <1>1, OthersPending DEF ToUncount
<1>8. Present'
  BY <1>0, <1>1, OthersPending DEF Present
<1> QED  BY <1>0, <1>6, <1>7, <1>8, CountedSets DEF CountExact

\* A counted record goes, and is to be counted off.
LEMMA RemovalCounts ==
    ASSUME Core, Present, CountExact, NEW r \in Requests, Others(r), Settled(r), req'[r].at = "uncount",
           NEW x \in zone, zone' = zone \ {x}, count' = count, drifted' = drifted,
           \A s \in Requests : Pending(s) => req[s].new # x.id
    PROVE  Present' /\ CountExact'
<1>1. ~Pending(r) /\ ~Pending(r)' /\ r \notin ToUncount /\ r \in ToUncount'
  BY DEF Pending, At, ToUncount, Settled
<1>2. x \notin ToCount /\ \A y \in zone' : y \in ToCount' <=> y \in ToCount
  BY <1>1, OthersPending, ToCountIs, ToCountIsThen
<1>3. zone' \ ToCount' = (zone \ ToCount) \ {x} /\ x \in zone \ ToCount
  BY <1>2
<1>4. Cardinality(zone' \ ToCount') = Cardinality(zone \ ToCount) - 1
  BY <1>3, CountedSets, FS_RemoveElement
<1>5. ToUncount' = ToUncount \cup {r}
  BY <1>1, OthersPending DEF ToUncount
<1>6. Cardinality(ToUncount') = Cardinality(ToUncount) + 1
  BY <1>1, <1>5, CountedSets, FS_AddElement
<1>7. Present'
  <2> SUFFICES ASSUME NEW s \in Requests, Pending(s)'
               PROVE  \E y \in zone' : y.id = req'[s].new /\ y.kind = Latest(s)'
    BY DEF Present
  <2>1. s # r /\ Pending(s) /\ Latest(s)' = Latest(s) /\ req'[s].new = req[s].new
    BY <1>1, OthersPending
  <2> QED  BY <2>1 DEF Present
<1> QED  BY <1>4, <1>6, <1>7, CountedSets DEF CountExact

LEMMA UncountCounts ==
    ASSUME Core, Core', Present, CountExact, NEW r \in Requests, Uncount(r)
    PROVE  Present' /\ CountExact'
<1>0. /\ zone' = zone /\ count' = AtLeast0(count - 1) /\ drifted' = drifted
      /\ Others(r) /\ req'[r].at \notin {"count", "uncount"} /\ req[r].at = "uncount"
  <2>1. Others(r) /\ req'[r].at = AfterUncount(r)
    BY UncountGoes, GotoSame
  <2> QED  BY <2>1 DEF Uncount, AfterUncount, history
<1>1. ~Pending(r) /\ ~Pending(r)' /\ r \in ToUncount /\ r \notin ToUncount'
  BY <1>0 DEF Pending, At, ToUncount
<1>2. ToCount' = ToCount
  <2>1. zone' = zone /\ Others(r)
    BY <1>0
  <2>2. ~Pending(r) /\ ~Pending(r)'
    BY <1>1
  <2>3. \A s \in Requests : /\ Pending(s)' <=> Pending(s)
                            /\ Pending(s) => Latest(s)' = Latest(s) /\ req'[s].new = req[s].new
    BY <2>1, <2>2, OthersPending
  <2> QED  BY <2>1, <2>3, ToCountIs, ToCountIsThen
<1>3. ToUncount' = ToUncount \ {r}
  BY <1>0, <1>1, OthersPending DEF ToUncount
<1>4. Cardinality(ToUncount') = Cardinality(ToUncount) - 1 /\ Cardinality(ToUncount') \in Nat
  <2>1. IsFiniteSet(ToUncount') /\ Cardinality(ToUncount') = Cardinality(ToUncount) - 1
    BY <1>1, <1>3, CountedSets, FS_RemoveElement
  <2> QED  BY <2>1, FS_CardinalityType
<1>5. Present'
  BY <1>0, <1>1, OthersPending DEF Present
<1> QED  BY <1>0, <1>2, <1>4, <1>5, CountedSets DEF CountExact, AtLeast0

LEMMA RetargetCounts ==
    ASSUME Core, Fresh, Present, CountExact, NEW r \in Requests, NEW k \in Carriers, NEW next \in {"tls", "accept"},
           Retarget(r, k, next)
    PROVE  Present' /\ CountExact'
<1>0. /\ Goto(r, next) /\ Fits(r, next) /\ count' = count /\ drifted' = drifted /\ req[r].at = k
  BY DEF Retarget, At, Fits, Enabling, history
<1>1. PICK x \in zone, y \in Record :
          /\ x.id = req[r].row.ids[k] /\ y.id = x.id /\ y.kind = x.kind
          /\ zone' = (zone \ {x}) \cup {y}
  BY Retargeted
<1>2. Others(r) /\ req'[r].at = next
  BY <1>0, GotoSame
<1>3. ~Pending(r) /\ ~Pending(r)' /\ r \notin ToUncount /\ r \notin ToUncount'
  BY <1>0, <1>2 DEF Pending, At, ToUncount, Carriers
<1>4. \A s \in Requests : Pending(s) => req[s].new # x.id
  BY <1>1 DEF Pending, At, Enabling, Fresh, Carriers, Kinds
<1>5. x \notin ToCount /\ y \notin ToCount' /\ y \notin zone \ {x} /\ \A z \in zone \ {x} : z \in ToCount' <=> z \in ToCount
  <2>1. x \notin ToCount /\ y \notin ToCount'
    BY <1>1, <1>2, <1>3, <1>4, OthersPending, ToCountIs, ToCountIsThen
  <2>2. y \notin zone \ {x}
    BY <1>1 DEF Core, Unique
  <2>3. \A z \in zone \ {x} : z \in ToCount' <=> z \in ToCount
    BY <1>1, <1>2, <1>3, OthersPending, ToCountIs, ToCountIsThen
  <2> QED  BY <2>1, <2>2, <2>3
<1>6. zone' \ ToCount' = ((zone \ ToCount) \ {x}) \cup {y} /\ x \in zone \ ToCount
  BY <1>1, <1>5
<1>7. Cardinality(zone' \ ToCount') = Cardinality(zone \ ToCount)
  <2>1. IsFiniteSet((zone \ ToCount) \ {x}) /\ Cardinality((zone \ ToCount) \ {x}) = Cardinality(zone \ ToCount) - 1
    BY <1>6, CountedSets, FS_RemoveElement
  <2>2. y \notin (zone \ ToCount) \ {x}
    BY <1>5
  <2>3. Cardinality(((zone \ ToCount) \ {x}) \cup {y}) = Cardinality((zone \ ToCount) \ {x}) + 1
    BY <2>1, <2>2, FS_AddElement
  <2>4. Cardinality(zone' \ ToCount') = Cardinality(((zone \ ToCount) \ {x}) \cup {y})
    BY <1>6
  <2>5. Cardinality(zone \ ToCount) \in Nat
    BY CountedSets
  <2> QED  BY <2>1, <2>3, <2>4, <2>5
<1>8. ToUncount' = ToUncount
  BY <1>2, <1>3, OthersPending DEF ToUncount
<1>9. Present'
  <2> SUFFICES ASSUME NEW s \in Requests, Pending(s)'
               PROVE  \E z \in zone' : z.id = req'[s].new /\ z.kind = Latest(s)'
    BY DEF Present
  <2>1. s # r /\ Pending(s) /\ Latest(s)' = Latest(s) /\ req'[s].new = req[s].new
    BY <1>2, <1>3, OthersPending
  <2> QED  BY <1>1, <1>4, <2>1 DEF Present
<1> QED  BY <1>0, <1>7, <1>8, <1>9 DEF CountExact

LEMMA UndoCounts ==
    ASSUME Core, Present, CountExact, NEW r \in Requests, Undo(r)
    PROVE  Present' /\ CountExact'
<1>0. Enabling(r) /\ Settled(r) /\ ~Pending(r) /\ count' = count
  BY DEF Undo, At, Enabling, Settled, Pending
<1>1. CASE req[r].made = 0
  <2>1. Goto(r, "undoConfig") /\ Fits(r, "undoConfig") /\ zone' = zone /\ drifted' = drifted
    BY <1>0, <1>1 DEF Undo, Fits, Enabling
  <2>2. Others(r) /\ Settled(r)'
    BY <2>1, GotoSame DEF Settled
  <2> QED  BY <1>0, <2>1, <2>2, Calm
<1>2. CASE req[r].made # 0
  <2> DEFINE gone == Found(req[r].new, Plan(r)[req[r].made])
  <2>1. Others(r) /\ req'[r].at = "uncount" /\ zone' = zone \ gone /\ drifted' = (drifted \/ gone = {})
    BY <1>2, UndoSteps DEF Becomes
  <2>2. \A s \in Requests : Pending(s) => req[s].new # req[r].new
    BY <1>0 DEF Pending, At, Enabling, Core, Distinct
  <2>3. gone = {} \/ \E x \in zone : gone = {x} /\ x.id = req[r].new
    BY DEF Found, Core, Unique
  <2> HIDE DEF gone
  <2>4. CASE gone = {}
    <3>1. zone' = zone /\ drifted' = TRUE
      BY <2>1, <2>4
    <3> QED  BY <2>1, <3>1, InDoubt
  <2>5. CASE gone # {}
    <3>1. PICK x \in zone : gone = {x} /\ x.id = req[r].new
      BY <2>3, <2>5
    <3>2. drifted' = drifted
      BY <2>1, <2>5, CountedSets
    <3>3. zone' = zone \ {x}
      BY <2>1, <3>1
    <3> QED  BY <1>0, <2>1, <2>2, <3>1, <3>2, <3>3, RemovalCounts
  <2> QED  BY <2>4, <2>5
<1> QED  BY <1>1, <1>2

LEMMA RemoveCounts ==
    ASSUME Core, Fresh, Present, CountExact, NEW r \in Requests, Remove(r)
    PROVE  Present' /\ CountExact'
<1> DEFINE gone == Found(req[r].row.ids[Target(r)], Target(r))
<1>0. /\ Settled(r) /\ Others(r) /\ count' = count /\ drifted' = drifted
      /\ Becomes(r, req[r].made + 1, IF gone = {} THEN "remove" ELSE "uncount") /\ zone' = zone \ gone
  BY RemoveSteps DEF Settled, history
<1>1. Target(r) \in Kinds
  BY RemoveSteps, PlanFacts DEF Target
<1>2. \A s \in Requests : Pending(s) => req[s].new # req[r].row.ids[Target(r)]
  BY <1>1 DEF Pending, At, Enabling, Fresh
<1>3. gone = {} \/ \E x \in zone : gone = {x} /\ x.id = req[r].row.ids[Target(r)]
  BY DEF Found, Core, Unique
<1> HIDE DEF gone
<1>4. CASE gone = {}
  <2>1. zone' = zone /\ Settled(r)'
    BY <1>0, <1>4 DEF Becomes, Settled
  <2> QED  BY <1>0, <2>1, Calm
<1>5. CASE gone # {}
  <2>1. PICK x \in zone : gone = {x} /\ x.id = req[r].row.ids[Target(r)]
    BY <1>3, <1>5
  <2>2. req'[r].at = "uncount" /\ zone' = zone \ {x}
    BY <1>0, <1>5, <2>1 DEF Becomes
  <2> QED  BY <1>0, <1>2, <2>1, <2>2, RemovalCounts
<1> QED  BY <1>4, <1>5

\* The daily count.
LEMMA ObserveCounts ==
    ASSUME Core, Present, Observe
    PROVE  Present' /\ CountExact'
<1>1. Present'
  BY DEF Observe, Present, Pending, Latest, At, Plan
<1>2. CASE drifted'
  BY <1>1, <1>2 DEF CountExact
<1>3. CASE ~drifted'
  <2>1. cron.seen = Cardinality(zone) /\ Counting = {} /\ count' = cron.seen /\ zone' = zone /\ req' = req
    BY <1>3 DEF Observe
  <2>2. ToUncount' = {} /\ ToCount' = {}
    BY <2>1, ToCountIsThen DEF Counting, ToUncount, Pending, At
  <2>3. zone' \ ToCount' = zone /\ Cardinality(ToUncount') = 0 /\ Cardinality(zone) \in Nat
    BY <2>1, <2>2, FS_EmptySet, Counts
  <2> QED  BY <1>1, <2>1, <2>3 DEF CountExact
<1> QED  BY <1>2, <1>3

LEMMA CountStep == Core /\ Core' /\ Fresh /\ Present /\ CountExact /\ [Next]_vars => Present' /\ CountExact'
<1> SUFFICES ASSUME Core, Core', Fresh, Present, CountExact, [Next]_vars PROVE Present' /\ CountExact'
  OBVIOUS
<1>0. req \in [Requests -> Request]
  BY DEF Core, TypeOK
<1>1. ASSUME NEW r \in Requests, NEW d \in Domains,
             \/ \E m \in BOOLEAN : StartEnable(r, d, m)
             \/ StartRotate(r, d)
             \/ \E op \in {"disable", "trim"} : StartRemoval(r, d, op)
      PROVE  Present' /\ CountExact'
  <2>1. Others(r) /\ zone' = zone /\ count' = count /\ drifted' = drifted
    BY <1>0, <1>1 DEF StartEnable, StartRotate, StartRemoval, Others, store
  <2>2. Settled(r) /\ Settled(r)'
    <3>1. CASE \E m \in BOOLEAN : StartEnable(r, d, m)
      BY <1>0, <3>1 DEF StartEnable, Settled
    <3>2. CASE StartRotate(r, d)
      BY <1>0, <3>2 DEF StartRotate, Settled, Idle
    <3>3. CASE \E op \in {"disable", "trim"} : StartRemoval(r, d, op)
      BY <1>0, <3>3 DEF StartRemoval, Settled, Idle
    <3> QED  BY <1>1, <3>1, <3>2, <3>3
  <2> QED  BY <2>1, <2>2, Calm
<1>g. ASSUME NEW r \in Requests, NEW p \in Places \ {"count", "uncount"}, Goto(r, p) \/ Leave(r), Settled(r),
             zone' = zone, count' = count, drifted' = drifted
      PROVE  Present' /\ CountExact'
  <2>1. Others(r) /\ Settled(r)'
    <3>1. CASE Goto(r, p)
      <4>1. Others(r) /\ req'[r] = [req[r] EXCEPT !.at = p] /\ req[r] \in Request
        BY <3>1, Moves
      <4> QED  BY <4>1 DEF Settled, Request
    <3>2. CASE Leave(r)
      <4>1. Others(r) /\ req'[r] = Idle /\ Idle.at = "idle"
        BY <3>2, LeaveSame DEF Idle
      <4> QED  BY <4>1 DEF Settled
    <3> QED  BY <1>g, <3>1, <3>2
  <2> QED  BY <1>g, <2>1, Calm
<1>d. ASSUME NEW r \in Requests, Works(r), req'[r].at # "count", zone \subseteq zone', drifted' = TRUE
      PROVE  Present' /\ CountExact'
  BY <1>d, WorkFacts, InDoubt
<1>2. ASSUME NEW r \in Requests, Insert(r) \/ AcceptToken(r) \/ InsertConfig(r) \/ Finish(r)
      PROVE  Present' /\ CountExact'
  <2>1. Settled(r) /\ zone' = zone /\ count' = count /\ drifted' = drifted
    BY <1>2 DEF Insert, AcceptToken, InsertConfig, Finish, At, Settled, history
  <2>2. \E p \in Places \ {"count", "uncount"} : Goto(r, p) \/ Leave(r)
    BY <1>2 DEF Insert, AcceptToken, InsertConfig, Finish, Places
  <2> QED  BY <1>g, <2>1, <2>2
<1>3. ASSUME NEW r \in Requests, EnableFails(r)  PROVE Present' /\ CountExact'
  <2>1. zone' = zone /\ count' = count /\ Goto(r, "undo") /\ "undo" \in Places \ {"count", "uncount"}
        /\ drifted' = (drifted \/ req[r].at = "count") /\ req[r].at # "uncount"
    BY <1>3 DEF EnableFails, Tried, Places, store
  <2>2. CASE req[r].at = "count"
    <3>1. req'[r].at = "undo" /\ Others(r)
      BY <1>0, <2>1, Moves DEF Request
    <3> QED  BY <2>1, <2>2, <3>1, InDoubt
  <2>3. CASE req[r].at # "count"
    <3>1. Settled(r) /\ drifted' = drifted
      BY <2>1, <2>3, CountedSets DEF Settled
    <3> QED  BY <1>g, <2>1, <3>1
  <2> QED  BY <2>2, <2>3
<1>4. ASSUME NEW r \in Requests, WriteUnacknowledged(r) \/ UncountFails(r)  PROVE Present' /\ CountExact'
  <2>1. Works(r) /\ drifted' = TRUE /\ zone \subseteq zone'
    BY <1>4 DEF WriteUnacknowledged, UncountFails, Works, Enable, store
  <2>2. req'[r].at # "count"
    <3>1. WriteUnacknowledged(r) => req'[r].at = "undo"
      BY <1>0 DEF WriteUnacknowledged, Goto, Request
    <3>2. UncountFails(r) => req'[r].at = AfterUncount(r) /\ AfterUncount(r) # "count"
      BY UncountGoes, GotoSame DEF AfterUncount
    <3> QED  BY <1>4, <3>1, <3>2
  <2> QED  BY <1>d, <2>1, <2>2
<1>5. ASSUME NEW r \in Requests, UndoFails(r)  PROVE Present' /\ CountExact'
  <2>1. Others(r) /\ Settled(r) /\ Settled(r)' /\ zone' = zone /\ count' = count /\ drifted' = drifted
    BY <1>0, <1>5 DEF UndoFails, At, Others, Settled, store, Request
  <2> QED  BY <2>1, Calm
<1>6. ASSUME NEW r \in Requests, DeleteRow(r) \/ DeleteRowFails(r)  PROVE Present' /\ CountExact'
  <2>1. req[r].at \in Forgetting /\ Proceed(r) /\ zone' = zone /\ count' = count /\ drifted' = drifted
    BY <1>6 DEF DeleteRow, DeleteRowFails, Forgetting, store, history
  <2>2. Settled(r) /\ \E p \in Places \ {"count", "uncount"} : Goto(r, p) \/ Leave(r)
    BY <2>1 DEF Forgetting, Proceed, AfterUndo, Settled, Places
  <2> QED  BY <1>g, <2>1, <2>2
<1>7. ASSUME NEW r \in Requests, AcceptRotated(r) \/ Removed(r) \/ ForgetConfig(r)  PROVE Present' /\ CountExact'
  <2>1. Settled(r) /\ zone' = zone /\ count' = count /\ drifted' = drifted
    BY <1>7 DEF AcceptRotated, Removed, ForgetConfig, At, Settled, history
  <2>2. \E p \in Places \ {"count", "uncount"} : Goto(r, p) \/ Leave(r)
    BY <1>7 DEF AcceptRotated, Removed, ForgetConfig, Places
  <2> QED  BY <1>g, <2>1, <2>2
<1>8. ASSUME NEW r \in Requests, Abort(r)  PROVE Present' /\ CountExact'
  <2>1. Leave(r) /\ zone' = zone /\ count' = count /\ drifted' = (drifted \/ req[r].at \in {"count", "uncount"})
    BY <1>8 DEF Abort, store
  <2>2. Others(r) /\ req'[r].at = "idle"
    <3>1. Others(r) /\ req'[r] = Idle
      BY <2>1, LeaveSame
    <3> QED  BY <3>1 DEF Idle
  <2>3. CASE req[r].at \in {"count", "uncount"}
    BY <2>1, <2>2, <2>3, InDoubt
  <2>4. CASE req[r].at \notin {"count", "uncount"}
    <3>1. Settled(r) /\ Settled(r)' /\ drifted' = drifted
      BY <2>1, <2>2, <2>4, CountedSets DEF Settled
    <3> QED  BY <2>1, <2>2, <3>1, Calm
  <2> QED  BY <2>3, <2>4
<1>9. CASE \E r \in Requests : Enable(r)
  BY <1>2, <1>3, <1>4, <1>5, <1>6, <1>9, WriteCounts, CountCounts, UndoCounts DEF Enable
<1>10. CASE \E r \in Requests : Rotate(r) \/ Disable(r) \/ Uncount(r) \/ DeleteRow(r) \/ Abort(r)
  <2>1. "dmarc" \in Carriers /\ "tls" \in Carriers
    BY DEF Carriers
  <2> QED  BY <1>6, <1>7, <1>8, <1>10, <2>1, RetargetCounts, RemoveCounts, UncountCounts DEF Rotate, Disable
<1>11. CASE Observe
  BY <1>11, ObserveCounts
<1>12. CASE (\E d \in Domains : GraceEnds(d)) \/ ListZone \/ UNCHANGED vars
  <2>1. UNCHANGED <<zone, req, count, drifted>>
    BY <1>12 DEF GraceEnds, ListZone, vars, store, history
  <2> QED  BY <2>1 DEF Present, CountExact, ToCount, ToUncount, Found, Pending, Latest, At, Plan
<1> QED  BY <1>1, <1>9, <1>10, <1>11, <1>12 DEF Next

\* zones.ts:4, "We track the count per zone": the count of the zone is the number of its
\* counted records, before, between and after each call and its count, whatever requests
\* interleave, are undone or tried again, until a count or an answer is lost or the daily count
\* writes over a count; and again from the next daily count that finds nothing under way.
THEOREM CountKept == Spec => []CountExact
<1>1. Init => Core /\ Fresh /\ Present /\ CountExact
  <2> SUFFICES ASSUME Init PROVE Core /\ Fresh /\ Present /\ CountExact
    OBVIOUS
  <2>1. \A r \in Requests : req[r].op = "none" /\ req[r].at = "idle"
    BY DEF Init, Idle
  <2>2. Fresh /\ Present
    BY <2>1 DEF Fresh, Present, Pending, Enabling, At
  <2>3. ToUncount = {} /\ zone \ ToCount = {}
    BY <2>1 DEF ToUncount, Init
  <2>4. CountExact
    BY <2>3, FS_EmptySet DEF Init, CountExact
  <2> QED  BY <2>2, <2>4, CoreInit
<1>2. Core /\ Fresh /\ Present /\ CountExact /\ [Next]_vars => (Core /\ Fresh /\ Present /\ CountExact)'
  BY CoreStep, FreshStep, CountStep
<1> QED  BY <1>1, <1>2, PTL DEF Spec

=============================================================================
